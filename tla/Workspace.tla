-------------------------------- MODULE Workspace --------------------------------
(***************************************************************************)
(* CargoMetadataWorkspace::load of semverguard-workspace/src/lib.rs: what  *)
(* it keeps of the answer of `cargo metadata`.                             *)
(***************************************************************************)
EXTENDS ChangeDetection

\* A package of cargo's answer, one of the workspace's own or a dependency:
\* where it is, what its manifest says of publishing, and the kinds that cargo
\* lists for each of its targets.
Listed(directory, member, publish, targets) ==
  [root |-> directory, member |-> member, publish |-> publish, targets |-> targets]

\* It is unset, a list of registries, or an empty list.
publishable(pkg) == pkg.publish # "nowhere"

\* A library whose manifest sets crate-type has the kinds of its crate types.
LibraryKinds == {"lib", "rlib", "dylib", "cdylib", "staticlib", "proc-macro"}

has_lib(pkg) == \E kinds \in pkg.targets : kinds \cap {"lib", "proc-macro"} # {}

\* The workspace's own packages, in cargo's order.
load(root, metadata) ==
  LET packages == SelectSeq(metadata, LAMBDA pkg : pkg.member)
  IN  [packages |-> packages,
       publishable |-> [p \in DOMAIN packages |-> publishable(packages[p])],
       has_lib |-> [p \in DOMAIN packages |-> has_lib(packages[p])],
       layout |-> LayoutOf(root, [p \in DOMAIN packages |-> packages[p].root])]

=============================================================================
