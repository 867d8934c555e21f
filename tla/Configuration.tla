------------------------------ MODULE Configuration ------------------------------
(***************************************************************************)
(* semverguard.toml: what load_config and validate_config of               *)
(* semverguard-core/src/config.rs make of it, and what                     *)
(* promote_git_baseline of promote.rs changes in it.                       *)
(***************************************************************************)
EXTENDS Integers, Sequences, FiniteSets

Unset == "unset"                              \* a key the file does not have
PathState == {Unset, "missing", "file", "directory"}
WaiverForm == [hex : BOOLEAN, reason : BOOLEAN, expired : BOOLEAN]

\* A parsed configuration, as far as validation tells configurations apart.
Cfg ==
  [kind : {"CratesIo", "Git"}, rev : BOOLEAN, version : BOOLEAN,
   mode : {"Workspace", "Changed"}, include : BOOLEAN, exclude : BOOLEAN,
   root : PathState, rustdoc : PathState, cargo_bin : PathState,
   all_features : BOOLEAN, only_explicit : BOOLEAN, features : BOOLEAN,
   waivers : SUBSET WaiverForm]

DefaultCfg ==
  [kind |-> "CratesIo", rev |-> FALSE, version |-> FALSE, mode |-> "Workspace",
   include |-> TRUE, exclude |-> TRUE, root |-> Unset, rustdoc |-> Unset,
   cargo_bin |-> Unset, all_features |-> FALSE, only_explicit |-> FALSE,
   features |-> FALSE, waivers |-> {}]

(***************************************************************************)
(* validate_config                                                         *)
(***************************************************************************)
ErrorKinds ==
  {"include", "exclude", "rev", "scope kind", "scope rev", "root", "rustdoc",
   "fingerprint", "reason"}

Errors(c) ==
  { e \in ErrorKinds :
      \/ e = "include" /\ ~c.include
      \/ e = "exclude" /\ ~c.exclude
      \/ e = "rev" /\ c.kind = "Git" /\ ~c.rev
      \/ e = "scope kind" /\ c.mode = "Changed" /\ c.kind # "Git"
      \/ e = "scope rev" /\ c.mode = "Changed" /\ ~c.rev
      \/ e = "root" /\ c.root \notin {Unset, "directory"}
      \/ e = "rustdoc" /\ c.rustdoc \notin {Unset, "file"}
      \/ e = "fingerprint" /\ \E w \in c.waivers : ~w.hex
      \/ e = "reason" /\ \E w \in c.waivers : ~w.reason }

WarningKinds ==
  {"version ignored", "rev ignored", "cargo_bin", "all_features", "no features", "expired"}

Warnings(c) ==
  { w \in WarningKinds :
      \/ w = "version ignored" /\ c.kind = "Git" /\ c.version
      \/ w = "rev ignored" /\ c.kind = "CratesIo" /\ c.rev
      \/ w = "cargo_bin" /\ c.cargo_bin = "missing"
      \/ w = "all_features" /\ c.all_features /\ c.only_explicit
      \/ w = "no features" /\ c.only_explicit /\ ~c.features
      \/ w = "expired" /\ \E e \in c.waivers : e.expired }

validate_config(c) == Errors(c) \cup Warnings(c)

(***************************************************************************)
(* The file.  Its `rest` stands for everything no command here reads: the  *)
(* other keys, comments and layout.                                        *)
(***************************************************************************)
\* baseline is absent, a table, or an inline table `baseline = { ... }`.
Doc(Rev, Rest) ==
  { d \in [baseline : {"absent", "table", "inline"}, kind : {Unset, "CratesIo", "Git"},
           rev : Rev \cup {Unset}, mode : {Unset, "Workspace", "Changed"}, rest : Rest] :
      d.baseline = "absent" => d.kind = Unset /\ d.rev = Unset }

EmptyDoc ==
  [baseline |-> "absent", kind |-> Unset, rev |-> Unset, mode |-> Unset, rest |-> 0]

Missing == [is |-> "missing", doc |-> EmptyDoc]
Broken == [is |-> "broken", doc |-> EmptyDoc]       \* does not parse
Holding(doc) == [is |-> "toml", doc |-> doc]
Empty == Holding(EmptyDoc)

\* Where it is not set, a key has its default; a missing file is not an error.
load_config(file) ==
  LET d == file.doc
  IN  [DefaultCfg EXCEPT !.kind = IF d.kind = Unset THEN @ ELSE d.kind,
                         !.rev = d.rev # Unset,
                         !.mode = IF d.mode = Unset THEN @ ELSE d.mode]

load_config_fails(file) == file.is = "broken"

config_explicitly_sets_scope_mode(file) == file.is = "toml" /\ file.doc.mode # Unset

\* `validate-config`: its exit code for a file that is there.
run_validate_config(parses, c) == IF parses /\ Errors(c) = {} THEN 0 ELSE 1

(***************************************************************************)
(* promote_git_baseline: the edit                                          *)
(***************************************************************************)
\* as_table_mut: an inline table is not one.
Promotable(file) == file.is = "toml" /\ file.doc.baseline # "inline"

\* Mutant: baseline is written anew, so a kind that was set is lost.
Promoted_NewTable(doc, rev) ==
  [doc EXCEPT !.baseline = "table", !.kind = Unset, !.rev = rev]

\* Mutant: the configuration is written out as it was loaded, defaults and all.
Promoted_Serialised(doc, rev) ==
  [doc EXCEPT !.baseline = "table", !.rev = rev,
              !.kind = IF @ = Unset THEN "Git" ELSE @,
              !.mode = IF @ = Unset THEN "Workspace" ELSE @]

Promoted(doc, rev) ==
  [doc EXCEPT !.baseline = "table", !.rev = rev,
              !.kind = IF @ = Unset THEN "Git" ELSE @]

=============================================================================
