---------------------------- MODULE ChangeDetection ----------------------------
(***************************************************************************)
(* Which workspace packages a git diff touches: changed_packages and its   *)
(* helpers in semverguard-domain/src/runner.rs, fed by GitCli in           *)
(* semverguard-git/src/lib.rs.                                             *)
(*                                                                         *)
(* A path is the sequence of its components below the top of the git       *)
(* repository.  A layout says where the workspace root and the package     *)
(* directories are; a change is one entry of the commit range, with the    *)
(* path before it and the path after it.                                   *)
(***************************************************************************)
EXTENDS Ordering, Sequences, SequencesExt

CONSTANT
  NoPath            \* "there is no such file on this side of the change"

RootDir == "/"      \* the component an absolute path starts with
Manifest == "Cargo.toml"

\* git and cargo write a path out: no component stands for the directory itself,
\* and none for the root of the file system.
Path == Seq(STRING \ {".", RootDir})
Top == <<>>         \* the top of the repository

\* A layout: the directory of the workspace root and of every package.
LayoutOf(workspaceRoot, packageRoots) ==
  [workspace_root |-> workspaceRoot, package_root |-> packageRoots]

\* One changed file; versionLine says that a `version = "..."` line differs.
Change(old, new, versionLine) == [old |-> old, new |-> new, version |-> versionLine]

(***************************************************************************)
(* What git prints: paths relative to the top of the repository, whatever  *)
(* the directory git runs in, one per change.  A file that moved is        *)
(* printed under its new name only (rename detection is git's default).    *)
(***************************************************************************)
changed_paths(changes) ==
  { IF c.new # NoPath THEN c.new ELSE c.old : c \in changes }

(***************************************************************************)
(* runner.rs                                                               *)
(***************************************************************************)
normalize_rel(path) == At(path, { i \in DOMAIN path : path[i] \notin {".", RootDir} })

\* Mutant: the arguments of starts_with swapped.
is_under_Swapped(path, root) == IsPrefix(path, root)

is_under(path, root) == IsPrefix(root, path)

\* strip_prefix; the caller falls back to the absolute path.
path_relative_to(path, base) ==
  IF IsPrefix(base, path)
  THEN SubSeq(path, Len(base) + 1, Len(path))
  ELSE <<RootDir>> \o path

PackageRoot(layout, p) ==
  path_relative_to(layout.package_root[p], layout.workspace_root)

Owners(layout, path) ==
  { p \in DOMAIN layout.package_root :
      is_under(normalize_rel(path), PackageRoot(layout, p)) }

\* Mutant: a path outside all packages is dropped instead.
changed_packages_NoFallback(layout, paths) ==
  UNION { Owners(layout, path) : path \in paths }

\* A path that no package directory holds makes the loop give up: every
\* package counts as changed.
changed_packages(layout, paths) ==
  IF \E path \in paths : Owners(layout, path) = {}
  THEN DOMAIN layout.package_root
  ELSE UNION { Owners(layout, path) : path \in paths }

(***************************************************************************)
(* GitCli::has_manifest_version_change.  The names of changed_paths are    *)
(* handed back to git as pathspecs, which git resolves in the directory it *)
(* runs in: the workspace root.                                            *)
(***************************************************************************)
is_manifest_path(path) == path # <<>> /\ Last(path) = Manifest

has_manifest_version_change(layout, changes) ==
  \E name \in changed_paths(changes) :
    /\ is_manifest_path(name)
    /\ \E c \in changes :
         /\ c.version
         /\ is_under(IF c.new # NoPath THEN c.new ELSE c.old,
                     layout.workspace_root \o name)

=============================================================================
