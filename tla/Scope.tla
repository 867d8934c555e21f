---------------------------------- MODULE Scope ----------------------------------
(***************************************************************************)
(* changed_packages and has_manifest_version_change against what they are  *)
(* for.                                                                    *)
(*                                                                         *)
(* The state is one question, a workspace and a commit range of it, and    *)
(* after the only step the two answers, which the code works out apart.    *)
(***************************************************************************)
EXTENDS ChangeDetection

CONSTANT Questions      \* the questions that may be asked: see QuestionType

QuestionType(q) ==
  /\ q.layout.workspace_root \in Path
  /\ \A p \in DOMAIN q.layout.package_root : q.layout.package_root[p] \in Path
  /\ \A c \in q.changes : /\ {c.old, c.new} \subseteq Path \cup {NoPath}
                          /\ {c.old, c.new} # {NoPath}

ASSUME QuestionsAssumption == \A q \in Questions : QuestionType(q)

VARIABLES
  layout, changes,    \* the question
  marked,             \* changed_packages' answer
  bumped,             \* has_manifest_version_change's answer
  answered

svars == <<layout, changes, marked, bumped, answered>>

SInit ==
  /\ \E q \in Questions : layout = q.layout /\ changes = q.changes
  /\ marked = {} /\ bumped = FALSE /\ answered = FALSE

Ask ==
  /\ ~answered
  /\ marked' = changed_packages(layout, changed_paths(changes))
  /\ bumped' = has_manifest_version_change(layout, changes)
  /\ answered' = TRUE
  /\ UNCHANGED <<layout, changes>>

SSpec == SInit /\ [][Ask]_svars

(***************************************************************************)
(* What the two functions are for                                          *)
(***************************************************************************)
Packages == DOMAIN layout.package_root
Touched == ({ c.old : c \in changes } \cup { c.new : c \in changes }) \ {NoPath}
Holds(p, path) == IsPrefix(layout.package_root[p], path)
TouchedPackages == { p \in Packages : \E path \in Touched : Holds(p, path) }
Moved == \E c \in changes : c.old # NoPath /\ c.new # NoPath /\ c.old # c.new

\* In a workspace at the top of its repository, where no file moved, every
\* package with a changed file is checked, and all are when a changed file is
\* in no package: the scope may only err towards checking more.
NoChangedPackageMissed ==
  answered /\ layout.workspace_root = Top /\ ~Moved =>
    /\ TouchedPackages \subseteq marked
    /\ (\E path \in Touched : \A p \in Packages : ~Holds(p, path)) => marked = Packages

\* Nothing is marked without a cause: a package is checked because one of its
\* own files changed, or because some changed file is in no package.
NothingElseMarked ==
  answered /\ layout.workspace_root = Top =>
    \/ marked \subseteq TouchedPackages
    \/ \E path \in Touched : \A p \in Packages : ~Holds(p, path)

\* A version bump that lets the PR gate run the checks leaves something to
\* check, in a workspace that has a package: the gate and the scope read the
\* same git output separately.
BumpMarksSomePackage == answered /\ bumped /\ Packages # {} => marked # {}

\* ports.rs:15 of changed_paths: "Returned paths should be relative to
\* `workspace_root`"; then a changed package is marked wherever the workspace is.
MarkedInAnyDirectory == answered /\ ~Moved => TouchedPackages \subseteq marked

=============================================================================
