-------------------------------- MODULE ScopeProofs --------------------------------
(***************************************************************************)
(* Proofs about the changed scope: what changed_packages and               *)
(* has_manifest_version_change are for, for any workspace at the top of    *)
(* its repository and any set of changes, and what that makes of a run in  *)
(* changed scope.                                                          *)
(*                                                                         *)
(* In a workspace below the top the properties do not hold: there          *)
(* MCSubdirectory finds a changed package that is not marked.              *)
(***************************************************************************)
EXTENDS Scope, ListProofs

(***************************************************************************)
(* Paths                                                                   *)
(***************************************************************************)
\* There is nothing to normalize in a path that git prints.
LEMMA NothingToNormalize ==
  ASSUME NEW path \in Path
  PROVE  normalize_rel(path) = path
<1> DEFINE b == Len(path)
<1>1. /\ b \in Nat /\ DOMAIN path = 1..b
      /\ path = [ k \in 1..b |-> path[k] ]
  BY DEF Path
<1>2. { i \in DOMAIN path : path[i] \notin {".", RootDir} } = 1..b
  BY <1>1 DEF Path
<1> HIDE DEF b
<1>3. At(path, 1..b) = [ k \in 1..b |-> path[k] ]
  BY <1>1, AtStart
<1> QED
  BY <1>1, <1>2, <1>3 DEF normalize_rel

\* At the top a package directory is its own relative path.
LEMMA RootAtTop ==
  ASSUME NEW root \in Path
  PROVE  path_relative_to(root, Top) = root
<1>1. IsPrefix(Top, root) /\ Len(Top) = 0
  BY DEF IsPrefix, Top, Path
<1>2. SubSeq(root, 1, Len(root)) = root
  BY DEF Path
<1> QED
  BY <1>1, <1>2 DEF path_relative_to

\* A layout at the top, with its directories written out.
AtTop(l) ==
  /\ l.workspace_root = Top
  /\ \A p \in DOMAIN l.package_root : l.package_root[p] \in Path

\* There a package owns the paths inside its directory.
LEMMA OwnersAtTop ==
  ASSUME NEW l, AtTop(l), NEW path \in Path
  PROVE  Owners(l, path) = { p \in DOMAIN l.package_root : IsPrefix(l.package_root[p], path) }
<1>1. \A p \in DOMAIN l.package_root : PackageRoot(l, p) = l.package_root[p]
  BY RootAtTop DEF AtTop, PackageRoot
<1>2. normalize_rel(path) = path
  BY NothingToNormalize
<1> QED
  BY <1>1, <1>2 DEF Owners, is_under

(***************************************************************************)
(* The questions                                                           *)
(***************************************************************************)
Asked ==
  /\ QuestionType([layout |-> layout, changes |-> changes])
  /\ answered =>
       /\ marked = changed_packages(layout, changed_paths(changes))
       /\ bumped = has_manifest_version_change(layout, changes)

LEMMA AlwaysAsked == SSpec => []Asked
<1>1. SInit => Asked
  BY QuestionsAssumption DEF SInit, Asked, QuestionType
<1>2. Asked /\ [Ask]_svars => Asked'
  BY DEF Asked, Ask, svars
<1> QED
  BY <1>1, <1>2, PTL DEF SSpec

\* What git prints are written-out paths of changed files, and all of them if
\* no file moved.
LEMMA PrintedPaths ==
  ASSUME QuestionType([layout |-> layout, changes |-> changes])
  PROVE  /\ changed_paths(changes) \subseteq Path
         /\ changed_paths(changes) \subseteq Touched
         /\ ~Moved => changed_paths(changes) = Touched
<1>1. \A c \in changes : {c.old, c.new} \subseteq Path \cup {NoPath} /\ {c.old, c.new} # {NoPath}
  BY DEF QuestionType
<1>2. ASSUME NEW c \in changes
      PROVE  /\ (IF c.new # NoPath THEN c.new ELSE c.old) \in Path
             /\ (IF c.new # NoPath THEN c.new ELSE c.old) \in {c.old, c.new} \ {NoPath}
  BY <1>1
<1>3. ASSUME ~Moved, NEW c \in changes
      PROVE  \A path \in {c.old, c.new} \ {NoPath} :
               path = IF c.new # NoPath THEN c.new ELSE c.old
  BY <1>3 DEF Moved
<1>4. changed_paths(changes) \subseteq Path /\ changed_paths(changes) \subseteq Touched
  BY <1>2 DEF changed_paths, Touched
<1>5. ~Moved => Touched \subseteq changed_paths(changes)
  BY <1>3 DEF changed_paths, Touched
<1> QED
  BY <1>4, <1>5

\* What is marked at the top.
LEMMA MarkedAtTop ==
  ASSUME Asked, answered, layout.workspace_root = Top
  PROVE  marked = IF \E path \in changed_paths(changes) : \A p \in Packages : ~Holds(p, path)
                  THEN Packages
                  ELSE { p \in Packages : \E path \in changed_paths(changes) : Holds(p, path) }
<1>1. AtTop(layout)
  BY DEF Asked, QuestionType, AtTop
<1>2. changed_paths(changes) \subseteq Path
  BY PrintedPaths DEF Asked
<1>3. \A path \in changed_paths(changes) : Owners(layout, path) = { p \in Packages : Holds(p, path) }
  BY <1>1, <1>2, OwnersAtTop DEF Packages, Holds
<1>4. \A path \in changed_paths(changes) :
        Owners(layout, path) = {} <=> \A p \in Packages : ~Holds(p, path)
  BY <1>3
<1>5. UNION { Owners(layout, path) : path \in changed_paths(changes) }
        = { p \in Packages : \E path \in changed_paths(changes) : Holds(p, path) }
  BY <1>3
<1>6. marked = IF \E path \in changed_paths(changes) : Owners(layout, path) = {}
               THEN Packages
               ELSE UNION { Owners(layout, path) : path \in changed_paths(changes) }
  BY DEF Asked, changed_packages, Packages
<1> QED
  BY <1>4, <1>5, <1>6, Zenon

\* Every package with a changed file is checked, and all of them when a changed
\* file is in no package.
THEOREM TheChangedAreMarked == SSpec => []NoChangedPackageMissed
<1>1. Asked => NoChangedPackageMissed
  <2> SUFFICES ASSUME Asked, answered, layout.workspace_root = Top, ~Moved
               PROVE  /\ TouchedPackages \subseteq marked
                      /\ (\E path \in Touched : \A p \in Packages : ~Holds(p, path)) =>
                           marked = Packages
    BY DEF NoChangedPackageMissed
  <2>1. changed_paths(changes) = Touched
    BY PrintedPaths DEF Asked
  <2>2. marked = IF \E path \in Touched : \A p \in Packages : ~Holds(p, path)
                 THEN Packages ELSE TouchedPackages
    BY <2>1, MarkedAtTop DEF TouchedPackages
  <2>3. TouchedPackages \subseteq Packages
    BY DEF TouchedPackages
  <2> QED
    BY <2>2, <2>3
<1> QED
  BY <1>1, AlwaysAsked, PTL

\* A package is only checked for a changed file of its own or of no package.
THEOREM OnlyTheChangedAreMarked == SSpec => []NothingElseMarked
<1>1. Asked => NothingElseMarked
  <2> SUFFICES ASSUME Asked, answered, layout.workspace_root = Top,
                      ~\E path \in Touched : \A p \in Packages : ~Holds(p, path)
               PROVE  marked \subseteq TouchedPackages
    BY DEF NothingElseMarked
  <2>1. changed_paths(changes) \subseteq Touched
    BY PrintedPaths DEF Asked
  <2>2. marked = { p \in Packages : \E path \in changed_paths(changes) : Holds(p, path) }
    BY <2>1, MarkedAtTop
  <2> QED
    BY <2>1, <2>2 DEF TouchedPackages
<1> QED
  BY <1>1, AlwaysAsked, PTL

\* Where the version check finds a bump, the scope finds a package, wherever the
\* workspace is.
THEOREM ABumpIsChecked == SSpec => []BumpMarksSomePackage
<1>1. Asked => BumpMarksSomePackage
  <2> SUFFICES ASSUME Asked, answered, bumped, Packages # {}
               PROVE  marked # {}
    BY DEF BumpMarksSomePackage
  <2>1. PICK name \in changed_paths(changes) : TRUE
    BY DEF Asked, has_manifest_version_change
  <2>2. CASE \E path \in changed_paths(changes) : Owners(layout, path) = {}
    BY <2>2 DEF Asked, changed_packages, Packages
  <2>3. CASE \A path \in changed_paths(changes) : Owners(layout, path) # {}
    <3>1. Owners(layout, name) # {} /\ Owners(layout, name) \subseteq marked
      BY <2>1, <2>3 DEF Asked, changed_packages
    <3> QED
      BY <3>1
  <2> QED
    BY <2>2, <2>3
<1> QED
  BY <1>1, AlwaysAsked, PTL

(***************************************************************************)
(* A run in changed scope                                                  *)
(***************************************************************************)
\* The run is in a workspace at the top, and git printed its paths.
RunAtTop == AtTop(input.layout) /\ changed_paths(input.changes) \subseteq Path

LEMMA ScopeAtTop ==
  ASSUME TypeOK, RunAtTop, config.mode = "Changed", NEW p \in Pkg
  PROVE  LET paths == changed_paths(input.changes)
         IN  InScope(p) <=>
               \/ \E path \in paths : IsPrefix(input.layout.package_root[p], path)
               \/ \E path \in paths : \A q \in Pkg : ~IsPrefix(input.layout.package_root[q], path)
<1> DEFINE paths == changed_paths(input.changes)
           l == input.layout
           under(q, path) == IsPrefix(l.package_root[q], path)
<1>1. DOMAIN l.package_root = Pkg
  BY InputsAssumption DEF TypeOK, InputType
<1>2. \A path \in paths : Owners(l, path) = { q \in Pkg : under(q, path) }
  BY <1>1, OwnersAtTop DEF RunAtTop
<1>3. InScope(p) <=> p \in changed_packages(l, paths)
  BY DEF InScope
<1>4. CASE \E path \in paths : Owners(l, path) = {}
  BY <1>1, <1>2, <1>3, <1>4 DEF changed_packages
<1>5. CASE ~\E path \in paths : Owners(l, path) = {}
  <2>1. InScope(p) <=> \E path \in paths : p \in Owners(l, path)
    BY <1>3, <1>5 DEF changed_packages
  <2>2. ~\E path \in paths : \A q \in Pkg : ~under(q, path)
    BY <1>2, <1>5
  <2> QED
    BY <1>2, <2>1, <2>2
<1> QED
  BY <1>4, <1>5

\* In a workspace at the top of its repository, a run in changed scope checks no
\* package without changed files, and calls none with changed files unchanged,
\* unless a changed file is in no package: then it checks every eligible one.
\* Below the top changed_packages compares paths relative to different
\* directories (runner.rs:569), and a changed package may go unmarked: the
\* hypothesis is what MarkedInAnyDirectory shows to be needed.
THEOREM TheScopeIsKept == Spec => [](RunAtTop => ChangedScope)
<1>1. Inv /\ ListInv /\ RawReports => (RunAtTop => ChangedScope)
  <2> SUFFICES ASSUME Inv, ListInv, RawReports, RunAtTop, pc = "done", config.mode = "Changed"
               PROVE  ChangedScope
    BY DEF ChangedScope
  <2> DEFINE paths == changed_paths(input.changes)
             under(p) == \E path \in paths : IsPrefix(input.layout.package_root[p], path)
             stray == \E path \in paths : \A p \in Pkg :
                        ~IsPrefix(input.layout.package_root[p], path)
  <2>1. TypeOK /\ reports \in Seq(Report)
    BY DEF Inv, TypeOK
  <2>2. \A p \in Pkg : InScope(p) <=> under(p) \/ stray
    BY <2>1, ScopeAtTop
  <2> HIDE DEF paths, under, stray
  <2>3. ASSUME NEW p \in Pkg, \E i \in DOMAIN Checks : Checks[i].name = p
        PROVE  under(p) \/ stray
    <3>1. PICK i \in DOMAIN Checks : Checks[i].name = p
      BY <2>3
    <3>2. /\ DOMAIN Checks = 1..(next - 1) /\ next - 1 \in 0..Len(would_check)
          /\ Checks[i].name = would_check[i] /\ Len(would_check) \in Nat
      BY <3>1, ReportsSplit, Lists DEF Running
    <3>3. would_check \in Seq({ q \in ListEligible : InScope(q) })
      <4>1. { q \in ListEligible : InScope(q) } \in SUBSET Pkg
        BY Lists
      <4> QED
        BY <4>1, AscendingGrows, ListAgrees, Zenon
    <3>4. would_check[i] \in { q \in ListEligible : InScope(q) }
      BY <3>1, <3>2, <3>3
    <3>5. InScope(p)
      BY <3>1, <3>2, <3>4
    <3> QED
      BY <2>2, <3>5
  <2>4. ASSUME NEW i \in DOMAIN Skips, Skips[i].skip_reason = "unchanged"
        PROVE  ~under(Skips[i].name) /\ ~stray
    <3>1. i \in DOMAIN reports /\ Skips[i] = reports[i]
      BY ReportsSplit DEF Running
    <3>2. reports[i].name \in Pkg
      <4>1. reports[i] \in Report
        BY <2>1, <3>1
      <4> QED
        BY <4>1 DEF Report
    <3>3. ~InScope(reports[i].name)
      BY <2>4, <3>1 DEF RawReports
    <3> QED
      BY <2>2, <3>1, <3>2, <3>3
  <2> QED
    BY <2>3, <2>4 DEF ChangedScope, paths, under, stray
<1> QED
  BY <1>1, RawHolds, PTL

=============================================================================
