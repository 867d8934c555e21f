--------------------------------- MODULE Runner ---------------------------------
(***************************************************************************)
(* SemverguardRunner::run of semverguard-domain/src/runner.rs: the three   *)
(* passes over the workspace's packages.  Pass 1 applies the static        *)
(* filters, pass 2 keeps the changed packages, pass 3 asks the engine      *)
(* about one package after the other; a progress callback hears of it.     *)
(*                                                                         *)
(* Packages are numbered in the order cargo metadata lists them.  Every    *)
(* loop iteration is a step; pass 3 takes two steps per package, because   *)
(* the engine's process runs between them.                                 *)
(***************************************************************************)
EXTENDS ChangeDetection, Reports

CONSTANTS
  Inputs,     \* the inputs a run may start from: see Input
  Answers,    \* the answers the engine may give
  Revs        \* the revisions a baseline may be

\* A list of globs: is it empty, does every glob parse, which names match.
Globs == [given : BOOLEAN, valid : BOOLEAN, matches : SUBSET Pkg]

\* `explicit` may name packages the workspace does not have.
Config ==
  [explicit : SUBSET Nat, include : Globs, exclude : Globs,
   skip_publish_false : BOOLEAN, skip_no_lib : BOOLEAN,
   mode : {"Workspace", "Changed"}, kind : {"CratesIo", "Git"},
   rev : Revs \cup {None}, fail_fast : BOOLEAN]

\* What a run depends on besides the engine: the workspace, the answer of
\* git (an empty set of changes is an answer; a failure is not), the config.
InputType(input) ==
  /\ input.loads \in BOOLEAN
  /\ input.publishable \in [Pkg -> BOOLEAN]
  /\ input.has_lib \in [Pkg -> BOOLEAN]
  /\ input.git \in {"absent", "fails", "answers"}
  /\ DOMAIN input.layout.package_root = Pkg
  /\ input.config \in Config

ASSUME InputsAssumption == \A input \in Inputs : InputType(input)
ASSUME AnswersAssumption == Answers \subseteq Answer
ASSUME RevsAssumption == None \notin Revs

VARIABLES
  input,      \* what the run was started with; never changes
  pc,         \* the pass the run is in
  next,       \* the loop index of that pass, from 1
  eligible,   \* packages that are still to be checked, in order
  scoped,     \* pass 2's result
  reports,    \* the package reports, in the order they are pushed
  events,     \* the progress events, in the order they are sent
  error       \* the error run() returned, or None

vars == <<input, pc, next, eligible, scoped, reports, events, error>>

config == input.config

(***************************************************************************)
(* Progress events                                                         *)
(***************************************************************************)
TotalPackages(total) == [type |-> "TotalPackages", total |-> total]
PackageStarted_OneBased(p, index, total) ==
  [type |-> "PackageStarted", name |-> p, index |-> index + 1, total |-> total]
PackageStarted(p, index, total) ==
  [type |-> "PackageStarted", name |-> p, index |-> index, total |-> total]
PackageCompleted(p, status) ==
  [type |-> "PackageCompleted", name |-> p, status |-> status]

\* Mutant: two counters swapped.
Finished_Swapped(s) ==
  [type |-> "Finished", passed |-> s.passed, failed |-> s.skipped, skipped |-> s.failed]

Finished(s) ==
  [type |-> "Finished", passed |-> s.passed, failed |-> s.failed, skipped |-> s.skipped]

(***************************************************************************)
(* Pass 1: the static filters                                              *)
(***************************************************************************)
Explicit == config.explicit # {}

matches_name_filters(p) ==
  /\ config.include.given => p \in config.include.matches
  /\ ~(config.exclude.given /\ p \in config.exclude.matches)

\* Not asked for by name: not even reported.
Ignored(p) == Explicit /\ p \notin config.explicit

\* Why pass 1 skips a package, in the order the code looks; None to keep it.
StaticSkip(p) ==
  IF ~Explicit /\ ~matches_name_filters(p) THEN "filtered by include/exclude patterns"
  ELSE IF config.skip_publish_false /\ ~input.publishable[p] THEN "publish = false"
  ELSE IF config.skip_no_lib /\ ~input.has_lib[p] THEN "no library target"
  ELSE None

build_globset_fails(globs) == globs.given /\ ~globs.valid

\* The errors that end the run before pass 1.
Pass1Error ==
  IF ~input.loads THEN "Workspace"
  ELSE IF Explicit /\ config.explicit \cap Pkg = {} THEN "InvalidConfig"
  ELSE IF /\ ~Explicit
          /\ \/ build_globset_fails(config.include)
             \/ build_globset_fails(config.exclude) THEN "InvalidConfig"
  ELSE None

(***************************************************************************)
(* Pass 2: the scope                                                       *)
(***************************************************************************)
Pass2Error ==
  IF config.mode = "Workspace" THEN None
  ELSE IF config.rev = None THEN "InvalidConfig"
  ELSE IF config.kind # "Git" THEN "InvalidConfig"
  ELSE IF input.git = "absent" THEN "InvalidConfig"
  ELSE IF input.git = "fails" THEN "Git"
  ELSE None

InScope(p) ==
  config.mode = "Changed" =>
    p \in changed_packages(input.layout, changed_paths(input.changes))

(***************************************************************************)
(* The steps of run()                                                      *)
(***************************************************************************)
Init ==
  /\ input \in Inputs
  /\ pc = "load"
  /\ next = 1
  /\ eligible = <<>> /\ scoped = <<>> /\ reports = <<>> /\ events = <<>>
  /\ error = None

Fail(e) ==
  /\ pc' = "failed"
  /\ error' = e
  /\ UNCHANGED <<input, next, eligible, scoped, reports, events>>

Load ==
  /\ pc = "load"
  /\ \/ Pass1Error # None /\ Fail(Pass1Error)
     \/ /\ Pass1Error = None
        /\ pc' = "filter"
        /\ UNCHANGED <<input, next, eligible, scoped, reports, events, error>>

\* Mutant: no `continue` after a skip, so the package stays eligible.
FilterPackage_NoContinue ==
  /\ pc = "filter" /\ next <= N
  /\ next' = next + 1
  /\ reports' = IF Ignored(next) \/ StaticSkip(next) = None THEN reports
                ELSE Append(reports, skipped(next, StaticSkip(next)))
  /\ eligible' = IF Ignored(next) THEN eligible ELSE Append(eligible, next)
  /\ UNCHANGED <<input, pc, scoped, events, error>>

\* Mutant: the loop index is left alone when a package is not asked for.
FilterPackage_Stuck ==
  /\ pc = "filter" /\ next <= N
  /\ IF Ignored(next) THEN UNCHANGED <<next, eligible, reports>>
     ELSE /\ next' = next + 1
          /\ eligible' = Append(eligible, next)
          /\ UNCHANGED reports
  /\ UNCHANGED <<input, pc, scoped, events, error>>

FilterPackage ==
  /\ pc = "filter" /\ next <= N
  /\ next' = next + 1
  /\ IF Ignored(next) THEN UNCHANGED <<eligible, reports>>
     ELSE IF StaticSkip(next) # None
          THEN /\ reports' = Append(reports, skipped(next, StaticSkip(next)))
               /\ UNCHANGED eligible
          ELSE /\ eligible' = Append(eligible, next)
               /\ UNCHANGED reports
  /\ UNCHANGED <<input, pc, scoped, events, error>>

\* All packages are filtered: evaluate the scope.
EnterScope ==
  /\ pc = "filter" /\ next > N
  /\ \/ Pass2Error # None /\ Fail(Pass2Error)
     \/ /\ Pass2Error = None
        /\ pc' = "scope" /\ next' = 1
        /\ UNCHANGED <<input, eligible, scoped, reports, events, error>>

ScopePackage ==
  /\ pc = "scope" /\ next <= Len(eligible)
  /\ next' = next + 1
  /\ IF InScope(eligible[next])
     THEN /\ scoped' = Append(scoped, eligible[next])
          /\ UNCHANGED reports
     ELSE /\ reports' = Append(reports, skipped(eligible[next], "unchanged"))
          /\ UNCHANGED scoped
  /\ UNCHANGED <<input, pc, eligible, events, error>>

EnterCheck ==
  /\ pc = "scope" /\ next > Len(eligible)
  /\ pc' = "check" /\ next' = 1
  /\ events' = Append(events, TotalPackages(Len(scoped)))
  /\ UNCHANGED <<input, eligible, scoped, reports, error>>

\* The engine's process is started for the next package ...
StartCheck ==
  /\ pc = "check" /\ next <= Len(scoped)
  /\ pc' = "running"
  /\ events' = Append(events, PackageStarted(scoped[next], next - 1, Len(scoped)))
  /\ UNCHANGED <<input, next, eligible, scoped, reports, error>>

\* Mutants: the loop breaks on a failure whatever fail_fast says; the new report
\* goes to the front.
CompleteCheck_With(answer, breaks, newReports) ==
  /\ pc = "running"
  /\ reports' = newReports
  /\ events' = Append(events,
                 PackageCompleted(scoped[next], checked(scoped[next], answer).status))
  /\ pc' = IF breaks THEN "finish" ELSE "check"
  /\ next' = next + 1
  /\ UNCHANGED <<input, eligible, scoped, error>>

CompleteCheck_AlwaysBreaks(answer) ==
  CompleteCheck_With(answer, ~Success(answer),
                     Append(reports, checked(scoped[next], answer)))

CompleteCheck_Prepends(answer) ==
  CompleteCheck_With(answer, ~Success(answer) /\ config.fail_fast,
                     <<checked(scoped[next], answer)>> \o reports)

\* ... and answers, or could not be started.
CompleteCheck(answer) ==
  /\ pc = "running"
  /\ reports' = Append(reports, checked(scoped[next], answer))
  /\ events' = Append(events,
                 PackageCompleted(scoped[next], checked(scoped[next], answer).status))
  /\ pc' = IF ~Success(answer) /\ config.fail_fast THEN "finish" ELSE "check"
  /\ next' = next + 1
  /\ UNCHANGED <<input, eligible, scoped, error>>

\* Mutant: off by one, the last package is never waited for.
Finish_Early ==
  /\ \/ pc = "finish"
     \/ pc = "check" /\ next >= Len(scoped)
  /\ pc' = "done"
  /\ events' = Append(events, Finished(summarize(reports)))
  /\ UNCHANGED <<input, next, eligible, scoped, reports, error>>

Finish ==
  /\ \/ pc = "finish"
     \/ pc = "check" /\ next > Len(scoped)
  /\ pc' = "done"
  /\ events' = Append(events, Finished(summarize(reports)))
  /\ UNCHANGED <<input, next, eligible, scoped, reports, error>>

Next ==
  \/ Load \/ FilterPackage \/ EnterScope \/ ScopePackage \/ EnterCheck
  \/ StartCheck \/ (\E answer \in Answers : CompleteCheck(answer)) \/ Finish

Spec == Init /\ [][Next]_vars

(***************************************************************************)
(* list_packages: passes 1 and 2 a second time, with no engine and no      *)
(* progress.  The source repeats the filters, the scope and their errors;  *)
(* what both functions call is matches_name_filters, build_globset and     *)
(* changed_packages.                                                       *)
(***************************************************************************)
NotRequested == "not requested"

\* Mutant: the two flags in the other order, which shows in the reason only.
ListReason_LibFirst(p) ==
  IF config.explicit # {} /\ p \notin config.explicit THEN NotRequested
  ELSE IF config.explicit = {} /\ ~matches_name_filters(p) THEN "filtered by include/exclude"
  ELSE IF config.skip_no_lib /\ ~input.has_lib[p] THEN "no library target"
  ELSE IF config.skip_publish_false /\ ~input.publishable[p] THEN "publish = false"
  ELSE None

\* How list_packages' first pass sorts a package: with a reason to skip it, as
\* not even asked for, or None for an eligible one.
ListReason(p) ==
  IF config.explicit # {} /\ p \notin config.explicit THEN NotRequested
  ELSE IF config.explicit = {} /\ ~matches_name_filters(p) THEN "filtered by include/exclude"
  ELSE IF config.skip_publish_false /\ ~input.publishable[p] THEN "publish = false"
  ELSE IF config.skip_no_lib /\ ~input.has_lib[p] THEN "no library target"
  ELSE None

ListEligible == { p \in Pkg : ListReason(p) = None }
ListSkipped == { p \in Pkg : ListReason(p) \notin {None, NotRequested} }

ListScoped ==
  IF config.mode = "Changed"
  THEN ListEligible \cap changed_packages(input.layout, changed_paths(input.changes))
  ELSE ListEligible

list_error ==
  LET changed == config.mode = "Changed"
      missing == config.explicit # {} /\ \A p \in config.explicit : p \notin Pkg
      globs == /\ config.explicit = {}
               /\ \E g \in {config.include, config.exclude} : build_globset_fails(g)
      no_baseline == config.rev = None \/ config.kind # "Git"
  IN  IF ~input.loads THEN "Workspace"
      ELSE IF missing \/ globs \/ (changed /\ (no_baseline \/ input.git = "absent"))
           THEN "InvalidConfig"
      ELSE IF changed /\ input.git = "fails" THEN "Git"
      ELSE None

would_check == Ascending(ListScoped)

\* Whom would_skip names: the first pass's skips, then the second's.
ListedSkips == Ascending(ListSkipped) \o Ascending(ListEligible \ ListScoped)

would_skip ==
  [ k \in DOMAIN ListedSkips |->
      [name |-> ListedSkips[k],
       reason |-> IF ListedSkips[k] \in ListSkipped
                  THEN ListReason(ListedSkips[k]) ELSE "unchanged"] ]

(***************************************************************************)
(* Properties                                                              *)
(***************************************************************************)
Running == pc \in {"check", "running", "finish", "done"}
Over == pc \in {"done", "failed"}

\* Every variable has its type: the values run() can give its locals.  A report
\* has a failure kind exactly when the check failed, and a baseline cause only
\* with the baseline kind.
TypeOK ==
  /\ input \in Inputs
  /\ pc \in {"load", "filter", "scope", "check", "running", "finish", "done", "failed"}
  /\ next \in Nat \ {0}
  /\ eligible \in Seq(Pkg) /\ scoped \in Seq(Pkg)
  /\ reports \in Seq(Report)
  /\ \A i \in DOMAIN reports :
       /\ reports[i].failure_kind # None <=> reports[i].status = "Failed"
       /\ reports[i].baseline_error # None <=> reports[i].failure_kind = "BaselineError"
  /\ error \in {None, "Workspace", "InvalidConfig", "Git"}

Reported == { reports[i].name : i \in DOMAIN reports }
Selected == { p \in Pkg : ~Ignored(p) }
Checks == At(reports, { i \in DOMAIN reports : reports[i].status # "Skipped" })
Skips == At(reports, { i \in DOMAIN reports : reports[i].status = "Skipped" })
Names(rs) == [ i \in DOMAIN rs |-> rs[i].name ]

\* No package is reported twice, whichever of the four places that push a
\* report it went through.
ReportedOnce ==
  \A i, j \in DOMAIN reports : reports[i].name = reports[j].name => i = j

\* Pass 3 never loses a package: when the run is done, the packages without a
\* report are the ones behind the check on which fail_fast stopped the loop.
OnlyFailFastDrops ==
  pc = "done" =>
    \/ Reported = Selected
    \/ /\ config.fail_fast
       /\ Last(reports).status = "Failed"
       /\ \A p \in Selected \ Reported : p > Last(reports).name

\* With fail_fast nothing is checked after a failure.
FailFastStops ==
  config.fail_fast =>
    \A i \in DOMAIN reports : reports[i].status = "Failed" => i = Len(reports)

\* The two functions word one reason apart: what run() skips for its name says
\* "patterns" at the end.
Reworded(reason) ==
  IF reason = "filtered by include/exclude patterns" THEN "filtered by include/exclude"
  ELSE reason

\* `list` previews `check`: the run skips exactly what list_packages would
\* skip, in its order and, but for the wording of one, for its reasons; it
\* checks a prefix of what list_packages would check (all of it without
\* fail_fast); and one fails exactly when the other does.  The filters, their
\* order, the scope and the errors are each written twice.
RunFollowsList ==
  /\ Running =>
       [ i \in DOMAIN Skips |->
           [name |-> Skips[i].name, reason |-> Reworded(Skips[i].skip_reason)] ] = would_skip
  /\ IsPrefix(Names(Checks), would_check)
  /\ pc = "done" /\ ~config.fail_fast => Names(Checks) = would_check
  /\ pc = "done" => list_error = None
  /\ pc = "failed" => error = list_error

\* What the progress reporter hears: the total first, then for each check a
\* start and its completion with the status that is reported, in order and
\* numbered without gaps, and the summary of the reports last.
ProgressProtocol ==
  LET of(type) == At(events, { i \in DOMAIN events : events[i].type = type })
      started == of("PackageStarted")
      completed == of("PackageCompleted")
  IN  /\ events # <<>> =>
           events[1] = TotalPackages(Len(would_check)) /\ Len(of("TotalPackages")) = 1
      /\ \A i \in DOMAIN started :
           /\ started[i].name = would_check[i]
           /\ started[i].index = i - 1 /\ started[i].total = Len(would_check)
      /\ completed = [ i \in DOMAIN Checks |->
                         PackageCompleted(Checks[i].name, Checks[i].status) ]
      /\ Len(started) - Len(completed) = IF pc = "running" THEN 1 ELSE 0
      /\ pc = "done" <=> Len(of("Finished")) = 1
      /\ pc = "done" => Last(events) = Finished(summarize(reports))

\* Changed scope only ever narrows the run to packages with changed files, and
\* checks every eligible package when a file outside all packages changed.
ChangedScope ==
  pc = "done" /\ config.mode = "Changed" =>
    LET paths == changed_paths(input.changes)
        under(p) == \E path \in paths : IsPrefix(input.layout.package_root[p], path)
        stray == \E path \in paths : \A p \in Pkg :
                   ~IsPrefix(input.layout.package_root[p], path)
    IN  /\ \A p \in Pkg : (\E i \in DOMAIN Checks : Checks[i].name = p) => under(p) \/ stray
        /\ \A i \in DOMAIN Skips :
             Skips[i].skip_reason = "unchanged" => ~under(Skips[i].name) /\ ~stray

\* A report is final: later steps only append, and skipped packages are
\* all reported before the first check is.
ReportsAreFinal ==
  [][ /\ IsPrefix(reports, reports')
      /\ Len(reports') <= Len(reports) + 1
      /\ reports' # reports /\ Last(reports').status = "Skipped" =>
           \A i \in DOMAIN reports : reports[i].status = "Skipped" ]_vars

(***************************************************************************)
(* Why the safety properties hold: the inductive invariant                 *)
(***************************************************************************)
Increasing(s) == \A i, j \in DOMAIN s : i < j => s[i] < s[j]
Elements(s) == { s[i] : i \in DOMAIN s }
From(s, k) == { s[i] : i \in k..Len(s) }

\* The selected packages the loops have not settled yet.
Open ==
  CASE pc \in {"load", "filter"} -> Elements(eligible) \cup { p \in Selected : p >= next }
    [] pc = "scope" -> Elements(scoped) \cup From(eligible, next)
    [] OTHER -> From(scoped, next)

\* The loop indexes are in bounds, and the lists keep the workspace's order.
LoopsInOrder ==
  /\ Increasing(eligible) /\ Increasing(scoped)
  /\ pc = "load" => next = 1 /\ eligible = <<>> /\ reports = <<>>
  /\ pc \in {"load", "filter"} =>
       /\ next <= N + 1 /\ scoped = <<>>
       /\ \A i \in DOMAIN eligible : eligible[i] < next
  /\ pc = "scope" =>
       /\ next <= Len(eligible) + 1
       /\ \A i \in DOMAIN scoped, k \in next..Len(eligible) : scoped[i] < eligible[k]
  /\ pc = "check" => next <= Len(scoped) + 1
  /\ pc = "running" => next <= Len(scoped)

\* Reported or open, and never both.
Partition ==
  pc # "failed" => Reported \cap Open = {} /\ Reported \cup Open = Selected

\* The loop of pass 3 broke on its last report, and only packages behind that
\* one are open.
BrokeOff ==
  /\ config.fail_fast /\ reports # <<>>
  /\ Last(reports).status = "Failed"
  /\ \A p \in Open : p > Last(reports).name

FailuresEndTheRun ==
  /\ pc \in {"load", "filter", "scope"} =>
       \A i \in DOMAIN reports : reports[i].status = "Skipped"
  /\ config.fail_fast /\ pc \in {"check", "running"} =>
       \A i \in DOMAIN reports : reports[i].status # "Failed"
  /\ pc = "finish" => BrokeOff
  /\ pc = "done" => Open = {} \/ BrokeOff

Inv ==
  TypeOK /\ LoopsInOrder /\ Partition /\ ReportedOnce /\ FailFastStops /\ FailuresEndTheRun

(***************************************************************************)
(* The contract, and where the run keeps each package's outcome            *)
(***************************************************************************)
Lower(status) ==
  CASE status = "Passed" -> "passed"
    [] status = "Failed" -> "failed"
    [] status = "Skipped" -> "skipped"

\* Pass 1 has passed the package by.
PassedBy(p) == Ignored(p) /\ (p < next \/ pc \notin {"load", "filter", "failed"})

OutcomeOf(p) ==
  IF \E i \in DOMAIN reports : reports[i].name = p
  THEN Lower(reports[CHOOSE i \in DOMAIN reports : reports[i].name = p].status)
  ELSE IF PassedBy(p) THEN "ignored" ELSE "pending"

Contract == INSTANCE RunContract WITH
  outcome  <- [p \in Pkg |-> OutcomeOf(p)],
  phase    <- CASE pc = "done" -> "closed" [] pc = "failed" -> "aborted" [] OTHER -> "open",
  failFast <- config.fail_fast

\* The three passes keep the promise RunContract states.
RefinesContract == Contract!CSpec

\* The run ends, whatever the engine answers, provided it answers.
Terminates == <>Over

=============================================================================
