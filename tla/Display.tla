---------------------------------- MODULE Display ----------------------------------
(***************************************************************************)
(* What the reporters of semverguard-cli/src/progress.rs make of the       *)
(* runner's events, which ProgressCallbackAdapter hands on one by one: the *)
(* bar that TerminalProgress keeps, and the lines of LineProgress.         *)
(***************************************************************************)
EXTENDS Runner

VARIABLE bar    \* the bar of TerminalProgress, and the message of its spinner

dvars == <<vars, bar>>

\* The bar stands at position of length, and the spinner says message.
Blank == [position |-> 0, length |-> 0, message |-> <<>>]

\* Mutant: the position of a start is the number of the check.
report_OneBased(event) ==
  CASE event.type = "TotalPackages" -> [bar EXCEPT !.length = event.total]
    [] event.type = "PackageStarted" ->
         [position |-> event.index + 1, length |-> event.total,
          message |-> <<"Checking", event.name>>]
    [] event.type = "PackageCompleted" ->
         [bar EXCEPT !.position = @ + 1, !.message = <<event.status, event.name>>]
    [] event.type = "Finished" -> [bar EXCEPT !.position = bar.length, !.message = <<>>]

\* A start sets the position, a completion moves it on.  The end fills the bar,
\* as a finished bar of indicatif is, however far the run came.
report(event) ==
  CASE event.type = "TotalPackages" -> [bar EXCEPT !.length = event.total]
    [] event.type = "PackageStarted" ->
         [position |-> event.index, length |-> event.total,
          message |-> <<"Checking", event.name>>]
    [] event.type = "PackageCompleted" ->
         [bar EXCEPT !.position = @ + 1, !.message = <<event.status, event.name>>]
    [] event.type = "Finished" -> [bar EXCEPT !.position = bar.length, !.message = <<>>]

\* Checks are numbered from 1 here.
LineOf(event) ==
  CASE event.type = "TotalPackages" -> <<"Checking", event.total>>
    [] event.type = "PackageStarted" -> <<event.index + 1, event.total, event.name>>
    [] event.type = "PackageCompleted" -> <<event.status, event.name>>
    [] event.type = "Finished" -> <<"Done", event.passed, event.failed, event.skipped>>

LineProgress(heard) == [ i \in DOMAIN heard |-> LineOf(heard[i]) ]

DInit == Init /\ bar = Blank

\* The reporter is called with an event before the run goes on.
on_progress == bar' = report(Last(events'))

DNext ==
  \/ (Load \/ FilterPackage \/ EnterScope \/ ScopePackage) /\ UNCHANGED bar
  \/ EnterCheck /\ on_progress
  \/ StartCheck /\ on_progress
  \/ (\E answer \in Answers : CompleteCheck(answer)) /\ on_progress
  \/ Finish /\ on_progress

DSpec == DInit /\ [][DNext]_dvars

\* run() is a straight-line function: it goes on unless the process dies, and
\* the engine's process ends at some point.
FairDSpec == DSpec /\ WF_dvars(DNext)

(***************************************************************************)
(* Properties                                                              *)
(***************************************************************************)
\* Until the run is over the bar stands at the number of finished checks, of all
\* the checks to come, and the spinner names the package that is being checked,
\* or the one just checked and how it ended; it never runs past its end.  The
\* lines of a log number the checks as the bar does, and count them in the end.
BarCountsReports ==
  /\ bar.position <= bar.length
  /\ pc \in {"check", "running", "finish"} =>
       /\ bar.position = Len(Checks) /\ bar.length = Len(would_check)
       /\ bar.message = IF pc = "running" THEN <<"Checking", would_check[bar.position + 1]>>
                        ELSE IF Checks = <<>> THEN <<>>
                        ELSE <<Last(Checks).status, Last(Checks).name>>
  /\ pc = "running" =>
       Last(LineProgress(events)) = <<bar.position + 1, bar.length, bar.message[2]>>
  /\ pc = "done" =>
       LET done == Last(LineProgress(events))
       IN  done[2] + done[3] = Len(Checks)

=============================================================================
