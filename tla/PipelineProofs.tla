------------------------------ MODULE PipelineProofs ------------------------------
(***************************************************************************)
(* Proofs about Pipeline: it runs the runner unchanged, and whatever run()  *)
(* returns means what it should, for any policy, any mode, any waivers and *)
(* any number of packages.                                                 *)
(*                                                                         *)
(* The argument: a result is always what ReportResult makes of the reports *)
(* of a finished run (Concluded); the policy leaves a report as it is or   *)
(* gives it one of three forms (Leaves); the receipt lists a finding for   *)
(* each report that is to be told, in an order, as far as there is room    *)
(* (Carries); so every finding shows a report, and every report that is    *)
(* told is shown by a finding (Shows).  What is rendered or decided is     *)
(* then told by the reports the runner made.                               *)
(***************************************************************************)
EXTENDS Pipeline, ListProofs

(***************************************************************************)
(* The pipeline's steps                                                    *)
(***************************************************************************)
\* The pipeline only watches the runner: whatever holds of every run of the
\* runner holds of every run of the pipeline.
THEOREM PipelineRunsTheRunner == PSpec => Spec
<1>1. PInit => Init
  BY DEF PInit
<1>2. [PNext]_pvars => [Next]_vars
  BY DEF PNext, Probe, RunnerStep, Conclude, ConcludeError, pvars, vars
<1> QED
  BY <1>1, <1>2, PTL DEF PSpec, Spec

\* What run() has returned: an error, or what became of the runner's reports or
\* of its error.
Concluded ==
  /\ settings \in Settings
  /\ stage \in {"probe", "runner", "returned"}
  /\ stage # "returned" <=> result = Pending
  /\ stage = "returned" =>
       \/ result = Err
       \/ pc = "done" /\ result = ReportResult(reports, settings, config.kind)
       \/ settings.format = "Receipt" /\ result = ErrorResult(settings, config.kind)

\* The results are told apart by what they are.
LEMMA ResultKinds ==
  /\ Pending.is = "Pending" /\ Err.is = "Err"
  /\ \A rs, s, kind : /\ ReportResult(rs, s, kind).is = "Ok"
                      /\ ReportResult(rs, s, kind).has_report
                      /\ ErrorResult(s, kind).is = "Ok"
                      /\ ~ErrorResult(s, kind).has_report
BY DEF Pending, Err, ReportResult, ErrorResult

LEMMA ConcludedStep == Concluded /\ [PNext]_pvars => Concluded'
<1> SUFFICES ASSUME Concluded, [PNext]_pvars
             PROVE  Concluded'
  OBVIOUS
<1>0. Err # Pending
  BY ResultKinds
<1>1. CASE Probe
  BY <1>0, <1>1 DEF Probe, Return, Concluded
<1>2. CASE RunnerStep
  BY <1>2 DEF RunnerStep, Concluded
<1>3. CASE Conclude
  <2>1. ReportResult(reports, settings, config.kind) # Pending
    BY ResultKinds
  <2> QED
    BY <1>3, <2>1 DEF Conclude, Return, Concluded, vars, config
<1>4. CASE ConcludeError
  <2>1. ErrorResult(settings, config.kind) # Pending
    BY ResultKinds
  <2> QED
    BY <1>0, <1>4, <2>1 DEF ConcludeError, Return, Concluded, vars, config
<1>5. CASE UNCHANGED pvars
  BY <1>5 DEF pvars, vars, Concluded, config
<1> QED
  BY <1>1, <1>2, <1>3, <1>4, <1>5 DEF PNext

\* The invariant of the pipeline: the runner's, and what its result is.
PipelineInv == TypeOK /\ Inv /\ ListInv /\ EventInv /\ RawReports /\ Concluded

LEMMA PipelineInit == PInit => PipelineInv
<1>1. PInit => Concluded
  BY DEF PInit, Concluded
<1>2. PInit => Init
  BY DEF PInit
<1> QED
  BY <1>1, <1>2, InvInit, ListInit, EventInit, RawInit DEF PipelineInv, Inv

LEMMA PipelineStep == PipelineInv /\ [PNext]_pvars => PipelineInv'
<1>1. [PNext]_pvars => [Next]_vars
  BY DEF PNext, Probe, RunnerStep, Conclude, ConcludeError, pvars, vars
<1>2. Inv' => TypeOK'
  BY DEF Inv
<1> QED
  BY <1>1, <1>2, InvStep, ListStep, EventStep, RawStep, ConcludedStep DEF PipelineInv

LEMMA AlwaysConcluded ==
  PSpec => [](TypeOK /\ Inv /\ ListInv /\ EventInv /\ RawReports /\ Concluded)
BY PipelineInit, PipelineStep, PTL DEF PSpec, PipelineInv

\* A result with a report is made of the reports of a finished runner, and only
\* a receipt comes without one.
LEMMA Results ==
  ASSUME Concluded
  PROVE  /\ Checked => pc = "done" /\ result = ReportResult(reports, settings, config.kind)
         /\ Ok /\ ~result.has_report =>
              settings.format = "Receipt" /\ result = ErrorResult(settings, config.kind)
         /\ ReportWhenPrinted
<1>1. Ok => stage = "returned" /\ result # Err
  BY ResultKinds DEF Ok, Concluded
<1> QED
  BY <1>1, ResultKinds DEF Concluded, Checked, ReportWhenPrinted

\* run_check may unwrap the report whenever it does.
THEOREM ThereIsAReport == PSpec => []ReportWhenPrinted
<1>1. Concluded => ReportWhenPrinted
  BY Results
<1> QED
  BY <1>1, AlwaysConcluded, PTL

(***************************************************************************)
(* The policy                                                              *)
(***************************************************************************)
\* What the policy does with the i-th report in a lane, and what it leaves.
ActionIn(mode, i) == effective_action(reports[i].baseline_error, settings.on_error, mode)
Final(mode) == apply_baseline_error_policy(reports, settings.on_error, mode)
Broken(i) == Kind(i) = "BaselineError"

\* An effective action is one of three, and no lenient lane fails a package for
\* its baseline.
LEMMA ActionType ==
  ASSUME settings \in Settings, NEW mode, NEW i
  PROVE  /\ ActionIn(mode, i) \in ErrorAction
         /\ baseline_errors_are_warnings(mode) => ActionIn(mode, i) # "Fail"
<1> DEFINE configured == configured_action(reports[i].baseline_error, settings.on_error)
<1>1. settings.on_error \in OnError
  BY SettingsAssumption DEF Setting
<1>2. configured \in ErrorAction
  BY <1>1 DEF configured_action, OnError, OnErrorKey
<1> HIDE DEF configured
<1>3. ActionIn(mode, i) =
        LET strict == IF mode = "Release" /\ configured = "Warn" THEN "Fail" ELSE configured
        IN  IF strict = "Fail" /\ baseline_errors_are_warnings(mode) THEN "Warn" ELSE strict
  BY DEF ActionIn, effective_action, configured
<1> QED
  BY <1>2, <1>3 DEF ErrorAction

\* The lenient lanes act alike, and skip what the release lane skips; the
\* release lane warns of nothing.
LEMMA ActionsOfLanes ==
  ASSUME settings \in Settings, NEW i
  PROVE  /\ ActionIn("Pr", i) = ActionIn("Cockpit", i)
         /\ ActionIn("Release", i) # "Warn"
         /\ ActionIn("Release", i) = "Skip" <=> ActionIn("Pr", i) = "Skip"
BY DEF ActionIn, effective_action, baseline_errors_are_warnings

\* Only baseline errors are rewritten; a failure keeps its kind, a warning
\* keeps it but no longer fails, a skip leaves nothing.
LEMMA PolicyOutcome ==
  ASSUME TypeOK, settings \in Settings, NEW mode, NEW i \in DOMAIN reports
  PROVE  /\ DOMAIN Final(mode) = DOMAIN reports
         /\ ~Broken(i) => Final(mode)[i] = reports[i]
         /\ Broken(i) =>
              /\ Failed(i)
              /\ ActionIn(mode, i) = "Fail" =>
                   Final(mode)[i].status = "Failed" /\ Final(mode)[i].failure_kind = "BaselineError"
              /\ ActionIn(mode, i) = "Warn" =>
                   Final(mode)[i].status = "Skipped" /\ Final(mode)[i].failure_kind = "BaselineError"
              /\ ActionIn(mode, i) = "Skip" =>
                   Final(mode)[i].status = "Skipped" /\ Final(mode)[i].failure_kind = None
<1>1. /\ DOMAIN Final(mode) = DOMAIN reports
      /\ Final(mode)[i] = IF Broken(i) THEN Rewritten(reports[i], ActionIn(mode, i))
                          ELSE reports[i]
  BY DEF Final, apply_baseline_error_policy, Broken, Kind, ActionIn
<1>2. reports[i] \in Report /\ (Broken(i) => Failed(i))
  BY DEF TypeOK, Broken, Kind, Failed, None
<1>3. CASE Broken(i)
  <2>1. /\ DOMAIN reports[i] =
             {"name", "status", "skip_reason", "engine", "bump", "failure_kind", "baseline_error"}
        /\ reports[i].failure_kind = "BaselineError"
    BY <1>2, <1>3 DEF Report, Broken, Kind
  <2> QED
    BY <1>1, <1>2, <1>3, <2>1 DEF Rewritten
<1> QED
  BY <1>1, <1>3

(***************************************************************************)
(* The exit code of a report                                               *)
(***************************************************************************)
\* Some check failed for a reason of its own, or some baseline error is treated
\* so by the policy.
SomeOf(kinds) == \E i \in DOMAIN reports : Kind(i) \in kinds
SomeBroken(mode, action) == \E i \in DOMAIN reports : Broken(i) /\ ActionIn(mode, i) = action

\* exit_code_from_report, told by what the runner saw.
LEMMA ReportCode ==
  ASSUME TypeOK, settings \in Settings, NEW mode, NEW warn \in BOOLEAN
  PROVE  exit_code_from_report(Final(mode), mode, warn) =
           IF SomeOf({"ToolError"}) THEN 1
           ELSE IF SomeOf({"SemverViolation", "Unknown"}) THEN 2
           ELSE IF SomeBroken(mode, "Fail") THEN 3
           ELSE IF SomeBroken(mode, "Warn") /\ warn THEN 3
           ELSE 0
<1> DEFINE rs == Final(mode)
           kinds(status) ==
             { rs[i].failure_kind : i \in { i \in DOMAIN rs : rs[i].status = status } }
           failed == kinds("Failed")
<1>1. DOMAIN rs = DOMAIN reports
  BY DEF Final, apply_baseline_error_policy
<1> HIDE DEF rs
<1>2. ASSUME NEW i \in DOMAIN reports
      PROVE  /\ rs[i].status = "Failed" /\ rs[i].failure_kind = "ToolError"
                  <=> Kind(i) = "ToolError"
             /\ rs[i].status = "Failed" /\ rs[i].failure_kind \in {"SemverViolation", "Unknown", None}
                  <=> Kind(i) \in {"SemverViolation", "Unknown"}
             /\ rs[i].status = "Failed" /\ rs[i].failure_kind = "BaselineError"
                  <=> Broken(i) /\ ActionIn(mode, i) = "Fail"
             /\ rs[i].status = "Skipped" /\ rs[i].failure_kind = "BaselineError"
                  <=> Broken(i) /\ ActionIn(mode, i) = "Warn"
  <2>1. /\ Kind(i) \in {"SemverViolation", "BaselineError", "ToolError", "Unknown", None}
        /\ Kind(i) # None <=> Failed(i)
    <3>1. reports[i] \in Report
      BY <1>2 DEF TypeOK
    <3>2. reports[i].failure_kind \in FailureKind \cup {None}
      BY <3>1 DEF Report
    <3> QED
      BY <1>2, <3>2 DEF TypeOK, Kind, Failed, FailureKind
  <2>2. None = "none"
    BY DEF None
  <2>3. ActionIn(mode, i) \in {"Fail", "Warn", "Skip"}
    BY ActionType DEF ErrorAction
  <2>4. CASE Broken(i)
    BY <1>2, <2>2, <2>3, <2>4, PolicyOutcome DEF rs, Broken
  <2>5. CASE ~Broken(i)
    <3>1. rs[i] = reports[i]
      BY <1>2, <2>5, PolicyOutcome DEF rs
    <3> QED
      BY <2>1, <2>2, <2>5, <3>1 DEF Broken, Kind, Failed
  <2> QED
    BY <2>4, <2>5
<1>3. \A status, K : kinds(status) \cap K # {}
        <=> \E i \in DOMAIN reports : rs[i].status = status /\ rs[i].failure_kind \in K
  BY <1>1
<1>4. "ToolError" \in failed <=> SomeOf({"ToolError"})
  BY <1>1, <1>2 DEF SomeOf
<1>5. failed \cap {"SemverViolation", "Unknown", None} # {}
        <=> SomeOf({"SemverViolation", "Unknown"})
  <2> HIDE DEF kinds
  <2> QED
    BY <1>2, <1>3 DEF SomeOf
<1>6. "BaselineError" \in failed <=> SomeBroken(mode, "Fail")
  BY <1>1, <1>2 DEF SomeBroken
<1>7. "BaselineError" \in kinds("Skipped") <=> SomeBroken(mode, "Warn")
  BY <1>1, <1>2 DEF SomeBroken
<1>8. baseline_errors_are_warnings(mode) => ~SomeBroken(mode, "Fail")
  BY ActionType DEF SomeBroken
<1>9. exit_code_from_report(rs, mode, warn) =
        IF "ToolError" \in failed THEN 1
        ELSE IF failed \cap {"SemverViolation", "Unknown", None} # {} THEN 2
        ELSE IF "BaselineError" \in failed
             THEN IF baseline_errors_are_warnings(mode) /\ ~warn THEN 0 ELSE 3
        ELSE IF "BaselineError" \in kinds("Skipped") /\ warn THEN 3
        ELSE 0
  BY Zenon DEF exit_code_from_report
<1> HIDE DEF failed, kinds
<1> QED
  BY <1>4, <1>5, <1>6, <1>7, <1>8, <1>9 DEF rs

(***************************************************************************)
(* What the exit code of a printed report means                            *)
(***************************************************************************)
\* A run that prints its report, and is done.
Printed == Checked /\ settings.format # "Receipt"

\* Its exit code, by what the runner saw.
LEMMA PrintedCode ==
  ASSUME TypeOK, Concluded, Printed
  PROVE  result.exit_code =
           IF SomeOf({"ToolError"}) THEN 1
           ELSE IF SomeOf({"SemverViolation", "Unknown"}) THEN 2
           ELSE IF SomeBroken(Mode, "Fail") THEN 3
           ELSE IF SomeBroken(Mode, "Warn") /\ settings.warn_as_fail THEN 3
           ELSE 0
<1>1. result.exit_code = exit_code_from_report(Final(Mode), Mode, settings.warn_as_fail)
  <2>1. result = ReportResult(reports, settings, config.kind)
    BY Results DEF Printed
  <2>2. ReportResult(reports, settings, config.kind).exit_code =
          Code(settings, build_receipt(Final(Mode), {}, settings.waivers, settings.today), Final(Mode))
    BY DEF ReportResult, Final, Mode
  <2> QED
    BY <2>1, <2>2 DEF Code, Printed, Mode
<1>2. settings \in Settings /\ settings.warn_as_fail \in BOOLEAN
  BY SettingsAssumption DEF Concluded, Setting
<1> QED
  BY <1>1, <1>2, ReportCode

\* What is live when no receipt, and so no waiver, is asked for.
LEMMA PrintedLive ==
  ASSUME TypeOK, Concluded, Printed, NEW i \in DOMAIN reports
  PROVE  /\ Live(i) <=> Failed(i) /\ ~(Broken(i) /\ ActionIn(Mode, i) = "Skip")
         /\ Failed(i) <=> Kind(i) \in {"SemverViolation", "BaselineError", "ToolError", "Unknown"}
         /\ Broken(i) => ActionIn(Mode, i) \in {"Fail", "Warn", "Skip"}
<1>1. Failed(i) <=> Kind(i) \in {"SemverViolation", "BaselineError", "ToolError", "Unknown"}
  <2>1. reports[i] \in Report
    BY DEF TypeOK
  <2>2. reports[i].failure_kind \in FailureKind \cup {None}
    BY <2>1 DEF Report
  <2> QED
    BY <2>2 DEF TypeOK, Kind, Failed, FailureKind, None
<1>2. Broken(i) => ActionIn(Mode, i) \in {"Fail", "Warn", "Skip"}
  BY ActionType DEF Concluded, ErrorAction
<1> QED
  BY <1>1, <1>2 DEF Live, Printed, SkippedByPolicy, Broken, Action, ActionIn

\* An exit code of zero is earned: no check failed but for baseline errors the
\* policy skips, or lets pass as warnings.
LEMMA PrintedZeroIsClean == PSpec => [](Printed => ZeroMeansClean)
<1>1. TypeOK /\ Concluded => (Printed => ZeroMeansClean)
  <2> SUFFICES ASSUME TypeOK, Concluded, Printed, result.exit_code = 0,
                      NEW i \in DOMAIN reports, Live(i)
               PROVE  Kind(i) = "BaselineError" /\ ~settings.warn_as_fail /\ Action(i) = "Warn"
    BY DEF ZeroMeansClean
  <2>1. /\ ~SomeOf({"ToolError"}) /\ ~SomeOf({"SemverViolation", "Unknown"})
        /\ ~SomeBroken(Mode, "Fail") /\ ~(SomeBroken(Mode, "Warn") /\ settings.warn_as_fail)
    BY PrintedCode
  <2> QED
    BY <2>1, PrintedLive DEF SomeOf, SomeBroken, Broken, Action, ActionIn
<1> QED
  BY <1>1, AlwaysConcluded, PTL

\* Every other exit code has its cause among the checks.
LEMMA PrintedCodeHasCause == PSpec => [](Printed => ExitCodeHasCause)
<1>1. TypeOK /\ Concluded => (Printed => ExitCodeHasCause)
  <2> SUFFICES ASSUME TypeOK, Concluded, Printed
               PROVE  ExitCodeHasCause
    OBVIOUS
  <2>1. ASSUME result.exit_code = 1
        PROVE  \E i \in DOMAIN reports : Kind(i) = "ToolError"
    BY <2>1, PrintedCode DEF SomeOf
  <2>2. ASSUME result.exit_code = 2
        PROVE  LiveKinds \cap {"SemverViolation", "Unknown"} # {}
    <3>1. PICK i \in DOMAIN reports : Kind(i) \in {"SemverViolation", "Unknown"}
      BY <2>2, PrintedCode DEF SomeOf
    <3>2. Live(i)
      BY <3>1, PrintedLive DEF Broken
    <3> QED
      BY <3>1, <3>2 DEF LiveKinds
  <2>3. ASSUME result.exit_code = 3
        PROVE  LiveKinds = {"BaselineError"}
    <3>1. /\ ~SomeOf({"ToolError"}) /\ ~SomeOf({"SemverViolation", "Unknown"})
          /\ SomeBroken(Mode, "Fail") \/ SomeBroken(Mode, "Warn")
      BY <2>3, PrintedCode
    <3>2. PICK i \in DOMAIN reports : Broken(i) /\ ActionIn(Mode, i) \in {"Fail", "Warn"}
      BY <3>1 DEF SomeBroken
    <3>3. Live(i) /\ Kind(i) = "BaselineError"
      BY <3>2, PrintedLive DEF Broken
    <3>4. \A j \in DOMAIN reports : Live(j) => Kind(j) = "BaselineError"
      BY <3>1, PrintedLive DEF SomeOf
    <3> QED
      BY <3>3, <3>4 DEF LiveKinds
  <2>4. result.exit_code \in {0, 1, 2, 3}
    BY PrintedCode
  <2> QED
    BY <2>1, <2>2, <2>3, <2>4 DEF ExitCodeHasCause
<1> QED
  BY <1>1, AlwaysConcluded, PTL

\* A lenient lane accepts what the release lane accepts, the lenient lanes agree,
\* and warn_as_fail only ever turns a 0 into a 3.
LEMMA PrintedLanesAreOrdered == PSpec => [](Printed => LanesAreOrdered)
<1>1. TypeOK /\ Concluded => (Printed => LanesAreOrdered)
  <2> SUFFICES ASSUME TypeOK, Concluded, Printed
               PROVE  LanesAreOrdered
    OBVIOUS
  <2> DEFINE code(mode, warn) ==
               ReportResult(reports, [settings EXCEPT !.mode = mode, !.warn_as_fail = warn],
                            config.kind).exit_code
             lane(mode, warn) ==
               IF SomeOf({"ToolError"}) THEN 1
               ELSE IF SomeOf({"SemverViolation", "Unknown"}) THEN 2
               ELSE IF SomeBroken(mode, "Fail") THEN 3
               ELSE IF SomeBroken(mode, "Warn") /\ warn THEN 3
               ELSE 0
  <2>0. settings \in Settings
    BY DEF Concluded
  <2>1. ASSUME NEW mode \in {"Pr", "Release", "Cockpit"}, NEW warn \in BOOLEAN
        PROVE  code(mode, warn) = lane(mode, warn)
    <3> DEFINE s == [settings EXCEPT !.mode = mode, !.warn_as_fail = warn]
    <3>1. code(mode, warn) = exit_code_from_report(Final(mode), mode, warn)
      <4>1. /\ settings \in Setting /\ settings.format # "Receipt" /\ mode # "Auto"
            /\ s = [settings EXCEPT !.mode = mode, !.warn_as_fail = warn]
        BY <2>0, SettingsAssumption DEF Printed
      <4> HIDE DEF s
      <4>2. /\ s.mode = mode /\ s.warn_as_fail = warn
            /\ s.format # "Receipt" /\ s.on_error = settings.on_error
        BY <4>1 DEF Setting
      <4>3. resolve(s.mode, s.env) = mode
        BY <4>1, <4>2 DEF resolve
      <4>4. code(mode, warn) = ReportResult(reports, s, config.kind).exit_code
        BY DEF s
      <4>5. ReportResult(reports, s, config.kind).exit_code =
              Code(s, build_receipt(Final(mode), {}, s.waivers, s.today), Final(mode))
        BY <4>2, <4>3 DEF ReportResult, Final
      <4> QED
        BY <4>2, <4>3, <4>4, <4>5 DEF Code
    <3> QED
      BY <2>0, <3>1, ReportCode
  <2> HIDE DEF code
  <2>2. /\ \A action : SomeBroken("Pr", action) <=> SomeBroken("Cockpit", action)
        /\ ~SomeBroken("Pr", "Fail") /\ ~SomeBroken("Release", "Warn")
        /\ SomeBroken("Pr", "Warn") => SomeBroken("Release", "Fail")
    <3>1. \A i \in DOMAIN reports :
            /\ ActionIn("Pr", i) \in {"Warn", "Skip"}
            /\ ActionIn("Release", i) \in {"Fail", "Warn", "Skip"}
      BY <2>0, ActionType DEF ErrorAction, baseline_errors_are_warnings
    <3> QED
      BY <2>0, <3>1, ActionsOfLanes DEF SomeBroken
  <2>3. ASSUME NEW warn \in BOOLEAN
        PROVE  /\ code("Release", warn) = 0 => code("Pr", warn) = 0
               /\ code("Pr", warn) = code("Cockpit", warn)
               /\ \A mode \in {"Pr", "Release"} :
                    code(mode, TRUE) # code(mode, FALSE) =>
                      code(mode, FALSE) = 0 /\ code(mode, TRUE) = 3
    BY <2>1, <2>2
  <2> QED
    BY <2>3, Zenon DEF LanesAreOrdered, code
<1> QED
  BY <1>1, AlwaysConcluded, PTL

(***************************************************************************)
(* Findings                                                                *)
(*                                                                         *)
(* Told for any list of reports rs, because a waived run is compared with  *)
(* one whose checks passed.                                                *)
(***************************************************************************)
\* The reports of a run: at most one per package, a kind with every failure and
\* a cause with every baseline error.
Coherent(rs) ==
  /\ rs \in Seq(Report)
  /\ \A i \in DOMAIN rs :
       /\ rs[i].failure_kind # None <=> rs[i].status = "Failed"
       /\ rs[i].baseline_error # None <=> rs[i].failure_kind = "BaselineError"
  /\ \A i, j \in DOMAIN rs : rs[i].name = rs[j].name => i = j

ActionOn(rs, mode, i) == effective_action(rs[i].baseline_error, settings.on_error, mode)
After(rs, mode) == apply_baseline_error_policy(rs, settings.on_error, mode)

\* What the runner saw fail, but for what the policy skips.
Told(rs, mode) ==
  { i \in DOMAIN rs :
      /\ rs[i].failure_kind # None
      /\ ~(rs[i].failure_kind = "BaselineError" /\ ActionOn(rs, mode, i) = "Skip") }

\* What the policy leaves of a report r: everything unless it is a baseline error.
Leaves(r, action, f) ==
  /\ r \in Report /\ f \in Report /\ action \in {"Fail", "Warn", "Skip"}
  /\ f.name = r.name /\ f.bump = r.bump
  /\ r.failure_kind # "BaselineError" => f = r
  /\ r.failure_kind = "BaselineError" =>
       /\ action = "Fail" =>
            /\ f.status = "Failed" /\ f.skip_reason = r.skip_reason
            /\ f.failure_kind = "BaselineError" /\ f.baseline_error = r.baseline_error
       /\ action = "Warn" =>
            /\ f.status = "Skipped" /\ f.skip_reason = "baseline warning"
            /\ f.failure_kind = "BaselineError" /\ f.baseline_error = r.baseline_error
       /\ action = "Skip" =>
            /\ f.status = "Skipped" /\ f.skip_reason = "baseline skipped"
            /\ f.failure_kind = None /\ f.baseline_error = None

LEMMA PolicyOn ==
  ASSUME settings \in Settings, NEW rs, Coherent(rs), NEW mode, NEW i \in DOMAIN rs
  PROVE  /\ DOMAIN After(rs, mode) = DOMAIN rs
         /\ Leaves(rs[i], ActionOn(rs, mode, i), After(rs, mode)[i])
<1> DEFINE action == ActionOn(rs, mode, i)
           r == rs[i]
           f == After(rs, mode)[i]
<1>1. /\ DOMAIN After(rs, mode) = DOMAIN rs
      /\ f = IF r.failure_kind # "BaselineError" THEN r ELSE Rewritten(r, action)
  BY DEF After, apply_baseline_error_policy, ActionOn
<1>2. r \in Report
  BY DEF Coherent
<1>3. action \in ErrorAction
  <2> DEFINE configured == configured_action(r.baseline_error, settings.on_error)
  <2>1. settings.on_error \in OnError
    BY SettingsAssumption DEF Setting
  <2>2. configured \in ErrorAction
    BY <2>1 DEF configured_action, OnError, OnErrorKey
  <2> HIDE DEF configured
  <2>3. action = LET strict == IF mode = "Release" /\ configured = "Warn" THEN "Fail"
                               ELSE configured
                 IN  IF strict = "Fail" /\ baseline_errors_are_warnings(mode) THEN "Warn"
                     ELSE strict
    BY DEF ActionOn, effective_action, configured
  <2> QED
    BY <2>2, <2>3 DEF ErrorAction
<1>4. /\ DOMAIN r = {"name", "status", "skip_reason", "engine", "bump",
                     "failure_kind", "baseline_error"}
      /\ r.name \in Pkg /\ r.engine \in BOOLEAN /\ r.bump \in RequiredBump \cup {None}
  BY <1>2 DEF Report
<1> HIDE DEF action, r, f
<1>5. CASE r.failure_kind # "BaselineError"
  BY <1>1, <1>2, <1>3, <1>5 DEF r, f, action, Leaves, ErrorAction
<1>6. CASE r.failure_kind = "BaselineError" /\ action = "Fail"
  <2>1. f = [r EXCEPT !.status = "Failed"]
    BY <1>1, <1>6 DEF Rewritten
  <2>2. f \in Report
    BY <1>2, <2>1 DEF Report, Status
  <2>3. /\ f.name = r.name /\ f.bump = r.bump /\ f.status = "Failed"
        /\ f.skip_reason = r.skip_reason
        /\ f.failure_kind = "BaselineError" /\ f.baseline_error = r.baseline_error
    BY <1>4, <1>6, <2>1
  <2> QED
    BY <1>1, <1>2, <1>3, <1>6, <2>2, <2>3 DEF r, f, action, Leaves, ErrorAction
<1>7. CASE r.failure_kind = "BaselineError" /\ action = "Warn"
  <2>1. f = [r EXCEPT !.status = "Skipped", !.skip_reason = "baseline warning"]
    BY <1>1, <1>7 DEF Rewritten
  <2>2. f \in Report
    BY <1>2, <2>1 DEF Report, Status
  <2>3. /\ f.name = r.name /\ f.bump = r.bump /\ f.status = "Skipped"
        /\ f.skip_reason = "baseline warning"
        /\ f.failure_kind = "BaselineError" /\ f.baseline_error = r.baseline_error
    BY <1>4, <1>7, <2>1
  <2> QED
    BY <1>1, <1>2, <1>3, <1>7, <2>2, <2>3 DEF r, f, action, Leaves, ErrorAction
<1>8. CASE r.failure_kind = "BaselineError" /\ action = "Skip"
  <2>1. f = [r EXCEPT !.status = "Skipped", !.skip_reason = "baseline skipped",
                      !.failure_kind = None, !.baseline_error = None]
    BY <1>1, <1>8 DEF Rewritten
  <2>2. f \in Report
    BY <1>2, <2>1 DEF Report, Status
  <2>3. /\ f.name = r.name /\ f.bump = r.bump /\ f.status = "Skipped"
        /\ f.skip_reason = "baseline skipped"
        /\ f.failure_kind = None /\ f.baseline_error = None
    BY <1>4, <1>8, <2>1
  <2> QED
    BY <1>1, <1>2, <1>3, <1>8, <2>2, <2>3 DEF r, f, action, Leaves, ErrorAction
<1> QED
  BY <1>3, <1>5, <1>6, <1>7, <1>8 DEF ErrorAction

\* A set of findings as the receipt gets them: at most one per package.
FindingSet(F) ==
  /\ F \in SUBSET Finding /\ IsFiniteSet(F)
  /\ \A f, g \in F : f.package = g.package => f = g

\* The kinds of a report, and its finding field by field.
LEMMA FindingFields ==
  ASSUME NEW r \in Report, r.failure_kind # None
  PROVE  /\ r.failure_kind \in FailureKind
         /\ FindingOf(r) \in Finding
         /\ FindingOf(r).package = r.name /\ FindingOf(r).bump = r.bump
         /\ FindingOf(r).waived = FALSE
         /\ FindingOf(r).check_id = CheckOf(r.failure_kind)
         /\ FindingOf(r).level = IF r.failure_kind = "BaselineError" THEN "Warning" ELSE "Error"
<1>1. /\ r.name \in Pkg /\ r.bump \in RequiredBump \cup {None}
      /\ r.failure_kind \in FailureKind
  BY DEF Report
<1>2. CheckOf(r.failure_kind) \in CheckId
  BY DEF CheckOf, CheckId
<1> QED
  BY <1>1, <1>2 DEF FindingOf, Finding

\* A finding for each package that failed, but for what the policy skips.
LEMMA FindingsOf ==
  ASSUME settings \in Settings, NEW rs, Coherent(rs), NEW mode
  PROVE  /\ Told(rs, mode) \subseteq DOMAIN rs
         /\ Told(rs, mode)
              = { i \in DOMAIN rs : is_finding_relevant_package(After(rs, mode)[i]) }
         /\ build_findings(After(rs, mode)) = { FindingOf(rs[i]) : i \in Told(rs, mode) }
         /\ \A i \in Told(rs, mode) :
              /\ rs[i] \in Report /\ rs[i].failure_kind # None
              /\ After(rs, mode)[i].failure_kind = rs[i].failure_kind
<1> DEFINE final == After(rs, mode)
<1>1. ASSUME NEW i \in DOMAIN rs
      PROVE  /\ is_finding_relevant_package(final[i]) <=> i \in Told(rs, mode)
             /\ rs[i] \in Report
             /\ i \in Told(rs, mode) =>
                  /\ FindingOf(final[i]) = FindingOf(rs[i])
                  /\ final[i].failure_kind = rs[i].failure_kind
  <2> DEFINE r == rs[i]
             f == final[i]
             action == ActionOn(rs, mode, i)
  <2>1. Leaves(r, action, f)
    BY PolicyOn
  <2>2. r.failure_kind # None <=> r.status = "Failed"
    BY DEF Coherent
  <2>3. i \in Told(rs, mode) <=>
          r.failure_kind # None /\ ~(r.failure_kind = "BaselineError" /\ action = "Skip")
    BY DEF Told
  <2> HIDE DEF r, f, action
  <2>4. is_finding_relevant_package(f) <=> i \in Told(rs, mode)
    BY <2>1, <2>2, <2>3 DEF is_finding_relevant_package, None, Leaves
  <2>5. i \in Told(rs, mode) => f.failure_kind = r.failure_kind
    BY <2>1, <2>3 DEF Leaves
  <2>6. i \in Told(rs, mode) => FindingOf(f) = FindingOf(r)
    BY <2>1, <2>5 DEF FindingOf, Leaves
  <2> QED
    BY <2>1, <2>4, <2>5, <2>6 DEF r, f, Leaves
<1>2. DOMAIN final = DOMAIN rs
  BY DEF After, apply_baseline_error_policy
<1>3. Told(rs, mode) \subseteq DOMAIN rs /\ \A i \in Told(rs, mode) : rs[i].failure_kind # None
  BY DEF Told
<1> HIDE DEF final
<1>4. Told(rs, mode) = { i \in DOMAIN rs : is_finding_relevant_package(final[i]) }
  BY <1>1, <1>3
<1>5. build_findings(final) = { FindingOf(final[i]) : i \in Told(rs, mode) }
  BY <1>2, <1>4 DEF build_findings
<1>6. { FindingOf(final[i]) : i \in Told(rs, mode) } = { FindingOf(rs[i]) : i \in Told(rs, mode) }
  BY <1>1, <1>3
<1> QED
  BY <1>1, <1>3, <1>4, <1>5, <1>6 DEF final

\* As many findings as packages that are told about.
LEMMA FindingsCount ==
  ASSUME settings \in Settings, NEW rs, Coherent(rs), NEW mode
  PROVE  /\ FindingSet(build_findings(After(rs, mode)))
         /\ IsFiniteSet(Told(rs, mode))
         /\ Cardinality(build_findings(After(rs, mode))) = Cardinality(Told(rs, mode))
<1> DEFINE I == Told(rs, mode)
           F == build_findings(After(rs, mode))
           h == [ i \in I |-> FindingOf(rs[i]) ]
<1>1. /\ I \subseteq DOMAIN rs /\ F = { FindingOf(rs[i]) : i \in I }
      /\ \A i \in I : rs[i] \in Report /\ rs[i].failure_kind # None
  BY FindingsOf, Zenon
<1>2. \A i \in I : FindingOf(rs[i]) \in Finding /\ FindingOf(rs[i]).package = rs[i].name
  BY <1>1, FindingFields
<1>3. \A i, j \in I : FindingOf(rs[i]).package = FindingOf(rs[j]).package => i = j
  BY <1>1, <1>2 DEF Coherent
<1>4. IsFiniteSet(I)
  <2>1. DOMAIN rs = 1..Len(rs) /\ Len(rs) \in Nat
    BY DEF Coherent
  <2>2. IsFiniteSet(DOMAIN rs)
    BY <2>1, FS_Interval
  <2> QED
    BY <1>1, <2>2, FS_Subset
<1> HIDE DEF I, F
<1>5. h \in Bijection(I, F)
  <2>1. h \in [I -> F] /\ \A f \in F : \E i \in I : h[i] = f
    BY <1>1
  <2>2. \A i, j \in I : h[i] = h[j] => i = j
    BY <1>3
  <2> QED
    BY <2>1, <2>2 DEF Bijection, Injection, Surjection, IsInjective
<1>6. ExistsBijection(I, F)
  BY <1>5 DEF ExistsBijection
<1>7. IsFiniteSet(F) /\ Cardinality(F) = Cardinality(I)
  BY <1>4, <1>6, FS_Bijection
<1>8. F \in SUBSET Finding /\ \A f, g \in F : f.package = g.package => f = g
  BY <1>1, <1>2, <1>3
<1> QED
  BY <1>4, <1>7, <1>8 DEF FindingSet, I, F


(***************************************************************************)
(* The receipt                                                             *)
(***************************************************************************)
Sorting(F) == { pair \in F \X F : Precedes(pair[1], pair[2]) }

\* Errors before warnings, then by package: an order of any set of findings of
\* different packages.
LEMMA SortingIsStrict ==
  ASSUME NEW F, FindingSet(F)
  PROVE  StrictOrder(F, Sorting(F))
<1>1. \A f, g : <<f, g>> \in Sorting(F) <=> f \in F /\ g \in F /\ Precedes(f, g)
  BY DEF Sorting
<1>2. \A f \in F : f.level \in {"Error", "Warning"} /\ f.package \in Int
  BY DEF FindingSet, Finding, Pkg, NoPackage
<1>3. \A f \in F : ~Precedes(f, f)
  BY <1>2 DEF Precedes
<1>4. \A f, g, h \in F : Precedes(f, g) /\ Precedes(g, h) => Precedes(f, h)
  BY <1>2 DEF Precedes
<1>5. \A f, g \in F : f # g => f.package # g.package
  BY DEF FindingSet
<1>6. \A f, g \in F : f # g => Precedes(f, g) \/ Precedes(g, f)
  BY <1>2, <1>5 DEF Precedes
<1> QED
  BY <1>1, <1>3, <1>4, <1>6 DEF StrictOrder

\* What the waivers make of a finding.
Judged(f, waivers, today) ==
  [f EXCEPT !.waived = \E w \in waivers : Waives(w, f, today)]

LEMMA JudgedFields ==
  ASSUME NEW f \in Finding, NEW waivers, NEW today
  PROVE  LET g == Judged(f, waivers, today)
         IN  /\ g \in Finding
             /\ g.package = f.package /\ g.check_id = f.check_id
             /\ g.level = f.level /\ g.bump = f.bump
             /\ g.waived <=> \E w \in waivers : Waives(w, f, today)
             /\ g.waived \in BOOLEAN
<1> DEFINE b == \E w \in waivers : Waives(w, f, today)
<1>1. b \in BOOLEAN
  OBVIOUS
<1>2. Judged(f, waivers, today) = [f EXCEPT !.waived = b]
  BY DEF Judged
<1> HIDE DEF b
<1>3. DOMAIN f = {"package", "check_id", "level", "bump", "waived"}
  BY DEF Finding
<1>4. [f EXCEPT !.waived = b] \in Finding
  BY <1>1 DEF Finding
<1>5. /\ [f EXCEPT !.waived = b].package = f.package
      /\ [f EXCEPT !.waived = b].check_id = f.check_id
      /\ [f EXCEPT !.waived = b].level = f.level
      /\ [f EXCEPT !.waived = b].bump = f.bump
      /\ [f EXCEPT !.waived = b].waived = b
  BY <1>3
<1> QED
  BY <1>1, <1>2, <1>4, <1>5, Zenon DEF b

\* How many findings of n a receipt has room for.
Room(n) == IF n <= MaxFindings THEN n ELSE MaxFindings

LEMMA RoomIsMin ==
  ASSUME NEW n \in Nat
  PROVE  Room(n) \in 0..n /\ Room(n) = Min({MaxFindings, n})
<1> DEFINE S == {MaxFindings, n}
<1>1. S \in SUBSET Nat /\ S # {} /\ MaxFindings \in S /\ n \in S
      /\ MaxFindings \in Nat \ {0}
  BY MaxFindingsAssumption
<1>2. \A x \in S : x = MaxFindings \/ x = n
  OBVIOUS
<1> HIDE DEF S
<1>3. Min(S) \in S /\ \A y \in S : Min(S) <= y
  BY <1>1, MinIsLeast
<1>4. Room(n) = Min(S)
  <2>1. Min(S) \in Nat /\ Min(S) <= n /\ Min(S) <= MaxFindings
    BY <1>1, <1>3
  <2>2. Min(S) = MaxFindings \/ Min(S) = n
    BY <1>2, <1>3
  <2> QED
    BY <1>1, <2>1, <2>2 DEF Room
<1> QED
  BY <1>1, <1>4 DEF S, Room

\* The findings of the reports and the tool errors.
AllFindings(rs, tools) == build_findings(rs) \cup tools

\* A receipt lists its findings in order, as far as there is room, each with
\* what the waivers make of it, and its verdict is about these.
LEMMA ReceiptHolds ==
  ASSUME NEW rs, NEW tools, FindingSet(AllFindings(rs, tools)), NEW waivers, NEW today
  PROVE  LET receipt == build_receipt(rs, tools, waivers, today)
             F == AllFindings(rs, tools)
             n == Cardinality(F)
             s == sort_findings(F)
         IN  /\ n \in Nat /\ s \in [1..n -> F]
             /\ \A f \in F : \E i \in 1..n : s[i] = f
             /\ \A i, j \in 1..n : s[i] = s[j] => i = j
             /\ \A i, j \in 1..n : i < j => Precedes(s[i], s[j])
             /\ receipt.total = n /\ DOMAIN receipt.findings = 1..Room(n)
             /\ receipt.findings \in Seq(Finding)
             /\ \A i \in 1..Room(n) : receipt.findings[i] = Judged(s[i], waivers, today)
             /\ receipt.verdict = derive_verdict(receipt.findings, rs, n > MaxFindings)
<1> DEFINE F == AllFindings(rs, tools)
           n == Cardinality(F)
           s == sort_findings(F)
           k == Room(n)
           waived == apply_waivers(s, waivers, today)
           cut == SubSeq(waived, 1, k)
<1>0. FindingSet(F) /\ F = build_findings(rs) \cup tools
  BY DEF AllFindings
<1> HIDE DEF F
<1>1. s = Ordered(F, Sorting(F))
  BY DEF sort_findings, Sorting
<1>2. /\ n \in Nat /\ s \in [1..n -> F]
      /\ \A f \in F : \E i \in 1..n : s[i] = f
      /\ \A i, j \in 1..n : s[i] = s[j] => i = j
      /\ \A i, j \in 1..n : i < j <=> <<s[i], s[j]>> \in Sorting(F)
  <2>1. IsFiniteSet(F) /\ StrictOrder(F, Sorting(F))
    BY <1>0, SortingIsStrict DEF FindingSet
  <2>2. LET t == Ordered(F, Sorting(F))
        IN  /\ Cardinality(F) \in Nat
            /\ t \in [1..Cardinality(F) -> F]
            /\ \A x \in F : \E i \in 1..Cardinality(F) : t[i] = x
            /\ \A i, j \in 1..Cardinality(F) : t[i] = t[j] => i = j
            /\ \A i, j \in 1..Cardinality(F) : i < j <=> <<t[i], t[j]>> \in Sorting(F)
    BY <2>1, OrderedHolds
  <2> HIDE DEF s
  <2> QED
    BY <1>1, <2>2, Zenon
<1>3. \A i, j \in 1..n : i < j => Precedes(s[i], s[j])
  BY <1>2 DEF Sorting
<1> HIDE DEF n, s
<1>4. \A i \in 1..n : s[i] \in Finding
  BY <1>0, <1>2 DEF FindingSet
<1>5. /\ waived \in [1..n -> Finding]
      /\ \A i \in 1..n : waived[i] = Judged(s[i], waivers, today)
  <2>1. waived = [ i \in 1..n |-> Judged(s[i], waivers, today) ]
    BY <1>2 DEF apply_waivers, Judged
  <2>2. \A i \in 1..n : Judged(s[i], waivers, today) \in Finding
    BY <1>4, JudgedFields
  <2> HIDE DEF waived
  <2> QED
    BY <2>1, <2>2
<1> HIDE DEF waived
<1>6. waived \in Seq(Finding) /\ Len(waived) = n
  BY <1>2, <1>5
<1>7. k \in 0..n /\ k = Min({MaxFindings, Len(waived)})
  BY <1>2, <1>6, RoomIsMin
<1> HIDE DEF k
<1>8. /\ cut \in Seq(Finding) /\ DOMAIN cut = 1..k
      /\ \A i \in 1..k : cut[i] = waived[i]
  <2>1. n \in Nat /\ k \in 0..n
    BY <1>2, <1>7
  <2> QED
    BY <1>6, <2>1
<1>9. build_receipt(rs, tools, waivers, today)
        = [findings |-> cut, total |-> Len(waived),
           verdict |-> derive_verdict(cut, rs, Len(waived) > MaxFindings)]
  BY <1>0, <1>7, Zenon DEF build_receipt, s, waived, cut
<1> HIDE DEF cut
<1>10. /\ build_receipt(rs, tools, waivers, today).findings = cut
       /\ build_receipt(rs, tools, waivers, today).total = n
       /\ build_receipt(rs, tools, waivers, today).verdict = derive_verdict(cut, rs, n > MaxFindings)
  BY <1>6, <1>9
<1>11. \A i \in 1..k : cut[i] = Judged(s[i], waivers, today)
  <2>1. \A i \in 1..k : i \in 1..n
    BY <1>2, <1>7
  <2> QED
    BY <1>5, <1>8, <2>1
<1> QED
  BY <1>2, <1>3, <1>8, <1>10, <1>11, Zenon DEF F, n, s, k


\* What a reader of a receipt of F may rely on: a finding of it is one of F,
\* judged, one per package; all of F are there if there is room, and all errors of F if
\* there is room for a warning.
Carries(receipt, F, waivers, today) ==
  LET found == receipt.findings
  IN  /\ found \in Seq(Finding)
      /\ receipt.total = Cardinality(F) /\ receipt.total \in Nat
      /\ \A i \in DOMAIN found : \E f \in F : found[i] = Judged(f, waivers, today)
      /\ \A i, j \in DOMAIN found : found[i].package = found[j].package => i = j
      /\ receipt.total <= MaxFindings =>
           \A f \in F : \E i \in DOMAIN found : found[i] = Judged(f, waivers, today)
      /\ (\E i \in DOMAIN found : found[i].level = "Warning") =>
           \A f \in F : f.level = "Error" =>
             \E i \in DOMAIN found : found[i] = Judged(f, waivers, today)

LEMMA ReceiptCarries ==
  ASSUME NEW rs, NEW tools, FindingSet(AllFindings(rs, tools)), NEW waivers, NEW today
  PROVE  Carries(build_receipt(rs, tools, waivers, today), AllFindings(rs, tools), waivers, today)
<1> DEFINE F == AllFindings(rs, tools)
           receipt == build_receipt(rs, tools, waivers, today)
           found == receipt.findings
           n == Cardinality(F)
           k == Room(n)
           s == sort_findings(F)
           judged(f) == Judged(f, waivers, today)
<1>1. /\ n \in Nat /\ s \in [1..n -> F]
      /\ \A f \in F : \E i \in 1..n : s[i] = f
      /\ \A i, j \in 1..n : s[i] = s[j] => i = j
      /\ \A i, j \in 1..n : i < j => Precedes(s[i], s[j])
      /\ receipt.total = n /\ DOMAIN found = 1..k
      /\ found \in Seq(Finding)
      /\ \A i \in 1..k : found[i] = judged(s[i])
  BY ReceiptHolds
<1>2. k \in 0..n /\ (n <= MaxFindings => k = n)
  BY <1>1, RoomIsMin DEF Room
<1>3. \A f \in F : /\ f \in Finding /\ judged(f).package = f.package
                   /\ judged(f).level = f.level
                   /\ f.level \in {"Error", "Warning"}
  <2>1. \A f \in F : f \in Finding
    BY Zenon DEF FindingSet
  <2>2. \A f \in Finding : f.level \in {"Error", "Warning"}
    BY DEF Finding
  <2> QED
    BY <2>1, <2>2, JudgedFields
<1>a. FindingSet(F)
  OBVIOUS
<1> HIDE DEF F, receipt, found, n, k, s, judged
<1>4. \A i \in 1..k : i \in 1..n /\ s[i] \in F
  BY <1>1, <1>2
<1>5. \A i \in DOMAIN found : \E f \in F : found[i] = judged(f)
  BY <1>1, <1>4
<1>6. ASSUME NEW i \in DOMAIN found, NEW j \in DOMAIN found, found[i].package = found[j].package
      PROVE  i = j
  <2>1. /\ i \in 1..n /\ j \in 1..n /\ s[i] \in F /\ s[j] \in F
        /\ found[i] = judged(s[i]) /\ found[j] = judged(s[j])
    BY <1>1, <1>4
  <2>2. s[i].package = s[j].package
    BY <1>3, <1>6, <2>1
  <2>3. s[i] = s[j]
    BY <1>a, <2>1, <2>2 DEF FindingSet
  <2> QED
    BY <1>1, <2>1, <2>3
<1>7. ASSUME n <= MaxFindings, NEW f \in F
      PROVE  \E i \in DOMAIN found : found[i] = judged(f)
  BY <1>1, <1>2, <1>7
<1>8. ASSUME NEW i \in DOMAIN found, found[i].level = "Warning", NEW f \in F, f.level = "Error"
      PROVE  \E j \in DOMAIN found : found[j] = judged(f)
  <2>1. PICK j \in 1..n : s[j] = f
    BY <1>1
  <2>2. i \in 1..k /\ i \in 1..n /\ s[i] \in F /\ s[i].level = "Warning"
    BY <1>1, <1>3, <1>4, <1>8
  <2>3. ~Precedes(s[i], s[j])
    BY <1>8, <2>1, <2>2 DEF Precedes
  <2>4. ~(i < j)
    BY <1>1, <2>1, <2>2, <2>3
  <2>5. j \in 1..k
    BY <1>1, <1>2, <2>1, <2>2, <2>4
  <2> QED
    BY <1>1, <2>1, <2>5
<1>9. Carries(receipt, F, waivers, today)
  BY <1>1, <1>5, <1>6, <1>7, <1>8, Zenon DEF Carries, found, judged, n
<1> QED
  BY <1>9 DEF receipt, F

\* Some finding of one of the checks counts.
Counts(receipt, checks) ==
  \E i \in DOMAIN receipt.findings :
    ~receipt.findings[i].waived /\ receipt.findings[i].check_id \in checks

\* The verdict of a receipt, and its exit code, by the findings that count.
LEMMA VerdictOf ==
  ASSUME NEW rs, NEW tools, FindingSet(AllFindings(rs, tools)),
         NEW waivers, NEW today, NEW warn
  PROVE  LET receipt == build_receipt(rs, tools, waivers, today)
         IN  /\ receipt.verdict.status =
                  IF Counts(receipt, Failing) THEN "Fail"
                  ELSE IF Counts(receipt, {"baseline"}) THEN "Warn"
                  ELSE IF all_skipped(rs) THEN "Skip" ELSE "Pass"
             /\ exit_code_from_receipt(receipt, warn) =
                  IF Counts(receipt, Failing)
                  THEN IF has_tool_error(receipt.findings) THEN 1 ELSE 2
                  ELSE IF Counts(receipt, {"baseline"}) /\ warn THEN 3
                  ELSE 0
<1> DEFINE receipt == build_receipt(rs, tools, waivers, today)
           found == receipt.findings
           live == { found[i].check_id : i \in { i \in DOMAIN found : ~found[i].waived } }
           truncated == Cardinality(AllFindings(rs, tools)) > MaxFindings
<1>1. receipt.verdict = derive_verdict(found, rs, truncated)
  BY ReceiptHolds
<1> HIDE DEF receipt
<1>2. derive_verdict(found, rs, truncated).status =
        IF live \cap Failing # {} THEN "Fail"
        ELSE IF "baseline" \in live THEN "Warn"
        ELSE IF all_skipped(rs) THEN "Skip" ELSE "Pass"
  BY DEF derive_verdict
<1>3. /\ live \cap Failing # {} <=> Counts(receipt, Failing)
      /\ "baseline" \in live <=> Counts(receipt, {"baseline"})
  BY DEF Counts
<1> HIDE DEF live, truncated
<1>4. receipt.verdict.status =
        IF Counts(receipt, Failing) THEN "Fail"
        ELSE IF Counts(receipt, {"baseline"}) THEN "Warn"
        ELSE IF all_skipped(rs) THEN "Skip" ELSE "Pass"
  BY <1>1, <1>2, <1>3
<1>5. exit_code_from_receipt(receipt, warn) =
        IF Counts(receipt, Failing)
        THEN IF has_tool_error(receipt.findings) THEN 1 ELSE 2
        ELSE IF Counts(receipt, {"baseline"}) /\ warn THEN 3
        ELSE 0
  <2>1. exit_code_from_receipt(receipt, warn) =
          CASE receipt.verdict.status = "Fail" -> IF has_tool_error(receipt.findings) THEN 1 ELSE 2
            [] receipt.verdict.status = "Warn" -> IF warn THEN 3 ELSE 0
            [] OTHER -> 0
    BY DEF exit_code_from_receipt
  <2> QED
    BY <1>4, <2>1
<1> QED
  BY <1>4, <1>5, Zenon DEF receipt


\* The receipt of the reports rs in a lane: a finding for what is told, judged.
LEMMA ReceiptOf ==
  ASSUME settings \in Settings, NEW rs, Coherent(rs), NEW mode, NEW waivers, NEW today
  PROVE  LET F == { FindingOf(rs[i]) : i \in Told(rs, mode) }
             receipt == build_receipt(After(rs, mode), {}, waivers, today)
         IN  /\ build_findings(After(rs, mode)) = F /\ AllFindings(After(rs, mode), {}) = F
             /\ FindingSet(F) /\ Carries(receipt, F, waivers, today)
             /\ receipt.total = Cardinality(Told(rs, mode))
<1> DEFINE F == { FindingOf(rs[i]) : i \in Told(rs, mode) }
           receipt == build_receipt(After(rs, mode), {}, waivers, today)
<1>1. build_findings(After(rs, mode)) = F
  BY FindingsOf
<1>2. AllFindings(After(rs, mode), {}) = build_findings(After(rs, mode))
  BY DEF AllFindings
<1>3. FindingSet(F) /\ Cardinality(F) = Cardinality(Told(rs, mode))
  BY <1>1, FindingsCount
<1> HIDE DEF F
<1>4. FindingSet(AllFindings(After(rs, mode), {}))
  BY <1>1, <1>2, <1>3
<1>5. Carries(receipt, AllFindings(After(rs, mode), {}), waivers, today)
  BY <1>4, ReceiptCarries
<1>6. Carries(receipt, F, waivers, today)
  BY <1>1, <1>2, <1>5
<1>7. receipt.total = Cardinality(F)
  BY <1>6 DEF Carries
<1> QED
  BY <1>1, <1>2, <1>3, <1>6, <1>7, Zenon DEF F

(***************************************************************************)
(* The result of a run                                                     *)
(***************************************************************************)
LEMMA CoherentReports ==
  ASSUME Inv
  PROVE  Coherent(reports)
BY DEF Inv, TypeOK, ReportedOnce, Coherent

\* The reports a reader is told about.
Telling == { i \in DOMAIN reports : Failed(i) /\ ~SkippedByPolicy(i) }

LEMMA TellingIsTold ==
  ASSUME Inv
  PROVE  Telling = Told(reports, Mode)
BY CoherentReports DEF Telling, Told, Coherent, Failed, SkippedByPolicy, Kind, Action, ActionOn

\* The finding f shows the report i.
Shows(f, i) ==
  /\ f \in Finding
  /\ f.package = reports[i].name /\ f.bump = reports[i].bump
  /\ f.check_id = CheckOf(Kind(i))
  /\ f.level = IF Kind(i) = "BaselineError" THEN "Warning" ELSE "Error"
  /\ f.waived \in BOOLEAN /\ (f.waived <=> Waived(i))

\* What run() returns if there is a report.
LEMMA TheResult ==
  ASSUME Inv, Concluded, Checked
  PROVE  LET final == After(reports, Mode)
         IN  /\ settings \in Settings /\ pc = "done"
             /\ result.report = final /\ result.summary = summarize(final)
             /\ result.receipt = build_receipt(final, {}, settings.waivers, settings.today)
             /\ result.capabilities = build_capability_context(config.kind, settings.git, final)
             /\ result.exit_code = Code(settings, result.receipt, final)
<1>1. /\ result = ReportResult(reports, settings, config.kind)
      /\ settings \in Settings /\ pc = "done"
  BY Results DEF Concluded
<1> QED
  BY <1>1 DEF ReportResult, After, Mode

\* The findings of the result show what is to be told: nothing else and nothing
\* twice, everything if the receipt is not cut, and all errors if it has a
\* warning.
LEMMA TheFindings ==
  ASSUME Inv, Concluded, Checked
  PROVE  LET found == result.receipt.findings
         IN  /\ found \in Seq(Finding)
             /\ result.receipt.total = Cardinality(Telling) /\ result.receipt.total \in Nat
             /\ \A k \in DOMAIN found : \E i \in Telling : Shows(found[k], i)
             /\ \A k, l \in DOMAIN found : found[k].package = found[l].package => k = l
             /\ Uncut => \A i \in Telling : \E k \in DOMAIN found : Shows(found[k], i)
             /\ (\E k \in DOMAIN found : found[k].level = "Warning") =>
                  \A i \in Telling : Kind(i) # "BaselineError" =>
                    \E k \in DOMAIN found : Shows(found[k], i)
<1> DEFINE found == result.receipt.findings
           F == { FindingOf(reports[i]) : i \in Telling }
           judged(f) == Judged(f, settings.waivers, settings.today)
<1>1. /\ result.receipt = build_receipt(After(reports, Mode), {}, settings.waivers, settings.today)
      /\ settings \in Settings /\ Coherent(reports) /\ Telling = Told(reports, Mode)
  BY TheResult, CoherentReports, TellingIsTold
<1>2. /\ Carries(result.receipt, F, settings.waivers, settings.today)
      /\ result.receipt.total = Cardinality(Telling)
  <2> DEFINE receipt == build_receipt(After(reports, Mode), {}, settings.waivers, settings.today)
             told == { FindingOf(reports[i]) : i \in Told(reports, Mode) }
  <2>1. /\ Carries(receipt, told, settings.waivers, settings.today)
        /\ receipt.total = Cardinality(Told(reports, Mode))
    BY <1>1, ReceiptOf
  <2>2. F = told /\ result.receipt = receipt
    BY <1>1
  <2> HIDE DEF F, told, receipt
  <2> QED
    BY <1>1, <2>1, <2>2
<1>3. ASSUME NEW i \in Telling
      PROVE  /\ Shows(judged(FindingOf(reports[i])), i)
             /\ FindingOf(reports[i]).level =
                  IF Kind(i) = "BaselineError" THEN "Warning" ELSE "Error"
  <2>1. reports[i] \in Report /\ reports[i].failure_kind # None
    BY <1>1, FindingsOf
  <2> DEFINE f == FindingOf(reports[i])
             g == judged(f)
  <2>2. /\ f \in Finding /\ f.package = reports[i].name /\ f.bump = reports[i].bump
        /\ f.check_id = CheckOf(Kind(i))
        /\ f.level = IF Kind(i) = "BaselineError" THEN "Warning" ELSE "Error"
    BY <2>1, FindingFields DEF Kind
  <2>3. Waived(i) <=> \E w \in settings.waivers : Waives(w, f, settings.today)
    BY DEF Waived
  <2> HIDE DEF f
  <2>4. /\ g \in Finding
        /\ g.package = f.package /\ g.check_id = f.check_id
        /\ g.level = f.level /\ g.bump = f.bump
        /\ g.waived <=> \E w \in settings.waivers : Waives(w, f, settings.today)
        /\ g.waived \in BOOLEAN
    BY <2>2, JudgedFields
  <2> HIDE DEF judged
  <2>5. Shows(g, i)
    BY <2>2, <2>3, <2>4 DEF Shows
  <2> QED
    BY <2>2, <2>5 DEF f
<1>4. /\ found \in Seq(Finding) /\ result.receipt.total \in Nat
      /\ \A k \in DOMAIN found : \E f \in F : found[k] = judged(f)
      /\ \A k, l \in DOMAIN found : found[k].package = found[l].package => k = l
      /\ Uncut => \A f \in F : \E k \in DOMAIN found : found[k] = judged(f)
      /\ (\E k \in DOMAIN found : found[k].level = "Warning") =>
           \A f \in F : f.level = "Error" => \E k \in DOMAIN found : found[k] = judged(f)
  BY <1>2, Zenon DEF Carries, Uncut
<1> HIDE DEF found, judged
<1>5. \A i \in Telling : FindingOf(reports[i]) \in F
  OBVIOUS
<1>6. \A f \in F : \E i \in Telling : f = FindingOf(reports[i])
  OBVIOUS
<1> HIDE DEF F
<1>7. \A k \in DOMAIN found : \E i \in Telling : Shows(found[k], i)
  BY <1>3, <1>4, <1>6
<1>8. ASSUME Uncut, NEW i \in Telling
      PROVE  \E k \in DOMAIN found : Shows(found[k], i)
  BY <1>3, <1>4, <1>5, <1>8
<1>9. ASSUME \E k \in DOMAIN found : found[k].level = "Warning",
             NEW i \in Telling, Kind(i) # "BaselineError"
      PROVE  \E k \in DOMAIN found : Shows(found[k], i)
  BY <1>3, <1>4, <1>5, <1>9
<1> QED
  BY <1>2, <1>4, <1>7, <1>8, <1>9, Zenon DEF found


\* What is told about has failed, and its check says how.
LEMMA TellingKinds ==
  ASSUME Inv, NEW i \in Telling
  PROVE  /\ i \in DOMAIN reports /\ reports[i] \in Report /\ Failed(i)
         /\ Kind(i) \in FailureKind
         /\ CheckOf(Kind(i)) = "semver" <=> Kind(i) = "SemverViolation"
         /\ CheckOf(Kind(i)) = "baseline" <=> Kind(i) = "BaselineError"
         /\ CheckOf(Kind(i)) = "tool.runtime" <=> Kind(i) = "ToolError"
         /\ CheckOf(Kind(i)) = "engine" <=> Kind(i) = "Unknown"
         /\ CheckOf(Kind(i)) \in Failing <=> Kind(i) # "BaselineError"
<1>1. i \in DOMAIN reports /\ reports[i] \in Report /\ Failed(i)
  BY DEF Inv, TypeOK, Telling
<1>2. Kind(i) \in FailureKind
  <2>1. reports[i].failure_kind \in FailureKind \cup {None} /\ reports[i].failure_kind # None
    BY <1>1 DEF Report, Inv, TypeOK, Failed
  <2> QED
    BY <2>1 DEF Kind
<1> QED
  BY <1>1, <1>2 DEF CheckOf, FailureKind, Failing

\* The verdict and the exit code of the receipt, by what the runner saw.
LEMMA TheVerdict ==
  ASSUME Inv, Concluded, Checked
  PROVE  LET found == result.receipt.findings
             live(C) == \E i \in Telling : ~Waived(i) /\ CheckOf(Kind(i)) \in C
         IN  /\ result.receipt.verdict.status =
                  IF Counts(result.receipt, Failing) THEN "Fail"
                  ELSE IF Counts(result.receipt, {"baseline"}) THEN "Warn"
                  ELSE IF all_skipped(result.report) THEN "Skip" ELSE "Pass"
             /\ \A warn : exit_code_from_receipt(result.receipt, warn) =
                  IF Counts(result.receipt, Failing)
                  THEN IF has_tool_error(found) THEN 1 ELSE 2
                  ELSE IF Counts(result.receipt, {"baseline"}) /\ warn THEN 3
                  ELSE 0
             /\ \A C : Counts(result.receipt, C) => live(C)
             /\ has_tool_error(found) => \E i \in Telling : Kind(i) = "ToolError"
             /\ Uncut => /\ \A C : live(C) => Counts(result.receipt, C)
                         /\ (\E i \in Telling : Kind(i) = "ToolError") => has_tool_error(found)
<1> DEFINE final == After(reports, Mode)
           receipt == build_receipt(final, {}, settings.waivers, settings.today)
           found == result.receipt.findings
           live(C) == \E i \in Telling : ~Waived(i) /\ CheckOf(Kind(i)) \in C
<1>1. /\ result.receipt = receipt /\ result.report = final
      /\ settings \in Settings /\ Coherent(reports)
  BY TheResult, CoherentReports
<1>2. FindingSet(AllFindings(final, {}))
  <2>1. /\ AllFindings(After(reports, Mode), {}) = { FindingOf(reports[i]) : i \in Told(reports, Mode) }
        /\ FindingSet({ FindingOf(reports[i]) : i \in Told(reports, Mode) })
    BY <1>1, ReceiptOf, Zenon
  <2> QED
    BY <2>1
<1> HIDE DEF final
<1>3. ASSUME NEW warn
      PROVE  /\ receipt.verdict.status =
                  IF Counts(receipt, Failing) THEN "Fail"
                  ELSE IF Counts(receipt, {"baseline"}) THEN "Warn"
                  ELSE IF all_skipped(final) THEN "Skip" ELSE "Pass"
             /\ exit_code_from_receipt(receipt, warn) =
                  IF Counts(receipt, Failing)
                  THEN IF has_tool_error(receipt.findings) THEN 1 ELSE 2
                  ELSE IF Counts(receipt, {"baseline"}) /\ warn THEN 3
                  ELSE 0
  BY <1>2, VerdictOf
<1>4. /\ \A k \in DOMAIN found : \E i \in Telling : Shows(found[k], i)
      /\ Uncut => \A i \in Telling : \E k \in DOMAIN found : Shows(found[k], i)
  BY TheFindings, Zenon
<1> HIDE DEF receipt, found
<1>5. ASSUME NEW C
      PROVE  /\ Counts(result.receipt, C) => live(C)
             /\ Uncut /\ live(C) => Counts(result.receipt, C)
  <2>1. Counts(result.receipt, C) <=> \E k \in DOMAIN found : ~found[k].waived /\ found[k].check_id \in C
    BY DEF Counts, found
  <2>2. \A k \in DOMAIN found, i \in Telling : Shows(found[k], i) =>
          (found[k].waived <=> Waived(i)) /\ found[k].check_id = CheckOf(Kind(i))
    BY DEF Shows
  <2> HIDE DEF live
  <2>3. live(C) <=> \E i \in Telling : ~Waived(i) /\ CheckOf(Kind(i)) \in C
    BY DEF live
  <2> QED
    BY <1>4, <2>1, <2>2, <2>3
<1>6. /\ has_tool_error(found) => \E i \in Telling : Kind(i) = "ToolError"
      /\ Uncut /\ (\E i \in Telling : Kind(i) = "ToolError") => has_tool_error(found)
  <2>1. \A k \in DOMAIN found, i \in Telling : Shows(found[k], i) =>
          (found[k].check_id = "tool.runtime" <=> Kind(i) = "ToolError")
    BY TellingKinds DEF Shows
  <2> QED
    BY <1>4, <2>1 DEF has_tool_error
<1> QED
  BY <1>1, <1>3, <1>5, <1>6, Zenon DEF found, live

\* What the runner saw fail is in the receipt, one finding per package, unless
\* the policy skips it, and nothing else is.
THEOREM FailuresAreTold == PSpec => []FailuresAreFindings
<1>1. Inv /\ Concluded => FailuresAreFindings
  <2> SUFFICES ASSUME Inv, Concluded, Checked
               PROVE  FailuresAreFindings
    BY DEF FailuresAreFindings
  <2> DEFINE found == result.receipt.findings
  <2>1. /\ result.receipt.total = Cardinality(Telling)
        /\ \A k \in DOMAIN found : \E i \in Telling : Shows(found[k], i)
        /\ Uncut => \A i \in Telling : \E k \in DOMAIN found : Shows(found[k], i)
    BY TheFindings, Zenon
  <2>2. \A k \in DOMAIN found, i \in Telling : Shows(found[k], i) =>
          found[k].package = reports[i].name /\ found[k].check_id = CheckOf(Kind(i))
    BY DEF Shows
  <2> HIDE DEF found
  <2>3. Uncut => { found[k].package : k \in DOMAIN found } = { reports[i].name : i \in Telling }
    BY <2>1, <2>2
  <2>4. \A k \in DOMAIN found : \E i \in Telling :
          found[k].package = reports[i].name /\ found[k].check_id = CheckOf(Kind(i))
    BY <2>1, <2>2
  <2>5. Telling = { i \in DOMAIN reports : Failed(i) /\ ~SkippedByPolicy(i) }
    BY DEF Telling
  <2> HIDE DEF Telling
  <2> QED
    BY <2>1, <2>3, <2>4, <2>5, Zenon DEF FailuresAreFindings, found
<1> QED
  BY <1>1, AlwaysConcluded, PTL

(***************************************************************************)
(* The cut                                                                 *)
(***************************************************************************)
\* A set that holds whatever is before one of its elements is a beginning.
LEMMA BeginningOf ==
  ASSUME NEW n \in Nat, NEW P \in SUBSET (1..n),
         \A i \in P : \A j \in 1..n : j < i => j \in P
  PROVE  \E e \in 0..n : P = 1..e
<1>1. CASE P = 1..n
  BY <1>1
<1>2. CASE P # 1..n
  <2> DEFINE Rest == (1..n) \ P
  <2>1. Rest \in SUBSET Nat /\ Rest # {}
    <3>1. PICK x \in 1..n : x \notin P
      BY <1>2
    <3>2. x \in Rest
      BY <3>1
    <3> QED
      BY <3>2
  <2>2. Min(Rest) \in Rest /\ \A y \in Rest : Min(Rest) <= y
    BY <2>1, MinIsLeast
  <2> DEFINE m == Min(Rest)
  <2>3. m \in 1..n /\ m \notin P /\ \A y \in 1..n : y < m => y \in P
    BY <2>2
  <2> HIDE DEF m, Rest
  <2>4. \A i \in P : i \in 1..n /\ i # m /\ ~(m < i)
    BY <2>3
  <2>5. P = 1..(m - 1)
    <3>1. \A i \in P : i \in 1..(m - 1)
      BY <2>3, <2>4
    <3>2. \A i \in 1..(m - 1) : i \in P
      BY <2>3
    <3> QED
      BY <3>1, <3>2
  <2>6. m - 1 \in 0..n
    BY <2>3
  <2> QED
    BY <2>5, <2>6
<1> QED
  BY <1>1, <1>2

\* When a receipt is cut, warnings go first: it has all errors, or as many as
\* there is room for.
THEOREM ErrorsComeFirst == PSpec => []ErrorsSurviveTheCut
<1>1. Inv /\ Concluded => ErrorsSurviveTheCut
  <2> SUFFICES ASSUME Inv, Concluded, Checked
               PROVE  ErrorsSurviveTheCut
    BY DEF ErrorsSurviveTheCut
  <2> DEFINE F == AllFindings(After(reports, Mode), {})
             n == Cardinality(F)
             s == sort_findings(F)
             found == result.receipt.findings
             errors == { i \in DOMAIN reports : Failed(i) /\ Kind(i) # "BaselineError" }
             P == { k \in 1..n : s[k].level = "Error" }
  <2>1. /\ result.receipt = build_receipt(After(reports, Mode), {}, settings.waivers, settings.today)
        /\ settings \in Settings /\ Coherent(reports) /\ Telling = Told(reports, Mode)
    BY TheResult, CoherentReports, TellingIsTold
  <2>2. F = { FindingOf(reports[i]) : i \in Telling } /\ FindingSet(F)
    <3>1. /\ AllFindings(After(reports, Mode), {}) = { FindingOf(reports[i]) : i \in Told(reports, Mode) }
          /\ FindingSet({ FindingOf(reports[i]) : i \in Told(reports, Mode) })
      BY <2>1, ReceiptOf, Zenon
    <3> QED
      BY <2>1, <3>1, Zenon
  <2>3. /\ n \in Nat /\ s \in [1..n -> F]
        /\ \A f \in F : \E i \in 1..n : s[i] = f
        /\ \A i, j \in 1..n : s[i] = s[j] => i = j
        /\ \A i, j \in 1..n : i < j => Precedes(s[i], s[j])
        /\ DOMAIN found = 1..Room(n)
        /\ \A i \in 1..Room(n) : found[i] = Judged(s[i], settings.waivers, settings.today)
    BY <2>1, <2>2, ReceiptHolds
  <2> HIDE DEF F, n, s, found
  <2>4. ASSUME NEW i \in 1..n
        PROVE  s[i] \in F /\ s[i] \in Finding /\ s[i].level \in {"Error", "Warning"}
    BY <2>2, <2>3 DEF FindingSet, Finding
  <2>5. \E e \in 0..n : P = 1..e
    <3>1. ASSUME NEW i \in P, NEW j \in 1..n, j < i
          PROVE  j \in P
      BY <2>3, <2>4, <3>1 DEF Precedes
    <3> QED
      BY <2>3, <3>1, BeginningOf
  <2>6. PICK e \in 0..n : P = 1..e
    BY <2>5
  <2>7. IsFiniteSet(P) /\ Cardinality(P) = e
    <3>1. e \in Int /\ e >= 0
      BY <2>3, <2>6
    <3>2. IsFiniteSet(1..e) /\ Cardinality(1..e) = e
      BY <3>1, FS_Interval
    <3> QED
      BY <2>6, <3>2, Zenon
  <2>8. errors = { i \in Telling : Kind(i) # "BaselineError" }
    BY DEF Telling, SkippedByPolicy
  <2>9. /\ \A i \in errors : FindingOf(reports[i]) \in F
        /\ \A i \in errors : FindingOf(reports[i]).level = "Error"
        /\ \A i, j \in errors : FindingOf(reports[i]) = FindingOf(reports[j]) => i = j
        /\ \A f \in F : f.level = "Error" => \E i \in errors : f = FindingOf(reports[i])
    <3>1. ASSUME NEW i \in Telling
          PROVE  /\ FindingOf(reports[i]).package = reports[i].name
                 /\ FindingOf(reports[i]).level =
                      IF Kind(i) = "BaselineError" THEN "Warning" ELSE "Error"
      <4>1. reports[i] \in Report /\ reports[i].failure_kind # None
        BY <2>1, FindingsOf
      <4> QED
        BY <4>1, FindingFields DEF Kind
    <3> HIDE DEF errors
    <3>2. \A i, j \in Telling : reports[i].name = reports[j].name => i = j
      BY TellingKinds DEF Inv, ReportedOnce
    <3> QED
      BY <2>2, <2>8, <3>1, <3>2
  <2> HIDE DEF errors
  <2>10. Cardinality(errors) = e
    <3> DEFINE h == [ i \in errors |-> CHOOSE k \in 1..n : s[k] = FindingOf(reports[i]) ]
    <3>1. ASSUME NEW i \in errors
          PROVE  h[i] \in P /\ s[h[i]] = FindingOf(reports[i])
      <4>1. \E k \in 1..n : s[k] = FindingOf(reports[i])
        BY <2>3, <2>9
      <4>2. h[i] \in 1..n /\ s[h[i]] = FindingOf(reports[i])
        BY <4>1
      <4> QED
        BY <2>9, <4>2
    <3>2. h \in [errors -> P]
      BY <3>1
    <3> HIDE DEF h
    <3>3. \A i, j \in errors : h[i] = h[j] => i = j
      BY <2>9, <3>1
    <3>4. ASSUME NEW k \in P
          PROVE  \E i \in errors : h[i] = k
      <4>1. k \in 1..n /\ s[k] \in F /\ s[k].level = "Error"
        BY <2>4
      <4>2. PICK i \in errors : s[k] = FindingOf(reports[i])
        BY <2>9, <4>1
      <4>3. h[i] \in 1..n /\ s[h[i]] = s[k]
        BY <3>1, <4>2
      <4> QED
        BY <2>3, <4>1, <4>2, <4>3
    <3>5. h \in Injection(errors, P) /\ h \in Surjection(errors, P)
      BY <3>2, <3>3, <3>4 DEF Injection, Surjection, IsInjective
    <3>6. IsFiniteSet(errors) /\ Cardinality(errors) = Cardinality(P)
      BY <2>7, <3>5, FS_Injection
    <3> QED
      BY <2>7, <3>6
  <2> DEFINE kept == { k \in DOMAIN found : found[k].level = "Error" }
  <2>11. Room(n) \in 0..n /\ Room(n) = IF n <= MaxFindings THEN n ELSE MaxFindings
    BY <2>3, RoomIsMin DEF Room
  <2>12. kept = 1..Room(e)
    <3>1. MaxFindings \in Nat
      BY MaxFindingsAssumption
    <3>2. \A k \in 1..Room(n) : k \in 1..n /\ found[k].level = s[k].level
      BY <2>3, <2>4, <2>11, JudgedFields
    <3>3. kept = { k \in 1..Room(n) : k \in P }
      BY <2>3, <3>2
    <3>4. \A k : k \in 1..Room(n) /\ k \in 1..e <=> k \in 1..Room(e)
      BY <2>3, <2>6, <2>11, <3>1 DEF Room
    <3> QED
      BY <2>6, <3>3, <3>4
  <2>13. Cardinality(kept) = Room(e)
    <3>1. e \in Nat
      BY <2>3, <2>6
    <3>2. Room(e) \in Int /\ Room(e) >= 0
      BY <3>1, MaxFindingsAssumption DEF Room
    <3>3. Cardinality(1..Room(e)) = Room(e)
      BY <3>2, FS_Interval
    <3> QED
      BY <2>12, <3>3, Zenon
  <2>14. Room(e) = Min({e, MaxFindings})
    <3>1. e \in Nat /\ {e, MaxFindings} = {MaxFindings, e}
      BY <2>3, <2>6
    <3>2. Room(e) = Min({MaxFindings, e})
      BY <3>1, RoomIsMin
    <3> QED
      BY <3>1, <3>2
  <2> QED
    BY <2>10, <2>13, <2>14, Zenon DEF ErrorsSurviveTheCut, errors, found
<1> QED
  BY <1>1, AlwaysConcluded, PTL

(***************************************************************************)
(* What the exit code means, in every format                               *)
(***************************************************************************)
\* A run that ends with a receipt.
Receipted == Checked /\ settings.format = "Receipt"

LEMMA ReceiptedCode ==
  ASSUME Inv, Concluded, Receipted
  PROVE  /\ result.exit_code =
              IF Counts(result.receipt, Failing)
              THEN IF has_tool_error(result.receipt.findings) THEN 1 ELSE 2
              ELSE IF Counts(result.receipt, {"baseline"}) /\ settings.warn_as_fail THEN 3
              ELSE 0
         /\ settings.warn_as_fail \in BOOLEAN
<1>1. result.exit_code = exit_code_from_receipt(result.receipt, settings.warn_as_fail)
  BY TheResult DEF Receipted, Code
<1>2. settings.warn_as_fail \in BOOLEAN
  BY SettingsAssumption DEF Concluded, Setting
<1>3. \A warn : exit_code_from_receipt(result.receipt, warn) =
        IF Counts(result.receipt, Failing)
        THEN IF has_tool_error(result.receipt.findings) THEN 1 ELSE 2
        ELSE IF Counts(result.receipt, {"baseline"}) /\ warn THEN 3
        ELSE 0
  BY TheVerdict, Zenon DEF Receipted
<1> QED
  BY <1>1, <1>2, <1>3

\* What is live when a receipt is asked for.
LEMMA ReceiptedLive ==
  ASSUME Receipted, NEW i \in DOMAIN reports
  PROVE  Live(i) <=> i \in Telling /\ ~Waived(i)
BY DEF Receipted, Live, Telling

\* An exit code of zero is earned, in every format: whatever failed was waived,
\* or is a baseline error that the policy skips or lets pass as a warning.
THEOREM ZeroIsClean == PSpec => []ZeroMeansClean
<1>1. Inv /\ Concluded /\ Receipted => ZeroMeansClean
  <2> SUFFICES ASSUME Inv, Concluded, Receipted, Uncut, result.exit_code = 0,
                      NEW i \in DOMAIN reports, Live(i)
               PROVE  Kind(i) = "BaselineError" /\ ~settings.warn_as_fail
    BY DEF ZeroMeansClean, Receipted
  <2>1. i \in Telling /\ ~Waived(i)
    BY ReceiptedLive
  <2>2. \A C : CheckOf(Kind(i)) \in C => Counts(result.receipt, C)
    <3>1. \A C : (\E j \in Telling : ~Waived(j) /\ CheckOf(Kind(j)) \in C) =>
                   Counts(result.receipt, C)
      BY TheVerdict, Zenon DEF Receipted
    <3> QED
      BY <2>1, <3>1
  <2>3. /\ ~Counts(result.receipt, Failing)
        /\ ~(Counts(result.receipt, {"baseline"}) /\ settings.warn_as_fail)
    BY ReceiptedCode
  <2>4. CheckOf(Kind(i)) \notin Failing
    BY <2>2, <2>3
  <2>5. Kind(i) = "BaselineError" /\ CheckOf(Kind(i)) = "baseline"
    BY <2>1, <2>4, TellingKinds
  <2> QED
    BY <2>2, <2>3, <2>5
<1>2. Checked => Printed \/ Receipted
  BY DEF Printed, Receipted
<1>3. ~Checked => ZeroMeansClean
  BY DEF ZeroMeansClean
<1> QED
  BY <1>1, <1>2, <1>3, PrintedZeroIsClean, AlwaysConcluded, PTL

\* Every other exit code has its cause among the checks, in every format and
\* however much of the receipt is cut off.
THEOREM CodeHasCause == PSpec => []ExitCodeHasCause
<1>1. Inv /\ Concluded /\ Receipted => ExitCodeHasCause
  <2> SUFFICES ASSUME Inv, Concluded, Receipted
               PROVE  ExitCodeHasCause
    OBVIOUS
  <2> DEFINE found == result.receipt.findings
  <2>1. /\ \A C : Counts(result.receipt, C) =>
             \E i \in Telling : ~Waived(i) /\ CheckOf(Kind(i)) \in C
        /\ has_tool_error(found) => \E i \in Telling : Kind(i) = "ToolError"
    BY TheVerdict, Zenon DEF Receipted
  <2>2. \A i \in Telling : i \in DOMAIN reports /\ (~Waived(i) => Live(i))
    BY ReceiptedLive, TellingKinds
  <2>3. ASSUME result.exit_code = 1
        PROVE  \E i \in DOMAIN reports : Kind(i) = "ToolError"
    <3>1. has_tool_error(found)
      BY <2>3, ReceiptedCode
    <3> QED
      BY <2>1, <2>2, <3>1
  <2>4. ASSUME result.exit_code = 2
        PROVE  LiveKinds \cap {"SemverViolation", "Unknown"} # {}
    <3>1. Counts(result.receipt, Failing) /\ ~has_tool_error(found)
      BY <2>4, ReceiptedCode
    <3>2. PICK k \in DOMAIN found : ~found[k].waived /\ found[k].check_id \in Failing
      BY <3>1 DEF Counts
    <3>3. PICK i \in Telling : Shows(found[k], i)
      <4>1. \A l \in DOMAIN found : \E i \in Telling : Shows(found[l], i)
        BY TheFindings, Zenon DEF Receipted
      <4> QED
        BY <3>2, <4>1
    <3>4. ~Waived(i) /\ CheckOf(Kind(i)) \in Failing /\ CheckOf(Kind(i)) # "tool.runtime"
      BY <3>1, <3>2, <3>3 DEF Shows, has_tool_error
    <3>5. Kind(i) \in {"SemverViolation", "Unknown"} /\ Live(i)
      BY <2>2, <3>4, TellingKinds DEF Failing
    <3> QED
      BY <2>2, <3>5 DEF LiveKinds
  <2>5. ASSUME result.exit_code = 3
        PROVE  LiveKinds = {"BaselineError"}
    <3>1. ~Counts(result.receipt, Failing) /\ Counts(result.receipt, {"baseline"})
      BY <2>5, ReceiptedCode
    <3>2. PICK k \in DOMAIN found : ~found[k].waived /\ found[k].check_id = "baseline"
      BY <3>1 DEF Counts
    <3>3. /\ \A l \in DOMAIN found : \E i \in Telling : Shows(found[l], i)
          /\ (\E l \in DOMAIN found : found[l].level = "Warning") =>
               \A i \in Telling : Kind(i) # "BaselineError" =>
                 \E l \in DOMAIN found : Shows(found[l], i)
      BY TheFindings, Zenon DEF Receipted
    <3>4. PICK i \in Telling : Shows(found[k], i)
      BY <3>2, <3>3
    <3>5. Kind(i) = "BaselineError" /\ Live(i) /\ found[k].level = "Warning"
      BY <2>2, <3>2, <3>4, TellingKinds DEF Shows
    <3>6. ASSUME NEW j \in DOMAIN reports, Live(j)
          PROVE  Kind(j) = "BaselineError"
      <4>1. j \in Telling /\ ~Waived(j)
        BY <3>6, ReceiptedLive
      <4>2. SUFFICES ASSUME Kind(j) # "BaselineError"
                     PROVE  FALSE
        OBVIOUS
      <4>3. PICK l \in DOMAIN found : Shows(found[l], j)
        BY <3>2, <3>3, <3>5, <4>1, <4>2
      <4>4. ~found[l].waived /\ found[l].check_id \in Failing
        BY <4>1, <4>2, <4>3, TellingKinds DEF Shows
      <4> QED
        BY <3>1, <4>3, <4>4 DEF Counts
    <3>7. i \in DOMAIN reports
      BY <2>2
    <3> QED
      BY <3>5, <3>6, <3>7 DEF LiveKinds
  <2>6. result.exit_code \in {0, 1, 2, 3}
    BY ReceiptedCode
  <2> QED
    BY <2>3, <2>4, <2>5, <2>6 DEF ExitCodeHasCause
<1>2. Checked => Printed \/ Receipted
  BY DEF Printed, Receipted
<1>3. ~Checked => ExitCodeHasCause
  BY DEF ExitCodeHasCause
<1> QED
  BY <1>1, <1>2, <1>3, PrintedCodeHasCause, AlwaysConcluded, PTL


\* The lanes tell of the same packages: a baseline error that one lane skips
\* every lane skips.
LEMMA LanesTellTheSame ==
  ASSUME settings \in Settings, NEW rs, NEW mode \in {"Pr", "Release", "Cockpit"}
  PROVE  Told(rs, mode) = Told(rs, "Pr")
<1>1. \A i : ActionOn(rs, mode, i) = "Skip" <=> ActionOn(rs, "Pr", i) = "Skip"
  BY DEF ActionOn, effective_action, baseline_errors_are_warnings
<1> QED
  BY <1>1 DEF Told

\* A lenient lane accepts what the release lane accepts, the lenient lanes agree,
\* and warn_as_fail only ever turns a 0 into a 3, in every format.
THEOREM TheLanesAreOrdered == PSpec => []LanesAreOrdered
<1>1. Inv /\ Concluded /\ Receipted => LanesAreOrdered
  <2> SUFFICES ASSUME Inv, Concluded, Receipted
               PROVE  LanesAreOrdered
    OBVIOUS
  <2> DEFINE code(mode, warn) ==
               ReportResult(reports, [settings EXCEPT !.mode = mode, !.warn_as_fail = warn],
                            config.kind).exit_code
             receipt(mode) ==
               build_receipt(After(reports, mode), {}, settings.waivers, settings.today)
             pr == receipt("Pr")
  <2>0. settings \in Settings /\ Coherent(reports)
    BY CoherentReports DEF Concluded
  <2>1. ASSUME NEW mode \in {"Pr", "Release", "Cockpit"}, NEW warn \in BOOLEAN
        PROVE  code(mode, warn) = exit_code_from_receipt(receipt(mode), warn)
    <3> DEFINE s == [settings EXCEPT !.mode = mode, !.warn_as_fail = warn]
    <3>1. /\ settings \in Setting /\ settings.format = "Receipt" /\ mode # "Auto"
          /\ s = [settings EXCEPT !.mode = mode, !.warn_as_fail = warn]
      BY <2>0, SettingsAssumption DEF Receipted
    <3> HIDE DEF s
    <3>2. /\ s.mode = mode /\ s.warn_as_fail = warn /\ s.format = "Receipt"
          /\ s.on_error = settings.on_error
          /\ s.waivers = settings.waivers /\ s.today = settings.today
      BY <3>1 DEF Setting
    <3>3. resolve(s.mode, s.env) = mode
      BY <3>1, <3>2 DEF resolve
    <3>4. code(mode, warn) = ReportResult(reports, s, config.kind).exit_code
      BY DEF s
    <3>5. ReportResult(reports, s, config.kind).exit_code =
            Code(s, receipt(mode), After(reports, mode))
      BY <3>2, <3>3 DEF ReportResult, After
    <3> QED
      BY <3>2, <3>4, <3>5 DEF Code
  <2>2. ASSUME NEW mode \in {"Pr", "Release", "Cockpit"}
        PROVE  /\ receipt(mode).findings = pr.findings
               /\ FindingSet(AllFindings(After(reports, mode), {}))
    <3> DEFINE F(m) == { FindingOf(reports[i]) : i \in Told(reports, m) }
    <3>1. ASSUME NEW m
          PROVE  /\ build_findings(After(reports, m)) = F(m)
                 /\ AllFindings(After(reports, m), {}) = F(m) /\ FindingSet(F(m))
      BY <2>0, ReceiptOf, Zenon
    <3>2. F(mode) = F("Pr")
      BY <2>0, LanesTellTheSame
    <3>3. build_findings(After(reports, mode)) = build_findings(After(reports, "Pr"))
      BY <3>1, <3>2, Zenon
    <3> DEFINE waived(B) == apply_waivers(sort_findings(B \cup {}), settings.waivers, settings.today)
               cut(B) == SubSeq(waived(B), 1, Min({MaxFindings, Len(waived(B))}))
    <3>4. ASSUME NEW rs
          PROVE  build_receipt(rs, {}, settings.waivers, settings.today).findings
                   = cut(build_findings(rs))
      BY DEF build_receipt
    <3> HIDE DEF cut
    <3>5. receipt(mode).findings = pr.findings
      BY <3>3, <3>4
    <3> QED
      BY <3>1, <3>5, Zenon
  <2>3. ASSUME NEW mode \in {"Pr", "Release", "Cockpit"}, NEW warn \in BOOLEAN
        PROVE  code(mode, warn) =
                 IF Counts(pr, Failing) THEN IF has_tool_error(pr.findings) THEN 1 ELSE 2
                 ELSE IF Counts(pr, {"baseline"}) /\ warn THEN 3
                 ELSE 0
    <3> HIDE DEF code, receipt
    <3> DEFINE r == build_receipt(After(reports, mode), {}, settings.waivers, settings.today)
    <3>1. exit_code_from_receipt(r, warn) =
            IF Counts(r, Failing) THEN IF has_tool_error(r.findings) THEN 1 ELSE 2
            ELSE IF Counts(r, {"baseline"}) /\ warn THEN 3
            ELSE 0
      BY <2>2, VerdictOf
    <3>2. r = receipt(mode)
      BY DEF receipt
    <3> HIDE DEF r, pr
    <3>3. r.findings = pr.findings
      BY <2>2, <3>2
    <3>4. \A C : Counts(r, C) <=> Counts(pr, C)
      BY <3>3 DEF Counts
    <3> QED
      BY <2>1, <3>1, <3>2, <3>3, <3>4
  <2> HIDE DEF code, pr
  <2>4. ASSUME NEW warn \in BOOLEAN
        PROVE  /\ code("Release", warn) = 0 => code("Pr", warn) = 0
               /\ code("Pr", warn) = code("Cockpit", warn)
               /\ \A mode \in {"Pr", "Release"} :
                    code(mode, TRUE) # code(mode, FALSE) =>
                      code(mode, FALSE) = 0 /\ code(mode, TRUE) = 3
    BY <2>3
  <2> QED
    BY <2>4, Zenon DEF LanesAreOrdered, code
<1>2. Checked => Printed \/ Receipted
  BY DEF Printed, Receipted
<1>3. ~Checked => LanesAreOrdered
  BY DEF LanesAreOrdered
<1> QED
  BY <1>1, <1>2, <1>3, PrintedLanesAreOrdered, AlwaysConcluded, PTL

\* The exit code of the report and that of its receipt agree, unless a waiver, the
\* cut, or a release lane that fails on nothing but baseline errors comes between.
THEOREM TheFormatsAgree == PSpec => []FormatsAgree
<1>1. Inv /\ Concluded => FormatsAgree
  <2> SUFFICES ASSUME Inv, Concluded, Checked, Uncut, settings.waivers = {},
                      Mode = "Release" /\ ~settings.warn_as_fail => LiveKinds # {"BaselineError"},
                      NEW format \in {"Receipt", "Text"}
               PROVE  Code([settings EXCEPT !.format = format], result.receipt, result.report)
                        = result.exit_code
    BY DEF FormatsAgree
  <2> DEFINE found == result.receipt.findings
             warn == settings.warn_as_fail
             fromReceipt == exit_code_from_receipt(result.receipt, warn)
             fromReport == exit_code_from_report(result.report, Mode, warn)
  <2>1. /\ settings \in Setting /\ settings \in Settings /\ warn \in BOOLEAN
        /\ result.report = After(reports, Mode)
        /\ result.exit_code = Code(settings, result.receipt, result.report)
    BY TheResult, SettingsAssumption DEF Setting
  <2>2. TypeOK /\ \A i : ~Waived(i)
    BY DEF Inv, Waived
  <2>3. Mode \in {"Pr", "Release", "Cockpit"}
    <3>1. settings.mode \in RunModes
      BY <2>1 DEF Setting
    <3> QED
      BY <3>1 DEF Mode, resolve, detect_from_env, RunModes
  <2>4. fromReport =
          IF SomeOf({"ToolError"}) THEN 1
          ELSE IF SomeOf({"SemverViolation", "Unknown"}) THEN 2
          ELSE IF SomeBroken(Mode, "Fail") THEN 3
          ELSE IF SomeBroken(Mode, "Warn") /\ warn THEN 3
          ELSE 0
    <3>1. result.report = Final(Mode)
      BY <2>1 DEF Final, After
    <3> QED
      BY <2>1, <2>2, <3>1, ReportCode
  <2>5. /\ fromReceipt =
             IF Counts(result.receipt, Failing) THEN IF has_tool_error(found) THEN 1 ELSE 2
             ELSE IF Counts(result.receipt, {"baseline"}) /\ warn THEN 3
             ELSE 0
        /\ \A C : Counts(result.receipt, C) <=>
             \E i \in Telling : ~Waived(i) /\ CheckOf(Kind(i)) \in C
        /\ has_tool_error(found) <=> \E i \in Telling : Kind(i) = "ToolError"
    BY TheVerdict, Zenon
  <2> HIDE DEF fromReceipt, fromReport, found
  <2>6. /\ \A i \in Telling : i \in DOMAIN reports /\ Kind(i) \in FailureKind
        /\ \A i \in DOMAIN reports :
             i \in Telling <=> Kind(i) # None /\ ~(Broken(i) /\ ActionIn(Mode, i) = "Skip")
        /\ \A i \in DOMAIN reports : ActionIn(Mode, i) \in {"Fail", "Warn", "Skip"}
    <3>1. \A i \in DOMAIN reports : Failed(i) <=> Kind(i) # None
      BY <2>2 DEF TypeOK, Failed, Kind
    <3> QED
      BY <2>1, <3>1, TellingKinds, ActionType
         DEF Telling, SkippedByPolicy, Action, ActionIn, Broken, ErrorAction
  <2>7. has_tool_error(found) <=> SomeOf({"ToolError"})
    BY <2>5, <2>6 DEF SomeOf, Broken, None
  <2>8. Counts(result.receipt, Failing) <=> SomeOf({"SemverViolation", "Unknown", "ToolError"})
    <3>1. ASSUME NEW i \in Telling, CheckOf(Kind(i)) \in Failing
          PROVE  Kind(i) \in {"SemverViolation", "Unknown", "ToolError"}
      BY <3>1, TellingKinds DEF FailureKind
    <3>2. ASSUME NEW i \in DOMAIN reports, Kind(i) \in {"SemverViolation", "Unknown", "ToolError"}
          PROVE  i \in Telling /\ CheckOf(Kind(i)) \in Failing
      <4>1. i \in Telling
        BY <2>6, <3>2 DEF Broken, None
      <4> QED
        BY <3>2, <4>1, TellingKinds
    <3> QED
      BY <2>2, <2>5, <2>6, <3>1, <3>2 DEF SomeOf
  <2>9. Counts(result.receipt, {"baseline"}) <=> SomeBroken(Mode, "Fail") \/ SomeBroken(Mode, "Warn")
    <3>1. Counts(result.receipt, {"baseline"}) <=> \E i \in Telling : Broken(i)
      BY <2>2, <2>5, TellingKinds DEF Broken
    <3>2. (\E i \in Telling : Broken(i)) <=>
             \E i \in DOMAIN reports : Broken(i) /\ ActionIn(Mode, i) \in {"Fail", "Warn"}
      BY <2>6 DEF Broken, None
    <3> QED
      BY <3>1, <3>2 DEF SomeBroken
  <2>10. ASSUME SomeBroken(Mode, "Fail"), ~SomeOf({"SemverViolation", "Unknown", "ToolError"})
         PROVE  warn
    <3>1. Mode = "Release"
      BY <2>1, <2>3, <2>10, ActionType DEF SomeBroken, baseline_errors_are_warnings
    <3>2. \A i \in DOMAIN reports : Live(i) <=> i \in Telling
      BY <2>2 DEF Live, Telling
    <3>3. \A i \in Telling : Kind(i) = "BaselineError"
      BY <2>6, <2>10 DEF SomeOf, FailureKind
    <3>4. \E i \in Telling : TRUE
      BY <2>6, <2>10 DEF SomeBroken, Broken, None
    <3>5. LiveKinds = {"BaselineError"}
      BY <2>6, <3>2, <3>3, <3>4 DEF LiveKinds
    <3> QED
      BY <3>1, <3>5
  <2>11. SomeOf({"SemverViolation", "Unknown", "ToolError"}) <=>
           SomeOf({"SemverViolation", "Unknown"}) \/ SomeOf({"ToolError"})
    BY DEF SomeOf
  <2>12. fromReceipt = fromReport
    BY <2>1, <2>4, <2>5, <2>7, <2>8, <2>9, <2>10, <2>11
  <2>13. \A s \in {settings, [settings EXCEPT !.format = format]} :
           Code(s, result.receipt, result.report) = fromReport
    <3> DEFINE t == [settings EXCEPT !.format = format]
    <3>1. t = [settings EXCEPT !.format = format]
      OBVIOUS
    <3> HIDE DEF t
    <3>2. t.mode = settings.mode /\ t.env = settings.env /\ t.warn_as_fail = warn
      BY <2>1, <3>1 DEF Setting
    <3> QED
      BY <2>12, <3>1, <3>2 DEF Code, Mode, fromReceipt, fromReport
  <2> QED
    BY <2>1, <2>13
<1> QED
  BY <1>1, AlwaysConcluded, PTL

(***************************************************************************)
(* Types                                                                   *)
(***************************************************************************)
\* The receipt of a runner's error has its one finding.
LEMMA TheErrorFinding ==
  ASSUME NEW today
  PROVE  LET receipt == build_receipt(<<>>, {ToolErrorFinding}, {}, today)
         IN  /\ receipt.findings \in Seq(Finding)
             /\ \A i \in DOMAIN receipt.findings :
                  /\ receipt.findings[i].check_id = "tool.runtime"
                  /\ receipt.findings[i].level = "Error"
<1> DEFINE F == AllFindings(<<>>, {ToolErrorFinding})
           receipt == build_receipt(<<>>, {ToolErrorFinding}, {}, today)
<1>1. F = {ToolErrorFinding}
  BY DEF AllFindings, build_findings
<1>2. /\ ToolErrorFinding \in Finding
      /\ ToolErrorFinding.check_id = "tool.runtime" /\ ToolErrorFinding.level = "Error"
  BY DEF ToolErrorFinding, Finding, CheckId, None
<1>3. IsFiniteSet({ToolErrorFinding})
  BY FS_Singleton
<1> HIDE DEF F
<1>4. FindingSet(F)
  BY <1>1, <1>2, <1>3 DEF FindingSet
<1>5. Carries(receipt, F, {}, today)
  BY <1>4, ReceiptCarries DEF F
<1> HIDE DEF receipt
<1>6. /\ receipt.findings \in Seq(Finding)
      /\ \A i \in DOMAIN receipt.findings : receipt.findings[i] = Judged(ToolErrorFinding, {}, today)
  BY <1>1, <1>5, Zenon DEF Carries
<1>7. /\ Judged(ToolErrorFinding, {}, today).check_id = "tool.runtime"
      /\ Judged(ToolErrorFinding, {}, today).level = "Error"
  BY <1>2, JudgedFields
<1> QED
  BY <1>6, <1>7, Zenon DEF receipt

\* `explain` has an entry for every check, of its level and of no other.
LEMMA ChecksAreExplained ==
  ASSUME NEW check \in CheckId
  PROVE  LET shown == run_explain(check, CodeOf(check))
         IN  /\ shown # {} /\ shown \subseteq run_explain(check, None)
             /\ \A e \in shown : e.default_level = IF check = "baseline" THEN "Warning" ELSE "Error"
<1> DEFINE level == IF check = "baseline" THEN "Warning" ELSE "Error"
           entry == Entry(check, CodeOf(check), level)
<1>1. \A c, d, l : /\ Entry(c, d, l).check_id = c /\ Entry(c, d, l).code = d
                   /\ Entry(c, d, l).default_level = l
  BY DEF Entry
<1>2. entry \in FINDING_REGISTRY
  BY DEF FINDING_REGISTRY, CodeOf, CheckId
<1>3. ASSUME NEW e \in FINDING_REGISTRY, e.check_id = check
      PROVE  e.default_level = level
  BY <1>1, <1>3 DEF FINDING_REGISTRY
<1>4. check # None /\ CodeOf(check) # None
  BY DEF CheckId, CodeOf, None
<1>5. /\ run_explain(check, CodeOf(check)) = lookup(check, CodeOf(check))
      /\ run_explain(check, None) = lookup_by_check_id(check)
  BY <1>4 DEF run_explain
<1>6. entry.check_id = check /\ entry.code = CodeOf(check)
  BY <1>1
<1> HIDE DEF entry
<1>7. entry \in lookup(check, CodeOf(check))
  BY <1>2, <1>6 DEF lookup, lookup_by_check_id
<1>8. \A e \in lookup(check, CodeOf(check)) : e \in FINDING_REGISTRY /\ e.check_id = check
  BY DEF lookup, lookup_by_check_id
<1>9. lookup(check, CodeOf(check)) \subseteq lookup_by_check_id(check)
  BY DEF lookup
<1> QED
  BY <1>3, <1>5, <1>7, <1>8, <1>9

\* The result has its type, its report is as coherent as the runner's, there is
\* a report to print, and `explain` knows every finding.
THEOREM PipelineTypes == PSpec => []PTypeOK
<1>1. Inv /\ Concluded => PTypeOK
  <2> SUFFICES ASSUME Inv, Concluded
               PROVE  PTypeOK
    OBVIOUS
  <2> DEFINE found == result.receipt.findings
  <2>1. CASE ~Ok
    BY <2>1, Results DEF PTypeOK, Concluded, Inv, FindingsExplained
  <2>2. ASSUME Ok,
               /\ found \in Seq(Finding)
               /\ \A k \in DOMAIN found :
                    found[k].level = IF found[k].check_id = "baseline" THEN "Warning" ELSE "Error",
               /\ result.report \in Seq(Report)
               /\ \A i \in DOMAIN result.report :
                    LET r == result.report[i]
                    IN  /\ r.baseline_error # None <=> r.failure_kind = "BaselineError"
                        /\ r.status = "Failed" => r.failure_kind # None,
               result.exit_code \in 0..3
        PROVE  PTypeOK
    <3>1. FindingsExplained
      <4> SUFFICES ASSUME NEW f \in ToSet(found)
                   PROVE  LET shown == run_explain(f.check_id, CodeOf(f.check_id))
                          IN  /\ shown # {} /\ shown \subseteq run_explain(f.check_id, None)
                              /\ \A e \in shown : e.default_level = f.level
        BY DEF FindingsExplained
      <4>1. PICK k \in DOMAIN found : f = found[k]
        BY DEF ToSet
      <4>2. f \in Finding /\ f.level = IF f.check_id = "baseline" THEN "Warning" ELSE "Error"
        BY <2>2, <4>1
      <4>3. f.check_id \in CheckId
        BY <4>2 DEF Finding
      <4> QED
        BY <4>2, <4>3, ChecksAreExplained
    <3>2. \A k \in DOMAIN found : found[k] \in Finding
      BY <2>2
    <3> QED
      BY <2>2, <3>1, <3>2, Results, Zenon DEF PTypeOK, Concluded, Inv
  <2>3. CASE Checked
    <3> DEFINE final == After(reports, Mode)
    <3>1. /\ result.report = final /\ settings \in Settings /\ Coherent(reports)
          /\ result.exit_code = Code(settings, result.receipt, final)
      BY <2>3, TheResult, CoherentReports
    <3>2. /\ found \in Seq(Finding)
          /\ \A k \in DOMAIN found : \E i \in Telling : Shows(found[k], i)
      BY <2>3, TheFindings, Zenon
    <3>3. ASSUME NEW k \in DOMAIN found
          PROVE  found[k].level = IF found[k].check_id = "baseline" THEN "Warning" ELSE "Error"
      <4>1. PICK i \in Telling : Shows(found[k], i)
        BY <3>2
      <4> QED
        BY <4>1, TellingKinds DEF Shows
    <3>4. ASSUME NEW i \in DOMAIN reports
          PROVE  /\ DOMAIN final = DOMAIN reports /\ final[i] \in Report
                 /\ final[i].baseline_error # None <=> final[i].failure_kind = "BaselineError"
                 /\ final[i].status = "Failed" => final[i].failure_kind # None
      <4> DEFINE r == reports[i]
                 f == final[i]
                 action == ActionOn(reports, Mode, i)
      <4>1. Leaves(r, action, f) /\ DOMAIN final = DOMAIN reports
        BY <3>1, PolicyOn
      <4>2. /\ r.failure_kind # None <=> r.status = "Failed"
            /\ r.baseline_error # None <=> r.failure_kind = "BaselineError"
        BY <3>1 DEF Coherent
      <4> HIDE DEF r, f, action, final
      <4>3. /\ f \in Report
            /\ f.baseline_error # None <=> f.failure_kind = "BaselineError"
            /\ f.status = "Failed" => f.failure_kind # None
        BY <4>1, <4>2 DEF Leaves, None
      <4> QED
        BY <4>1, <4>3 DEF f
    <3>5. final \in Seq(Report)
      <4>1. final = [ i \in DOMAIN reports |-> final[i] ]
        BY DEF After, apply_baseline_error_policy
      <4>2. DOMAIN reports = 1..Len(reports) /\ Len(reports) \in Nat
        BY <3>1 DEF Coherent
      <4> HIDE DEF final
      <4>3. final \in [1..Len(reports) -> Report]
        BY <3>4, <4>1, <4>2
      <4> QED
        BY <4>2, <4>3
    <3>6. DOMAIN final = DOMAIN reports
      BY DEF After, apply_baseline_error_policy
    <3>7. result.exit_code \in 0..3
      <4>1. CASE Printed
        BY <4>1, PrintedCode DEF Inv
      <4>2. CASE Receipted
        BY <4>2, ReceiptedCode
      <4> QED
        BY <2>3, <4>1, <4>2 DEF Printed, Receipted
    <3> HIDE DEF final
    <3>8. \A i \in DOMAIN result.report :
            LET r == result.report[i]
            IN  /\ r.baseline_error # None <=> r.failure_kind = "BaselineError"
                /\ r.status = "Failed" => r.failure_kind # None
      BY <3>1, <3>4, <3>6, Zenon
    <3> QED
      BY <2>2, <2>3, <3>1, <3>2, <3>3, <3>5, <3>7, <3>8, Zenon DEF Checked
  <2>4. CASE Ok /\ ~Checked
    <3>1. result = ErrorResult(settings, config.kind)
      BY <2>4, Results DEF Checked
    <3> DEFINE receipt == build_receipt(<<>>, {ToolErrorFinding}, {}, settings.today)
    <3>2. /\ result.receipt = receipt /\ result.report = <<>>
          /\ result.exit_code = exit_code_from_receipt(receipt, settings.warn_as_fail)
      BY <3>1 DEF ErrorResult
    <3>3. /\ found \in Seq(Finding)
          /\ \A k \in DOMAIN found : found[k].check_id = "tool.runtime" /\ found[k].level = "Error"
      BY <3>2, TheErrorFinding
    <3>4. exit_code_from_receipt(receipt, settings.warn_as_fail) \in 0..3
      <4> HIDE DEF receipt
      <4>1. \A b : has_tool_error(b) \in BOOLEAN
        BY DEF has_tool_error
      <4> QED
        BY DEF exit_code_from_receipt
    <3>5. result.report \in Seq(Report) /\ DOMAIN result.report = {}
      BY <3>2
    <3> HIDE DEF receipt
    <3> QED
      BY <2>2, <2>4, <3>2, <3>3, <3>4, <3>5
  <2> QED
    BY <2>1, <2>3, <2>4
<1> QED
  BY <1>1, AlwaysConcluded, PTL

(***************************************************************************)
(* What a reader gets to see                                               *)
(***************************************************************************)
\* The report that run() returns, package by package: the policy takes nothing
\* from a reader but what it skips, and a warning of its own shows by its reason.
LEMMA TheReport ==
  ASSUME Inv, RawReports, Concluded, Checked, NEW i \in DOMAIN reports
  PROVE  LET f == result.report[i]
         IN  /\ f \in Report /\ f.name = reports[i].name /\ f.bump = reports[i].bump
             /\ i \in Telling <=> is_finding_relevant_package(f)
             /\ i \in Telling => f.failure_kind = Kind(i)
             /\ i \notin Telling => f.failure_kind = None /\ f.status \in {"Passed", "Skipped"}
             /\ Kind(i) # "BaselineError" => f = reports[i]
             /\ f.skip_reason = "baseline warning" <=> Kind(i) = "BaselineError" /\ Action(i) = "Warn"
             /\ Kind(i) = "BaselineError" =>
                  /\ Action(i) \in {"Fail", "Warn", "Skip"}
                  /\ f.status = IF Action(i) = "Fail" THEN "Failed" ELSE "Skipped"
<1> DEFINE r == reports[i]
           f == result.report[i]
           action == ActionOn(reports, Mode, i)
<1>1. /\ result.report = After(reports, Mode) /\ settings \in Settings /\ Coherent(reports)
  BY TheResult, CoherentReports
<1>2. Leaves(r, action, f)
  BY <1>1, PolicyOn
<1>3. /\ r.failure_kind # None <=> r.status = "Failed"
      /\ r.status \in {"Passed", "Failed", "Skipped"}
      /\ r.skip_reason \notin {"baseline warning", "baseline skipped", "pr mode gate"}
  <2>1. r \in Report /\ (r.failure_kind # None <=> r.status = "Failed")
    BY <1>1 DEF Coherent
  <2> QED
    BY <2>1 DEF Report, Status, RawReports
<1>4. /\ Kind(i) = r.failure_kind /\ Action(i) = action
      /\ i \in Telling <=> r.status = "Failed" /\ ~(r.failure_kind = "BaselineError" /\ action = "Skip")
  BY DEF Kind, Action, ActionOn, Telling, Failed, SkippedByPolicy
<1> HIDE DEF r, f, action
<1>5. CASE r.failure_kind # "BaselineError"
  BY <1>2, <1>3, <1>4, <1>5, Zenon DEF Leaves, is_finding_relevant_package, None, r, f
<1>6. CASE r.failure_kind = "BaselineError"
  <2>1. r.status = "Failed"
    BY <1>3, <1>6 DEF None
  <2>2. /\ f \in Report /\ f.name = r.name /\ f.bump = r.bump
        /\ action \in {"Fail", "Warn", "Skip"}
        /\ f.status = IF action = "Fail" THEN "Failed" ELSE "Skipped"
        /\ f.failure_kind = IF action = "Skip" THEN None ELSE "BaselineError"
        /\ f.skip_reason = "baseline warning" <=> action = "Warn"
    BY <1>2, <1>3, <1>6 DEF Leaves
  <2> QED
    BY <1>4, <1>6, <2>1, <2>2 DEF is_finding_relevant_package, None, r, f
<1> QED
  BY <1>5, <1>6

\* The rules of the results.
LEMMA RulesHaveLevels ==
  ASSUME NEW p, NEW bump
  PROVE  /\ SemverRule(p, bump).level = generate_rules[SemverRule(p, bump).rule]
         /\ BaselineRule(p).level = generate_rules[BaselineRule(p).rule]
         /\ ToolRule(p).level = generate_rules[ToolRule(p).rule]
         /\ SemverRule(p, bump).package = p /\ BaselineRule(p).package = p
         /\ ToolRule(p).package = p
<1>1. /\ generate_rules["breaking-change"] = "Error"
      /\ generate_rules["major-bump-required"] = "Error"
      /\ generate_rules["minor-bump-required"] = "Warning"
      /\ generate_rules["patch-bump-required"] = "Note"
      /\ generate_rules["tool-error"] = "Error"
      /\ generate_rules["baseline-error"] = "Warning"
  BY DEF generate_rules
<1> HIDE DEF generate_rules
<1> QED
  BY <1>1 DEF SemverRule, BaselineRule, ToolRule

\* A finding and the report it shows have the same result.
LEMMA SameResult ==
  ASSUME Inv, RawReports, Concluded, Checked, NEW i \in Telling, NEW f, Shows(f, i)
  PROVE  /\ finding_to_sarif_result(f) = package_to_sarif_result(result.report[i])
         /\ finding_to_sarif_result(f).package = reports[i].name
         /\ finding_to_sarif_result(f).level = generate_rules[finding_to_sarif_result(f).rule]
<1> DEFINE r == result.report[i]
<1>1. /\ r.name = reports[i].name /\ r.bump = reports[i].bump /\ r.failure_kind = Kind(i)
      /\ i \in DOMAIN reports
  BY TheReport, TellingKinds
<1>2. /\ Kind(i) \in {"SemverViolation", "BaselineError", "ToolError", "Unknown"}
      /\ CheckOf(Kind(i)) = "semver" <=> Kind(i) = "SemverViolation"
      /\ CheckOf(Kind(i)) = "baseline" <=> Kind(i) = "BaselineError"
      /\ CheckOf(Kind(i)) = "tool.runtime" <=> Kind(i) = "ToolError"
  BY TellingKinds DEF FailureKind
<1>3. Kind(i) = "Unknown" => r.bump = None
  BY <1>1 DEF RawReports, Kind
<1>4. f.package = r.name /\ f.bump = r.bump /\ f.check_id = CheckOf(Kind(i))
  BY <1>1 DEF Shows
<1> HIDE DEF r
<1>5. finding_to_sarif_result(f) = package_to_sarif_result(r)
  BY <1>1, <1>2, <1>3, <1>4 DEF finding_to_sarif_result, package_to_sarif_result
<1>6. finding_to_sarif_result(f) \in {BaselineRule(r.name), ToolRule(r.name), SemverRule(r.name, r.bump), SemverRule(r.name, None)}
  BY <1>4 DEF finding_to_sarif_result
<1>7. /\ finding_to_sarif_result(f).package = r.name
      /\ finding_to_sarif_result(f).level = generate_rules[finding_to_sarif_result(f).rule]
  BY <1>6, RulesHaveLevels
<1> QED
  BY <1>1, <1>5, <1>7 DEF r

\* The results of the report and of its receipt: one for each report that is told.
LEMMA TheResults ==
  ASSUME Inv, RawReports, Concluded, Checked
  PROVE  /\ report_to_sarif(result.report).results
              = { package_to_sarif_result(result.report[i]) : i \in Telling }
         /\ \A i \in Telling :
              LET r == package_to_sarif_result(result.report[i])
              IN  r.package = reports[i].name /\ r.level = generate_rules[r.rule]
         /\ receipt_to_sarif(result.receipt).results \subseteq report_to_sarif(result.report).results
         /\ Uncut => receipt_to_sarif(result.receipt).results = report_to_sarif(result.report).results
<1> DEFINE found == result.receipt.findings
           final == result.report
           ofReport == { package_to_sarif_result(final[i]) : i \in Telling }
           ofReceipt == { finding_to_sarif_result(f) : f \in ToSet(found) }
<1>1. Telling = { i \in DOMAIN final : is_finding_relevant_package(final[i]) }
  <2>1. DOMAIN final = DOMAIN reports
    BY TheResult DEF After, apply_baseline_error_policy
  <2>2. \A i \in DOMAIN reports : i \in Telling <=> is_finding_relevant_package(final[i])
    BY TheReport
  <2>3. Telling \subseteq DOMAIN reports
    BY DEF Telling
  <2> HIDE DEF Telling, final
  <2> QED
    BY <2>1, <2>2, <2>3
<1> HIDE DEF final
<1>2. report_to_sarif(final).results = ofReport
  <2>1. report_to_sarif(final).results = { package_to_sarif_result(r) : r \in Relevant(final) }
    BY DEF report_to_sarif
  <2>2. Relevant(final) = { final[i] : i \in Telling }
    BY <1>1 DEF Relevant
  <2> QED
    BY <2>1, <2>2
<1>3. /\ \A k \in DOMAIN found : \E i \in Telling : Shows(found[k], i)
      /\ Uncut => \A i \in Telling : \E k \in DOMAIN found : Shows(found[k], i)
  BY TheFindings, Zenon
<1>4. receipt_to_sarif(result.receipt).results = ofReceipt
  BY DEF receipt_to_sarif
<1> HIDE DEF found
<1>5. ofReceipt = { finding_to_sarif_result(found[k]) : k \in DOMAIN found }
  BY DEF ToSet
<1>6. \A k \in DOMAIN found, i \in Telling : Shows(found[k], i) =>
        finding_to_sarif_result(found[k]) = package_to_sarif_result(final[i])
  BY SameResult DEF final
<1>7. ofReceipt \subseteq ofReport
  BY <1>3, <1>5, <1>6
<1>8. ASSUME Uncut PROVE ofReceipt = ofReport
  <2>1. \A i \in Telling : \E k \in DOMAIN found :
          finding_to_sarif_result(found[k]) = package_to_sarif_result(final[i])
    BY <1>3, <1>6, <1>8
  <2> QED
    BY <1>5, <1>7, <2>1
<1>9. ASSUME NEW i \in Telling
      PROVE  LET r == package_to_sarif_result(final[i])
             IN  r.package = reports[i].name /\ r.level = generate_rules[r.rule]
  <2>1. final[i].name = reports[i].name
    BY TheReport, TellingKinds DEF final
  <2>2. package_to_sarif_result(final[i]) \in
          {BaselineRule(final[i].name), ToolRule(final[i].name), SemverRule(final[i].name, final[i].bump)}
    BY DEF package_to_sarif_result
  <2> QED
    BY <2>1, <2>2, RulesHaveLevels
<1> QED
  BY <1>2, <1>4, <1>7, <1>8, <1>9, Zenon DEF final

\* The SARIF of the report and that of the receipt agree on every package's rule
\* and level, and the level is the one the rule declares.
THEOREM TheSarifsAgree == PSpec => []SarifsAgree
<1>1. Inv /\ RawReports /\ Concluded => SarifsAgree
  <2> SUFFICES ASSUME Inv, RawReports, Concluded, Checked
               PROVE  SarifsAgree
    BY DEF SarifsAgree
  <2>1. \A r \in report_to_sarif(result.report).results : r.level = generate_rules[r.rule]
    BY TheResults
  <2> QED
    BY <2>1, TheResults, Zenon DEF SarifsAgree
<1> QED
  BY <1>1, AlwaysConcluded, PTL

\* The packages the text names: as failed whatever still fails, and as a baseline
\* warning whatever the policy made one.
LEMMA TheText ==
  ASSUME Inv, RawReports, Concluded, Checked, NEW p
  PROVE  LET text == print_text(result.report)
         IN  /\ p \in text.FAIL <=>
                  \E i \in Telling : /\ reports[i].name = p
                                     /\ ~(Kind(i) = "BaselineError" /\ Action(i) = "Warn")
             /\ <<p, "baseline warning">> \in text.SKIP <=>
                  \E i \in Telling : /\ reports[i].name = p
                                     /\ Kind(i) = "BaselineError" /\ Action(i) = "Warn"
             /\ p \in render_comment(result.receipt, result.report).failed <=>
                  \E i \in Telling : /\ reports[i].name = p
                                     /\ Kind(i) \notin {"BaselineError", "ToolError"}
<1> DEFINE final == result.report
           Failing_(i) == final[i].status = "Failed"
           Warning_(i) == final[i].status = "Skipped" /\ final[i].skip_reason = "baseline warning"
<1>1. DOMAIN final = DOMAIN reports /\ Telling \subseteq DOMAIN reports
  BY TheResult DEF After, apply_baseline_error_policy, Telling
<1>2. ASSUME NEW i \in DOMAIN reports
      PROVE  /\ final[i].name = reports[i].name
             /\ Failing_(i) <=> i \in Telling /\ ~(Kind(i) = "BaselineError" /\ Action(i) = "Warn")
             /\ Warning_(i) <=> i \in Telling /\ Kind(i) = "BaselineError" /\ Action(i) = "Warn"
             /\ i \in Telling => final[i].failure_kind = Kind(i)
  <2>1. i \in Telling <=> reports[i].status = "Failed" /\ ~(Kind(i) = "BaselineError" /\ Action(i) = "Skip")
    BY DEF Telling, Failed, SkippedByPolicy
  <2>2. Kind(i) = "BaselineError" => reports[i].status = "Failed"
    BY DEF Inv, TypeOK, Kind, None
  <2> HIDE DEF final
  <2>3. /\ final[i].name = reports[i].name
        /\ i \in Telling => final[i].failure_kind = Kind(i)
        /\ Kind(i) # "BaselineError" => final[i] = reports[i]
        /\ final[i].skip_reason = "baseline warning" <=> Kind(i) = "BaselineError" /\ Action(i) = "Warn"
        /\ Kind(i) = "BaselineError" =>
             /\ Action(i) \in {"Fail", "Warn", "Skip"}
             /\ final[i].status = IF Action(i) = "Fail" THEN "Failed" ELSE "Skipped"
    BY TheReport DEF final
  <2> QED
    BY <2>1, <2>2, <2>3
<1>3. /\ print_text(final).FAIL = { r.name : r \in With(final, "Failed") }
      /\ print_text(final).SKIP = { <<r.name, r.skip_reason>> : r \in With(final, "Skipped") }
      /\ render_comment(result.receipt, final).failed =
           { r.name : r \in { r \in With(final, "Failed") :
                                r.failure_kind \notin {"BaselineError", "ToolError"} } }
  BY DEF print_text, SkipLines, render_comment
<1> HIDE DEF final
<1>4. \A r, status : r \in With(final, status) <=>
        \E i \in DOMAIN reports : final[i].status = status /\ r = final[i]
  BY <1>1 DEF With
<1>5. p \in print_text(final).FAIL <=>
        \E i \in DOMAIN reports : Failing_(i) /\ final[i].name = p
  BY <1>3, <1>4
<1>6. <<p, "baseline warning">> \in print_text(final).SKIP <=>
        \E i \in DOMAIN reports : Warning_(i) /\ final[i].name = p
  <2>1. <<p, "baseline warning">> \in print_text(final).SKIP <=>
          \E r \in With(final, "Skipped") : r.name = p /\ r.skip_reason = "baseline warning"
    BY <1>3
  <2>2. ASSUME NEW i \in DOMAIN reports, Warning_(i)
        PROVE  final[i] \in With(final, "Skipped")
    BY <1>4, <2>2
  <2>3. ASSUME NEW r \in With(final, "Skipped")
        PROVE  \E i \in DOMAIN reports : final[i].status = "Skipped" /\ r = final[i]
    BY <1>4
  <2> QED
    BY <2>1, <2>2, <2>3
<1>7. p \in render_comment(result.receipt, final).failed <=>
        \E i \in DOMAIN reports :
          /\ Failing_(i) /\ final[i].name = p
          /\ final[i].failure_kind \notin {"BaselineError", "ToolError"}
  BY <1>3, <1>4
<1> HIDE DEF Failing_, Warning_
<1>8. (\E i \in DOMAIN reports : Failing_(i) /\ final[i].name = p) <=>
        \E i \in Telling : /\ reports[i].name = p
                           /\ ~(Kind(i) = "BaselineError" /\ Action(i) = "Warn")
  BY <1>1, <1>2
<1>9. (\E i \in DOMAIN reports : Warning_(i) /\ final[i].name = p) <=>
        \E i \in Telling : /\ reports[i].name = p
                           /\ Kind(i) = "BaselineError" /\ Action(i) = "Warn"
  BY <1>1, <1>2
<1>10. (\E i \in DOMAIN reports :
          /\ Failing_(i) /\ final[i].name = p
          /\ final[i].failure_kind \notin {"BaselineError", "ToolError"}) <=>
        \E i \in Telling : /\ reports[i].name = p
                           /\ Kind(i) \notin {"BaselineError", "ToolError"}
  BY <1>1, <1>2
<1> QED
  BY <1>5, <1>6, <1>7, <1>8, <1>9, <1>10, Zenon DEF final

\* The findings among the warnings of a comment: what the policy still tells of
\* baselines, and the tools that failed.
LEMMA TheWarnings ==
  ASSUME Inv, Concluded, Checked
  PROVE  LET warnings == render_comment(result.receipt, result.report).warnings
         IN  /\ \A f \in warnings :
                  \E i \in Telling : Shows(f, i) /\ Kind(i) \in {"BaselineError", "ToolError"}
             /\ Uncut => \A i \in Telling : Kind(i) \in {"BaselineError", "ToolError"} =>
                           \E f \in warnings : Shows(f, i)
<1> DEFINE found == result.receipt.findings
           warnings == render_comment(result.receipt, result.report).warnings
<1>1. \A f : f \in warnings <=>
        \E k \in DOMAIN found :
          f = found[k] /\ (found[k].level = "Warning" \/ found[k].check_id = "tool.runtime")
  BY DEF render_comment, ToSet
<1>2. /\ \A k \in DOMAIN found : \E i \in Telling : Shows(found[k], i)
      /\ Uncut => \A i \in Telling : \E k \in DOMAIN found : Shows(found[k], i)
  BY TheFindings, Zenon
<1>3. \A k \in DOMAIN found, i \in Telling : Shows(found[k], i) =>
        (found[k].level = "Warning" \/ found[k].check_id = "tool.runtime"
           <=> Kind(i) \in {"BaselineError", "ToolError"})
  BY TellingKinds DEF Shows
<1> HIDE DEF found, warnings
<1>4. ASSUME NEW f \in warnings
      PROVE  \E i \in Telling : Shows(f, i) /\ Kind(i) \in {"BaselineError", "ToolError"}
  BY <1>1, <1>2, <1>3
<1>5. ASSUME Uncut, NEW i \in Telling, Kind(i) \in {"BaselineError", "ToolError"}
      PROVE  \E f \in warnings : Shows(f, i)
  BY <1>1, <1>2, <1>3, <1>5
<1> QED
  BY <1>4, <1>5, Zenon DEF warnings

\* Text, comment and both SARIF files name the same packages as problems.
THEOREM EveryOutputTells == PSpec => []EveryFormatTells
<1>1. Inv /\ RawReports /\ Concluded => EveryFormatTells
  <2> SUFFICES ASSUME Inv, RawReports, Concluded, Checked, Uncut
               PROVE  EveryFormatTells
    BY DEF EveryFormatTells
  <2> DEFINE text == print_text(result.report)
             comment == render_comment(result.receipt, result.report)
             problems == { reports[i].name : i \in Telling }
             results == report_to_sarif(result.report).results
  <2>1. problems \subseteq Pkg
    BY TellingKinds DEF Report
  <2>2. text.FAIL \cup { p \in Pkg : <<p, "baseline warning">> \in text.SKIP } = problems
    <3>1. ASSUME NEW p
          PROVE  p \in problems <=> p \in text.FAIL \/ <<p, "baseline warning">> \in text.SKIP
      BY TheText, Zenon
    <3> HIDE DEF text, problems
    <3> QED
      BY <2>1, <3>1
  <2>3. comment.failed \cup { f.package : f \in comment.warnings } = problems
    <3>1. ASSUME NEW p
          PROVE  p \in comment.failed <=>
                   \E i \in Telling : reports[i].name = p /\ Kind(i) \notin {"BaselineError", "ToolError"}
      BY TheText, Zenon
    <3>2. /\ \A f \in comment.warnings :
               \E i \in Telling : Shows(f, i) /\ Kind(i) \in {"BaselineError", "ToolError"}
          /\ \A i \in Telling : Kind(i) \in {"BaselineError", "ToolError"} =>
               \E f \in comment.warnings : Shows(f, i)
      BY TheWarnings, Zenon
    <3>3. \A f, i : Shows(f, i) => f.package = reports[i].name
      BY DEF Shows
    <3> HIDE DEF comment
    <3>4. \A p \in comment.failed : p \in problems
      BY <3>1
    <3>5. \A f \in comment.warnings : f.package \in problems
      BY <3>2, <3>3
    <3>6. \A i \in Telling : \/ reports[i].name \in comment.failed
                             \/ \E f \in comment.warnings : f.package = reports[i].name
      BY <3>1, <3>2, <3>3
    <3> QED
      BY <3>4, <3>5, <3>6
  <2>4. { r.package : r \in results } = problems
    <3> DEFINE of(i) == package_to_sarif_result(result.report[i])
    <3>1. results = { of(i) : i \in Telling } /\ \A i \in Telling : of(i).package = reports[i].name
      BY TheResults, Zenon
    <3> HIDE DEF results, of
    <3> QED
      BY <3>1
  <2>5. receipt_to_sarif(result.receipt).results = results
    BY TheResults
  <2>6. Telling = { i \in DOMAIN reports : Failed(i) /\ ~SkippedByPolicy(i) }
    BY DEF Telling
  <2>7. { r.package : r \in receipt_to_sarif(result.receipt).results } = problems
    BY <2>4, <2>5
  <2> HIDE DEF Telling
  <2> QED
    BY <2>2, <2>3, <2>4, <2>6, <2>7, Zenon DEF EveryFormatTells
<1> QED
  BY <1>1, AlwaysConcluded, PTL

\* A comment or a SARIF file that says pass has nothing in it but what is waived.
THEOREM APassIsClean == PSpec => []PassIsClean
<1>1. Inv /\ RawReports /\ Concluded => PassIsClean
  <2> SUFFICES ASSUME Inv, RawReports, Concluded, Checked, Uncut,
                      receipt_to_sarif(result.receipt).successful
               PROVE  LET comment == render_comment(result.receipt, result.report)
                      IN  /\ comment.verdict = "Pass"
                          /\ \A i \in DOMAIN reports : reports[i].name \in comment.failed => Waived(i)
                          /\ \A f \in comment.warnings : f.waived
    BY DEF PassIsClean
  <2> DEFINE comment == render_comment(result.receipt, result.report)
             status == result.receipt.verdict.status
  <2>1. status = "Pass"
    BY DEF receipt_to_sarif
  <2>2. comment.verdict = status
    BY DEF render_comment
  <2>3. ~Counts(result.receipt, Failing) /\ ~Counts(result.receipt, {"baseline"})
    <3>1. status = IF Counts(result.receipt, Failing) THEN "Fail"
                   ELSE IF Counts(result.receipt, {"baseline"}) THEN "Warn"
                   ELSE IF all_skipped(result.report) THEN "Skip" ELSE "Pass"
      BY TheVerdict, Zenon
    <3> HIDE DEF status
    <3> QED
      BY <2>1, <3>1
  <2>4. ASSUME NEW i \in Telling
        PROVE  Waived(i)
    <3>1. \A C : (\E j \in Telling : ~Waived(j) /\ CheckOf(Kind(j)) \in C) => Counts(result.receipt, C)
      BY TheVerdict, Zenon
    <3>2. CheckOf(Kind(i)) \in Failing \/ CheckOf(Kind(i)) \in {"baseline"}
      BY TellingKinds
    <3> QED
      BY <2>3, <3>1, <3>2
  <2>5. ASSUME NEW i \in DOMAIN reports, reports[i].name \in comment.failed
        PROVE  Waived(i)
    <3>1. \E j \in Telling : /\ reports[j].name = reports[i].name
                             /\ Kind(j) \notin {"BaselineError", "ToolError"}
      BY <2>5, TheText, Zenon
    <3>2. i \in Telling
      BY <3>1, TellingKinds DEF Inv, ReportedOnce
    <3> QED
      BY <2>4, <3>2
  <2>6. ASSUME NEW f \in comment.warnings
        PROVE  f.waived
    <3>1. \E i \in Telling : Shows(f, i)
      BY <2>6, TheWarnings, Zenon
    <3> QED
      BY <2>4, <3>1 DEF Shows
  <2> QED
    BY <2>1, <2>2, <2>5, <2>6, Zenon
<1> QED
  BY <1>1, AlwaysConcluded, PTL

(***************************************************************************)
(* Capabilities                                                            *)
(***************************************************************************)
\* The receipt calls the baseline Available exactly if there is a report and the
\* policy skips every baseline error the runner met.
THEOREM TheBaselineIsTold == PSpec => []BaselineErrorIsTold
<1>1. Inv /\ RawReports /\ Concluded => BaselineErrorIsTold
  <2> SUFFICES ASSUME Inv, RawReports, Concluded, Ok
               PROVE  result.capabilities.baseline = "Available" <=>
                        /\ result.has_report
                        /\ \A i \in DOMAIN reports :
                             Kind(i) = "BaselineError" => SkippedByPolicy(i)
    BY DEF BaselineErrorIsTold
  <2> DEFINE final == result.report
  <2>1. CASE ~result.has_report
    <3>1. result = ErrorResult(settings, config.kind)
      BY <2>1, Results
    <3>2. result.capabilities = capabilities(config.kind # "Git", settings.git, FALSE)
      BY <3>1 DEF ErrorResult
    <3>3. result.capabilities.baseline = "Unavailable"
      BY <3>2 DEF capabilities
    <3> QED
      BY <2>1, <3>3
  <2>2. CASE result.has_report
    <3>0. Checked
      BY <2>2 DEF Checked
    <3>1. result.capabilities.baseline = IF baseline_available(final) THEN "Available" ELSE "Unavailable"
      <4>1. result.capabilities = build_capability_context(config.kind, settings.git, final)
        BY <3>0, TheResult
      <4> QED
        BY <4>1 DEF build_capability_context, capabilities
    <3>2. baseline_available(final) <=> \A i \in Telling : Kind(i) # "BaselineError"
      <4>1. DOMAIN final = DOMAIN reports /\ Telling \subseteq DOMAIN reports
        BY <3>0, TheResult DEF After, apply_baseline_error_policy, Telling
      <4>2. ASSUME NEW i \in DOMAIN reports
            PROVE  final[i].failure_kind = "BaselineError" <=> i \in Telling /\ Kind(i) = "BaselineError"
        <5>1. /\ i \in Telling => final[i].failure_kind = Kind(i)
              /\ i \notin Telling => final[i].failure_kind = None
          BY <3>0, TheReport
        <5> QED
          BY <5>1 DEF None
      <4> HIDE DEF final
      <4> QED
        BY <4>1, <4>2 DEF baseline_available
    <3>3. \A i \in DOMAIN reports :
            Kind(i) = "BaselineError" => (i \in Telling <=> ~SkippedByPolicy(i))
      <4>1. \A i \in DOMAIN reports : Kind(i) = "BaselineError" => Failed(i)
        BY DEF Inv, TypeOK, Kind, Failed, None
      <4> QED
        BY <4>1 DEF Telling
    <3>4. Telling \subseteq DOMAIN reports /\ \A i \in Telling : ~SkippedByPolicy(i)
      BY DEF Telling
    <3> QED
      BY <2>2, <3>1, <3>2, <3>3, <3>4
  <2> QED
    BY <2>1, <2>2
<1> QED
  BY <1>1, AlwaysConcluded, PTL

\* The progress display's last line differs from the summary that is printed by
\* just the baseline errors that became skips.
THEOREM TheDoneLine == PSpec => []DoneLineDiffers
<1>1. Inv /\ EventInv /\ RawReports /\ Concluded => DoneLineDiffers
  <2> SUFFICES ASSUME Inv, EventInv, RawReports, Concluded, Checked
               PROVE  DoneLineDiffers
    BY DEF DoneLineDiffers
  <2> DEFINE final == result.report
             of(rs, status) == { i \in DOMAIN rs : rs[i].status = status }
             moved == { i \in DOMAIN reports : Kind(i) = "BaselineError" /\ Action(i) # "Fail" }
             line == Last(events)
  <2>1. /\ pc = "done" /\ result.summary = summarize(final)
        /\ DOMAIN final = DOMAIN reports /\ reports \in Seq(Report)
    BY TheResult, CoherentReports DEF After, apply_baseline_error_policy, Coherent
  <2>2. line = Finished(summarize(reports))
    <3>1. Heard
      BY <2>1 DEF EventInv, Running
    <3>2. Len(events) = 2 * next /\ events[2 * next] = Finished(summarize(reports))
      BY <2>1, <3>1 DEF Heard
    <3> QED
      BY <3>2 DEF Last
  <2>3. /\ line.passed = Cardinality(of(reports, "Passed"))
        /\ line.failed = Cardinality(of(reports, "Failed"))
        /\ line.skipped = Cardinality(of(reports, "Skipped"))
    BY <2>2 DEF Finished, summarize, Count
  <2>4. /\ result.summary.passed = Cardinality(of(final, "Passed"))
        /\ result.summary.failed = Cardinality(of(final, "Failed"))
        /\ result.summary.skipped = Cardinality(of(final, "Skipped"))
    BY <2>1 DEF summarize, Count
  <2> HIDE DEF line, final
  <2>5. ASSUME NEW i \in DOMAIN reports
        PROVE  /\ final[i].status = "Passed" <=> reports[i].status = "Passed"
               /\ ~(final[i].status = "Failed" /\ i \in moved)
               /\ reports[i].status = "Failed" <=> final[i].status = "Failed" \/ i \in moved
               /\ ~(reports[i].status = "Skipped" /\ i \in moved)
               /\ final[i].status = "Skipped" <=> reports[i].status = "Skipped" \/ i \in moved
    <3>1. /\ Kind(i) # "BaselineError" => final[i] = reports[i]
          /\ Kind(i) = "BaselineError" =>
               /\ Action(i) \in {"Fail", "Warn", "Skip"}
               /\ final[i].status = IF Action(i) = "Fail" THEN "Failed" ELSE "Skipped"
      BY TheReport DEF final
    <3>2. Kind(i) = "BaselineError" => reports[i].status = "Failed"
      BY DEF Inv, TypeOK, Kind, None
    <3> QED
      BY <3>1, <3>2
  <2>6. of(final, "Passed") = of(reports, "Passed")
    BY <2>1, <2>5
  <2>7. /\ \A status : of(reports, status) \subseteq DOMAIN reports
        /\ \A status : of(final, status) \subseteq DOMAIN reports
        /\ moved \subseteq DOMAIN reports
        /\ \A i \in DOMAIN reports : \A status :
             /\ i \in of(reports, status) <=> reports[i].status = status
             /\ i \in of(final, status) <=> final[i].status = status
    BY <2>1
  <2> HIDE DEF of, moved
  <2>8. /\ Cardinality(moved) \in Nat
        /\ Cardinality(of(reports, "Failed")) = Cardinality(of(final, "Failed")) + Cardinality(moved)
    BY <2>1, <2>5, <2>7, CountTwo
  <2>9. Cardinality(of(final, "Skipped")) = Cardinality(of(reports, "Skipped")) + Cardinality(moved)
    BY <2>1, <2>5, <2>7, CountTwo
  <2> QED
    BY <2>3, <2>4, <2>6, <2>8, <2>9, Zenon DEF DoneLineDiffers, line, moved
<1> QED
  BY <1>1, AlwaysConcluded, PTL

\* There are as many findings of a check as reports told with it.
LEMMA CountChecks ==
  ASSUME Inv, Concluded, Checked, Uncut, NEW check
  PROVE  Cardinality({ f \in ToSet(result.receipt.findings) : f.check_id = check })
           = Cardinality({ i \in Telling : CheckOf(Kind(i)) = check })
<1> DEFINE found == result.receipt.findings
           F == { f \in ToSet(found) : f.check_id = check }
           I == { i \in Telling : CheckOf(Kind(i)) = check }
           h == [ i \in I |-> CHOOSE f \in F : Shows(f, i) ]
<1>1. /\ \A k \in DOMAIN found : \E i \in Telling : Shows(found[k], i)
      /\ \A i \in Telling : \E k \in DOMAIN found : Shows(found[k], i)
      /\ \A k, l \in DOMAIN found : found[k].package = found[l].package => k = l
  BY TheFindings, Zenon
<1>2. \A f : f \in F <=> \E k \in DOMAIN found : f = found[k] /\ found[k].check_id = check
  BY DEF ToSet
<1>3. \A f, i : Shows(f, i) => f.package = reports[i].name /\ f.check_id = CheckOf(Kind(i))
  BY DEF Shows
<1>4. \A i, j \in I : reports[i].name = reports[j].name => i = j
  BY TellingKinds DEF Inv, ReportedOnce
<1>5. IsFiniteSet(I)
  <2>1. reports \in Seq(Report) /\ I \subseteq DOMAIN reports
    BY CoherentReports, TellingKinds DEF Coherent
  <2>2. DOMAIN reports = 1..Len(reports) /\ Len(reports) \in Nat
    BY <2>1
  <2>3. IsFiniteSet(DOMAIN reports)
    BY <2>2, FS_Interval
  <2> HIDE DEF I
  <2> QED
    BY <2>1, <2>3, FS_Subset
<1> HIDE DEF F, found
<1>6. ASSUME NEW i \in I
      PROVE  h[i] \in F /\ Shows(h[i], i)
  <2>1. \E f \in F : Shows(f, i)
    BY <1>1, <1>2, <1>3
  <2> QED
    BY <2>1
<1>7. \A f \in F : \E i \in I : Shows(f, i)
  BY <1>1, <1>2, <1>3
<1>8. \A f, g \in F : f.package = g.package => f = g
  BY <1>1, <1>2
<1> HIDE DEF I
<1>9. h \in Bijection(I, F)
  <2>1. h \in [I -> F]
    BY <1>6
  <2> HIDE DEF h
  <2>2. \A i, j \in I : h[i] = h[j] => i = j
    BY <1>3, <1>4, <1>6
  <2>3. \A f \in F : \E i \in I : h[i] = f
    BY <1>3, <1>6, <1>7, <1>8
  <2> QED
    BY <2>1, <2>2, <2>3 DEF Bijection, Injection, Surjection, IsInjective
<1>10. ExistsBijection(I, F)
  BY <1>9 DEF ExistsBijection
<1> QED
  BY <1>5, <1>10, FS_Bijection DEF F, I, found

\* Of bumps, there is one that weighs most.
LEMMA Heaviest ==
  ASSUME NEW bumps, bumps # {}
  PROVE  LET b == CHOOSE b \in bumps : \A c \in bumps : Weight(b) >= Weight(c)
         IN  \A c \in bumps : Weight(c) <= Weight(b)
<1>1. \A b : Weight(b) \in {0, 1, 2, 3}
  BY DEF Weight
<1>2. \E b \in bumps : \A c \in bumps : Weight(b) >= Weight(c)
  <2>1. CASE \E b \in bumps : Weight(b) = 3
    BY <1>1, <2>1
  <2>2. CASE (\E b \in bumps : Weight(b) = 2) /\ ~(\E b \in bumps : Weight(b) = 3)
    BY <1>1, <2>2
  <2>3. CASE /\ \E b \in bumps : Weight(b) = 1
             /\ \A b \in bumps : Weight(b) \notin {2, 3}
    BY <1>1, <2>3
  <2>4. CASE \A b \in bumps : Weight(b) \notin {1, 2, 3}
    BY <1>1, <2>4
  <2> QED
    BY <2>1, <2>2, <2>3, <2>4
<1>3. \A b, c \in bumps : Weight(b) >= Weight(c) => Weight(c) <= Weight(b)
  BY <1>1
<1> QED
  BY <1>2, <1>3

\* The receipt's summary counts its findings, and no violation has a larger bump
\* than the one it names.
THEOREM TheSummaryAddsUp == PSpec => []SummaryAddsUp
<1>1. Inv /\ RawReports /\ Concluded => SummaryAddsUp
  <2> SUFFICES ASSUME Inv, RawReports, Concluded, Checked, Uncut
               PROVE  SummaryAddsUp
    BY DEF SummaryAddsUp
  <2> DEFINE final == result.report
             data == build_summary_data(final)
             found == result.receipt.findings
             of(check) == { f \in ToSet(found) : f.check_id = check }
             bumps == { final[i].bump : i \in DOMAIN final } \ {None}
             kind(k) == { i \in DOMAIN final : final[i].failure_kind = k }
             telling(check) == { i \in Telling : CheckOf(Kind(i)) = check }
  <2>1. /\ DOMAIN final = DOMAIN reports /\ reports \in Seq(Report)
        /\ DOMAIN reports = 1..Len(reports) /\ Len(reports) \in Nat
        /\ Telling \subseteq DOMAIN reports
    <3>1. DOMAIN final = DOMAIN reports /\ reports \in Seq(Report)
      BY TheResult, CoherentReports DEF After, apply_baseline_error_policy, Coherent
    <3> QED
      BY <3>1 DEF Telling
  <2>2. Len(final) = Len(reports) /\ final \in Seq(Report)
    <3>1. \A i \in DOMAIN reports : final[i] \in Report
      BY TheReport
    <3>2. final = [ i \in DOMAIN reports |-> final[i] ]
      <4>1. final = After(reports, Mode)
        BY TheResult
      <4> QED
        BY <4>1 DEF After, apply_baseline_error_policy
    <3> HIDE DEF final
    <3>3. final \in [1..Len(reports) -> Report]
      BY <2>1, <3>1, <3>2
    <3> QED
      BY <2>1, <3>3
  <2>3. /\ data.packages_total = Len(final)
        /\ data.packages_checked = Cardinality({ i \in DOMAIN final : final[i].status # "Skipped" })
        /\ data.packages_skipped = Cardinality({ i \in DOMAIN final : final[i].status = "Skipped" })
        /\ data.violations = Cardinality(kind("SemverViolation"))
        /\ data.baseline_issues = Cardinality(kind("BaselineError"))
        /\ data.max_required_bump =
             IF bumps = {} THEN None
             ELSE CHOOSE b \in bumps : \A c \in bumps : Weight(b) >= Weight(c)
    BY DEF build_summary_data
  <2> HIDE DEF data, final
  <2>4. data.packages_checked + data.packages_skipped = data.packages_total
    <3> DEFINE A == { i \in DOMAIN final : final[i].status # "Skipped" }
               B == { i \in DOMAIN final : final[i].status = "Skipped" }
               C == DOMAIN final
    <3>1. /\ A \subseteq DOMAIN final /\ B \subseteq DOMAIN final /\ C \subseteq DOMAIN final
          /\ \A i \in DOMAIN final : ~(i \in A /\ i \in B)
          /\ \A i \in DOMAIN final : i \in C <=> i \in A \/ i \in B
      OBVIOUS
    <3> HIDE DEF A, B, C
    <3>2. Cardinality(C) = Cardinality(A) + Cardinality(B)
      BY <2>2, <3>1, CountTwo
    <3>3. Cardinality(C) = Len(final)
      <4> DEFINE n == Len(final)
      <4>1. n \in Int /\ n >= 0 /\ C = 1..n
        BY <2>1, <2>2 DEF C
      <4> HIDE DEF n
      <4>2. Cardinality(1..n) = n
        BY <4>1, FS_Interval
      <4> QED
        BY <4>1, <4>2, Zenon DEF n
    <3> QED
      BY <2>3, <3>2, <3>3 DEF A, B
  <2>5. ASSUME NEW i \in DOMAIN reports
        PROVE  /\ i \in Telling => final[i].failure_kind = Kind(i)
               /\ i \notin Telling => final[i].failure_kind = None
               /\ final[i].bump = reports[i].bump
    BY TheReport DEF final
  <2>6. /\ kind("SemverViolation") = telling("semver")
        /\ kind("BaselineError") = telling("baseline")
    <3>1. \A i \in Telling : /\ CheckOf(Kind(i)) = "semver" <=> Kind(i) = "SemverViolation"
                             /\ CheckOf(Kind(i)) = "baseline" <=> Kind(i) = "BaselineError"
      BY TellingKinds
    <3>2. None \notin {"SemverViolation", "BaselineError"}
      BY DEF None
    <3> QED
      BY <2>1, <2>5, <3>1, <3>2
  <2>7. \A check : Cardinality(of(check)) = Cardinality(telling(check))
    BY CountChecks
  <2>8. ASSUME NEW f \in of("semver")
        PROVE  Weight(f.bump) <= Weight(data.max_required_bump)
    <3>1. PICK i \in Telling : Shows(f, i)
      <4>1. \A k \in DOMAIN found : \E i \in Telling : Shows(found[k], i)
        BY TheFindings, Zenon
      <4> QED
        BY <4>1 DEF ToSet
    <3>2. f.bump = final[i].bump /\ i \in DOMAIN final
      BY <2>1, <2>5, <3>1 DEF Shows
    <3>3. f.bump = None \/ f.bump \in bumps
      BY <3>2
    <3>4. Weight(None) = 0 /\ \A b : Weight(b) \in {0, 1, 2, 3}
      BY DEF Weight, None
    <3> HIDE DEF bumps
    <3>5. CASE f.bump = None
      BY <3>4, <3>5
    <3>6. CASE f.bump \in bumps
      BY <2>3, <3>6, Heaviest
    <3> QED
      BY <3>3, <3>5, <3>6
  <2> HIDE DEF kind, telling
  <2>9. /\ data.violations = Cardinality(of("semver"))
        /\ data.baseline_issues = Cardinality(of("baseline"))
    BY <2>3, <2>6, <2>7
  <2> QED
    BY <2>4, <2>8, <2>9, Zenon DEF SummaryAddsUp, data, final
<1> QED
  BY <1>1, AlwaysConcluded, PTL

(***************************************************************************)
(* Waivers                                                                 *)
(***************************************************************************)
Fine == [ran |-> TRUE, exit |-> 0, stdout |-> {}, stderr |-> {}]

\* The reports, had the checks whose failure is waived passed.
Cured ==
  [ i \in DOMAIN reports |->
      IF Failed(i) /\ Waived(i) THEN checked(reports[i].name, Fine) ELSE reports[i] ]

LEMMA CuredHolds ==
  ASSUME Inv
  PROVE  /\ Coherent(Cured) /\ DOMAIN Cured = DOMAIN reports
         /\ \A i \in DOMAIN reports :
              IF Failed(i) /\ Waived(i) THEN Cured[i].status = "Passed" /\ Cured[i].failure_kind = None
              ELSE Cured[i] = reports[i]
<1>0. Coherent(reports)
  BY CoherentReports
<1>1. Fine \in Answer /\ Success(Fine)
  BY DEF Fine, Answer, Success
<1>2. ASSUME NEW p \in Pkg
      PROVE  /\ checked(p, Fine) \in Report /\ checked(p, Fine).name = p
             /\ checked(p, Fine).status = "Passed"
             /\ checked(p, Fine).failure_kind = None /\ checked(p, Fine).baseline_error = None
  <2>1. checked(p, Fine) \in Report
    BY <1>1, CheckedType
  <2>2. /\ checked(p, Fine).name = p /\ checked(p, Fine).status = "Passed"
        /\ checked(p, Fine).failure_kind = None /\ checked(p, Fine).baseline_error = None
    BY <1>1 DEF checked, Classified, simple
  <2> QED
    BY <2>1, <2>2
<1>3. DOMAIN Cured = DOMAIN reports
  BY DEF Cured
<1>4. ASSUME NEW i \in DOMAIN reports
      PROVE  /\ Cured[i] \in Report /\ Cured[i].name = reports[i].name
             /\ Cured[i].failure_kind # None <=> Cured[i].status = "Failed"
             /\ Cured[i].baseline_error # None <=> Cured[i].failure_kind = "BaselineError"
             /\ IF Failed(i) /\ Waived(i) THEN Cured[i].status = "Passed" /\ Cured[i].failure_kind = None
                ELSE Cured[i] = reports[i]
  <2>1. reports[i] \in Report /\ reports[i].name \in Pkg
    <3>1. reports[i] \in Report
      BY <1>0 DEF Coherent
    <3> QED
      BY <3>1 DEF Report
  <2>2. CASE Failed(i) /\ Waived(i)
    <3>1. Cured[i] = checked(reports[i].name, Fine)
      BY <2>2 DEF Cured
    <3> QED
      BY <1>2, <2>1, <2>2, <3>1 DEF None
  <2>3. CASE ~(Failed(i) /\ Waived(i))
    <3>1. Cured[i] = reports[i]
      BY <2>3 DEF Cured
    <3> QED
      BY <1>0, <2>1, <2>3, <3>1 DEF Coherent
  <2> QED
    BY <2>2, <2>3
<1>5. Cured \in Seq(Report)
  <2>1. DOMAIN reports = 1..Len(reports) /\ Len(reports) \in Nat
    BY <1>0 DEF Coherent
  <2>2. Cured = [ i \in DOMAIN reports |-> Cured[i] ]
    BY DEF Cured
  <2>3. Cured \in [1..Len(reports) -> Report]
    BY <1>4, <2>1, <2>2
  <2> QED
    BY <2>1, <2>3
<1>6. \A i, j \in DOMAIN Cured : Cured[i].name = Cured[j].name => i = j
  BY <1>0, <1>3, <1>4 DEF Coherent
<1>7. Coherent(Cured)
  BY <1>3, <1>4, <1>5, <1>6 DEF Coherent
<1> QED
  BY <1>3, <1>4, <1>7

\* What a run whose waived checks passed is told: what is not waived.
LEMMA CuredTold ==
  ASSUME Inv, settings \in Settings
  PROVE  /\ Told(Cured, Mode) = { i \in Telling : ~Waived(i) }
         /\ \A i \in Told(Cured, Mode) : FindingOf(Cured[i]) = FindingOf(reports[i])
<1>1. ASSUME NEW i \in DOMAIN reports
      PROVE  /\ i \in Told(Cured, Mode) <=> i \in Telling /\ ~Waived(i)
             /\ i \in Told(Cured, Mode) => Cured[i] = reports[i]
  <2>1. DOMAIN Cured = DOMAIN reports
    BY CuredHolds
  <2>2. IF Failed(i) /\ Waived(i) THEN Cured[i].status = "Passed" /\ Cured[i].failure_kind = None
        ELSE Cured[i] = reports[i]
    BY CuredHolds
  <2>3. i \in Told(Cured, Mode) <=>
          /\ Cured[i].failure_kind # None
          /\ ~(Cured[i].failure_kind = "BaselineError" /\ ActionOn(Cured, Mode, i) = "Skip")
    BY <2>1 DEF Told
  <2>4. i \in Telling <=> Failed(i) /\ ~SkippedByPolicy(i)
    BY DEF Telling
  <2>5. Failed(i) <=> reports[i].failure_kind # None
    BY DEF Inv, TypeOK, Failed
  <2>6. Cured[i] = reports[i] =>
          (SkippedByPolicy(i) <=>
             Cured[i].failure_kind = "BaselineError" /\ ActionOn(Cured, Mode, i) = "Skip")
    BY DEF SkippedByPolicy, Kind, Action, ActionOn
  <2> QED
    BY <2>2, <2>3, <2>4, <2>5, <2>6
<1>2. Told(Cured, Mode) \subseteq DOMAIN reports /\ Telling \subseteq DOMAIN reports
  BY CuredHolds DEF Told, Telling
<1> QED
  BY <1>1, <1>2

\* Waiving a failure gives the verdict the run would have had if the check had
\* passed, but for a run in which then nothing was checked.
THEOREM AWaiverCures == PSpec => []WaivedAsIfPassed
<1>1. Inv /\ Concluded => WaivedAsIfPassed
  <2> SUFFICES ASSUME Inv, Concluded, Checked, Uncut
               PROVE  WaivedAsIfPassed
    BY DEF WaivedAsIfPassed
  <2> DEFINE s == [settings EXCEPT !.waivers = {}]
             after == After(Cured, Mode)
             receipt == build_receipt(after, {}, {}, settings.today)
             found == receipt.findings
             status == receipt.verdict.status
             told == Told(Cured, Mode)
             F == { FindingOf(Cured[i]) : i \in told }
             final == After(reports, Mode)
  <2>1. /\ settings \in Settings /\ settings \in Setting /\ Coherent(reports)
        /\ result.report = final
    BY TheResult, CoherentReports, SettingsAssumption
  <2>2. Coherent(Cured) /\ DOMAIN Cured = DOMAIN reports
    BY CuredHolds
  <2>3. ReportResult(Cured, s, config.kind).receipt.verdict.status = status
    <3> DEFINE t == s
    <3>1. t = [settings EXCEPT !.waivers = {}]
      OBVIOUS
    <3> HIDE DEF t
    <3>2. /\ t.mode = settings.mode /\ t.env = settings.env /\ t.on_error = settings.on_error
          /\ t.waivers = {} /\ t.today = settings.today
      BY <2>1, <3>1 DEF Setting
    <3>3. ReportResult(Cured, t, config.kind).receipt = receipt
      BY <3>2 DEF ReportResult, After, Mode
    <3> QED
      BY <3>3 DEF t
  <2>4. /\ FindingSet(F) /\ Carries(receipt, F, {}, settings.today)
        /\ receipt.total = Cardinality(told) /\ FindingSet(AllFindings(after, {}))
    <3>1. LET G == { FindingOf(Cured[i]) : i \in Told(Cured, Mode) }
              r == build_receipt(After(Cured, Mode), {}, {}, settings.today)
          IN  /\ build_findings(After(Cured, Mode)) = G /\ AllFindings(After(Cured, Mode), {}) = G
              /\ FindingSet(G) /\ Carries(r, G, {}, settings.today)
              /\ r.total = Cardinality(Told(Cured, Mode))
      BY <2>1, <2>2, ReceiptOf
    <3> QED
      BY <3>1, Zenon
  <2> HIDE DEF after
  <2>5. status = IF Counts(receipt, Failing) THEN "Fail"
                 ELSE IF Counts(receipt, {"baseline"}) THEN "Warn"
                 ELSE IF all_skipped(after) THEN "Skip" ELSE "Pass"
    BY <2>4, VerdictOf
  <2> HIDE DEF receipt
  <2>6. told = { i \in Telling : ~Waived(i) } /\ F = { FindingOf(reports[i]) : i \in told }
    BY <2>1, CuredTold
  <2>7. receipt.total <= MaxFindings
    <3>1. IsFiniteSet(Telling)
      BY <2>1, FindingsCount, TellingIsTold
    <3>2. told \subseteq Telling
      BY <2>6
    <3> HIDE DEF told
    <3>3. Cardinality(told) <= Cardinality(Telling)
      BY <3>1, <3>2, FS_Subset
    <3>4. result.receipt.total = Cardinality(Telling) /\ Cardinality(Telling) \in Nat
      BY TheFindings
    <3>5. receipt.total \in Nat /\ MaxFindings \in Nat
      BY <2>4, MaxFindingsAssumption DEF Carries
    <3> QED
      BY <2>4, <3>3, <3>4, <3>5 DEF Uncut
  <2>8. /\ \A k \in DOMAIN found : \E f \in F : found[k] = Judged(f, {}, settings.today)
        /\ \A f \in F : \E k \in DOMAIN found : found[k] = Judged(f, {}, settings.today)
    BY <2>4, <2>7, Zenon DEF Carries
  <2>9. ASSUME NEW i \in Telling
        PROVE  LET g == Judged(FindingOf(reports[i]), {}, settings.today)
               IN  g.check_id = CheckOf(Kind(i)) /\ ~g.waived
    <3>1. reports[i] \in Report /\ reports[i].failure_kind # None
      BY TellingKinds DEF Inv, TypeOK, Failed
    <3> DEFINE f == FindingOf(reports[i])
    <3>2. f \in Finding /\ f.check_id = CheckOf(Kind(i))
      BY <3>1, FindingFields DEF Kind
    <3> HIDE DEF f
    <3>3. /\ Judged(f, {}, settings.today).check_id = f.check_id
          /\ Judged(f, {}, settings.today).waived <=> \E w \in {} : Waives(w, f, settings.today)
      BY <3>2, JudgedFields
    <3> QED
      BY <3>2, <3>3 DEF f
  <2> HIDE DEF told, F, found
  <2>10. ASSUME NEW C
         PROVE  Counts(receipt, C) <=> Counts(result.receipt, C)
    <3>1. Counts(receipt, C) <=> \E k \in DOMAIN found : ~found[k].waived /\ found[k].check_id \in C
      BY DEF Counts, found
    <3>2. (\E k \in DOMAIN found : ~found[k].waived /\ found[k].check_id \in C)
            <=> \E i \in told : CheckOf(Kind(i)) \in C
      <4>1. \A k \in DOMAIN found : \E i \in told : found[k] = Judged(FindingOf(reports[i]), {}, settings.today)
        BY <2>6, <2>8
      <4>2. \A i \in told : \E k \in DOMAIN found : found[k] = Judged(FindingOf(reports[i]), {}, settings.today)
        BY <2>6, <2>8
      <4>3. \A i \in told : i \in Telling
        BY <2>6
      <4> QED
        BY <2>9, <4>1, <4>2, <4>3
    <3>3. Counts(result.receipt, C) <=> \E i \in Telling : ~Waived(i) /\ CheckOf(Kind(i)) \in C
      BY TheVerdict, Zenon
    <3> QED
      BY <2>6, <3>1, <3>2, <3>3
  <2>11. result.receipt.verdict.status =
           IF Counts(result.receipt, Failing) THEN "Fail"
           ELSE IF Counts(result.receipt, {"baseline"}) THEN "Warn"
           ELSE IF all_skipped(final) THEN "Skip" ELSE "Pass"
    BY <2>1, TheVerdict, Zenon
  <2>12. all_skipped(after) => all_skipped(final)
    <3>1. CASE \E i \in DOMAIN reports : Failed(i) /\ Waived(i)
      <4>1. PICK i \in DOMAIN reports : Failed(i) /\ Waived(i)
        BY <3>1
      <4>2. i \in DOMAIN Cured /\ Cured[i].status = "Passed" /\ Cured[i].failure_kind = None
        BY <4>1, CuredHolds
      <4>3. Leaves(Cured[i], ActionOn(Cured, Mode, i), after[i]) /\ i \in DOMAIN after
        BY <2>1, <2>2, <4>2, PolicyOn DEF after
      <4>4. after[i].status = "Passed"
        BY <4>2, <4>3 DEF Leaves, None
      <4> QED
        BY <4>3, <4>4 DEF all_skipped
    <3>2. CASE ~ \E i \in DOMAIN reports : Failed(i) /\ Waived(i)
      <4>1. Cured = [ i \in DOMAIN reports |-> reports[i] ]
        BY <3>2 DEF Cured
      <4>2. reports = [ i \in DOMAIN reports |-> reports[i] ]
        BY <2>1 DEF Coherent
      <4>3. Cured = reports
        BY <4>1, <4>2
      <4> QED
        BY <4>3 DEF after
    <3> QED
      BY <3>1, <3>2
  <2>13. result.receipt.verdict.status # status =>
           result.receipt.verdict.status = "Skip" /\ status = "Pass"
    <3> HIDE DEF status, final
    <3>1. \A C : Counts(receipt, C) <=> Counts(result.receipt, C)
      BY <2>10
    <3> QED
      BY <2>5, <2>11, <2>12, <3>1
  <2>14. Cured = [ i \in DOMAIN reports |->
                     IF Failed(i) /\ Waived(i) THEN checked(reports[i].name,
                       [ran |-> TRUE, exit |-> 0, stdout |-> {}, stderr |-> {}])
                     ELSE reports[i] ]
    BY DEF Cured, Fine
  <2>15. WaivedAsIfPassed =
           (result.receipt.verdict.status # ReportResult(Cured, s, config.kind).receipt.verdict.status =>
              /\ result.receipt.verdict.status = "Skip"
              /\ ReportResult(Cured, s, config.kind).receipt.verdict.status = "Pass")
    BY <2>14, Zenon DEF WaivedAsIfPassed
  <2> HIDE DEF status, s
  <2> QED
    BY <2>3, <2>13, <2>15
<1> QED
  BY <1>1, AlwaysConcluded, PTL

=============================================================================
