--------------------------------- MODULE Pipeline ---------------------------------
(***************************************************************************)
(* pipeline::run of semverguard-core/src/pipeline.rs: the runner, and then *)
(* its tail, which applies the baseline policy to the reports, builds the  *)
(* receipt from them and computes the exit code.                           *)
(***************************************************************************)
EXTENDS Runner, BaselinePolicy, Render

CONSTANT Settings   \* the settings a run may have besides the runner's: see below

Formats == {"Text", "Json", "Both", "Sarif", "Receipt"}

\* root: the workspace root is a directory; git: the git executable answers.
Setting ==
  [root : BOOLEAN, git : BOOLEAN, format : Formats, mode : RunModes, env : SUBSET Signals,
   on_error : OnError, warn_as_fail : BOOLEAN, waivers : SUBSET Waiver, today : Nat]

ASSUME SettingsAssumption == Settings \subseteq Setting

VARIABLES
  settings,   \* what the run was started with; never changes
  stage,      \* "probe", "runner" or "returned"
  result      \* what run() returned

pvars == <<vars, settings, stage, result>>

Pending == [is |-> "Pending"]
Err == [is |-> "Err"]

Code(s, receipt, rs) ==
  IF s.format = "Receipt" THEN exit_code_from_receipt(receipt, s.warn_as_fail)
  ELSE exit_code_from_report(rs, resolve(s.mode, s.env), s.warn_as_fail)

\* The runner's reports rs become a result.
ReportResult(rs, s, kind) ==
  LET final == apply_baseline_error_policy(rs, s.on_error, resolve(s.mode, s.env))
      receipt == build_receipt(final, {}, s.waivers, s.today)
  IN  [is |-> "Ok", has_report |-> TRUE, report |-> final, summary |-> summarize(final),
       receipt |-> receipt,
       capabilities |-> build_capability_context(kind, s.git, final),
       exit_code |-> Code(s, receipt, final)]

\* The runner's error becomes a finding of a receipt without a report.
ErrorResult(s, kind) ==
  LET receipt == build_receipt(<<>>, {ToolErrorFinding}, {}, s.today)
  IN  [is |-> "Ok", has_report |-> FALSE, report |-> <<>>, summary |-> summarize(<<>>),
       receipt |-> receipt,
       capabilities |-> capabilities(kind # "Git", s.git, FALSE),
       exit_code |-> exit_code_from_receipt(receipt, s.warn_as_fail)]

PInit ==
  /\ Init
  /\ settings \in Settings
  /\ stage = "probe" /\ result = Pending

Return(r) == stage' = "returned" /\ result' = r

\* ensure_workspace_root, whose error no receipt reports.
Probe ==
  /\ stage = "probe"
  /\ \/ ~settings.root /\ Return(Err)
     \/ settings.root /\ stage' = "runner" /\ UNCHANGED result
  /\ UNCHANGED <<vars, settings>>

RunnerStep ==
  /\ stage = "runner"
  /\ Next
  /\ UNCHANGED <<settings, stage, result>>

Conclude ==
  /\ stage = "runner" /\ pc = "done"
  /\ Return(ReportResult(reports, settings, config.kind))
  /\ UNCHANGED <<vars, settings>>

ConcludeError ==
  /\ stage = "runner" /\ pc = "failed"
  /\ Return(IF settings.format = "Receipt" THEN ErrorResult(settings, config.kind) ELSE Err)
  /\ UNCHANGED <<vars, settings>>

PNext == Probe \/ RunnerStep \/ Conclude \/ ConcludeError

PSpec == PInit /\ [][PNext]_pvars

(***************************************************************************)
(* Properties                                                              *)
(***************************************************************************)
Ok == result.is = "Ok"
Checked == Ok /\ result.has_report
Mode == resolve(settings.mode, settings.env)
Uncut == result.receipt.total <= MaxFindings

\* Of the runner's i-th report.
Failed(i) == reports[i].status = "Failed"
Kind(i) == reports[i].failure_kind
Action(i) == effective_action(reports[i].baseline_error, settings.on_error, Mode)
SkippedByPolicy(i) == Kind(i) = "BaselineError" /\ Action(i) = "Skip"
Waived(i) == \E w \in settings.waivers : Waives(w, FindingOf(reports[i]), settings.today)
Live(i) ==
  /\ Failed(i) /\ ~SkippedByPolicy(i)
  /\ settings.format = "Receipt" => ~Waived(i)
LiveKinds == { Kind(i) : i \in { i \in DOMAIN reports : Live(i) } }

\* run_check unwraps the report when the format is not the receipt
\* (semverguard-cli/src/main.rs:595): there always is one.
ReportWhenPrinted == Ok /\ settings.format # "Receipt" => result.has_report

\* `explain` knows every finding, by its check and by its code, at the level the
\* finding has.
FindingsExplained ==
  Ok =>
    \A f \in ToSet(result.receipt.findings) :
      LET shown == run_explain(f.check_id, CodeOf(f.check_id))
      IN  /\ shown # {} /\ shown \subseteq run_explain(f.check_id, None)
          /\ \A e \in shown : e.default_level = f.level

\* The result has its type, and a report that the policy rewrote is as
\* coherent as the runner's: a baseline cause goes with the baseline kind, and
\* a failed package has a kind.  A report that is printed is there, and a
\* finding is one that `explain` knows.
PTypeOK ==
  /\ TypeOK
  /\ settings \in Settings /\ stage \in {"probe", "runner", "returned"}
  /\ result = Pending <=> stage # "returned"
  /\ ReportWhenPrinted /\ FindingsExplained
  /\ Ok =>
       /\ result.report \in Seq(Report)
       /\ \A i \in DOMAIN result.report :
            LET r == result.report[i]
            IN  /\ r.baseline_error # None <=> r.failure_kind = "BaselineError"
                /\ r.status = "Failed" => r.failure_kind # None
       /\ \A i \in DOMAIN result.receipt.findings : result.receipt.findings[i] \in Finding
       /\ result.exit_code \in 0..3

\* An exit code of zero is earned: every check that failed was waived, or a
\* baseline error the policy skips, or one it lets pass as a warning.
ZeroMeansClean ==
  Checked /\ Uncut /\ result.exit_code = 0 =>
    \A i \in DOMAIN reports :
      Live(i) =>
        /\ Kind(i) = "BaselineError" /\ ~settings.warn_as_fail
        /\ Action(i) = "Warn" \/ settings.format = "Receipt"

\* And every other exit code has its cause among the checks: 1 a tool that
\* failed, 2 a live violation, 3 nothing worse than a baseline error.
ExitCodeHasCause ==
  Checked =>
    CASE result.exit_code = 0 -> TRUE
      [] result.exit_code = 1 -> \E i \in DOMAIN reports : Kind(i) = "ToolError"
      [] result.exit_code = 2 -> LiveKinds \cap {"SemverViolation", "Unknown"} # {}
      [] result.exit_code = 3 -> LiveKinds = {"BaselineError"}

\* The two exit codes are computed apart, one from the reports and one from
\* the receipt.  They agree unless a waiver, the cut, or a release lane that
\* fails on nothing but baseline errors comes between (see ReleaseIsStrict).
FormatsAgree ==
  /\ Checked /\ Uncut /\ settings.waivers = {}
  /\ Mode = "Release" /\ ~settings.warn_as_fail => LiveKinds # {"BaselineError"}
  =>
    \A format \in {"Receipt", "Text"} :
      Code([settings EXCEPT !.format = format], result.receipt, result.report)
        = result.exit_code

\* A lenient lane accepts whatever the release lane accepts, the two lenient
\* lanes agree, and warn_as_fail only ever turns a 0 into a 3.
LanesAreOrdered ==
  Checked =>
    LET code(mode, warn) ==
          ReportResult(reports, [settings EXCEPT !.mode = mode, !.warn_as_fail = warn],
               config.kind).exit_code
    IN  \A warn \in BOOLEAN :
          /\ code("Release", warn) = 0 => code("Pr", warn) = 0
          /\ code("Pr", warn) = code("Cockpit", warn)
          /\ \A mode \in {"Pr", "Release"} :
               code(mode, TRUE) # code(mode, FALSE) => code(mode, FALSE) = 0 /\ code(mode, TRUE) = 3

\* What the runner saw fail is in the receipt, one finding per package, unless
\* the policy skips it; a warning of the policy leaves no report failed but
\* stays a finding.  Nothing else is a finding.
FailuresAreFindings ==
  Checked =>
    LET expected == { i \in DOMAIN reports : Failed(i) /\ ~SkippedByPolicy(i) }
        found == result.receipt.findings
    IN  /\ result.receipt.total = Cardinality(expected)
        /\ Uncut => { found[i].package : i \in DOMAIN found }
                      = { reports[i].name : i \in expected }
        /\ \A i \in DOMAIN found :
             \E j \in expected : /\ found[i].package = reports[j].name
                                 /\ found[i].check_id = CheckOf(Kind(j))

\* When a receipt is cut, warnings go first: an error is lost only when errors
\* alone fill it.
ErrorsSurviveTheCut ==
  Checked =>
    LET errors == { i \in DOMAIN reports : Failed(i) /\ Kind(i) # "BaselineError" }
        kept == { i \in DOMAIN result.receipt.findings :
                    result.receipt.findings[i].level = "Error" }
    IN  Cardinality(kept) = Min({Cardinality(errors), MaxFindings})

\* Waiving a failure gives the verdict the run would have had if the check had
\* passed (but for a run in which then nothing was checked).
WaivedAsIfPassed ==
  Checked /\ Uncut =>
    LET cured == [ i \in DOMAIN reports |->
                     IF Failed(i) /\ Waived(i) THEN checked(reports[i].name,
                       [ran |-> TRUE, exit |-> 0, stdout |-> {}, stderr |-> {}])
                     ELSE reports[i] ]
        status == ReportResult(cured, [settings EXCEPT !.waivers = {}], config.kind).receipt.verdict.status
    IN  result.receipt.verdict.status # status =>
          result.receipt.verdict.status = "Skip" /\ status = "Pass"

\* Text, comment and both SARIF files name the same packages as problems, the
\* ones the runner saw fail but for what the policy skips: no output hides a
\* package that another one shows.
EveryFormatTells ==
  Checked /\ Uncut =>
    LET text == print_text(result.report)
        comment == render_comment(result.receipt, result.report)
        problems == { reports[i].name : i \in { i \in DOMAIN reports :
                                                Failed(i) /\ ~SkippedByPolicy(i) } }
    IN  /\ text.FAIL \cup { p \in Pkg : <<p, "baseline warning">> \in text.SKIP } = problems
        /\ comment.failed \cup { f.package : f \in comment.warnings } = problems
        /\ { r.package : r \in report_to_sarif(result.report).results } = problems
        /\ { r.package : r \in receipt_to_sarif(result.receipt).results } = problems

\* The SARIF of a report and the SARIF of its receipt are built apart, from
\* kinds and from checks; they agree on every package's rule and level, and the
\* level is the one the rule declares.
SarifsAgree ==
  Checked =>
    LET results == receipt_to_sarif(result.receipt).results
        ofReport == report_to_sarif(result.report).results
    IN  /\ results \subseteq ofReport /\ (Uncut => results = ofReport)
        /\ \A r \in ofReport : r.level = generate_rules[r.rule]

\* A comment or a SARIF file that says pass has nothing in it but what is
\* waived.
PassIsClean ==
  Checked /\ Uncut /\ receipt_to_sarif(result.receipt).successful =>
    LET comment == render_comment(result.receipt, result.report)
    IN  /\ comment.verdict = "Pass"
        /\ \A i \in DOMAIN reports : reports[i].name \in comment.failed => Waived(i)
        /\ \A f \in comment.warnings : f.waived

\* The receipt's summary counts its findings: as many violations and baseline
\* issues as findings of these checks, and no violation with a larger bump than
\* the one it names.
SummaryAddsUp ==
  Checked /\ Uncut =>
    LET data == build_summary_data(result.report)
        of(check) == { f \in ToSet(result.receipt.findings) : f.check_id = check }
    IN  /\ data.packages_checked + data.packages_skipped = data.packages_total
        /\ data.violations = Cardinality(of("semver"))
        /\ data.baseline_issues = Cardinality(of("baseline"))
        /\ \A f \in of("semver") : Weight(f.bump) <= Weight(data.max_required_bump)

\* What the receipt says of the baseline is what the runner met: it is Available
\* exactly if there is a report and every baseline error in it is one the policy
\* skips; no warning, no waiver and no cut hides one.  That errors which are
\* skipped leave it Available is what capability.rs:29 makes of the rewritten
\* reports; types/receipt.rs:11 has Unavailable for every baseline that was not
\* resolved.
BaselineErrorIsTold ==
  Ok =>
    (result.capabilities.baseline = "Available" <=>
       /\ result.has_report
       /\ \A i \in DOMAIN reports : Kind(i) = "BaselineError" => SkippedByPolicy(i))

\* The progress display's last line counts the reports before the policy has
\* rewritten them: it differs from the summary that is printed by just the
\* baseline errors that became skips.
DoneLineDiffers ==
  Checked =>
    LET line == Last(events)
        moved == Cardinality({ i \in DOMAIN reports :
                                 Kind(i) = "BaselineError" /\ Action(i) # "Fail" })
    IN  /\ line.passed = result.summary.passed
        /\ line.failed = result.summary.failed + moved
        /\ line.skipped + moved = result.summary.skipped

(***************************************************************************)
(* What the documentation says, and the code does not do                   *)
(***************************************************************************)
\* config.rs:34, of release mode: "Baseline errors -> fail (strict)".
ReleaseIsStrict ==
  Checked /\ Mode = "Release" /\ settings.waivers = {} =>
    ("BaselineError" \in LiveKinds => result.exit_code # 0)

\* exit-codes.md:20, of exit code 0: "No SemVer violations"; waivers are the
\* one way out config.rs:507 names.
UnwaivedViolationFails ==
  Checked /\ "SemverViolation" \in LiveKinds => result.exit_code # 0

=============================================================================
