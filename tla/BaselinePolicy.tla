------------------------------ MODULE BaselinePolicy ------------------------------
(***************************************************************************)
(* What becomes of a check that failed because there was nothing to        *)
(* compare with: semverguard-core/src/baseline_policy.rs.  It rewrites the *)
(* runner's reports before anything is rendered or decided.                *)
(***************************************************************************)
EXTENDS Reports, RunMode

ErrorAction == {"Fail", "Warn", "Skip"}

OnErrorKey ==
  {"new_crate", "missing_revision", "shallow_clone", "rustdoc_failure", "not_published"}
OnError == [OnErrorKey -> ErrorAction]

configured_action(cause, on_error) ==
  on_error[CASE cause = "CrateAbsentFromBaseline" -> "new_crate"
             [] cause = "ShallowClone" -> "shallow_clone"
             [] cause = "RustdocGenerationFailed" -> "rustdoc_failure"
             [] cause = "NotPublished" -> "not_published"
             [] OTHER -> "missing_revision"]

\* Release lanes turn warnings into failures, lenient lanes the reverse.
effective_action(cause, on_error, mode) ==
  LET configured == configured_action(cause, on_error)
      strict == IF mode = "Release" /\ configured = "Warn" THEN "Fail" ELSE configured
  IN  IF strict = "Fail" /\ baseline_errors_are_warnings(mode) THEN "Warn" ELSE strict

\* Mutant: a skipped error keeps its cause.
Rewritten_KeepsCause(report, action) ==
  CASE action = "Fail" -> [report EXCEPT !.status = "Failed"]
    [] action = "Warn" -> [report EXCEPT !.status = "Skipped",
                                         !.skip_reason = "baseline warning"]
    [] action = "Skip" -> [report EXCEPT !.status = "Skipped",
                                         !.skip_reason = "baseline skipped",
                                         !.failure_kind = None]

\* Mutant: a warning forgets its kind, too.
Rewritten_WarnIsSilent(report, action) ==
  CASE action = "Fail" -> [report EXCEPT !.status = "Failed"]
    [] action = "Warn" -> [report EXCEPT !.status = "Skipped",
                                         !.skip_reason = "baseline warning",
                                         !.failure_kind = None,
                                         !.baseline_error = None]
    [] action = "Skip" -> [report EXCEPT !.status = "Skipped",
                                         !.skip_reason = "baseline skipped",
                                         !.failure_kind = None,
                                         !.baseline_error = None]

Rewritten(report, action) ==
  CASE action = "Fail" -> [report EXCEPT !.status = "Failed"]
    [] action = "Warn" -> [report EXCEPT !.status = "Skipped",
                                         !.skip_reason = "baseline warning"]
    [] action = "Skip" -> [report EXCEPT !.status = "Skipped",
                                         !.skip_reason = "baseline skipped",
                                         !.failure_kind = None,
                                         !.baseline_error = None]

apply_baseline_error_policy(rs, on_error, mode) ==
  [ i \in DOMAIN rs |->
      IF rs[i].failure_kind # "BaselineError" THEN rs[i]
      ELSE Rewritten(rs[i], effective_action(rs[i].baseline_error, on_error, mode)) ]

=============================================================================
