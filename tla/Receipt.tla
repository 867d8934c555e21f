--------------------------------- MODULE Receipt ---------------------------------
(***************************************************************************)
(* The receipt: findings, waivers, truncation, verdict, capabilities and   *)
(* the two exit codes.  semverguard-core/src/receipt.rs, exit_code.rs and  *)
(* capability.rs.                                                          *)
(*                                                                         *)
(* A finding is told by its package and its check.                         *)
(***************************************************************************)
EXTENDS Reports, RunMode, Ordering, SequencesExt

CONSTANT MaxFindings      \* MAX_FINDINGS

ASSUME MaxFindingsAssumption == MaxFindings \in Nat \ {0}

CheckId == {"semver", "baseline", "tool.runtime", "engine"}
NoPackage == 0            \* the empty package name, which sorts first
NoDate == -1              \* a waiver without an expiry date, or with one that
                          \* does not parse

Finding ==
  [package : Pkg \cup {NoPackage}, check_id : CheckId,
   level : {"Error", "Warning"}, bump : RequiredBump \cup {None}, waived : BOOLEAN]

Waiver == [package : Pkg, check_id : CheckId, expires : Int]

(***************************************************************************)
(* Findings                                                                *)
(***************************************************************************)
\* Mutant: a baseline error the policy turned into a warning is forgotten.
is_finding_relevant_package_FailedOnly(r) == r.status = "Failed"

is_finding_relevant_package(r) ==
  \/ r.status = "Failed"
  \/ r.status = "Skipped" /\ r.failure_kind = "BaselineError"

\* Mutant: a failure without a known kind passes for a violation.
CheckOf_UnknownIsSemver(kind) ==
  CASE kind = "BaselineError" -> "baseline"
    [] kind = "ToolError" -> "tool.runtime"
    [] OTHER -> "semver"

CheckOf(kind) ==
  CASE kind = "SemverViolation" -> "semver"
    [] kind = "BaselineError" -> "baseline"
    [] kind = "ToolError" -> "tool.runtime"
    [] OTHER -> "engine"

\* Mutant: the required bump stays behind in the report.
FindingOf_NoBump(r) ==
  [package |-> r.name, check_id |-> CheckOf(r.failure_kind),
   level |-> IF r.failure_kind = "BaselineError" THEN "Warning" ELSE "Error",
   bump |-> None, waived |-> FALSE]

FindingOf(r) ==
  [package |-> r.name, check_id |-> CheckOf(r.failure_kind),
   level |-> IF r.failure_kind = "BaselineError" THEN "Warning" ELSE "Error",
   bump |-> r.bump, waived |-> FALSE]

ToolErrorFinding ==
  [package |-> NoPackage, check_id |-> "tool.runtime", level |-> "Error",
   bump |-> None, waived |-> FALSE]

build_findings(rs) ==
  { FindingOf(rs[i]) : i \in { i \in DOMAIN rs : is_finding_relevant_package(rs[i]) } }

\* Mutant: by package alone.
Precedes_ByPackage(f, g) == f.package < g.package

\* Errors first, then by package: no two findings share a package.
Precedes(f, g) ==
  \/ f.level = "Error" /\ g.level = "Warning"
  \/ f.level = g.level /\ f.package < g.package

sort_findings(findings) ==
  Ordered(findings, { pair \in findings \X findings : Precedes(pair[1], pair[2]) })

is_waiver_expired(waiver, today) ==
  waiver.expires # NoDate /\ today > waiver.expires

\* A hash; the version goes with the package, and the code with the check.
compute_fingerprint(check, package) == <<check, package>>

Waives(waiver, f, today) ==
  /\ compute_fingerprint(waiver.check_id, waiver.package)
       = compute_fingerprint(f.check_id, f.package)
  /\ ~is_waiver_expired(waiver, today)

apply_waivers(findings, waivers, today) ==
  [ i \in DOMAIN findings |->
      [findings[i] EXCEPT !.waived = \E w \in waivers : Waives(w, findings[i], today)] ]

(***************************************************************************)
(* The verdict                                                             *)
(***************************************************************************)
\* Mutant: only packages without changes are counted as skipped.
all_skipped_Unchanged(rs) ==
  Len(rs) > 0 /\ \A i \in DOMAIN rs : rs[i].skip_reason = "unchanged"

all_skipped(rs) == Len(rs) > 0 /\ \A i \in DOMAIN rs : rs[i].status = "Skipped"

\* Mutant: an unclassified failure fails nothing.
Failing_NoEngine == {"semver", "tool.runtime"}

Failing == {"semver", "tool.runtime", "engine"}

\* Mutant: the waived findings count.
derive_verdict_CountsWaived(findings, rs, truncated) ==
  LET all == { findings[i].check_id : i \in DOMAIN findings }
  IN  [status |-> IF all \cap Failing # {} THEN "Fail"
                  ELSE IF "baseline" \in all THEN "Warn"
                  ELSE IF all_skipped(rs) THEN "Skip" ELSE "Pass",
       reasons |-> all]

derive_verdict(findings, rs, truncated) ==
  LET live == { findings[i].check_id : i \in { i \in DOMAIN findings : ~findings[i].waived } }
      waived == \E i \in DOMAIN findings : findings[i].waived
  IN  [status |-> IF live \cap Failing # {} THEN "Fail"
                  ELSE IF "baseline" \in live THEN "Warn"
                  ELSE IF all_skipped(rs) THEN "Skip" ELSE "Pass",
       reasons |-> live
                   \cup (IF truncated THEN {"truncated"} ELSE {})
                   \cup (IF all_skipped(rs) THEN {"all_packages_skipped"} ELSE {})
                   \cup (IF waived THEN {"waived"} ELSE {})]

\* Findings are collected, sorted, waived, cut, and only then judged.
build_receipt(rs, toolErrors, waivers, today) ==
  LET sorted == sort_findings(build_findings(rs) \cup toolErrors)
      waived == apply_waivers(sorted, waivers, today)
      cut == SubSeq(waived, 1, Min({MaxFindings, Len(waived)}))
  IN  [findings |-> cut,
       total |-> Len(waived),
       verdict |-> derive_verdict(cut, rs, Len(waived) > MaxFindings)]

(***************************************************************************)
(* The two exit codes                                                      *)
(***************************************************************************)
has_tool_error(findings) == \E i \in DOMAIN findings : findings[i].check_id = "tool.runtime"

exit_code_from_receipt(receipt, warn_as_fail) ==
  CASE receipt.verdict.status = "Fail" -> IF has_tool_error(receipt.findings) THEN 1 ELSE 2
    [] receipt.verdict.status = "Warn" -> IF warn_as_fail THEN 3 ELSE 0
    [] OTHER -> 0

\* Mutant: warnings among the skipped packages are forgotten.
exit_code_from_report_FailedOnly(rs, mode, warn_as_fail) ==
  LET failed ==
        { rs[i].failure_kind : i \in { i \in DOMAIN rs : rs[i].status = "Failed" } }
  IN  IF "ToolError" \in failed THEN 1
      ELSE IF failed \cap {"SemverViolation", "Unknown", None} # {} THEN 2
      ELSE IF "BaselineError" \in failed
           THEN IF baseline_errors_are_warnings(mode) /\ ~warn_as_fail THEN 0 ELSE 3
      ELSE 0

exit_code_from_report(rs, mode, warn_as_fail) ==
  LET kinds(status) ==
        { rs[i].failure_kind : i \in { i \in DOMAIN rs : rs[i].status = status } }
      failed == kinds("Failed")
  IN  IF "ToolError" \in failed THEN 1
      ELSE IF failed \cap {"SemverViolation", "Unknown", None} # {} THEN 2
      ELSE IF "BaselineError" \in failed
           THEN IF baseline_errors_are_warnings(mode) /\ ~warn_as_fail THEN 0 ELSE 3
      ELSE IF "BaselineError" \in kinds("Skipped") /\ warn_as_fail THEN 3
      ELSE 0

(***************************************************************************)
(* Capabilities                                                            *)
(***************************************************************************)
\* Mutant: the warnings among the skipped packages are forgotten.
baseline_available_FailedOnly(rs) ==
  \A i \in DOMAIN rs : ~(rs[i].status = "Failed" /\ rs[i].failure_kind = "BaselineError")

baseline_available(rs) == \A i \in DOMAIN rs : rs[i].failure_kind # "BaselineError"

capabilities(gitSkipped, gitAvailable, baselineAvailable) ==
  [git |-> IF gitSkipped THEN "Skipped" ELSE IF gitAvailable THEN "Available" ELSE "Unavailable",
   baseline |-> IF baselineAvailable THEN "Available" ELSE "Unavailable"]

build_capability_context(kind, gitAvailable, rs) ==
  capabilities(kind # "Git", gitAvailable, baseline_available(rs))

=============================================================================
