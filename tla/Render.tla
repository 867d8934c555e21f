---------------------------------- MODULE Render ----------------------------------
(***************************************************************************)
(* What a reader gets to see of a run: the text, the pull request comment, *)
(* the two ways to SARIF, the receipt's summary and `semverguard explain`. *)
(* print_text of semverguard-cli/src/main.rs; comment.rs, sarif.rs,        *)
(* explain.rs and build_summary_data of receipt.rs in semverguard-core.    *)
(*                                                                         *)
(* A rendering is which packages it names, where, and how gravely; its     *)
(* wording is left out.                                                    *)
(***************************************************************************)
EXTENDS Receipt

Relevant(rs) == { rs[i] : i \in { i \in DOMAIN rs : is_finding_relevant_package(rs[i]) } }
With(rs, status) == { rs[i] : i \in { i \in DOMAIN rs : rs[i].status = status } }

(***************************************************************************)
(* SARIF                                                                   *)
(***************************************************************************)
\* The rules, and the level each declares as its default.
generate_rules ==
  [ rule \in {"breaking-change", "major-bump-required", "minor-bump-required",
              "patch-bump-required", "tool-error", "baseline-error"} |->
      CASE rule \in {"minor-bump-required", "baseline-error"} -> "Warning"
        [] rule = "patch-bump-required" -> "Note"
        [] OTHER -> "Error" ]

SemverRule(p, bump) ==
  CASE bump = "Major" -> [package |-> p, rule |-> "major-bump-required", level |-> "Error"]
    [] bump = "Minor" -> [package |-> p, rule |-> "minor-bump-required", level |-> "Warning"]
    [] bump = "Patch" -> [package |-> p, rule |-> "patch-bump-required", level |-> "Note"]
    [] OTHER -> [package |-> p, rule |-> "breaking-change", level |-> "Error"]

BaselineRule(p) == [package |-> p, rule |-> "baseline-error", level |-> "Warning"]
ToolRule(p) == [package |-> p, rule |-> "tool-error", level |-> "Error"]

\* From a report: by the failure kind, and the bump of an unclassified failure.
package_to_sarif_result(r) ==
  CASE r.failure_kind = "BaselineError" -> BaselineRule(r.name)
    [] r.failure_kind = "ToolError" -> ToolRule(r.name)
    [] OTHER -> SemverRule(r.name, r.bump)

report_to_sarif(rs) ==
  [results |-> { package_to_sarif_result(r) : r \in Relevant(rs) },
   successful |-> summarize(rs).failed = 0]

\* From a finding: by its check, and the bump of a violation only.
finding_to_sarif_result(f) ==
  CASE f.check_id = "baseline" -> BaselineRule(f.package)
    [] f.check_id = "tool.runtime" -> ToolRule(f.package)
    [] f.check_id = "semver" -> SemverRule(f.package, f.bump)
    [] OTHER -> SemverRule(f.package, None)

receipt_to_sarif(receipt) ==
  [results |-> { finding_to_sarif_result(f) : f \in ToSet(receipt.findings) },
   successful |-> receipt.verdict.status = "Pass"]

(***************************************************************************)
(* The text and the comment                                                *)
(***************************************************************************)
SkipLines(rs) == { <<r.name, r.skip_reason>> : r \in With(rs, "Skipped") }

print_text(rs) ==
  [counts |-> summarize(rs),
   FAIL |-> { r.name : r \in With(rs, "Failed") },
   SKIP |-> SkipLines(rs)]

\* Failures are listed from the report the receipt carries, the warnings and
\* the tool errors from its findings; only those say whether they are waived.
render_comment(receipt, rs) ==
  [verdict |-> receipt.verdict.status,
   failed |-> { r.name : r \in { r \in With(rs, "Failed") :
                                   r.failure_kind \notin {"BaselineError", "ToolError"} } },
   skipped |-> SkipLines(rs),
   warnings |-> { f \in ToSet(receipt.findings) :
                    f.level = "Warning" \/ f.check_id = "tool.runtime" }]

(***************************************************************************)
(* The summary beside the report                                           *)
(***************************************************************************)
Weight(bump) ==
  CASE bump = "Major" -> 3 [] bump = "Minor" -> 2 [] bump = "Patch" -> 1 [] OTHER -> 0

build_summary_data(rs) ==
  LET number(test(_)) == Cardinality({ i \in DOMAIN rs : test(rs[i]) })
      bumps == { rs[i].bump : i \in DOMAIN rs } \ {None}
  IN  [packages_total |-> Len(rs),
       packages_checked |-> number(LAMBDA r : r.status # "Skipped"),
       packages_skipped |-> number(LAMBDA r : r.status = "Skipped"),
       violations |-> number(LAMBDA r : r.failure_kind = "SemverViolation"),
       baseline_issues |-> number(LAMBDA r : r.failure_kind = "BaselineError"),
       max_required_bump |->
         IF bumps = {} THEN None
         ELSE CHOOSE b \in bumps : \A c \in bumps : Weight(b) >= Weight(c)]

(***************************************************************************)
(* explain                                                                 *)
(***************************************************************************)
Entry(check, code, level) == [check_id |-> check, code |-> code, default_level |-> level]

FINDING_REGISTRY ==
  { Entry("semver", "violation", "Error"), Entry("baseline", "missing", "Warning"),
    Entry("tool.runtime", "runtime_error", "Error"), Entry("engine", "unknown", "Error") }

\* The code a finding of the check carries.
CodeOf(check) ==
  CASE check = "semver" -> "violation" [] check = "baseline" -> "missing"
    [] check = "tool.runtime" -> "runtime_error" [] check = "engine" -> "unknown"

lookup_by_check_id(check) == { e \in FINDING_REGISTRY : e.check_id = check }
lookup(check, code) == { e \in lookup_by_check_id(check) : e.code = code }

\* What `explain` shows; nothing means that it fails.
run_explain(check, code) ==
  IF check = None THEN FINDING_REGISTRY
  ELSE IF code = None THEN lookup_by_check_id(check) ELSE lookup(check, code)

=============================================================================
