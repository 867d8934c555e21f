--------------------------------- MODULE Reports ---------------------------------
(***************************************************************************)
(* Package reports and their summary: semverguard-types/src/report.rs and  *)
(* the constructors of reports in semverguard-domain/src/runner.rs.        *)
(*                                                                         *)
(* Packages are numbered in the order of their names, which is the order   *)
(* cargo metadata lists them in.                                           *)
(***************************************************************************)
EXTENDS Classification, FiniteSets

CONSTANT N          \* number of packages of the workspace

ASSUME NAssumption == N \in Nat

Pkg == 1..N

Status == {"Passed", "Failed", "Skipped"}

Report ==
  [name : Pkg, status : Status,
   skip_reason : {None, "filtered by include/exclude patterns", "filtered by include/exclude",
                  "publish = false", "no library target", "unchanged",
                  "engine invocation failed", "baseline warning", "baseline skipped",
                  "pr mode gate"},
   engine : BOOLEAN, bump : RequiredBump \cup {None},
   failure_kind : FailureKind \cup {None},
   baseline_error : BaselineErrorCause \cup {None}]

skipped(p, reason) ==
  [name |-> p, status |-> "Skipped", skip_reason |-> reason, engine |-> FALSE,
   bump |-> None, failure_kind |-> None, baseline_error |-> None]

checked(p, answer) ==
  [name |-> p,
   status |-> IF Success(answer) THEN "Passed" ELSE "Failed",
   skip_reason |-> IF answer.ran THEN None ELSE "engine invocation failed",
   engine |-> answer.ran,
   bump |-> required_bump(answer),
   failure_kind |-> Classified(answer).kind,
   baseline_error |-> Classified(answer).cause]

Count(rs, status) == Cardinality({ i \in DOMAIN rs : rs[i].status = status })

summarize(rs) ==
  [total |-> Len(rs), passed |-> Count(rs, "Passed"),
   failed |-> Count(rs, "Failed"), skipped |-> Count(rs, "Skipped")]

=============================================================================
