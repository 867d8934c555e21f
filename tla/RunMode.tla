--------------------------------- MODULE RunMode ---------------------------------
(***************************************************************************)
(* The run modes of semverguard-types/src/config.rs and what they decide.  *)
(*                                                                         *)
(* The environment is the set of the CI signals that are present in it.    *)
(***************************************************************************)
RunModes == {"Auto", "Pr", "Release", "Cockpit"}

TagSignals == {"GITHUB_REF refs/tags/", "CI_COMMIT_TAG"}
PullRequestSignals ==
  {"GITHUB_EVENT_NAME pull_request", "CI_PIPELINE_SOURCE merge_request_event",
   "SYSTEM_PULLREQUEST_PULLREQUESTID", "CIRCLE_PULL_REQUEST"}
Signals == TagSignals \cup PullRequestSignals

\* The tag signals are looked at first; every other branch ends in Pr.
detect_from_env(env) == IF env \cap TagSignals # {} THEN "Release" ELSE "Pr"

resolve(mode, env) == IF mode = "Auto" THEN detect_from_env(env) ELSE mode

\* Mutant: the cockpit lane is forgotten.
baseline_errors_are_warnings_PrOnly(mode) == mode = "Pr"

\* Of a resolved mode.
baseline_errors_are_warnings(mode) == mode \in {"Pr", "Cockpit"}

suggested_scope_mode(mode) == IF mode = "Release" THEN "Workspace" ELSE "Changed"

=============================================================================
