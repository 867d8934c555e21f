------------------------------- MODULE MCPipeline -------------------------------
(***************************************************************************)
(* Pipeline on three packages, a receipt that holds two findings, and one  *)
(* answer of the engine of each kind the tail tells apart.                 *)
(***************************************************************************)
EXTENDS Pipeline

Dir(p) == <<"crates", <<"a", "b", "c">>[p]>>
NoGlobs == [given |-> FALSE, valid |-> TRUE, matches |-> {}]

MCInput(git, explicit, mode, failFast) ==
  [loads |-> TRUE, publishable |-> [p \in 1..3 |-> TRUE], has_lib |-> [p \in 1..3 |-> TRUE],
   git |-> git, layout |-> LayoutOf(<<>>, [p \in 1..3 |-> Dir(p)]), changes |-> {},
   config |-> [explicit |-> explicit, include |-> NoGlobs, exclude |-> NoGlobs,
     skip_publish_false |-> TRUE, skip_no_lib |-> TRUE, mode |-> mode, kind |-> "Git",
     rev |-> "main", fail_fast |-> failFast]]

\* Runs that check all three packages, two of them, none, or end in an error.
MCInputs ==
  { MCInput("answers", {}, "Workspace", FALSE), MCInput("answers", {}, "Workspace", TRUE),
    MCInput("answers", {1, 2}, "Workspace", FALSE),
    MCInput("answers", {}, "Changed", FALSE), MCInput("fails", {}, "Changed", FALSE) }

MCRevs == {"main"}

Ran(exit, words) == [ran |-> TRUE, exit |-> exit, stdout |-> {}, stderr |-> words]

MCAnswers ==
  { Ran(0, {}),
    Ran(100, {"minor", "bump required"}),
    Ran(101, {"error"}),
    Ran(2, {"baseline", "crate", "not found"}),
    Ran(2, {"revision", "shallow"}),
    [ran |-> FALSE, exit |-> NoExit, stdout |-> {}, stderr |-> {"failed"}] }

\* The defaults of BaselineErrorBehavior, and the two other actions throughout.
DefaultOnError ==
  [k \in OnErrorKey |-> IF k \in {"new_crate", "not_published"} THEN "Warn" ELSE "Fail"]
All(action) == [k \in OnErrorKey |-> action]

Day == 10
W(p, check, expires) == [package |-> p, check_id |-> check, expires |-> expires]

WaiverSets ==
  { {}, {W(1, "semver", NoDate), W(2, "semver", Day)},
    {W(1, "tool.runtime", Day + 1), W(2, "baseline", NoDate), W(3, "semver", Day - 1)} }

Modes == { <<"Pr", {}>>, <<"Release", {}>>, <<"Cockpit", {}>>, <<"Auto", {}>>,
           <<"Auto", {"CI_COMMIT_TAG", "GITHUB_EVENT_NAME pull_request"}>> }

MCSettings ==
  { [root |-> TRUE, git |-> TRUE, format |-> format, mode |-> mode[1], env |-> mode[2],
     on_error |-> onError, warn_as_fail |-> warn, waivers |-> waivers, today |-> Day] :
      format \in {"Receipt", "Text"}, mode \in Modes,
      onError \in {DefaultOnError, All("Skip")}, warn \in BOOLEAN, waivers \in WaiverSets }
  \cup
  { [root |-> FALSE, git |-> git, format |-> format, mode |-> "Pr", env |-> {},
     on_error |-> DefaultOnError, warn_as_fail |-> FALSE, waivers |-> {}, today |-> Day] :
      git \in BOOLEAN, format \in {"Receipt", "Text"} }

=============================================================================
