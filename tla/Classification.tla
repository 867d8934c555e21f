----------------------------- MODULE Classification -----------------------------
(***************************************************************************)
(* How the answer of one `cargo semver-checks` process becomes a failure   *)
(* kind: semverguard-domain/src/classification.rs, on the output that      *)
(* semverguard-engine/src/lib.rs captures.                                 *)
(*                                                                         *)
(* The text of an answer is abstracted to the set of the phrases the code  *)
(* searches it for.                                                        *)
(***************************************************************************)
EXTENDS Integers, Sequences, FiniteSetsExt

None == "none"
NoExit == -1          \* killed by a signal: there is no exit code

FailureKind == {"SemverViolation", "BaselineError", "ToolError", "Unknown"}

BaselineErrorCause ==
  {"ShallowClone", "RevisionNotFound", "CrateAbsentFromBaseline",
   "MergeBaseNotFound", "RustdocGenerationFailed", "NotPublished", "Other"}

RequiredBump == {"Major", "Minor", "Patch", "Unknown"}

BumpWord == {"major", "minor", "patch", "bump", "required", "bump required"}

BaselineWord ==
  {"baseline", "revision", "merge-base", "merge base", "not published",
   "never published", "crates.io", "shallow", "unknown revision", "not found",
   "bad revision", "unknown ref", "crate", "package", "does not exist",
   "missing", "rustdoc", "failed", "error", "registry"}

Word == BumpWord \cup BaselineWord

\* str::contains: a phrase holds the phrases inside it.
Inside(word) ==
  CASE word \in {"unknown revision", "bad revision"} -> {word, "revision"}
    [] word = "bump required" -> {word, "bump", "required"}
    [] word = "crates.io" -> {word, "crate"}
    [] OTHER -> {word}

Text(words) == UNION { Inside(w) : w \in words }

\* The first rule, in the order of the code, whose condition holds.
FirstOf(rules) ==
  LET holding == { i \in DOMAIN rules : rules[i][1] }
  IN  IF holding = {} THEN None ELSE rules[Min(holding)][2]

infer(text) ==
  LET asks(level) == {level, "bump", "required"} \subseteq text
  IN  FirstOf(<< <<asks("major"), "Major">>,
                 <<asks("minor"), "Minor">>,
                 <<asks("patch"), "Patch">>,
                 <<"bump required" \in text, "Unknown">> >>)

detect_baseline_error_from_message(text) ==
  LET any(words) == text \cap words # {}
      all(words) == words \subseteq text
      gate == any({"baseline", "revision", "merge-base", "merge base",
                   "not published", "never published", "crates.io"})
  IN  IF ~gate THEN None ELSE
      FirstOf(<<
        <<any({"shallow"}), "ShallowClone">>,
        <<\/ any({"unknown revision", "bad revision", "unknown ref"})
          \/ all({"revision", "not found"}), "RevisionNotFound">>,
        <</\ any({"crate", "package"})
          /\ any({"not found", "does not exist", "missing"})
          /\ any({"baseline"}), "CrateAbsentFromBaseline">>,
        <<any({"merge base", "merge-base"}), "MergeBaseNotFound">>,
        <<any({"rustdoc"}) /\ any({"failed", "error"}), "RustdocGenerationFailed">>,
        <<any({"crates.io", "registry", "not published", "never published"}),
          "NotPublished">>,
        <<any({"baseline"}) /\ any({"not found", "missing", "error", "failed"}),
          "Other">> >>)

simple(kind) == [kind |-> kind, cause |-> None]
baseline(cause) == [kind |-> "BaselineError", cause |-> cause]

(***************************************************************************)
(* An answer of the engine: either the process ran, and has an exit code   *)
(* and two streams, or it could not be started, and the error's text is in *)
(* stderr.                                                                 *)
(***************************************************************************)
Answer == [ran : BOOLEAN, exit : Int, stdout : SUBSET Word, stderr : SUBSET Word]

Success(answer) == answer.ran /\ answer.exit = 0

required_bump(answer) ==
  LET fromStdout == infer(Text(answer.stdout))
  IN  IF ~answer.ran THEN None
      ELSE IF fromStdout # None THEN fromStdout
      ELSE infer(Text(answer.stderr))

classify_output_detailed(answer) ==
  LET cause == detect_baseline_error_from_message(Text(answer.stdout \cup answer.stderr))
  IN  IF \/ required_bump(answer) # None
         \/ answer.exit = 1
      THEN simple("SemverViolation")
      ELSE IF cause # None THEN baseline(cause)
      ELSE simple(IF answer.exit \in {2, NoExit} THEN "ToolError" ELSE "Unknown")

\* The text of a domain error always starts with its kind: "engine error: ".
classify_engine_error_detailed(answer) ==
  LET text  == Text(answer.stderr \cup {"error"})
      cause == detect_baseline_error_from_message(text)
  IN  IF text \cap {"baseline", "revision"} # {} /\ cause # None
      THEN baseline(cause)
      ELSE simple("ToolError")

\* Mutant: the failure kind is set whether the check failed or not.
Classified_OfSuccessToo(answer) ==
  IF answer.ran THEN classify_output_detailed(answer)
  ELSE classify_engine_error_detailed(answer)

Classified(answer) ==
  IF Success(answer) THEN simple(None)
  ELSE IF answer.ran THEN classify_output_detailed(answer)
  ELSE classify_engine_error_detailed(answer)

=============================================================================
