--------------------------------- MODULE MCCheck ---------------------------------
(***************************************************************************)
(* Check on two packages and one or two processes: commands that reach     *)
(* every way run_check can end.                                            *)
(***************************************************************************)
EXTENDS Check

Dir(p) == <<"crates", <<"a", "b">>[p]>>
ManifestOf(p) == Dir(p) \o <<Manifest>>
Bumped(p) == Change(ManifestOf(p), ManifestOf(p), TRUE)
Edited(p) == Change(Dir(p) \o <<"lib.rs">>, Dir(p) \o <<"lib.rs">>, FALSE)

\* HEAD left the tag v1 before it left main.
MCRevs == {"main", "v1"}
Since(changes) == [r \in MCRevs |-> IF r = "main" THEN changes ELSE changes \cup {Edited(2)}]

Fine ==
  [root |-> TRUE, loads |-> TRUE, label |-> FALSE, git |-> "answers", env |-> {}, today |-> 1,
   publishable |-> [p \in 1..2 |-> TRUE], has_lib |-> [p \in 1..2 |-> TRUE],
   layout |-> LayoutOf(<<>>, [p \in 1..2 |-> Dir(p)]), diff |-> Since({Edited(1)})]

Worlds ==
  { Fine, [Fine EXCEPT !.root = FALSE], [Fine EXCEPT !.loads = FALSE],
    [Fine EXCEPT !.git = "missing"], [Fine EXCEPT !.git = "fails"],
    [Fine EXCEPT !.diff = Since({Bumped(1)})],
    [Fine EXCEPT !.diff = Since({Bumped(1)}), !.git = "partly",
                   !.has_lib = [p \in 1..2 |-> p = 1]],
    [Fine EXCEPT !.label = TRUE, !.has_lib = [p \in 1..2 |-> p = 1]],
    [Fine EXCEPT !.env = {"CI_COMMIT_TAG"}] }

NoToml == [parses |-> TRUE, scope_set |-> FALSE] @@ Defaults
Tomls ==
  { NoToml, [NoToml EXCEPT !.parses = FALSE, !.scope_set = TRUE, !.config.mode = "Changed"],
    [NoToml EXCEPT !.mode = "Cockpit", !.config.kind = "Git", !.config.rev = "v1"],
    [NoToml EXCEPT !.scope_set = TRUE, !.format = "Receipt", !.warn_as_fail = TRUE,
                   !.config.kind = "Git"],
    [NoToml EXCEPT !.scope_set = TRUE, !.config.mode = "Changed", !.config.rev = "v1"],
    [NoToml EXCEPT !.config.explicit = {2, 7}], [NoToml EXCEPT !.config.explicit = {7}],
    [NoToml EXCEPT !.scope_set = TRUE, !.config.mode = "Changed", !.config.rev = "v1",
                   !.config.kind = "Git", !.request.version = TRUE,
                   !.extra_args = << <<"--baseline-version", None>> >>] }

NoArgs ==
  [mode |-> None, format |-> None, baseline_rev |-> None, baseline_version |-> FALSE,
   changed |-> FALSE, engine_args |-> <<>>, fail_fast |-> FALSE, dry_run |-> FALSE,
   json |-> FALSE, sarif |-> FALSE]
Flags ==
  { NoArgs, [NoArgs EXCEPT !.dry_run = TRUE],
    [NoArgs EXCEPT !.baseline_rev = "main", !.sarif = TRUE],
    [NoArgs EXCEPT !.baseline_rev = "main", !.format = "Receipt", !.sarif = TRUE],
    [NoArgs EXCEPT !.baseline_rev = "main", !.mode = "Cockpit", !.sarif = TRUE],
    [NoArgs EXCEPT !.baseline_rev = "main", !.baseline_version = TRUE,
                     !.json = TRUE, !.changed = TRUE],
    [NoArgs EXCEPT !.mode = "Release", !.format = "Receipt", !.fail_fast = TRUE,
                     !.engine_args = << <<"--verbose", None>> >>] }

\* Everything with everything, one process.
Wide == { [toml |-> t, args |-> a, world |-> w] : t \in Tomls, a \in Flags, w \in Worlds }

\* A few commands that differ in what they write, one after the other.
Narrow ==
  { [toml |-> NoToml, args |-> a, world |-> w] :
      a \in { [NoArgs EXCEPT !.baseline_rev = "main", !.format = "Receipt", !.sarif = TRUE],
              [NoArgs EXCEPT !.baseline_rev = "main", !.mode = "Cockpit"] },
      w \in { Fine, [Fine EXCEPT !.diff = Since({Bumped(1)})],
              [Fine EXCEPT !.diff = Since({Bumped(2)}), !.label = TRUE] } }

WideInputs == { InputOf(c) : c \in Wide }
WideSettings == { SettingsOf(c) : c \in Wide }
NarrowInputs == { InputOf(c) : c \in Narrow }
NarrowSettings == { SettingsOf(c) : c \in Narrow }

Ran(exit_code, words) == [ran |-> TRUE, exit |-> exit_code, stdout |-> {}, stderr |-> words]
MCAnswers ==
  { Ran(0, {}), Ran(1, {}), Ran(2, {"baseline", "crate", "not found"}),
    [ran |-> FALSE, exit |-> NoExit, stdout |-> {}, stderr |-> {"failed"}] }
Few == { Ran(0, {}), Ran(1, {}) }

\* What list_packages answers the `list` command with.
Listing == INSTANCE Runner WITH input <- [input EXCEPT !.config = run_list(command)]

\* "List packages that would be checked without running checks": what `list`
\* shows in a configuration that `check` runs with the same flags.
ListPreviews ==
  pc = "done" /\ command.args.mode = None /\ ~command.args.baseline_version =>
    Listing!would_check = would_check

=============================================================================
