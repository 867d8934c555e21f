-------------------------------- MODULE MCRunner --------------------------------
(***************************************************************************)
(* Runner on a workspace of three packages, in directories of their own,   *)
(* as `cargo metadata` lists it.                                           *)
(***************************************************************************)
EXTENDS Display, Workspace

Dir(p) == <<"crates", <<"a", "b", "c">>[p]>>
Edit(path) == Change(path, path, FALSE)
In(p) == Edit(Dir(p) \o <<"lib.rs">>)

NoGlobs == [given |-> FALSE, valid |-> TRUE, matches |-> {}]
Match(set) == [given |-> TRUE, valid |-> TRUE, matches |-> set]
BadGlob == [given |-> TRUE, valid |-> FALSE, matches |-> {}]

MCConfig(explicit, include, exclude, skipPublish, skipNoLib, mode, kind, rev, failFast) ==
  [explicit |-> explicit, include |-> include, exclude |-> exclude,
   skip_publish_false |-> skipPublish, skip_no_lib |-> skipNoLib,
   mode |-> mode, kind |-> kind, rev |-> rev, fail_fast |-> failFast]

\* A member may be published, only to a registry of its own if it is the
\* second; its library has the default crate type, is a proc-macro, or else has
\* a crate type of its own.  A dependency is listed among the members.
Member(p, publish, library) ==
  Listed(Dir(p), TRUE,
         IF ~publish THEN "nowhere" ELSE IF p = 2 THEN "registries" ELSE "unset",
         {{"bin"}, IF ~library THEN {"cdylib", "rlib"}
                   ELSE IF p = 3 THEN {"proc-macro"} ELSE {"lib"}})
Dependency == Listed(<<"vendor", "d">>, FALSE, "unset", {{"lib"}})

Metadata(published, libraries) ==
  LET member(p) == Member(p, p \in published, p \in libraries)
  IN  <<member(1), Dependency, member(2), member(3)>>

MCInput(loads, published, libraries, git, changes, cfg) ==
  LET workspace == load(<<>>, Metadata(published, libraries))
  IN  [loads |-> loads, packages |-> workspace.packages,
       publishable |-> workspace.publishable, has_lib |-> workspace.has_lib,
       layout |-> workspace.layout, git |-> git, changes |-> changes, config |-> cfg]

\* The static filters in every combination, in workspace scope.
FilterInputs ==
  { MCInput(loads, published, libraries, "answers", {},
      MCConfig(explicit, include, exclude, skips[1], skips[2], "Workspace", "CratesIo", None, FALSE)) :
      loads \in {TRUE}, published \in {{1, 2, 3}, {3}}, libraries \in {{1, 2, 3}, {2, 3}},
      explicit \in {{}, {1, 2}, {3, 4}, {4}},
      include \in {NoGlobs, Match({1, 2}), BadGlob}, exclude \in {NoGlobs, Match({2})},
      skips \in BOOLEAN \X BOOLEAN }

\* The scope in every combination, with and without fail_fast.
ScopeInputs ==
  { MCInput(loads, {1, 2, 3}, {1, 2, 3}, git, changes,
      MCConfig(explicit, NoGlobs, exclude, TRUE, TRUE, mode, kind, rev, failFast)) :
      loads \in BOOLEAN, git \in {"absent", "fails", "answers"},
      changes \in {{}, {In(2)}, {In(1), In(3)}, {In(1), Edit(<<"Cargo.toml">>)}},
      explicit \in {{}, {2, 3}}, exclude \in {NoGlobs, Match({1})},
      mode \in {"Workspace", "Changed"}, kind \in {"CratesIo", "Git"},
      rev \in {None, "main"}, failFast \in BOOLEAN }

MCInputs == FilterInputs \cup ScopeInputs

Ran(exit, words) == [ran |-> TRUE, exit |-> exit, stdout |-> {}, stderr |-> words]

MCRevs == {"main"}

\* One answer of each kind the reports tell apart.
MCAnswers ==
  { Ran(0, {}),
    Ran(1, {"major", "bump required"}),
    Ran(2, {"baseline", "crate", "not found"}),
    [ran |-> FALSE, exit |-> NoExit, stdout |-> {}, stderr |-> {"failed"}] }

(***************************************************************************)
(* What the documentation says, and the code does not do                   *)
(***************************************************************************)
\* "Packages without a library target (`[lib]` in Cargo.toml) are skipped", and
\* no others for that reason, whatever crate type the library has.
LibrariesHaveATarget ==
  \A i \in DOMAIN reports :
    reports[i].skip_reason = "no library target" =>
      \A kinds \in input.packages[reports[i].name].targets : kinds \cap LibraryKinds = {}

=============================================================================
