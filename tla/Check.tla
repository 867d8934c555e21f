---------------------------------- MODULE Check ----------------------------------
(***************************************************************************)
(* `semverguard check` as a process: run_check of semverguard-cli/src/     *)
(* main.rs, the PR gate of semverguard-core/src/operations.rs and the      *)
(* receipt bundle that receipt.rs writes file by file.                     *)
(*                                                                         *)
(* Processes run one after the other in one workspace.  The artifacts      *)
(* directory stays; a process may be killed between any two steps, and     *)
(* any write may fail.                                                     *)
(***************************************************************************)
EXTENDS Pipeline, Engine

TomlFile == INSTANCE Configuration

CONSTANTS
  Commands,   \* what `semverguard check` may be started with: see Command
  MaxRuns     \* bound on the number of processes

ASSUME MaxRunsAssumption == MaxRuns \in Nat \ {0}

(***************************************************************************)
(* What a process is started with: the semverguard.toml it finds, the      *)
(* flags, the labels and signals of its environment, and the world.        *)
(***************************************************************************)
Options == Seq(STRING \X (Revs \cup {None}))

Toml(t) ==
  /\ {"config", "mode", "format", "json_path", "request", "extra_args"} \subseteq DOMAIN t
  /\ t.parses \in BOOLEAN         \* as a configuration; it may still be TOML
  /\ t.scope_set \in BOOLEAN      \* scope.mode is given explicitly
  /\ t.config \in Config /\ (~t.scope_set => t.config.mode = "Workspace")
  /\ t.mode \in RunModes
  /\ t.format \in Formats /\ t.json_path \in BOOLEAN
  /\ t.on_error \in OnError /\ t.warn_as_fail \in BOOLEAN /\ t.waivers \in SUBSET Waiver
  /\ t.request \in [RequestFields -> BOOLEAN] /\ t.extra_args \in Options

Args(a) ==
  /\ a.mode \in RunModes \cup {None} /\ a.format \in Formats \cup {None}
  /\ a.baseline_rev \in Revs \cup {None} /\ a.baseline_version \in BOOLEAN
  /\ {a.changed, a.fail_fast, a.dry_run, a.json, a.sarif} \subseteq BOOLEAN
  /\ a.engine_args \in Options

\* git: its executable is missing, it cannot compare with the baseline, it
\* fails on the diff of a single file, or it answers.  What it then lists for
\* a revision is what changed since HEAD branched off from it (base...head).
World(w) ==
  /\ {w.root, w.loads, w.label} \subseteq BOOLEAN
  /\ w.publishable \in [Pkg -> BOOLEAN] /\ w.has_lib \in [Pkg -> BOOLEAN]
  /\ w.git \in {"missing", "fails", "partly", "answers"}
  /\ DOMAIN w.diff = Revs
  /\ w.env \in SUBSET Signals /\ w.today \in Nat

ASSUME CommandsAssumption ==
  \A c \in Commands : Toml(c.toml) /\ Args(c.args) /\ World(c.world)

NoGlobs == [given |-> FALSE, valid |-> TRUE, matches |-> {}]

\* SemverguardConfig::default(), also what a file that does not parse leaves.
Defaults ==
  [config |-> [explicit |-> {}, include |-> NoGlobs, exclude |-> NoGlobs,
     skip_publish_false |-> TRUE, skip_no_lib |-> TRUE, mode |-> "Workspace",
     kind |-> "CratesIo", rev |-> None, fail_fast |-> FALSE],
   mode |-> "Auto", format |-> "Text", json_path |-> FALSE,
   on_error |-> [k \in OnErrorKey |->
     IF k \in {"new_crate", "not_published"} THEN "Warn" ELSE "Fail"],
    warn_as_fail |-> FALSE, waivers |-> {}, request |-> NoRequest, extra_args |-> <<>>]

\* --baseline-rev is applied first, --baseline-version over it.
BaselineKind(args, cfg) ==
  IF args.baseline_version THEN "CratesIo"
  ELSE IF args.baseline_rev # None THEN "Git" ELSE cfg.config.kind

\* Mutant: without the flag there is no revision.
Revision_FlagOnly(args, cfg) == args.baseline_rev

Revision(args, cfg) == IF args.baseline_rev # None THEN args.baseline_rev ELSE cfg.config.rev

\* Mutant: the changed scope is suggested whether there is a revision or not.
ScopeMode_Unguarded(args, cfg, scope_set, mode, env) ==
  IF args.changed THEN "Changed"
  ELSE IF scope_set THEN cfg.config.mode
  ELSE suggested_scope_mode(resolve(mode, env))

\* The mode suggests a scope where neither the file nor a flag asks for one.
ScopeMode(args, cfg, scope_set, mode, env) ==
  LET suggested == suggested_scope_mode(resolve(mode, env))
      usable == BaselineKind(args, cfg) = "Git" /\ Revision(args, cfg) # None
  IN  IF args.changed THEN "Changed"
      ELSE IF scope_set \/ (suggested = "Changed" /\ ~usable) THEN cfg.config.mode
      ELSE suggested

\* --format, then what --json and --sarif make of it.
Format(args, cfg, mode) ==
  LET asked == IF mode = "Cockpit" THEN "Receipt"
               ELSE IF args.format # None THEN args.format ELSE cfg.format
      json == IF args.json /\ args.format = None /\ asked = "Text" THEN "Both" ELSE asked
  IN  IF args.sarif /\ json # "Receipt" THEN "Sarif" ELSE json

apply_cli_overrides(cfg, args, scope_set, env) ==
  LET mode == IF args.mode # None THEN args.mode ELSE cfg.mode
      request == [cfg.request EXCEPT !.version = @ \/ args.baseline_version]
      overridden == [cfg.config EXCEPT
                   !.kind = BaselineKind(args, cfg), !.rev = Revision(args, cfg),
                   !.mode = ScopeMode(args, cfg, scope_set, mode, env),
                   !.fail_fast = @ \/ args.fail_fast]
  IN  [cfg EXCEPT !.mode = mode, !.format = Format(args, cfg, mode),
                  !.json_path = @ \/ args.json \/ args.sarif,
                  !.request = request, !.extra_args = @ \o args.engine_args,
                  !.config = overridden]

Effective(c) ==
  apply_cli_overrides(IF c.toml.parses THEN c.toml ELSE Defaults, c.args,
                      c.toml.scope_set, c.world.env)

\* `list` applies --changed and --baseline-rev only.
run_list(c) ==
  [c.toml.config EXCEPT
     !.mode = IF c.args.changed THEN "Changed" ELSE @,
     !.kind = IF c.args.baseline_rev # None THEN "Git" ELSE @,
     !.rev = IF c.args.baseline_rev # None THEN c.args.baseline_rev ELSE @]

\* Mutant: the revision the file names, whatever --baseline-rev says.
EngineCommand_FileRev(c) ==
  LET cfg == Effective(c)
  IN  build_command(cfg.config.kind, c.toml.config.rev, cfg.request, cfg.extra_args)

\* What the engine is run with for each package.
EngineCommand(c) ==
  LET cfg == Effective(c)
  IN  build_command(cfg.config.kind, cfg.config.rev, cfg.request, cfg.extra_args)

\* The file as validate_config sees it.
Validated(t) ==
  [TomlFile!DefaultCfg EXCEPT
     !.kind = t.config.kind, !.rev = t.config.rev # None, !.version = t.request.version,
     !.mode = t.config.mode, !.include = t.config.include.valid,
     !.exclude = t.config.exclude.valid, !.all_features = t.request.all_features,
     !.only_explicit = t.request.only_explicit_features, !.features = t.request.features]

\* What the runner and the pipeline get to see of it; git is asked about the
\* revision of the configuration, if it is asked at all.
InputOf(c) ==
  LET cfg == Effective(c).config
  IN  [loads |-> c.world.loads, publishable |-> c.world.publishable,
       has_lib |-> c.world.has_lib, layout |-> c.world.layout,
       changes |-> IF cfg.rev = None THEN {} ELSE c.world.diff[cfg.rev],
       git |-> IF c.world.git \in {"missing", "fails"} THEN "fails" ELSE "answers",
       config |-> cfg]

SettingsOf(c) ==
  LET cfg == Effective(c)
  IN  [root |-> c.world.root, git |-> c.world.git # "missing", format |-> cfg.format,
       mode |-> cfg.mode, env |-> c.world.env, on_error |-> cfg.on_error,
       warn_as_fail |-> cfg.warn_as_fail, waivers |-> cfg.waivers, today |-> c.world.today]

\* The runner's inputs and the pipeline's settings are those of the commands.
ASSUME InputsOfCommands ==
  \A c \in Commands : InputOf(c) \in Inputs /\ SettingsOf(c) \in Settings

(***************************************************************************)
(* The artifacts directory                                                 *)
(***************************************************************************)
File(name) == <<name, NoPackage>>
Log(stream, p) == <<stream, p>>
Files == { File(name) : name \in {"report.json", "comment.md", "sarif.json"} }
           \cup { Log(stream, p) : stream \in {"stdout", "stderr"}, p \in Pkg }

Never == 0          \* the file does not exist
Torn == -1          \* a write of it was cut short

should_emit_raw_logs(r) == r.status # "Skipped" \/ r.failure_kind = "BaselineError"

Logs(packages) == { Log(stream, p) : stream \in {"stdout", "stderr"}, p \in packages }

\* Mutant: the receipt names a log for failed packages only.
build_raw_log_refs_FailedOnly(rs) ==
  Logs({ p \in Pkg : \E i \in DOMAIN rs : rs[i].name = p /\ rs[i].status = "Failed" })

build_raw_log_refs(rs) ==
  Logs({ p \in Pkg : \E i \in DOMAIN rs : rs[i].name = p /\ should_emit_raw_logs(rs[i]) })

\* The files the receipt names, decided before any of them is written.
build_artifact_index(rs, sarif) ==
  {File("report.json"), File("comment.md")}
    \cup (IF sarif THEN {File("sarif.json")} ELSE {}) \cup build_raw_log_refs(rs)

write_raw_logs(rs) ==
  Logs({ p \in Pkg : \E i \in DOMAIN rs : rs[i].name = p /\ should_emit_raw_logs(rs[i]) })

\* The files of the bundle, which are written by their position.
write_receipt_bundle(rs, sarif) ==
  {File("report.json"), File("comment.md")}
    \cup write_raw_logs(rs) \cup (IF sarif THEN {File("sarif.json")} ELSE {})

\* Mutant: the receipt is written last.
Position_ReceiptLast(f) ==
  CASE f[1] = "report.json" -> 2 * N + 3
    [] f[1] = "comment.md" -> 1
    [] f[1] = "stdout" -> 2 * f[2]
    [] f[1] = "stderr" -> 2 * f[2] + 1
    [] f[1] = "sarif.json" -> 2 * N + 2

\* The receipt, its comment, the two logs of one package after the other, the
\* SARIF file.
Position(f) ==
  CASE f[1] = "report.json" -> 0
    [] f[1] = "comment.md" -> 1
    [] f[1] = "stdout" -> 2 * f[2]
    [] f[1] = "stderr" -> 2 * f[2] + 1
    [] f[1] = "sarif.json" -> 2 * N + 2

(***************************************************************************)
(* The process                                                             *)
(***************************************************************************)
VARIABLES
  command,    \* what the process was started with
  step,       \* where run_check is
  output,     \* what it is about to write, and the exit code it goes for
  todo,       \* the files of the bundle still to be written
  exit,       \* the process's exit code, Alive or Killed
  disk,       \* for each file of the artifacts directory, the run that wrote it
  past        \* for each run that exited: the files its receipt names, its code

proc == <<command, step, output, todo, exit>>
cvars == <<pvars, proc, disk, past>>

Alive == -1
Killed == -2
Panicked == 101
NoOutput == [receipt |-> None, capabilities |-> None, packages |-> <<>>, index |-> {}, code |-> 0]

Receipts == settings.format = "Receipt"
Cockpit == settings.mode = "Cockpit"
SarifToo == Receipts /\ command.args.sarif
ThisRun == Len(past) + 1

CInit ==
  /\ PInit
  /\ command \in Commands
  /\ input = InputOf(command) /\ settings = SettingsOf(command)
  /\ step = "config" /\ output = NoOutput /\ todo = {} /\ exit = Alive
  /\ disk = [f \in Files |-> Never] /\ past = <<>>

Exit(code) ==
  /\ step' = "exited" /\ exit' = code
  /\ past' = Append(past, [index |-> output.index, code |-> code])
  /\ UNCHANGED <<command, output, todo>>

Goto(s) == step' = s /\ UNCHANGED <<command, output, todo, exit, past>>

\* A receipt is on its way to the disk, or a report to wherever it is printed.
Emit(o, files) ==
  /\ step' = "write" /\ output' = o /\ todo' = files
  /\ UNCHANGED <<command, exit, past>>

handle_tool_error ==
  LET receipt == build_receipt(<<>>, {ToolErrorFinding}, settings.waivers, settings.today)
  IN  IF ~Receipts THEN Exit(1)
      ELSE Emit([receipt |-> receipt, packages |-> <<>>,
                 capabilities |-> capabilities(config.kind # "Git", config.kind = "Git", FALSE),
                 index |-> build_artifact_index(<<>>, SarifToo),
                 code |-> exit_code_from_receipt(receipt, settings.warn_as_fail)],
                write_receipt_bundle(<<>>, SarifToo))

\* Mutant: a file that does not parse is a file that is not there.
ReadConfig_KeepsDefaults ==
  /\ step = "config"
  /\ Goto("root")
  /\ UNCHANGED <<pvars, disk>>

ReadConfig ==
  /\ step = "config"
  /\ \/ command.toml.parses /\ Goto("root")
     \/ ~command.toml.parses /\ handle_tool_error
  /\ UNCHANGED <<pvars, disk>>

CheckRoot ==
  /\ step = "root"
  /\ \/ settings.root /\ Goto("dispatch")
     \/ ~settings.root /\ handle_tool_error
  /\ UNCHANGED <<pvars, disk>>

\* --dry-run prints what list_packages answers; its error ends the process.
DryRun ==
  /\ step = "dispatch" /\ command.args.dry_run
  /\ Exit(IF list_error = None THEN 0 ELSE 1)
  /\ UNCHANGED <<pvars, disk>>

\* Does git say that a manifest's version changed?  A detection that fails
\* counts as no.
VersionChanged ==
  LET manifests == { path \in changed_paths(input.changes) : is_manifest_path(path) }
  IN  /\ input.git = "answers"
      /\ command.world.git = "partly" => manifests = {}
      /\ has_manifest_version_change(input.layout, input.changes)

\* pr_mode_skip_reason: a pull request that bumps no version is not checked.
Gated ==
  /\ Mode = "Pr" /\ config.mode = "Changed" /\ ~command.world.label
  /\ config.kind = "Git" /\ config.rev # None
  /\ ~VersionChanged

\* What list_packages answers, as reports: the gate's reason for a package it
\* would check, its own for one it would skip.
ListedReports ==
  [ k \in DOMAIN would_check |-> skipped(would_check[k], "pr mode gate") ]
    \o [ k \in DOMAIN would_skip |-> skipped(would_skip[k].name, would_skip[k].reason) ]

\* The sort is by name, and keeps the reports of one name as they are.
ByName(rs) ==
  { pair \in (DOMAIN rs) \X (DOMAIN rs) :
      \/ rs[pair[1]].name < rs[pair[2]].name
      \/ rs[pair[1]].name = rs[pair[2]].name /\ pair[1] < pair[2] }

\* Mutant: the gate's reason for every package.
build_pr_mode_skipped_report_OneReason ==
  LET places == Ordered(DOMAIN ListedReports, ByName(ListedReports))
  IN  [ k \in DOMAIN places |-> skipped(ListedReports[places[k]].name, "pr mode gate") ]

build_pr_mode_skipped_report ==
  LET places == Ordered(DOMAIN ListedReports, ByName(ListedReports))
  IN  [ k \in DOMAIN places |-> ListedReports[places[k]] ]

GateClosed ==
  LET rs == build_pr_mode_skipped_report
      receipt == build_receipt(rs, {}, settings.waivers, settings.today)
      files == IF Receipts THEN write_receipt_bundle(rs, SarifToo) ELSE {}
  IN  Emit([receipt |-> receipt, packages |-> rs,
            capabilities |-> build_capability_context(config.kind, settings.git, rs),
            index |-> IF Receipts THEN build_artifact_index(rs, SarifToo) ELSE {},
            code |-> Code(settings, receipt, rs)],
           files)

Gate ==
  /\ step = "dispatch" /\ ~command.args.dry_run
  /\ \/ ~Gated /\ Goto("pipeline")
     \/ Gated /\ list_error # None /\ handle_tool_error
     \/ Gated /\ list_error = None /\ GateClosed
  /\ UNCHANGED <<pvars, disk>>

RunPipeline ==
  /\ step = "pipeline"
  /\ PNext
  /\ UNCHANGED <<proc, disk, past>>

\* A result without a report is a receipt's: see ReportWhenPrinted.
PipelineReturned ==
  LET files == IF Receipts THEN write_receipt_bundle(result.report, SarifToo) ELSE {}
  IN  /\ step = "pipeline" /\ stage = "returned"
      /\ IF result.is = "Err" THEN handle_tool_error
         ELSE Emit([receipt |-> result.receipt, packages |-> result.report,
                    capabilities |-> result.capabilities,
                    index |-> IF Receipts THEN build_artifact_index(result.report, SarifToo) ELSE {},
                    code |-> result.exit_code],
                   files)
      /\ UNCHANGED <<pvars, disk>>

Upcoming == CHOOSE f \in todo : \A g \in todo : Position(f) <= Position(g)

WriteFile ==
  /\ step = "write" /\ todo # {}
  /\ disk' = [disk EXCEPT ![Upcoming] = ThisRun]
  /\ todo' = todo \ {Upcoming}
  /\ UNCHANGED <<pvars, command, step, output, exit, past>>

\* A write that is cut short leaves the file alone or half-written.
CutShort == \/ UNCHANGED disk
            \/ todo # {} /\ disk' = [disk EXCEPT ![Upcoming] = Torn]

\* What a report goes out as; a receipt's bundle is written before.
emit_outputs(format) ==
  CASE format = "Text" -> {"text"}
    [] format = "Json" -> {"json"}
    [] format = "Both" -> {"text", "json"}
    [] format = "Sarif" -> {"sarif"}
    [] format = "Receipt" -> {}

\* Only a receipt, or a report with a path to go to, is written to a file.
WriteFails ==
  /\ step = "write"
  /\ \/ Receipts /\ todo # {} /\ CutShort
     \/ /\ emit_outputs(settings.format) \ {"text"} # {} /\ Effective(command).json_path
        /\ UNCHANGED disk
  /\ Exit(1)
  /\ UNCHANGED pvars

\* The text of a result ends with the first 200 bytes of the engine's error
\* output; the process panics when the last one is inside a character.
SarifPanics ==
  /\ step = "write" /\ "sarif" \in emit_outputs(settings.format)
  /\ \E r \in Relevant(output.packages) : r.engine
  /\ Exit(Panicked)
  /\ UNCHANGED <<pvars, disk>>

\* Mutant: the cockpit lane exits like the others.
Written_NoCockpit ==
  /\ step = "write" /\ todo = {}
  /\ Exit(output.code)
  /\ UNCHANGED <<pvars, disk>>

Written ==
  /\ step = "write" /\ todo = {}
  /\ Exit(IF Receipts /\ Cockpit THEN 0 ELSE output.code)
  /\ UNCHANGED <<pvars, disk>>

Kill ==
  /\ step # "exited"
  /\ IF step = "write" THEN CutShort ELSE UNCHANGED disk
  /\ Exit(Killed)
  /\ UNCHANGED pvars

\* The next process finds what the last one left on the disk, and nothing else.
Again ==
  /\ step = "exited" /\ Len(past) < MaxRuns
  /\ \E c \in Commands :
       /\ command' = c /\ input' = InputOf(c) /\ settings' = SettingsOf(c)
  /\ step' = "config" /\ output' = NoOutput /\ todo' = {} /\ exit' = Alive
  /\ pc' = "load" /\ next' = 1 /\ error' = None
  /\ eligible' = <<>> /\ scoped' = <<>> /\ reports' = <<>> /\ events' = <<>>
  /\ stage' = "probe" /\ result' = Pending
  /\ UNCHANGED <<disk, past>>

CNext ==
  \/ ReadConfig \/ CheckRoot \/ DryRun \/ Gate \/ RunPipeline \/ PipelineReturned
  \/ WriteFile \/ WriteFails \/ SarifPanics \/ Written \/ Kill \/ Again

CSpec == CInit /\ [][CNext]_cvars

(***************************************************************************)
(* Properties                                                              *)
(***************************************************************************)
Exited == step = "exited" /\ exit # Killed
Whole(r) == \A f \in past[r].index : disk[f] = r

\* What a command line asks to compare with.
Baselines(options) ==
  { o \in ToSet(options) : o[1] \in {"--baseline-rev", "--baseline-version"} }

\* Every variable has its type, and no file is written that the receipt, whose
\* index is decided beforehand and elsewhere, does not name.
CTypeOK ==
  /\ command \in Commands
  /\ exit \in {Alive, Killed, Panicked} \cup 0..3 /\ (exit # Alive <=> step = "exited")
  /\ output.code \in 0..3
  /\ disk \in [Files -> Torn..MaxRuns]
  /\ Receipts => todo \subseteq output.index

\* Whoever finds the receipt of a run that exited well finds every file it
\* names, from that run: no later run, killed or failing wherever, leaves an
\* old receipt beside newer files.
BundleStaysWhole ==
  \A r \in DOMAIN past :
    past[r].code \in {0, 2, 3} /\ past[r].index # {} /\ disk[File("report.json")] = r => Whole(r)

\* The cockpit lane exits 0 or 1, and 0 only with its whole bundle on the disk.
CockpitIsNeutral ==
  Cockpit /\ Exited =>
    /\ exit \in {0, 1}
    /\ exit = 0 /\ ~command.args.dry_run =>
         output.index # {} /\ \A f \in output.index : disk[f] = Len(past)

\* No process with an unusable configuration, root, workspace or baseline
\* exits 0, whichever of the five places notices; but for the cockpit lane,
\* whose receipt then says so.
NoSilentError ==
  (~command.toml.parses \/ ~settings.root \/ list_error # None) /\ Exited /\ exit = 0 =>
    /\ Cockpit
    /\ output.receipt.verdict.status = "Fail"

\* The report a process emits has every selected package once, whether the
\* runner made it or the gate, which makes it of what list_packages answers; and
\* a package that a static filter drops has that filter's reason, up to the
\* wording that run() and list_packages do not share.
EveryPackageIsReported ==
  step = "write" /\ output.packages # <<>> /\ ~config.fail_fast =>
    /\ ToSet(Names(output.packages)) = Selected
    /\ Len(output.packages) = Cardinality(Selected)
    /\ \A i \in DOMAIN output.packages :
         LET r == output.packages[i]
         IN  StaticSkip(r.name) # None =>
               Reworded(r.skip_reason) = Reworded(StaticSkip(r.name))

\* A process that has started no engine does not call its packages sound,
\* whether the scope was empty, or the gate closed, if only because git failed.
UncheckedIsNotPass ==
  /\ step = "write" /\ output.packages # <<>>
  /\ \A i \in DOMAIN events : events[i].type # "PackageStarted"
  => output.receipt.verdict.status # "Pass"

\* A scope that only the mode asks for is one the run can have, and in the
\* release lane it is the whole workspace.
DefaultScopeIsUsable ==
  ~command.toml.scope_set /\ ~command.args.changed =>
    /\ Pass2Error # "InvalidConfig"
    /\ Mode = "Release" => config.mode = "Workspace"

\* A configuration file that `validate-config` exits 0 for is one that check can
\* use: a run only ends for an invalid configuration if the command line made it
\* one, or if the file asks for packages by name and none of them exists, which
\* cannot be told from the file.
ValidConfigRuns ==
  LET valid == TomlFile!run_validate_config(command.toml.parses, Validated(command.toml)) = 0
  IN  error = "InvalidConfig" /\ valid =>
        \/ command.args.changed \/ command.args.baseline_version
        \/ Explicit /\ config.explicit \cap Pkg = {}

\* In the changed scope one and the same revision, wherever it was given,
\* decides what is checked and what it is compared with: git lists the files
\* changed since HEAD branched off from it, no package that they mark is left
\* out as unchanged and no other is checked, and the engine's command names it
\* as the baseline, and nothing else but what the extra arguments ask for.  That
\* the engine then compares with its tip, and not with the branch point, is
\* how the code is.
ScopeIsOfTheComparison ==
  pc = "running" /\ config.mode = "Changed" =>
    \E rev \in Revs :
      LET marked == changed_packages(input.layout, changed_paths(command.world.diff[rev]))
      IN  /\ Baselines(EngineCommand(command))
               = {<<"--baseline-rev", rev>>} \cup Baselines(Effective(command).extra_args)
          /\ ToSet(scoped) \subseteq marked
          /\ \A i \in DOMAIN reports :
               reports[i].skip_reason = "unchanged" => reports[i].name \notin marked

\* "Compare against a git revision": so says the kind of the baseline.
GitMeansRevision ==
  pc = "running" /\ config.kind = "Git" =>
    \E option \in ToSet(EngineCommand(command)) : option[1] = "--baseline-rev"

=============================================================================
