# semverguard in TLA+

semverguard runs `cargo semver-checks` over the packages of a Cargo workspace
and turns the answers into a report, a receipt and an exit code. This directory
holds a model of that program: TLA+ modules translated from the Rust sources,
TLC configurations that check them on small instances, and theorems that TLAPS
checks for every value of the constants. `PROJECT.json` gives, for every
definition, the source lines it stands for.

To check a run: `tlc -config MCRunner.cfg MCRunner`. To check the proofs:
`tlapm RunnerProofs.tla`, and likewise `OrderingProofs`, `ListProofs`,
`RefinementProofs`, `ScopeProofs`, `PipelineProofs`, `CheckProofs` and
`ConfigFileProofs`.

## 1. Inventory

Paths are below `crates/`; "state" is what a part keeps between two operations.

| Part | Source | State | Operations | Talks to |
|---|---|---|---|---|
| Runner | `semverguard-domain/src/runner.rs` | locals of `run()`: eligible packages, scoped packages, reports | three passes: static filters, changed scope, engine; `list_packages` previews the first two | workspace, git, engine (ports), progress callback |
| Change detection | `runner.rs`, `semverguard-git/src/lib.rs` | none | `changed_paths`, `changed_packages`, `has_manifest_version_change` | the git process |
| Classification | `semverguard-domain/src/classification.rs`, `semverguard-types/src/engine.rs` | none | `classify_output_detailed`, `classify_engine_error_detailed`, `RequiredBump::infer` | called by the runner |
| Reports, progress | `semverguard-types/src/report.rs`, `semverguard-domain/src/progress.rs` | none | constructors, `summarize`, events | runner, CLI reporter |
| Run mode | `semverguard-types/src/config.rs` | none | `detect_from_env`, `resolve`, `baseline_errors_are_warnings`, `suggested_scope_mode` | policy, exit code, CLI |
| Baseline policy | `semverguard-core/src/baseline_policy.rs` | rewrites the reports in place | `apply_baseline_error_policy` | pipeline |
| Receipt | `semverguard-core/src/receipt.rs`, `exit_code.rs`, `capability.rs` | none | findings, sort, waivers, cut, verdict, exit codes, capabilities, artifact index | pipeline, CLI |
| Pipeline | `semverguard-core/src/pipeline.rs` | locals of `run()` | probe, runner, policy, receipt, exit code | everything above |
| `check` command | `semverguard-cli/src/main.rs`, `semverguard-core/src/operations.rs` | the process; the artifacts directory stays after it | configuration, flags, root, dry run, PR gate, pipeline, tool errors, output | pipeline, file system |
| Configuration | `semverguard-core/src/config.rs` | `semverguard.toml` | load, validate | CLI |
| Promotion | `semverguard-core/src/promote.rs`, `run_promote_baseline` | `semverguard.toml` | read, resolve a ref, read again, rewrite `baseline.rev` in place | CLI, git |
| Receipt source | `semverguard-core/src/receipt_source.rs` | a list of receipts | push, filter, sort | embedders |
| Adapters | `semverguard-engine`, `semverguard-workspace` | none | assemble a command line, run it, read its answer | runner |
| Renderers | `comment.rs`, `sarif.rs`, `explain.rs`, CLI text | none | text, comment, two SARIF builders, summary, `explain` | CLI |
| Progress display | `semverguard-cli/src/progress.rs` | a bar | draw each event | runner |

What makes each part correct, and what is hard about it:

* **Runner.** Three loops and four places that push a report. No package may be
  reported twice or lost, `fail_fast` may drop only what is behind a failure,
  and `list_packages`, which writes the filters, their order, their reasons and
  the scope out a second time, must agree with `run()`. The engine may answer anything or not start at all.
* **Change detection.** The scope may err only towards checking more. What git
  prints and what the runner takes it for are not the same thing everywhere.
* **Policy, receipt, exit codes.** Reports are rewritten between the runner and
  everything that decides; two exit codes are computed in two places from two
  structures; waivers and a cut come between. An exit code of zero has to be
  earned, and any other has to have its cause.
* **`check`.** Errors are noticed in five places and have to reach an exit code
  or a failing receipt; a bundle of files is written one by one over the last
  run's, and the process may be killed, or a write fail, at any point.
* **`semverguard.toml`.** `promote-baseline` reads the file twice, with a git
  process in between, and truncates it before it writes; nothing locks it. An
  edit, a second promotion or a `check` may come between any two of these steps.
* **Renderings.** Four outputs select, from reports or from findings, what a
  reader gets to see. None may hide a package that another one shows.

The hazards, each at its line and with the properties that cover it, are listed
in `PROJECT.json`.

There is no concurrency inside the program: `run()` is sequential, and
`engine.parallel` is a configuration key nothing reads. What interleaves is the
process with the engine's processes, with kills, with failing writes, with the
process that ran in the same directory before it, and, on `semverguard.toml`,
with other processes and people.

## 2. Modules

| Module | Stands for | State and actions |
|---|---|---|
| `Ordering` | the sorts and the walks in a fixed order | operators: the sorted list of a finite set in an order that is a set of pairs, and a list's entries at chosen places, without recursion |
| `ChangeDetection` | git's diff and the functions that read it | operators on paths, which are sequences of components |
| `Scope` | the two questions asked of a diff | `Ask`: what `changed_packages` and `has_manifest_version_change` answer about one workspace and one diff |
| `Workspace` | the `cargo metadata` adapter | operators: which packages are kept, and their two flags |
| `Classification` | the failure classifiers | operators; a text is the set of the phrases the code searches it for |
| `Reports` | package reports, `summarize` | operators |
| `Runner` | `SemverguardRunner::run` | one action per loop iteration: `Load`, `FilterPackage`, `EnterScope`, `ScopePackage`, `EnterCheck`, `StartCheck`, `CompleteCheck`, `Finish`; pass 3 takes two steps per package because the engine's process runs in between |
| `RunContract` | nothing in the source: what a run promises | each package's outcome, settled once |
| `Display` | the terminal's bar and the log's lines | `bar`, beside the runner: `on_progress` draws each event in the step that sends it |
| `RunMode`, `BaselinePolicy` | modes, policy | operators |
| `Receipt` | receipt.rs, exit_code.rs, capability.rs | operators |
| `Render` | text, comment, SARIF, summary, `explain` | operators; a rendering is which packages it names, where and how gravely |
| `Pipeline` | `pipeline::run` | `Probe`, the runner's steps, `Conclude`, `ConcludeError`; composes Runner, BaselinePolicy, Receipt and Render |
| `Engine` | `build_command` | operators: the flags of the engine's command line |
| `Configuration` | `load_config`, `validate_config`, the edit of a promotion | operators |
| `Check` | `run_check`, the PR gate, the bundle on disk, `list` | `ReadConfig`, `CheckRoot`, `DryRun`, `Gate`, `RunPipeline`, `PipelineReturned`, `WriteFile`, `WriteFails`, `SarifPanics`, `Written`, `Kill`, `Again`; composes the pipeline |
| `ConfigFile` | the processes that share `semverguard.toml` | a promoter's `LoadConfig`, `Resolve`, `ReadAgain`, `Truncate`, `Write`, `CutShort`, `Kill`; a check's `CheckExplicit`, `CheckLoads`; `Edit` |
| `RunnerProofs`, `OrderingProofs`, `ListProofs`, `RefinementProofs`, `ScopeProofs`, `PipelineProofs`, `CheckProofs`, `ConfigFileProofs` | theorems | |
| `MCRunner`, `MCChangeDetection`, `MCPipeline`, `MCCheck`, `MCConfigFile` | instances | |

Abstractions worth knowing:

* Packages are numbers in the order cargo metadata lists them, which is the
  order of their names; a package is identified by its name.
* A glob list is three facts: whether it is empty, whether it parses, which
  packages it matches.
* A text (stdout, stderr, an error message) is the set of the phrases that
  `classification.rs` and `engine.rs` search for, closed under containment
  (`crates.io` holds `crate`).
* A waiver's fingerprint is the package and the check of its finding; a date is
  a number. Tool errors of a whole run have no fingerprint and no waiver.
* A file of the bundle holds the number of the run that wrote it, or is torn.
* `list_packages`' filters, scope and errors are operators of their own
  (`ListReason`, `ListScoped`, `list_error`), translated from its text; it shares
  with `run()` what it shares in the code: `matches_name_filters`,
  `build_globset` and `changed_packages`. The reason "unchanged relative to ..."
  is kept without its revision.
* A revision is a model value, and what git lists for one (`World.diff`) is what
  changed since HEAD branched off from it (`base...head`). A command line is a
  list of options; only the revision has its value with it.
* `World.git` says how git answers during a whole process; that it fails only
  on the diff of a single file is one of the cases.
* When the workspace root is missing, writing a receipt creates it. The world
  of the next process is chosen anew, with or without a root.
* A TOML document is `baseline` (absent, a table, an inline table) with its
  kind and revision, `scope.mode`, and a `rest` that tells one saved version
  from another. A text that is cut off reads as nothing, as fewer keys or not at
  all. In `Check` a configuration is what its keys mean; TOML that is well
  formed but is no configuration (an unknown key, a wrong type) counts as not
  parsing there and is left out of `ConfigFile`.

## 3. Runs

### Runs that pass

**MCRunner** (34 000 states): three packages in directories of their own, read
from a `cargo metadata` answer that also lists a dependency. `FilterInputs`
combine the static filters (explicit lists that name known, unknown or both
kinds of packages, include and exclude globs, one that does not parse, both
skip flags); `ScopeInputs` combine scope, baseline kind, revision, git's answer
and `fail_fast`. Three packages are enough for one to be skipped, one to fail
and one to be behind the failure; the engine answers with each of the four kinds
of answer reports tell apart. It checks

* `TypeOK`, `ReportedOnce`, `OnlyFailFastDrops`: nothing is reported twice,
  nothing is lost except behind the failure of a fail-fast run;
* `RunFollowsList`: `list_packages` and `run()` agree, at every step, on
  packages, order, errors and, up to the wording of one, reasons;
* `ProgressProtocol`: the order and the numbers of what a progress reporter
  hears; `BarCountsReports`: the bar drawn from it and the lines of a log count
  the reports (the run checks `FairDSpec`, the runner with `Display`'s bar);
* `ChangedScope`: a changed-scope run checks exactly the eligible packages with
  changed files, or all when a file is in no package;
* `ReportsAreFinal` (action property): reports are only appended, one per step,
  and skips come before checks;
* `Terminates` (liveness) and `RefinesContract` (`RunContract` as a property,
  with each package's outcome read off the reports).

**MCChangeDetection** (4 000 states): `Scope` asked about every diff of at most two files (edits,
additions, deletions, moves) over six layouts: side by side, nested, a package
in the workspace root, the workspace in a subdirectory of its repository, a
member outside the workspace. Two files suffice for a file in a package and one
outside. `NoChangedPackageMissed` and `NothingElseMarked` bound the scope from
both sides where the workspace is at the top of its repository and no file
moved; `BumpMarksSomePackage` relates the PR gate's question to the scope's.

**MCPipeline** (115 000 states): the runner with its tail, three packages, six
kinds of answer (an unclassified failure among them), a receipt that holds two
findings, so that the cut happens; five modes (two of them `auto`, one with
conflicting CI signals), two policies, `warn_as_fail`, three waiver sets with an
expired, a last-day and an undated waiver, both ways to an exit code.

* `ZeroMeansClean` and `ExitCodeHasCause` say what each exit code means for the
  checks; `FormatsAgree` that the two exit codes agree; `LanesAreOrdered` that a
  lenient lane accepts what a strict one does;
* `FailuresAreFindings`, `ErrorsSurviveTheCut`, `WaivedAsIfPassed` are about the
  receipt's findings, `SummaryAddsUp` about the summary beside them,
  `BaselineErrorIsTold` about its capabilities: it calls the baseline Available
  exactly if every baseline error is one that the policy skips;
* `EveryFormatTells`, `SarifsAgree`, `PassIsClean`: text, comment and the two
  SARIF files name the same problems, at the levels their rules declare, and
  none says pass above one that is not waived;
* `DoneLineDiffers`: by how much the progress display's last line, which comes
  before the policy, may differ from the summary, which comes after it;
* `PTypeOK` includes that the policy keeps kind, cause and status of a report
  coherent, that `explain` knows every finding, and the `expect` in the CLI.

**MCCheck** (40 000 states): one process, two packages, every combination of
eight configuration files (absent, broken, cockpit, receipt, changed scope
without and with a git baseline, packages by name of which one or none exists),
seven command lines and nine worlds (no root, no
workspace, no git, no baseline, a diff that fails, a version bump, a forcing
label, a release tag). `CTypeOK` includes that no file is written that the
receipt does not name; `CockpitIsNeutral`, `NoSilentError`,
`EveryPackageIsReported`, `DefaultScopeIsUsable` and `UncheckedIsNotPass` are
about errors and about runs that check nothing; `ValidConfigRuns` relates
`validate-config` to what `check` can use, apart from names of packages, which
cannot be judged from the file. `EveryPackageIsReported` holds the report the
gate makes of `list_packages`' answer against the filters of `run()`, reasons
included. `ScopeIsOfTheComparison`: in the changed scope one revision, the flag's
where the file names another, decides which packages are checked and is the
baseline in the engine's command, beside what extra arguments of the file or of
`--engine-arg` add. The two revisions of the instance have different diffs, so
that a mix-up shows.

**MCArtifacts** (33 000 states): two processes in the same artifacts directory,
each killed or failing at any write. `BundleStaysWhole`: who finds the receipt
of a run that exited well finds all its files from that run. It holds because
the receipt is the first file a run overwrites.

**MCConfigFile** (6 million states): two interchangeable promoters, with and
without `--write`, one edit, one `check`, five files to begin with, two commits;
each promoter killed or cut off anywhere. `PromotionIsExact`: a promotion nobody
interfered with changes the revision and nothing else. `LastEditSurvives`: which
edits are safe, the ones made while git resolves the ref among them.
`OneScope`: a `check` that learns from one read whether `scope.mode` is written
down and from another which it is goes on in the scope that the file it loaded
asks for, also if a whole promotion came in between. Two promoters and one edit are enough for every pair of actors to meet.

Deadlock checking is off: every one of these systems stops when its run is over.

### Runs that show a disagreement

Each checks one sentence of the documentation or of a comment, quoted at the
property, and is violated.

| Run | What the code does |
|---|---|
| `MCSubdirectory` | in a workspace below the repository's top, changed packages can go unmarked |
| `MCReleaseLane` | with the receipt format, a release whose only failures are baseline errors exits 0 |
| `MCTruncation` | waived errors fill the receipt and an unwaived violation behind them stops counting |
| `MCGitBaseline` | a git baseline without a revision is compared with the last published version |
| `MCHasLib` | a library whose crate-type leaves out `lib` is skipped as if it were none |
| `MCListPreview` | `list` does not apply what the mode makes of the scope, so it shows other packages than `check` checks |

Other places where the model shows the code and its documentation apart, stated
here and checked by no run. Of the change detection:

* the changed files are those since HEAD branched off from `baseline.rev`
  (`base...head`, semverguard-git/src/lib.rs:163), while the engine compares with
  the tip of that revision: what changed on it meanwhile is compared in the
  packages that changed here, and in no other;
* with a package in the workspace root, a change of the root manifest marks only
  that package (runner.rs:588, against filtering-strategy.md:115);
* `git diff --name-only` prints a moved file under its new name only, so the
  package that lost it is not marked (semverguard-git/src/lib.rs:165);
* in a workspace below the repository's top the PR gate does not see a version
  change, for the reason `MCSubdirectory` shows (semverguard-git/src/lib.rs:138);
* `git rev-parse` of an annotated tag gives the tag's own hash, not a commit's.

Of policy, receipt and exit codes:

* `fail_fast` stops at a baseline error that the policy then makes a warning
  (runner.rs:257, against config.rs:277);
* a baseline error that `on_error` skips leaves the baseline Available, because
  capability.rs:29 looks at the rewritten reports; types/receipt.rs:11 has
  Unavailable for a baseline that was not resolved (`BaselineErrorIsTold` says
  what the code does);
* waivers count for the receipt's exit code only (exit_code.rs:26);
* `validate-config` accepts a fingerprint in capitals, which no finding matches;
* waived findings are in the SARIF file without a suppression, and unmarked among
  the comment's failed packages;
* a violation that asks for a minor bump is a warning in SARIF while the run
  exits 2, and whether a run was successful is read off the summary in one
  builder and off the verdict in the other;
* the text of a SARIF result takes the first 200 bytes of the engine's output and
  panics inside a character (sarif.rs:485): exit code 101, which exit-codes.md
  does not have (`SarifPanics`).

Of `check` and its configuration:

* `run()` says "filtered by include/exclude patterns" (runner.rs:139) where
  `list_packages`, and so `list` and the PR gate's report, says "filtered by
  include/exclude" (runner.rs:388); `Reworded` is the only place where the model
  takes the two for one;
* with the PR gate closed nothing is checked of what `--dry-run` lists
  (main.rs:447 is before the gate at 456);
* cockpit mode with `--dry-run` exits 0 without a receipt (main.rs:447);
* the receipt of a tool error says Available of a git that is missing
  (main.rs:625);
* `--baseline-version` wins over `--baseline-rev` in any order (main.rs:331);
* `baseline.root` and `baseline.rustdoc` are passed on beside a revision;
* `engine.dry_run` and `engine.parallel` are read by nothing;
* `run_with_adapters` takes whether git is available from the configuration;
* with a relative workspace root the receipt's artifact paths keep it;
* the bar jumps to its end when `fail_fast` stops the run early, and the option
  that says "simple line output instead" prints nothing.

Of `semverguard.toml`:

* a file that is cut off, or caught amid a write, is a valid file with other
  settings: a check that reads it then runs with defaults;
* `check`'s two reads may see two files, and so may `promote-baseline`'s: an edit
  to another kind in between is promoted all the same;
* `promote_git_baseline` adds a missing `kind`, which the command cannot reach
  unless the file changes between its reads;
* an inline `baseline = { ... }` cannot be promoted.

### Fairness

Only `Terminates` needs it: weak fairness of `DNext`, the runner's steps with
what the reporter draws of them. `run()` is a
sequential function, so it goes on as long as the process lives. For
`CompleteCheck` this assumes that the engine's process ends at some point: the
code waits for it without a timeout (`timeout: None`, runner.rs:216). No
liveness is stated of processes that may be killed at any step.

## 4. Proofs

Every theorem is for any number of packages, inputs, answers, settings, commands,
processes, promoters and edits. The assumptions are the named ones of the
modules: constants have their types and two bounds are positive
(`NAssumption`, `RevsAssumption`, `InputsAssumption`, `AnswersAssumption`, `SettingsAssumption`,
`MaxFindingsAssumption`, `MaxRunsAssumption`, `CommandsAssumption`,
`QuestionsAssumption` and those of `ConfigFile`), and `InputsOfCommands` says that
`Check`'s runner and pipeline are given what its commands make of files, flags
and world. TLC evaluates each of them on the instances.

Every property of a passing run except `Terminates` is stated by a theorem:

| Theorem | States | Module |
|---|---|---|
| `Invariance` | `Spec => []Inv` | `RunnerProofs` |
| `TypeCorrect`, `NoDoubleReport`, `FailFastIsFast`, `NothingIsLost` | `TypeOK`, `ReportedOnce`, `FailFastStops`, `OnlyFailFastDrops` | `RunnerProofs` |
| `RunsFollowTheList`, `ProgressIsTold` | `RunFollowsList`, `ProgressProtocol` | `ListProofs` |
| `ReportsStayFinal` | `Spec => ReportsAreFinal` | `RefinementProofs` |
| `ContractIsKept` | `Spec => RefinesContract` | `RefinementProofs` |
| `TheBarCounts` | `DSpec => []BarCountsReports` | `RefinementProofs` |
| `TheChangedAreMarked`, `OnlyTheChangedAreMarked`, `ABumpIsChecked` | `NoChangedPackageMissed`, `NothingElseMarked`, `BumpMarksSomePackage` | `ScopeProofs` |
| `TheScopeIsKept` | `Spec => [](RunAtTop => ChangedScope)` | `ScopeProofs` |
| `PipelineRunsTheRunner` | `PSpec => Spec` | `PipelineProofs` |
| `ThereIsAReport`, `PipelineTypes` | `ReportWhenPrinted`, `PTypeOK` | `PipelineProofs` |
| `ZeroIsClean`, `CodeHasCause`, `TheFormatsAgree`, `TheLanesAreOrdered` | `ZeroMeansClean`, `ExitCodeHasCause`, `FormatsAgree`, `LanesAreOrdered` | `PipelineProofs` |
| `FailuresAreTold`, `ErrorsComeFirst`, `AWaiverCures`, `TheSummaryAddsUp`, `TheBaselineIsTold` | `FailuresAreFindings`, `ErrorsSurviveTheCut`, `WaivedAsIfPassed`, `SummaryAddsUp`, `BaselineErrorIsTold` | `PipelineProofs` |
| `EveryOutputTells`, `TheSarifsAgree`, `APassIsClean`, `TheDoneLine` | `EveryFormatTells`, `SarifsAgree`, `PassIsClean`, `DoneLineDiffers` | `PipelineProofs` |
| `BundlesStayWhole`, `CheckTypes` | `BundleStaysWhole`, `CTypeOK` | `CheckProofs` |
| `TheCockpitIsNeutral`, `NoErrorIsSilent`, `EveryPackageIsEmitted`, `NothingCheckedIsNoPass` | `CockpitIsNeutral`, `NoSilentError`, `EveryPackageIsReported`, `UncheckedIsNotPass` | `CheckProofs` |
| `TheDefaultScopeIsUsable`, `AValidConfigRuns`, `TheChangedAreCompared` | `DefaultScopeIsUsable`, `ValidConfigRuns`, `ScopeIsOfTheComparison` | `CheckProofs` |
| `TypeInvariant` | `Spec => []TypeOK` of `ConfigFile` | `ConfigFileProofs` |
| `PromotionIsExactTheorem`, `LastEditSurvivesTheorem`, `OneScopeTheorem` | `PromotionIsExact`, `LastEditSurvives`, `OneScope` | `ConfigFileProofs` |

**The runner.** None of the safety properties is inductive. That no package is
reported twice needs to know that a package about to be pushed has no report
yet, which depends on where the loops are. `Inv` therefore adds: `Open`, the
selected packages no loop has settled yet, read off the loop index and the
lists; `Partition`, that the selected packages are divided into reported and
open ones; `LoopsInOrder`, that the lists keep the workspace's order and the
indexes are in bounds, without which taking one package off a list would not
take exactly that one off `Open`; and `FailuresEndTheRun`, that a failure of a
fail-fast run is its last report with only later packages open behind it.
`TypeStep`, `LoopsStep`, `SettleStep` and `FailuresStep` preserve one part each,
action by action. `TypeOK` rests on lemmas about the classifiers (`InferType`,
`CauseType`, `CheckedType`): whatever text the engine answers with, the report
has its type and its kind, cause and status fit together.

**Sorted lists.** The code sorts, filters and walks in a fixed order in many
places. `Ordering` gives such a list by what is at each place: the k-th element is
the one with k - 1 before it, in an order that is a set of pairs. That is no
recursion and no operator parameter, so `OrderedHolds` can say that the list has
each element of a finite set once and in order, and `OrderedIsUnique` that no
other list has: the count of what is before an element is strictly increasing in
the order (`RankIsMonotonic`), so it is a bijection (`RankIsBijective`).
`AtHolds` and `AtIsUnique` say the same of a list filtered by its places.

**The runner and its preview.** `RunFollowsList` compares the end of three loops
with one expression, so `ListInv` says how far each loop has come: in pass 1 the
eligible packages and the skips are the ones `list_packages` would sort out of
the packages before the index (`PassOne`), in pass 2 the scoped ones and the
further skips those of the packages handled so far (`PassTwo`), and in pass 3
the reports are `list`'s skips followed by the beginning of its checks
(`PassThree`). `AscendingGrows` makes each iteration add one package at the end
of one list. That the two functions' filters, scope and errors come to the same is
three lemmas, since each is written twice: `ListAgrees`, `SkipsAreListed` (the
reasons, in order) and `ListFails`. `EventInv`
then gives the events as a function of the loop's index: two for each check that
is done, one more for the one that runs, one at either end; from that the counts
and orders of `ProgressProtocol` are read off by arithmetic on the places. `BarInv`
gives the bar the same way.

**The contract.** `StepPushes` sorts every step into three: it pushes nothing,
a skip while no package is checked, or the report of the running check.
`ReportsAreFinal` follows at once. For the refinement, `Outcomes` reads each
package's outcome off its only report, `PushOutcomes` says that a pushed report
settles its package and no other, and `StepRefines` maps each action: a skip or a
package that pass 1 passes by to `SettleUnchecked`, a completed check to `Check`
(the packages before it are settled, by `Partition` and `LoopsInOrder`), the end
to `Close` and an error to `Abort`; all others stutter.

**The changed scope.** At the top of a repository a package's directory relative
to the workspace is its directory (`RootAtTop`) and what git prints has nothing
to normalize (`NothingToNormalize`), so a package owns a printed path exactly if
the path is in its directory (`OwnersAtTop`): the three theorems about `Scope`
follow, for any layout and any diff. `TheScopeIsKept` carries this into a run,
through `ListInv` (what was checked is what `list` would) and `RawReports` (the
reason "unchanged" is only given outside the scope). Its hypothesis `RunAtTop`, a
workspace at the top whose paths git printed, is the program's own condition:
below the top the code compares paths relative to different directories and the
property fails (`MCSubdirectory`).

**The pipeline.** It takes the runner's steps or leaves the runner alone, so
`Inv`, `ListInv`, `EventInv` and `RawReports` hold inside it. `Concluded` adds
that a result with a report was made of the reports of a finished runner; with
the others it is `PipelineInv`. From there on the theorems are about what
`pipeline::run` computes at once. `PolicyOutcome` and `PolicyOn` say what the
policy leaves of a report in each lane. For the printed formats `ReportCode`
tells `exit_code_from_report` by what the runner saw. For the receipt,
`FindingsOf` and `FindingsCount` say that the findings correspond one to one to
the failures the policy does not skip; `SortingIsStrict` that the order of
receipt.rs tells any two of them apart, so that `ReceiptHolds` knows what the cut
list has and `BeginningOf` that a cut drops warnings before errors; `VerdictOf`
and `TheVerdict` read the verdict off them, and `ReceiptedCode` the exit code.
The renderings select from the same two structures: `TheResults`, `TheText` and
`TheWarnings` say which packages each one names. `AWaiverCures` compares the
receipt with the one of the same run in which the waived checks passed (`Cured`).

**The processes.** `CheckInv` is made of `DiskInv`, `PipelineInv` and of what a
process knows of itself: its runner and pipeline were started from its command
(`Started`), it got past the checks before the place it is at (`Arrived`), its
variables have their types (`Typed`), and what it is about to emit and the code
it exits with tell what happened (`Tells`, of which `Sound` is what a writing
process owes the properties of exited ones). An error of the runner ends it
(`ErrorEnds`), which ties the configuration theorems to the steps that read the
configuration. `ScopeIsOfTheComparison` puts two halves together: `EngineFlags`
takes the engine's command apart into its options, and `ScopeFollows` says what
the scope pass kept and dropped by the diff of the revision. For
`EveryPackageIsReported`, `GateSorts` and `GateReport` say that `list`'s answer
has each selected package once and that the gate's stable sort keeps it so. For
`BundleStaysWhole`, which speaks of a run that exited, what
matters while the next one writes is which file comes first: `DiskInv` adds that
what a process's index names is either on the disk from this run or still to be
written (`BundleCovered`), with the receipt among it; by `ReceiptGoesFirst` the
first write takes the old receipt away, and from then on no claim about an old
run is left to keep.

**The file.** For `PromotionIsExact`, `Alone` says what a promoter that nobody
interfered with knows at each place between its reads and its write; a step of
anyone else either leaves the file alone or ends that promoter's being alone.
For `LastEditSurvives`, `HeldIsFresh` says that what is about to be written has
the last edit, unless the promoter was raced or somebody else is amid a write
that it will notice. For `OneScope`, `HeadInv` says that what a check learned
from its first read is still true of the file at its second and, while a promoter
is amid its write, of the document that it writes (`KnownOf`): an undisturbed
promoter writes back what it read (`HeldIsFile`) but for the revision, and adds
no key to `scope`.

**Only model-checked:** `Terminates`, because liveness and ENABLED are outside
what the prover does. The properties of the runs that show a disagreement are
false of the code and have no theorem. What the theorems take from TLC is
nothing but the evaluation of the assumptions.

## 5. Not modelled

* The receipt source: a filter and a sort over receipts that an embedding
  program pushes. No command calls it. (Its filter of reserved paths does not see
  through `artifacts/./cockpit`.)
* clap's parsing of the command line and `print-config`, which prints the default
  configuration; `sort_packages_by_name`, which only tests call.
* Wording, colours, links and layout of every output; durations; the SHA-256 of a
  fingerprint; JSON and TOML syntax.
* git, cargo and cargo-semver-checks: they are environments, modelled by the
  answers the code tells apart.

The map covers about three fifths of the lines outside inline tests. The crates
keep their tests in the source files, in `#[cfg(test)]` modules that are longer
than the code (two thirds of all lines), so the share of all lines is smaller;
serialisation types, messages and the argument structures make up most of the
rest.

## 6. Plan

1. The operators themselves: that `classify_output_detailed` gives a cause only
   with its phrase, over all sets of phrases; that `resolve` of a run mode never
   answers `auto`; that `build_command` gives at most one kind of baseline.
2. A contract of the whole pipeline, from reports to exit code, as an abstract
   specification beside `RunContract`, with the refinement proved.
3. `ChangedScope` below the top of a repository: what of it survives there.
