------------------------------- MODULE CheckProofs -------------------------------
(***************************************************************************)
(* Proofs about Check, for any number of packages and of processes,        *)
(* wherever each of them is killed or fails: what is on the disk (DiskInv),*)
(* how a process starts (Started), and what it emits and exits with        *)
(* (CheckInv, whose parts these are).                                      *)
(***************************************************************************)
EXTENDS Check, PipelineProofs

(***************************************************************************)
(* Why the bundle stays whole: the receipt is the first file a process     *)
(* overwrites, and what a process still has to write is all its index      *)
(* lacks on the disk.                                                      *)
(***************************************************************************)
ReceiptFile == File("report.json")

\* A process that writes nothing yet names no files.
NothingNamed == step \notin {"write", "exited"} => output.index = {}

\* What the receipt names is on the disk or about to be; the receipt is among
\* it, if there is anything to write.
BundleCovered ==
  step = "write" =>
    /\ todo # {} => ReceiptFile \in output.index
    /\ \A f \in output.index : f \in todo \/ disk[f] = ThisRun

\* Exit codes are small numbers, wherever they are kept.
Past == [index : SUBSET Files, code : Int]
CodesKept ==
  /\ stage = "returned" => result.is = "Err" \/ result.exit_code \in 0..3
  /\ output.code \in 0..3 /\ output.index \subseteq Files
  /\ past \in Seq(Past)

DiskInv ==
  /\ todo \subseteq Files /\ DOMAIN disk = Files
  /\ CodesKept /\ NothingNamed /\ BundleCovered /\ BundleStaysWhole

\* A bundle's files are files of the artifacts directory, the receipt is one of
\* them, and the index names no other.
LEMMA BundleIsNamed ==
  ASSUME NEW rs, NEW sarif
  PROVE  /\ write_receipt_bundle(rs, sarif) \subseteq Files
         /\ build_artifact_index(rs, sarif) \subseteq write_receipt_bundle(rs, sarif)
         /\ ReceiptFile \in build_artifact_index(rs, sarif)
BY DEF write_receipt_bundle, build_artifact_index, write_raw_logs, build_raw_log_refs,
   Logs, Files, File, ReceiptFile

\* The receipt is written before every other file.
LEMMA ReceiptGoesFirst ==
  ASSUME todo \subseteq Files, ReceiptFile \in todo
  PROVE  Upcoming = ReceiptFile
<1>1. Position(ReceiptFile) = 0
  BY DEF Position, ReceiptFile, File
<1>2. ASSUME NEW f \in Files, f # ReceiptFile
      PROVE  Position(f) \in Int /\ Position(f) > 0
  <2>1. CASE f = File("comment.md")
    BY <2>1 DEF Position, File
  <2>2. CASE f = File("sarif.json")
    BY <2>2, NAssumption DEF Position, File
  <2>3. ASSUME NEW p \in Pkg, f = Log("stdout", p) \/ f = Log("stderr", p)
        PROVE  Position(f) \in Int /\ Position(f) > 0
    <3>1. p \in Int /\ p > 0
      BY NAssumption DEF Pkg
    <3> QED
      BY <2>3, <3>1 DEF Position, Log
  <2> QED
    BY <1>2, <2>1, <2>2, <2>3 DEF Files, ReceiptFile, File, Log
<1>3. \A g \in todo : Position(ReceiptFile) <= Position(g)
  BY <1>1, <1>2
<1>4. \A f \in todo : (\A g \in todo : Position(f) <= Position(g)) => f = ReceiptFile
  BY <1>1, <1>2
<1> QED
  BY <1>3, <1>4, Zenon DEF Upcoming

(***************************************************************************)
(* Exit codes                                                              *)
(***************************************************************************)
\* Each way to an exit code leads to one of four.
LEMMA CodeRange ==
  ASSUME NEW s, NEW receipt, NEW rs
  PROVE  /\ exit_code_from_receipt(receipt, s.warn_as_fail) \in 0..3
         /\ Code(s, receipt, rs) \in 0..3
<1>1. exit_code_from_receipt(receipt, s.warn_as_fail) \in 0..3
  BY DEF exit_code_from_receipt
<1>2. exit_code_from_report(rs, resolve(s.mode, s.env), s.warn_as_fail) \in 0..3
  BY DEF exit_code_from_report
<1> QED
  BY <1>1, <1>2 DEF Code

\* So does every result of the pipeline.
LEMMA ResultRange ==
  /\ Err.is = "Err"
  /\ \A rs, s, kind : ReportResult(rs, s, kind).exit_code \in 0..3
  /\ \A s, kind : ErrorResult(s, kind).exit_code \in 0..3
BY CodeRange DEF Err, ReportResult, ErrorResult

\* The pipeline's steps keep the range of its result.
LEMMA PipelineCodes ==
  ASSUME PNext, stage = "returned" => result.is = "Err" \/ result.exit_code \in 0..3
  PROVE  (stage = "returned" => result.is = "Err" \/ result.exit_code \in 0..3)'
<1>1. CASE Probe
  BY <1>1, ResultRange DEF Probe, Return
<1>2. CASE RunnerStep
  BY <1>2 DEF RunnerStep
<1>3. CASE Conclude
  BY <1>3, ResultRange DEF Conclude, Return
<1>4. CASE ConcludeError
  BY <1>4, ResultRange DEF ConcludeError, Return
<1> QED
  BY <1>1, <1>2, <1>3, <1>4 DEF PNext

(***************************************************************************)
(* The steps of a process                                                  *)
(***************************************************************************)
\* A process that exits adds itself to the past, and changes no other entry.
LEMMA ExitAppends ==
  ASSUME CodesKept, NEW code \in Int, Exit(code)
  PROVE  /\ past' \in Seq(Past)
         /\ DOMAIN past = 1..Len(past) /\ Len(past) \in Nat
         /\ DOMAIN past' = 1..ThisRun
         /\ \A r \in DOMAIN past : past'[r] = past[r]
         /\ past'[ThisRun] = [index |-> output.index, code |-> code]
<1>1. /\ past \in Seq(Past)
      /\ [index |-> output.index, code |-> code] \in Past
      /\ past' = Append(past, [index |-> output.index, code |-> code])
  BY DEF CodesKept, Exit, Past
<1> QED
  BY <1>1 DEF ThisRun

\* A step that leaves the disk alone and exits with a code that promises
\* nothing, or without files, keeps every bundle whole.
LEMMA ExitKeepsBundles ==
  ASSUME DiskInv, NEW code \in Int, Exit(code), UNCHANGED <<disk, stage, result>>,
         \/ code \notin {0, 2, 3}
         \/ \A f \in output.index : disk[f] = ThisRun
  PROVE  DiskInv'
<1>1. /\ past' \in Seq(Past)
      /\ DOMAIN past = 1..Len(past) /\ Len(past) \in Nat
      /\ DOMAIN past' = 1..ThisRun
      /\ \A r \in DOMAIN past : past'[r] = past[r]
      /\ past'[ThisRun] = [index |-> output.index, code |-> code]
  BY ExitAppends DEF DiskInv
<1>2. BundleStaysWhole'
  <2> SUFFICES ASSUME NEW r \in DOMAIN past', past'[r].code \in {0, 2, 3},
                      past'[r].index # {}, disk'[File("report.json")] = r
               PROVE  \A f \in past'[r].index : disk'[f] = r
    BY DEF BundleStaysWhole, Whole
  <2>1. CASE r \in DOMAIN past
    BY <1>1, <2>1 DEF DiskInv, BundleStaysWhole, Whole
  <2>2. CASE r = ThisRun
    BY <1>1, <2>2
  <2> QED
    BY <1>1, <2>1, <2>2 DEF ThisRun
<1> QED
  BY <1>1, <1>2 DEF DiskInv, CodesKept, NothingNamed, BundleCovered, Exit

\* A step that goes on without writing changes nothing that matters here.
LEMMA GotoKeeps ==
  ASSUME DiskInv, NEW s \in {"root", "dispatch", "pipeline"}, Goto(s),
         step \notin {"write", "exited"}, UNCHANGED <<disk, stage, result>>
  PROVE  DiskInv'
BY DEF DiskInv, CodesKept, NothingNamed, BundleCovered, BundleStaysWhole, Whole, Goto

\* A process that starts to write what it names has it all before it.
LEMMA EmitKeeps ==
  ASSUME DiskInv, NEW o, NEW files, Emit(o, files), UNCHANGED <<disk, stage, result>>,
         files \subseteq Files, o.index \subseteq files, o.code \in 0..3,
         files # {} => ReceiptFile \in o.index
  PROVE  DiskInv'
BY DEF DiskInv, CodesKept, NothingNamed, BundleCovered, BundleStaysWhole, Whole, Emit

\* An error that ends the process, or becomes a receipt of its own, keeps
\* every bundle whole.
LEMMA ToolErrorKeeps ==
  ASSUME DiskInv, handle_tool_error, step \notin {"write", "exited"},
         UNCHANGED <<disk, stage, result>>
  PROVE  DiskInv'
<1>1. CASE ~Receipts
  <2>1. Exit(1)
    BY <1>1 DEF handle_tool_error
  <2> QED
    BY <2>1, ExitKeepsBundles DEF DiskInv, NothingNamed
<1>2. CASE Receipts
  <2> DEFINE receipt == build_receipt(<<>>, {ToolErrorFinding}, settings.waivers, settings.today)
             caps == capabilities(config.kind # "Git", config.kind = "Git", FALSE)
             index == build_artifact_index(<<>>, SarifToo)
             files == write_receipt_bundle(<<>>, SarifToo)
             code == exit_code_from_receipt(receipt, settings.warn_as_fail)
  <2>1. index \subseteq files /\ files \subseteq Files /\ ReceiptFile \in index
    BY BundleIsNamed
  <2>2. code \in 0..3
    BY CodeRange
  <2>3. Emit([receipt |-> receipt, packages |-> <<>>, capabilities |-> caps,
              index |-> index, code |-> code], files)
    BY <1>2 DEF handle_tool_error
  <2> HIDE DEF receipt, caps, index, files, code
  <2> QED
    BY <2>1, <2>2, <2>3, EmitKeeps
<1> QED
  BY <1>1, <1>2

\* Overwriting or tearing the next file leaves no old receipt beside it: either
\* that file is the receipt, or the receipt is already this run's.
LEMMA Overwrite ==
  ASSUME DiskInv, step = "write", todo # {}, NEW v, v \notin DOMAIN past,
         disk' = [disk EXCEPT ![Upcoming] = v],
         NEW r \in DOMAIN past, past[r].code \in {0, 2, 3}, past[r].index # {},
         disk'[ReceiptFile] = r
  PROVE  \A f \in past[r].index : disk'[f] = r
<1>1. CASE ReceiptFile \in todo
  <2>1. Upcoming = ReceiptFile
    BY <1>1, ReceiptGoesFirst DEF DiskInv
  <2>2. disk'[ReceiptFile] = v
    BY <1>1, <2>1 DEF DiskInv
  <2> QED
    BY <2>2
<1>2. CASE ReceiptFile \notin todo
  <2>1. disk[ReceiptFile] = ThisRun
    BY <1>2 DEF DiskInv, BundleCovered
  <2>2. r # ThisRun
    BY DEF DiskInv, CodesKept, ThisRun
  <2>3. ReceiptFile \in DOMAIN disk
    BY DEF DiskInv, Files, ReceiptFile
  <2>4. disk'[ReceiptFile] = ThisRun \/ disk'[ReceiptFile] = v
    BY <2>1, <2>3
  <2> QED
    BY <2>2, <2>4
<1> QED
  BY <1>1, <1>2

\* A write that is cut short, in a process that does not exit well, keeps
\* every bundle whole.
LEMMA CutKeepsBundles ==
  ASSUME DiskInv, step = "write", CutShort, NEW code \in {1, Killed}, Exit(code),
         UNCHANGED <<stage, result>>
  PROVE  DiskInv'
<1>1. code \in Int /\ code \notin {0, 2, 3}
  BY DEF Killed
<1>2. CASE UNCHANGED disk
  BY <1>1, <1>2, ExitKeepsBundles
<1>3. CASE todo # {} /\ disk' = [disk EXCEPT ![Upcoming] = Torn]
  <2>1. /\ past' \in Seq(Past)
        /\ DOMAIN past = 1..Len(past) /\ Len(past) \in Nat
        /\ DOMAIN past' = 1..ThisRun
        /\ \A r \in DOMAIN past : past'[r] = past[r]
        /\ past'[ThisRun] = [index |-> output.index, code |-> code]
    BY <1>1, ExitAppends DEF DiskInv
  <2>2. Torn \notin DOMAIN past
    BY <2>1 DEF Torn
  <2>3. BundleStaysWhole'
    <3> SUFFICES ASSUME NEW r \in DOMAIN past', past'[r].code \in {0, 2, 3},
                        past'[r].index # {}, disk'[File("report.json")] = r
                 PROVE  \A f \in past'[r].index : disk'[f] = r
      BY DEF BundleStaysWhole, Whole
    <3>1. r \in DOMAIN past /\ past'[r] = past[r]
      BY <1>1, <2>1 DEF ThisRun
    <3> QED
      BY <1>3, <2>2, <3>1, Overwrite DEF ReceiptFile
  <2> QED
    BY <1>3, <2>1, <2>3 DEF DiskInv, CodesKept, NothingNamed, BundleCovered, Exit
<1> QED
  BY <1>2, <1>3 DEF CutShort

\* Every step of every process keeps the disk's invariant.
LEMMA DiskStep ==
  DiskInv /\ [CNext]_cvars => DiskInv'
<1> SUFFICES ASSUME DiskInv, [CNext]_cvars
             PROVE  DiskInv'
  OBVIOUS
<1>1. CASE ReadConfig
  BY <1>1, GotoKeeps, ToolErrorKeeps DEF ReadConfig, pvars
<1>2. CASE CheckRoot
  BY <1>2, GotoKeeps, ToolErrorKeeps DEF CheckRoot, pvars
<1>3. CASE DryRun
  BY <1>3, ExitKeepsBundles DEF DryRun, pvars, DiskInv, NothingNamed
<1>4. CASE Gate
  <2>1. step = "dispatch" /\ UNCHANGED <<disk, stage, result>>
    BY <1>4 DEF Gate, pvars
  <2>2. CASE Goto("pipeline") \/ handle_tool_error
    BY <2>1, <2>2, GotoKeeps, ToolErrorKeeps
  <2>3. CASE GateClosed
    <3> DEFINE rs == build_pr_mode_skipped_report
               receipt == build_receipt(rs, {}, settings.waivers, settings.today)
               caps == build_capability_context(config.kind, settings.git, rs)
               index == IF Receipts THEN build_artifact_index(rs, SarifToo) ELSE {}
               files == IF Receipts THEN write_receipt_bundle(rs, SarifToo) ELSE {}
               code == Code(settings, receipt, rs)
    <3>1. /\ index \subseteq files /\ files \subseteq Files
          /\ files # {} => ReceiptFile \in index
      BY BundleIsNamed
    <3>2. code \in 0..3
      BY CodeRange
    <3>3. Emit([receipt |-> receipt, packages |-> rs, capabilities |-> caps,
                index |-> index, code |-> code], files)
      BY <2>3 DEF GateClosed
    <3> HIDE DEF rs, receipt, caps, index, files, code
    <3> QED
      BY <2>1, <3>1, <3>2, <3>3, EmitKeeps
  <2> QED
    BY <1>4, <2>2, <2>3 DEF Gate
<1>5. CASE RunPipeline
  <2>1. UNCHANGED <<step, output, todo, disk, past>> /\ PNext
    BY <1>5 DEF RunPipeline, proc
  <2>2. (stage = "returned" => result.is = "Err" \/ result.exit_code \in 0..3)'
    BY <2>1, PipelineCodes DEF DiskInv, CodesKept
  <2> QED
    BY <2>1, <2>2
       DEF DiskInv, CodesKept, NothingNamed, BundleCovered, BundleStaysWhole, Whole, ThisRun
<1>6. CASE PipelineReturned
  <2>1. step = "pipeline" /\ stage = "returned" /\ UNCHANGED <<disk, stage, result>>
    BY <1>6 DEF PipelineReturned, pvars
  <2>2. CASE result.is = "Err"
    BY <1>6, <2>1, <2>2, ToolErrorKeeps DEF PipelineReturned
  <2>3. CASE result.is # "Err"
    <3> DEFINE index == IF Receipts THEN build_artifact_index(result.report, SarifToo) ELSE {}
               files == IF Receipts THEN write_receipt_bundle(result.report, SarifToo) ELSE {}
    <3>1. /\ index \subseteq files /\ files \subseteq Files
          /\ files # {} => ReceiptFile \in index
      BY BundleIsNamed
    <3>2. result.exit_code \in 0..3
      BY <2>1, <2>3 DEF DiskInv, CodesKept
    <3>3. Emit([receipt |-> result.receipt, packages |-> result.report,
                capabilities |-> result.capabilities, index |-> index,
                code |-> result.exit_code], files)
      BY <1>6, <2>3 DEF PipelineReturned
    <3> HIDE DEF index, files
    <3> QED
      BY <2>1, <3>1, <3>2, <3>3, EmitKeeps
  <2> QED
    BY <2>2, <2>3
<1>7. CASE WriteFile
  <2>1. /\ step = "write" /\ todo # {} /\ todo' = todo \ {Upcoming}
        /\ disk' = [disk EXCEPT ![Upcoming] = ThisRun]
        /\ UNCHANGED <<step, output, past, stage, result>>
    BY <1>7 DEF WriteFile, pvars
  <2>2. ThisRun \notin DOMAIN past
    BY DEF DiskInv, CodesKept, ThisRun
  <2>3. BundleStaysWhole'
    BY <2>1, <2>2, Overwrite DEF BundleStaysWhole, Whole, ReceiptFile
  <2>4. BundleCovered'
    BY <2>1 DEF DiskInv, CodesKept, BundleCovered, ThisRun
  <2> QED
    BY <2>1, <2>3, <2>4 DEF DiskInv, CodesKept, NothingNamed
<1>8. CASE WriteFails
  <2>1. step = "write" /\ Exit(1) /\ UNCHANGED <<stage, result>> /\ CutShort
    BY <1>8 DEF WriteFails, CutShort, pvars
  <2> QED
    BY <2>1, CutKeepsBundles
<1>9. CASE SarifPanics
  BY <1>9, ExitKeepsBundles DEF SarifPanics, Panicked, pvars
<1>10. CASE Written
  <2>1. /\ step = "write" /\ todo = {} /\ UNCHANGED <<disk, stage, result>>
        /\ Exit(IF Receipts /\ Cockpit THEN 0 ELSE output.code)
    BY <1>10 DEF Written, pvars
  <2>2. (IF Receipts /\ Cockpit THEN 0 ELSE output.code) \in Int
    BY DEF DiskInv, CodesKept
  <2>3. \A f \in output.index : disk[f] = ThisRun
    BY <2>1 DEF DiskInv, BundleCovered
  <2> QED
    BY <2>1, <2>2, <2>3, ExitKeepsBundles
<1>11. CASE Kill
  <2>1. Exit(Killed) /\ UNCHANGED <<stage, result>> /\ Killed \in Int \ {0, 2, 3}
    BY <1>11 DEF Kill, Killed, pvars
  <2>2. CASE step = "write"
    BY <1>11, <2>1, <2>2, CutKeepsBundles DEF Kill
  <2>3. CASE step # "write"
    BY <1>11, <2>1, <2>3, ExitKeepsBundles DEF Kill
  <2> QED
    BY <2>2, <2>3
<1>12. CASE Again
  <2>1. /\ step' = "config" /\ todo' = {} /\ stage' = "probe"
        /\ output' = NoOutput /\ UNCHANGED <<disk, past>>
    BY <1>12 DEF Again
  <2>2. output'.index = {} /\ output'.code = 0
    BY <2>1 DEF NoOutput
  <2> QED
    BY <2>1, <2>2
       DEF DiskInv, CodesKept, NothingNamed, BundleCovered, BundleStaysWhole, Whole
<1>13. CASE UNCHANGED cvars
  BY <1>13 DEF cvars, proc, pvars, DiskInv, CodesKept, NothingNamed, BundleCovered,
     BundleStaysWhole, Whole, ThisRun
<1> QED
  BY <1>1, <1>2, <1>3, <1>4, <1>5, <1>6, <1>7, <1>8, <1>9, <1>10, <1>11, <1>12, <1>13
     DEF CNext

\* No file is named or written when the first process starts.
LEMMA DiskInit == CInit => DiskInv
<1> SUFFICES ASSUME CInit
             PROVE  DiskInv
  OBVIOUS
<1>1. /\ step = "config" /\ todo = {} /\ stage = "probe" /\ past = <<>>
      /\ output.index = {} /\ output.code = 0 /\ DOMAIN disk = Files
  BY DEF CInit, PInit, NoOutput
<1> QED
  BY <1>1 DEF DiskInv, CodesKept, NothingNamed, BundleCovered, BundleStaysWhole

(***************************************************************************)
(* The theorem                                                             *)
(***************************************************************************)
\* However many processes write into one artifacts directory, and wherever each
\* of them is killed or fails to write: the receipt of a run that exited well is
\* found with every file it names, from that run, or not at all.
THEOREM BundlesStayWhole == CSpec => []BundleStaysWhole
<1>1. DiskInv => BundleStaysWhole
  BY DEF DiskInv
<1> QED
  BY <1>1, DiskInit, DiskStep, PTL DEF CSpec

(***************************************************************************)
(* What a process is started with                                          *)
(***************************************************************************)
\* The configuration before the flags are applied, and the mode after.
Loaded(c) == IF c.toml.parses THEN c.toml ELSE Defaults
ModeOf(c) == IF c.args.mode # None THEN c.args.mode ELSE Loaded(c).mode

\* The flags and the mode change six keys of it, in a known way.
LEMMA EffectiveFields ==
  ASSUME NEW c \in Commands
  PROVE  LET t == Loaded(c)
             cfg == Effective(c)
         IN  /\ cfg.mode = ModeOf(c) /\ cfg.format = Format(c.args, t, ModeOf(c))
             /\ cfg.config.mode = ScopeMode(c.args, t, c.toml.scope_set, ModeOf(c), c.world.env)
             /\ cfg.config.kind = BaselineKind(c.args, t)
             /\ cfg.config.rev = Revision(c.args, t)
             /\ cfg.extra_args = t.extra_args \o c.args.engine_args
             /\ cfg.config.explicit = t.config.explicit
             /\ cfg.config.include = t.config.include /\ cfg.config.exclude = t.config.exclude
<1> DEFINE t == Loaded(c)
           scope == ScopeMode(c.args, t, c.toml.scope_set, ModeOf(c), c.world.env)
<1>1. /\ {"config", "mode", "format", "json_path", "request", "extra_args"} \subseteq DOMAIN t
      /\ DOMAIN t.config = {"explicit", "include", "exclude", "skip_publish_false",
                            "skip_no_lib", "mode", "kind", "rev", "fail_fast"}
  <2>1. CASE c.toml.parses
    <3>1. t = c.toml /\ Toml(c.toml)
      BY <2>1, CommandsAssumption DEF Loaded
    <3>2. t.config \in Config
      BY <3>1 DEF Toml
    <3> QED
      BY <3>1, <3>2 DEF Toml, Config
  <2>2. CASE ~c.toml.parses
    <3>1. t = Defaults
      BY <2>2 DEF Loaded
    <3> QED
      BY <3>1 DEF Defaults
  <2> QED
    BY <2>1, <2>2
<1> DEFINE json == t.json_path \/ c.args.json \/ c.args.sarif
           request == [t.request EXCEPT !.version = @ \/ c.args.baseline_version]
           format == Format(c.args, t, ModeOf(c))
           fast == t.config.fail_fast \/ c.args.fail_fast
           kind == BaselineKind(c.args, t)
           rev == Revision(c.args, t)
           extra == t.extra_args \o c.args.engine_args
           applied == [t.config EXCEPT !.kind = kind, !.rev = rev, !.mode = scope,
                                       !.fail_fast = fast]
<1>2. Effective(c) = [t EXCEPT !.mode = ModeOf(c), !.format = format, !.json_path = json,
                               !.request = request, !.extra_args = extra,
                               !.config = applied]
  BY <1>1 DEF Effective, apply_cli_overrides, Loaded, ModeOf
<1> HIDE DEF t, scope, json, request, format, fast, kind, rev, extra
<1>3. /\ applied.mode = scope /\ applied.kind = kind /\ applied.rev = rev
      /\ applied.explicit = t.config.explicit
      /\ applied.include = t.config.include /\ applied.exclude = t.config.exclude
  BY <1>1
<1> HIDE DEF applied
<1>4. /\ Effective(c).mode = ModeOf(c) /\ Effective(c).format = format
      /\ Effective(c).config = applied /\ Effective(c).extra_args = extra
  BY <1>1, <1>2
<1> QED
  BY <1>3, <1>4 DEF t, scope, format, kind, rev, extra


\* The runner and the pipeline get what the process was started with.
Started == command \in Commands /\ input = InputOf(command) /\ settings = SettingsOf(command)

LEMMA StartedFields ==
  ASSUME Started
  PROVE  LET t == Loaded(command)
         IN  /\ config.mode = ScopeMode(command.args, t, command.toml.scope_set,
                                        ModeOf(command), command.world.env)
             /\ config.kind = BaselineKind(command.args, t)
             /\ config.rev = Revision(command.args, t)
             /\ config.explicit = t.config.explicit
             /\ config.include = t.config.include /\ config.exclude = t.config.exclude
             /\ settings.mode = ModeOf(command)
             /\ settings.format = Format(command.args, t, ModeOf(command))
             /\ Mode = resolve(ModeOf(command), command.world.env)
             /\ input.git \in {"fails", "answers"}
             /\ settings \in Setting
<1>1. /\ config = Effective(command).config
      /\ settings.mode = Effective(command).mode
      /\ settings.format = Effective(command).format
      /\ settings.env = command.world.env
      /\ input.git \in {"fails", "answers"}
  BY DEF Started, config, InputOf, SettingsOf
<1>2. settings \in Setting
  BY InputsOfCommands, SettingsAssumption DEF Started
<1>3. command \in Commands
  BY DEF Started
<1> QED
  BY <1>1, <1>2, <1>3, EffectiveFields, Zenon DEF Mode

\* A scope the file asks for is the file's; without one it is the workspace.
LEMMA LoadedScope ==
  ASSUME NEW c \in Commands
  PROVE  /\ Loaded(c).config.mode \in {"Workspace", "Changed"}
         /\ ~c.toml.scope_set \/ ~c.toml.parses => Loaded(c).config.mode = "Workspace"
<1>1. CASE c.toml.parses
  <2>1. Loaded(c) = c.toml /\ Toml(c.toml)
    BY <1>1, CommandsAssumption DEF Loaded
  <2>2. c.toml.config \in Config
    BY <2>1 DEF Toml
  <2> QED
    BY <1>1, <2>1, <2>2 DEF Toml, Config
<1>2. CASE ~c.toml.parses
  BY <1>2 DEF Loaded, Defaults
<1> QED
  BY <1>1, <1>2

LEMMA ScopeIsUsable == Started => DefaultScopeIsUsable
<1> SUFFICES ASSUME Started, ~command.toml.scope_set, ~command.args.changed
             PROVE  /\ Pass2Error # "InvalidConfig"
                    /\ Mode = "Release" => config.mode = "Workspace"
  BY DEF DefaultScopeIsUsable
<1> DEFINE t == Loaded(command)
           suggested == suggested_scope_mode(resolve(ModeOf(command), command.world.env))
           usable == BaselineKind(command.args, t) = "Git" /\ Revision(command.args, t) # None
<1>1. t.config.mode = "Workspace"
  BY LoadedScope DEF Started
<1>2. config.mode = IF suggested = "Changed" /\ ~usable THEN t.config.mode ELSE suggested
  BY StartedFields DEF ScopeMode
<1>3. /\ config.kind = BaselineKind(command.args, t) /\ config.rev = Revision(command.args, t)
      /\ Mode = resolve(ModeOf(command), command.world.env)
      /\ input.git \in {"fails", "answers"}
  BY StartedFields
<1>4. suggested = IF Mode = "Release" THEN "Workspace" ELSE "Changed"
  BY <1>3 DEF suggested_scope_mode
<1>5. config.mode = "Workspace" \/ (config.kind = "Git" /\ config.rev # None)
  BY <1>1, <1>2, <1>3, <1>4
<1>6. Pass2Error # "InvalidConfig"
  BY <1>3, <1>5 DEF Pass2Error, None
<1> QED
  BY <1>1, <1>2, <1>4, <1>6

\* Whoever has met an error is at the end.
ErrorEnds == error # None => pc = "failed"

LEMMA ErrorStep == ErrorEnds /\ [Next]_vars => ErrorEnds'
<1> SUFFICES ASSUME ErrorEnds, [Next]_vars
             PROVE  ErrorEnds'
  OBVIOUS
<1>1. CASE Load
  BY <1>1 DEF Load, Fail, ErrorEnds
<1>2. CASE FilterPackage
  BY <1>2 DEF FilterPackage, ErrorEnds
<1>3. CASE EnterScope
  BY <1>3 DEF EnterScope, Fail, ErrorEnds
<1>4. CASE ScopePackage
  BY <1>4 DEF ScopePackage, ErrorEnds
<1>5. CASE EnterCheck \/ StartCheck \/ Finish
  BY <1>5 DEF EnterCheck, StartCheck, Finish, ErrorEnds
<1>6. ASSUME NEW answer \in Answers, CompleteCheck(answer)
      PROVE  ErrorEnds'
  BY <1>6 DEF CompleteCheck, ErrorEnds
<1>7. CASE UNCHANGED vars
  BY <1>7 DEF vars, ErrorEnds
<1> QED
  BY <1>1, <1>2, <1>3, <1>4, <1>5, <1>6, <1>7 DEF Next

\* What validate-config accepts has a usable baseline, and globs that parse.
LEMMA ValidFile ==
  ASSUME NEW t, TomlFile!run_validate_config(t.parses, Validated(t)) = 0
  PROVE  /\ t.parses
         /\ t.config.include.valid /\ t.config.exclude.valid
         /\ t.config.mode = "Changed" => t.config.kind = "Git" /\ t.config.rev # None
<1> DEFINE v == Validated(t)
<1>1. t.parses /\ TomlFile!Errors(v) = {}
  BY DEF TomlFile!run_validate_config
<1>2. /\ v.include = t.config.include.valid /\ v.exclude = t.config.exclude.valid
      /\ v.mode = t.config.mode /\ v.kind = t.config.kind /\ v.rev = (t.config.rev # None)
  BY DEF Validated, TomlFile!DefaultCfg
<1> HIDE DEF v
<1>3. /\ "include" \notin TomlFile!Errors(v) /\ "exclude" \notin TomlFile!Errors(v)
      /\ "scope kind" \notin TomlFile!Errors(v) /\ "scope rev" \notin TomlFile!Errors(v)
  BY <1>1
<1>4. v.include /\ v.exclude /\ (v.mode = "Changed" => v.kind = "Git" /\ v.rev)
  BY <1>3 DEF TomlFile!Errors, TomlFile!ErrorKinds
<1> QED
  BY <1>1, <1>2, <1>4

LEMMA ValidRuns == Started /\ TypeOK /\ ListInv /\ ErrorEnds => ValidConfigRuns
<1> SUFFICES ASSUME Started, TypeOK, ListInv, ErrorEnds, error = "InvalidConfig",
                    TomlFile!run_validate_config(command.toml.parses,
                                                 Validated(command.toml)) = 0,
                    ~command.args.changed, ~command.args.baseline_version,
                    ~(Explicit /\ config.explicit \cap Pkg = {})
             PROVE  FALSE
  BY DEF ValidConfigRuns
<1> DEFINE t == command.toml
<1>1. /\ t.parses /\ t.config.include.valid /\ t.config.exclude.valid
      /\ t.config.mode = "Changed" => t.config.kind = "Git" /\ t.config.rev # None
  BY ValidFile
<1>2. Loaded(command) = t
  BY <1>1 DEF Loaded
<1>3. /\ config.include = t.config.include /\ config.exclude = t.config.exclude
      /\ config.kind = BaselineKind(command.args, t) /\ config.rev = Revision(command.args, t)
      /\ config.mode = ScopeMode(command.args, t, t.scope_set, ModeOf(command), command.world.env)
      /\ input.git \in {"fails", "answers"}
  BY <1>2, StartedFields
<1>4. Pass1Error # "InvalidConfig"
  BY <1>1, <1>3 DEF Pass1Error, build_globset_fails, None
<1>5. t.config.kind = "Git" => config.kind = "Git"
  BY <1>3 DEF BaselineKind
<1>6. t.config.rev # None => config.rev # None
  BY <1>3 DEF Revision
<1>7. \/ config.mode = t.config.mode
      \/ config.mode = "Workspace"
      \/ config.kind = "Git" /\ config.rev # None
  BY <1>3 DEF ScopeMode, suggested_scope_mode
<1>8. t.config.mode \in {"Workspace", "Changed"}
  BY <1>2, LoadedScope DEF Started
<1>9. Pass2Error # "InvalidConfig"
  BY <1>1, <1>3, <1>5, <1>6, <1>7, <1>8 DEF Pass2Error, None
<1>10. list_error # "InvalidConfig"
  BY <1>4, <1>9, ListFails
<1> QED
  BY <1>10 DEF ErrorEnds, ListInv, Errors, None

\* What two lists hold, one after the other.
LEMMA BothHold ==
  ASSUME NEW S, NEW s \in Seq(S), NEW t \in Seq(S)
  PROVE  s \o t \in Seq(S) /\ ToSet(s \o t) = ToSet(s) \cup ToSet(t)
<1>1. s \in Seq(S) /\ t \in Seq(S)
  OBVIOUS
<1>2. s \o t \in Seq(S)
  OBVIOUS
<1>3. ASSUME NEW i \in DOMAIN s
      PROVE  s[i] \in ToSet(s \o t)
  <2>1. (s \o t)[i] = s[i] /\ i \in DOMAIN (s \o t)
    BY <1>1
  <2> QED
    BY <2>1, Zenon DEF ToSet
<1>4. ASSUME NEW i \in DOMAIN t
      PROVE  t[i] \in ToSet(s \o t)
  <2>1. (s \o t)[Len(s) + i] = t[i] /\ Len(s) + i \in DOMAIN (s \o t)
    BY <1>1
  <2> QED
    BY <2>1, Zenon DEF ToSet
<1>5. ToSet(s) \subseteq ToSet(s \o t)
  BY <1>3, Zenon DEF ToSet
<1>6. ToSet(t) \subseteq ToSet(s \o t)
  BY <1>4, Zenon DEF ToSet
<1>7. ToSet(s \o t) \subseteq ToSet(s) \cup ToSet(t)
  BY <1>1 DEF ToSet
<1> QED
  BY <1>2, <1>5, <1>6, <1>7

\* The engine is told to compare with the revision of the configuration, and
\* with nothing else but what the extra arguments ask for.
LEMMA EngineFlags ==
  ASSUME Started, pc = "running", ListInv, config.mode = "Changed"
  PROVE  /\ config.rev \in Revs
         /\ Baselines(EngineCommand(command))
              = {<<"--baseline-rev", config.rev>>} \cup Baselines(Effective(command).extra_args)
<1> DEFINE request == Effective(command).request
           extra == Effective(command).extra_args
           this == <<"--baseline-rev", config.rev>>
           names == {"semver-checks", "check-release", "--manifest-path", "--baseline-root",
                     "--baseline-rustdoc", "--all-features", "--default-features",
                     "--only-explicit-features", "--features", "--baseline-features",
                     "--current-features"}
           Plain == names \X {Unsaid}
           before == << <<"semver-checks", Unsaid>>, <<"check-release", Unsaid>>,
                        <<"--manifest-path", Unsaid>> >>
           root == Flag(request.root, "--baseline-root")
           rustdoc == Flag(request.rustdoc, "--baseline-rustdoc")
           compared == BaselineFlags(config.kind, config.rev, request)
           features == FeatureFlags(request)
<1>1. config.kind = "Git" /\ config.rev # None /\ config.rev \in Revs
  <2>1. config.kind = "Git" /\ config.rev # None
    BY DEF ListInv, Errors, Running, Pass2Error, None
  <2>2. input \in Inputs
    BY InputsOfCommands DEF Started
  <2>3. config \in Config
    BY <2>2, InputsAssumption DEF InputType, config
  <2>4. config.rev \in Revs \cup {None}
    BY <2>3 DEF Config
  <2> QED
    BY <2>1, <2>4
<1>2. EngineCommand(command) = ((before \o compared) \o features) \o extra
  <2>1. config = Effective(command).config
    BY DEF Started, config, InputOf
  <2> QED
    BY <2>1 DEF EngineCommand, build_command
<1>3. \A set : \A name \in names : Flag(set, name) \in Seq(Plain)
  <2> TAKE set
  <2> TAKE name \in names
  <2>1. Flag(set, name) = << <<name, Unsaid>> >> \/ Flag(set, name) = <<>>
    BY DEF Flag, Option
  <2> DEFINE word == <<name, Unsaid>>
  <2>2. word \in Plain
    OBVIOUS
  <2> HIDE DEF Plain, word
  <2>3. <<word>> \in Seq(Plain) /\ <<>> \in Seq(Plain)
    BY <2>2
  <2> QED
    BY <2>1, <2>3, Zenon DEF word
<1>4. \A s, t \in Seq(Plain) : s \o t \in Seq(Plain)
  <2> HIDE DEF Plain
  <2> QED
    OBVIOUS
<1>5. features \in Seq(Plain)
  <2> DEFINE a == Flag(request.all_features, "--all-features")
             b == Flag(request.default_features, "--default-features")
             c == Flag(request.only_explicit_features, "--only-explicit-features")
             d == Flag(request.features, "--features")
             e == Flag(request.baseline_features, "--baseline-features")
             f == Flag(request.current_features, "--current-features")
  <2>1. /\ a \in Seq(Plain) /\ b \in Seq(Plain) /\ c \in Seq(Plain)
        /\ d \in Seq(Plain) /\ e \in Seq(Plain) /\ f \in Seq(Plain)
    <3> HIDE DEF Plain
    <3> QED
      BY <1>3
  <2>2. features = ((((a \o b) \o c) \o d) \o e) \o f
    BY Zenon DEF FeatureFlags
  <2> HIDE DEF a, b, c, d, e, f, features, Plain
  <2>3. (a \o b) \o c \in Seq(Plain)
    BY <1>4, <2>1
  <2>4. (((a \o b) \o c) \o d) \o e \in Seq(Plain)
    BY <1>4, <2>1, <2>3
  <2> QED
    BY <1>4, <2>1, <2>2, <2>4
<1>6. root \in Seq(Plain) /\ rustdoc \in Seq(Plain)
  <2> HIDE DEF Plain
  <2> QED
    BY <1>3
<1>7. before \in Seq(Plain)
  <2>1. /\ <<"semver-checks", Unsaid>> \in Plain /\ <<"check-release", Unsaid>> \in Plain
        /\ <<"--manifest-path", Unsaid>> \in Plain
    OBVIOUS
  <2> HIDE DEF Plain
  <2> QED
    BY <2>1
<1>8. compared = ((<<>> \o <<this>>) \o root) \o rustdoc
  <2>1. config.rev # Unsaid
    BY <1>1 DEF Unsaid, None
  <2>2. /\ Flag(config.kind = "CratesIo" /\ request.version, "--baseline-version") = <<>>
        /\ Option(config.kind = "Git" /\ config.rev # Unsaid, "--baseline-rev", config.rev) = <<this>>
    BY <1>1, <2>1 DEF Flag, Option
  <2> QED
    BY <2>2, Zenon DEF BaselineFlags
<1> DEFINE one == <<>> \o <<this>>
<1>9. one \in Seq({this}) /\ ToSet(one) = {this}
  <2> HIDE DEF this
  <2>1. <<this>> \in Seq({this}) /\ DOMAIN <<this>> = {1} /\ <<this>>[1] = this
    OBVIOUS
  <2>2. one = <<this>>
    OBVIOUS
  <2>3. ToSet(<<this>>) = {this}
    BY <2>1 DEF ToSet
  <2> QED
    BY <2>1, <2>2, <2>3
<1>10. extra \in Options
  <2>1. command \in Commands /\ Toml(command.toml) /\ Args(command.args)
    BY CommandsAssumption DEF Started
  <2>2. Loaded(command).extra_args \in Options
    <3>1. <<>> \in Options
      BY DEF Options
    <3> QED
      BY <2>1, <3>1 DEF Loaded, Toml, Defaults
  <2>3. command.args.engine_args \in Options
    BY <2>1 DEF Args
  <2>4. extra = Loaded(command).extra_args \o command.args.engine_args
    BY <2>1, EffectiveFields
  <2> HIDE DEF extra
  <2> QED
    BY <2>2, <2>3, <2>4 DEF Options
<1>11. \A s \in Seq(Plain) : Baselines(s) = {}
  <2> TAKE s \in Seq(Plain)
  <2>1. ToSet(s) \subseteq Plain
    <3> HIDE DEF Plain
    <3> QED
      BY DEF ToSet
  <2>2. \A o \in Plain : o[1] \in names
    OBVIOUS
  <2>3. "--baseline-rev" \notin names /\ "--baseline-version" \notin names
    OBVIOUS
  <2> HIDE DEF Plain, names
  <2> QED
    BY <2>1, <2>2, <2>3 DEF Baselines
<1>12. Baselines(one) = {this}
  BY <1>9 DEF Baselines
<1> DEFINE T == ({this} \cup Plain) \cup (STRING \X (Revs \cup {None}))
<1>13. /\ before \in Seq(T) /\ one \in Seq(T) /\ root \in Seq(T) /\ rustdoc \in Seq(T)
       /\ features \in Seq(T) /\ extra \in Seq(T)
  <2> DEFINE E == STRING \X (Revs \cup {None})
  <2>1. extra \in Seq(E)
    BY <1>10 DEF Options
  <2> HIDE DEF Plain, this, one, before, root, rustdoc, features, extra, E
  <2>2. /\ \A s \in Seq(Plain) : s \in Seq(({this} \cup Plain) \cup E)
        /\ \A s \in Seq(E) : s \in Seq(({this} \cup Plain) \cup E)
        /\ \A s \in Seq({this}) : s \in Seq(({this} \cup Plain) \cup E)
    OBVIOUS
  <2>3. T = ({this} \cup Plain) \cup E
    BY DEF E
  <2> HIDE DEF T
  <2> QED
    BY <1>5, <1>6, <1>7, <1>9, <2>1, <2>2, <2>3
<1> HIDE DEF Plain, this, one, before, root, rustdoc, features, compared, extra, names, T
<1>14. \A s, t \in Seq(T) :
         s \o t \in Seq(T) /\ Baselines(s \o t) = Baselines(s) \cup Baselines(t)
  <2> TAKE s, t \in Seq(T)
  <2>1. s \o t \in Seq(T) /\ ToSet(s \o t) = ToSet(s) \cup ToSet(t)
    BY BothHold
  <2> QED
    BY <2>1 DEF Baselines
<1>15. /\ Baselines(before) = {} /\ Baselines(root) = {} /\ Baselines(rustdoc) = {}
       /\ Baselines(features) = {}
  BY <1>5, <1>6, <1>7, <1>11
<1>16. compared \in Seq(T) /\ Baselines(compared) = {this}
  <2>1. one \o root \in Seq(T) /\ Baselines(one \o root) = {this}
    BY <1>12, <1>13, <1>14, <1>15
  <2>2. (one \o root) \o rustdoc \in Seq(T) /\ Baselines((one \o root) \o rustdoc) = {this}
    BY <1>13, <1>14, <1>15, <2>1
  <2> QED
    BY <1>8, <2>2, Zenon DEF one
<1>17. before \o compared \in Seq(T) /\ Baselines(before \o compared) = {this}
  <2>1. /\ before \o compared \in Seq(T)
        /\ Baselines(before \o compared) = Baselines(before) \cup Baselines(compared)
    BY <1>13, <1>14, <1>16
  <2> QED
    BY <1>15, <1>16, <2>1
<1>18. /\ (before \o compared) \o features \in Seq(T)
       /\ Baselines((before \o compared) \o features) = {this}
  BY <1>13, <1>14, <1>15, <1>17
<1>19. Baselines(((before \o compared) \o features) \o extra) = {this} \cup Baselines(extra)
  BY <1>13, <1>14, <1>18
<1>20. Baselines(EngineCommand(command)) = {this} \cup Baselines(extra)
  BY <1>2, <1>19
<1> QED
  BY <1>1, <1>20 DEF this, extra

\* What pass 2 kept and what it dropped goes by the files of that revision.
LEMMA ScopeFollows ==
  ASSUME Started, Inv, ListInv, RawReports, pc = "running", config.mode = "Changed",
         config.rev \in Revs
  PROVE  LET marked == changed_packages(input.layout,
                                        changed_paths(command.world.diff[config.rev]))
         IN  /\ ToSet(scoped) \subseteq marked
             /\ \A i \in DOMAIN reports :
                  reports[i].skip_reason = "unchanged" => reports[i].name \notin marked
<1> DEFINE marked == changed_packages(input.layout,
                                      changed_paths(command.world.diff[config.rev]))
           inside == { p \in ListEligible : InScope(p) }
<1>1. input.changes = command.world.diff[config.rev]
  BY RevsAssumption DEF Started, InputOf, config
<1>2. \A p : InScope(p) <=> p \in marked
  BY <1>1 DEF InScope
<1>3. scoped = Ascending(inside)
  BY ListAgrees DEF ListInv, PassThree, Running
<1>4. ToSet(scoped) = inside
  <2>1. inside \in SUBSET Pkg
    BY Lists
  <2>2. Elements(Ascending(inside)) = inside
    BY <2>1, AscendingGrows
  <2> QED
    BY <1>3, <2>2, Zenon DEF Elements, ToSet
<1>5. \A i \in DOMAIN reports :
        reports[i].skip_reason = "unchanged" => ~InScope(reports[i].name)
  BY DEF RawReports
<1> HIDE DEF marked
<1>6. ToSet(scoped) \subseteq marked
  BY <1>2, <1>4
<1> QED
  BY <1>2, <1>5, <1>6 DEF marked

LEMMA ScopeAndComparison ==
  Started /\ Inv /\ ListInv /\ RawReports => ScopeIsOfTheComparison
<1> SUFFICES ASSUME Started, Inv, ListInv, RawReports, pc = "running", config.mode = "Changed"
             PROVE  ScopeIsOfTheComparison
  BY DEF ScopeIsOfTheComparison
<1>1. /\ config.rev \in Revs
      /\ Baselines(EngineCommand(command))
           = {<<"--baseline-rev", config.rev>>} \cup Baselines(Effective(command).extra_args)
  BY EngineFlags
<1>2. LET marked == changed_packages(input.layout,
                                     changed_paths(command.world.diff[config.rev]))
      IN  /\ ToSet(scoped) \subseteq marked
          /\ \A i \in DOMAIN reports :
               reports[i].skip_reason = "unchanged" => reports[i].name \notin marked
  BY <1>1, ScopeFollows
<1> QED
  BY <1>1, <1>2, Zenon DEF ScopeIsOfTheComparison


(***************************************************************************)
(* What is emitted                                                         *)
(***************************************************************************)
\* A configuration, root, workspace or baseline that a run cannot use.
Unusable == ~command.toml.parses \/ ~settings.root \/ list_error # None

\* What a process that writes o is to be told by o.
Reasons(packages) ==
  \A i \in DOMAIN packages :
    StaticSkip(packages[i].name) # None =>
      Reworded(packages[i].skip_reason) = Reworded(StaticSkip(packages[i].name))

Complete(packages) ==
  /\ ToSet(Names(packages)) = Selected
  /\ Len(packages) = Cardinality(Selected)
  /\ Reasons(packages)

Sound(o) ==
  /\ Unusable => o.code # 0 /\ o.receipt.verdict.status = "Fail"
  /\ o.packages # <<>> /\ ~config.fail_fast => Complete(o.packages)
  /\ o.packages # <<>> /\ (\A i \in DOMAIN events : events[i].type # "PackageStarted")
     => o.receipt.verdict.status # "Pass"
  /\ Receipts => o.index # {}

\* The receipt of an error fails, with the tool's exit code: no waiver is for
\* a finding that is about no package.
LEMMA ErrorReceipt ==
  ASSUME NEW waivers, waivers \subseteq Waiver, NEW today, NEW warn
  PROVE  LET receipt == build_receipt(<<>>, {ToolErrorFinding}, waivers, today)
         IN  /\ receipt.verdict.status = "Fail"
             /\ exit_code_from_receipt(receipt, warn) = 1
<1> DEFINE F == AllFindings(<<>>, {ToolErrorFinding})
           receipt == build_receipt(<<>>, {ToolErrorFinding}, waivers, today)
           shown == Judged(ToolErrorFinding, waivers, today)
<1>1. F = {ToolErrorFinding}
  BY DEF AllFindings, build_findings
<1>2. /\ ToolErrorFinding \in Finding /\ ToolErrorFinding.check_id = "tool.runtime"
      /\ ToolErrorFinding.package = 0
  BY DEF ToolErrorFinding, Finding, CheckId, None, NoPackage
<1>3. IsFiniteSet({ToolErrorFinding}) /\ Cardinality({ToolErrorFinding}) = 1
  BY FS_Singleton
<1> HIDE DEF F
<1>4. FindingSet(F)
  BY <1>1, <1>2, <1>3 DEF FindingSet
<1>5. Carries(receipt, F, waivers, today)
  BY <1>4, ReceiptCarries DEF F
<1>6. receipt.verdict.status = IF Counts(receipt, Failing) THEN "Fail"
                               ELSE IF Counts(receipt, {"baseline"}) THEN "Warn"
                               ELSE IF all_skipped(<<>>) THEN "Skip" ELSE "Pass"
  BY <1>4, VerdictOf, Zenon DEF F
<1>7. exit_code_from_receipt(receipt, warn) =
        IF Counts(receipt, Failing) THEN IF has_tool_error(receipt.findings) THEN 1 ELSE 2
        ELSE IF Counts(receipt, {"baseline"}) /\ warn THEN 3 ELSE 0
  BY <1>4, VerdictOf, Zenon DEF F
<1> HIDE DEF receipt
<1>8. /\ receipt.total = Cardinality(F)
      /\ receipt.total <= MaxFindings =>
           \A f \in F : \E i \in DOMAIN receipt.findings :
             receipt.findings[i] = Judged(f, waivers, today)
  BY <1>5, Zenon DEF Carries
<1>9. receipt.total <= MaxFindings
  BY <1>1, <1>3, <1>8, MaxFindingsAssumption
<1>10. \E i \in DOMAIN receipt.findings : receipt.findings[i] = shown
  BY <1>1, <1>8, <1>9, Zenon
<1>11. \A w \in waivers : ~Waives(w, ToolErrorFinding, today)
  <2> TAKE w \in waivers
  <2>1. w.package \in 1..N
    BY DEF Waiver, Pkg
  <2>2. w.package # 0
    BY <2>1, NAssumption
  <2> QED
    BY <1>2, <2>2 DEF Waives, compute_fingerprint
<1>12. ~shown.waived /\ shown.check_id = "tool.runtime"
  BY <1>2, <1>11, JudgedFields
<1> HIDE DEF shown
<1>13. Counts(receipt, Failing) /\ has_tool_error(receipt.findings)
  <2>1. "tool.runtime" \in Failing
    BY DEF Failing
  <2> QED
    BY <1>10, <1>12, <2>1, Zenon DEF Counts, has_tool_error
<1> QED
  BY <1>6, <1>7, <1>13, Zenon DEF receipt

\* A receipt of skipped packages alone does not pass.
LEMMA SkippedIsNotPass ==
  ASSUME NEW rs, all_skipped(rs), NEW tools, NEW waivers, NEW today
  PROVE  build_receipt(rs, tools, waivers, today).verdict.status # "Pass"
<1>1. \A cut, truncated : derive_verdict(cut, rs, truncated).status # "Pass"
  BY DEF derive_verdict
<1> QED
  BY <1>1, Zenon DEF build_receipt

\* The receipt that an error is turned into.
ErrorOutput ==
  LET receipt == build_receipt(<<>>, {ToolErrorFinding}, settings.waivers, settings.today)
  IN  [receipt |-> receipt, packages |-> <<>>,
       capabilities |-> capabilities(config.kind # "Git", config.kind = "Git", FALSE),
       index |-> build_artifact_index(<<>>, SarifToo),
       code |-> exit_code_from_receipt(receipt, settings.warn_as_fail)]

LEMMA ErrorIsSound ==
  ASSUME Started
  PROVE  Sound(ErrorOutput)
<1> DEFINE receipt == build_receipt(<<>>, {ToolErrorFinding}, settings.waivers, settings.today)
<1>1. settings.waivers \subseteq Waiver
  <2>1. settings \in Setting
    BY StartedFields
  <2> QED
    BY <2>1 DEF Setting
<1>2. /\ receipt.verdict.status = "Fail"
      /\ exit_code_from_receipt(receipt, settings.warn_as_fail) = 1
  BY <1>1, ErrorReceipt
<1>3. ReceiptFile \in build_artifact_index(<<>>, SarifToo)
  BY BundleIsNamed
<1> HIDE DEF receipt
<1>4. /\ ErrorOutput.receipt = receipt /\ ErrorOutput.packages = <<>>
      /\ ErrorOutput.index = build_artifact_index(<<>>, SarifToo)
      /\ ErrorOutput.code = exit_code_from_receipt(receipt, settings.warn_as_fail)
  BY DEF ErrorOutput, receipt
<1> QED
  BY <1>2, <1>3, <1>4 DEF Sound


\* What the gate makes its report of: every selected package once and skipped,
\* with the reason of the filter that drops it, if one does.
LEMMA GateSorts ==
  LET rs == ListedReports
      n == Cardinality(Selected)
  IN  /\ n \in Nat /\ DOMAIN rs = 1..n
      /\ { rs[i].name : i \in 1..n } = Selected
      /\ \A i \in 1..n : rs[i].name \in Pkg /\ rs[i].status = "Skipped"
      /\ Reasons(rs)
<1> DEFINE rs == ListedReports
           a == would_check
           b == ListedSkips
           m == Len(a)
           k == Len(b)
           inside == { p \in ListEligible : InScope(p) }
           outside == { p \in ListEligible : ~InScope(p) }
           gated == [ i \in DOMAIN a |-> skipped(a[i], "pr mode gate") ]
           kept == [ i \in DOMAIN b |-> skipped(would_skip[i].name, would_skip[i].reason) ]
<1>1. /\ a \in Seq(Pkg) /\ b \in Seq(Pkg) /\ m \in Nat /\ k \in Nat
      /\ DOMAIN a = 1..m /\ DOMAIN b = 1..k
  <2>1. a \in Seq(Pkg) /\ b \in Seq(Pkg)
    BY Lists
  <2> HIDE DEF a, b
  <2> QED
    BY <2>1
<1>2. /\ inside \in SUBSET Pkg /\ outside \in SUBSET Pkg /\ ListSkipped \in SUBSET Pkg
      /\ inside \cup outside = ListEligible /\ inside \cap outside = {}
      /\ ListEligible \cap ListSkipped = {} /\ ListEligible \cup ListSkipped = Selected
  <2>1. ListEligible \cup ListSkipped = Selected
    BY ListAgrees DEF Selected
  <2> QED
    BY <2>1, Lists
<1>3. /\ a = Ascending(inside) /\ b = Ascending(ListSkipped) \o Ascending(outside)
      /\ IsFiniteSet(inside) /\ IsFiniteSet(outside) /\ IsFiniteSet(ListSkipped)
      /\ Ascending(ListSkipped) \in Seq(ListSkipped) /\ Ascending(outside) \in Seq(outside)
      /\ Len(Ascending(ListSkipped)) = Cardinality(ListSkipped)
      /\ Len(Ascending(outside)) = Cardinality(outside)
      /\ m = Cardinality(inside)
      /\ ToSet(a) = inside
      /\ ToSet(Ascending(ListSkipped)) = ListSkipped /\ ToSet(Ascending(outside)) = outside
  <2>1. \A S \in SUBSET Pkg :
          /\ IsFiniteSet(S) /\ Ascending(S) \in Seq(S)
          /\ Len(Ascending(S)) = Cardinality(S) /\ ToSet(Ascending(S)) = S
    BY AscendingGrows, Zenon DEF Elements, ToSet
  <2>2. a = Ascending(inside) /\ b = Ascending(ListSkipped) \o Ascending(outside)
    BY ListAgrees
  <2> HIDE DEF inside, outside, a, b
  <2> QED
    BY <1>2, <2>1, <2>2
<1> HIDE DEF inside, outside
<1>4. k = Cardinality(ListSkipped) + Cardinality(outside) /\ ToSet(b) = ListSkipped \cup outside
  <2> DEFINE c == Ascending(ListSkipped)
             d == Ascending(outside)
  <2>1. c \in Seq(Pkg) /\ d \in Seq(Pkg) /\ b = c \o d
    BY <1>2, <1>3
  <2>2. ToSet(c \o d) = ToSet(c) \cup ToSet(d)
    BY <2>1, BothHold
  <2>3. ToSet(c) = ListSkipped /\ ToSet(d) = outside
        /\ Len(c) = Cardinality(ListSkipped) /\ Len(d) = Cardinality(outside)
    BY <1>3
  <2> HIDE DEF b, c, d
  <2>4. Len(b) = Len(c) + Len(d)
    BY <2>1
  <2> QED
    BY <2>1, <2>2, <2>3, <2>4
<1>5. m + k = Cardinality(Selected)
  <2> HIDE DEF gated, kept, rs, k, m, a, b
  <2>1. /\ IsFiniteSet(ListSkipped \cup outside)
        /\ Cardinality(ListSkipped \cup outside) = k
    <3>1. ListSkipped \cap outside = {} /\ Cardinality({}) = 0
      BY <1>2, FS_EmptySet
    <3>2. /\ IsFiniteSet(ListSkipped \cup outside)
          /\ Cardinality(ListSkipped \cup outside)
               = Cardinality(ListSkipped) + Cardinality(outside)
                 - Cardinality(ListSkipped \cap outside)
      BY <1>3, FS_Union
    <3>3. Cardinality(ListSkipped) \in Nat /\ Cardinality(outside) \in Nat
      BY <1>3, FS_CardinalityType
    <3> QED
      BY <1>4, <3>1, <3>2, <3>3
  <2>2. inside \cap (ListSkipped \cup outside) = {} /\ Cardinality({}) = 0
    BY <1>2, FS_EmptySet
  <2>3. Cardinality(inside \cup (ListSkipped \cup outside))
          = Cardinality(inside) + Cardinality(ListSkipped \cup outside)
            - Cardinality(inside \cap (ListSkipped \cup outside))
    BY <1>3, <2>1, FS_Union
  <2>4. inside \cup (ListSkipped \cup outside) = Selected
    BY <1>2
  <2>5. Cardinality(inside \cap (ListSkipped \cup outside)) = 0
    BY <2>2
  <2>6. Cardinality(Selected) = Cardinality(inside) + Cardinality(ListSkipped \cup outside) - 0
    BY <2>3, <2>4, <2>5, Zenon
  <2>7. Cardinality(Selected) = m + k - 0 /\ m \in Nat /\ k \in Nat
    BY <1>1, <1>3, <2>1, <2>6, Zenon
  <2> QED
    BY <2>7
<1>6. /\ DOMAIN gated = 1..m /\ DOMAIN kept = 1..k
      /\ gated \in Seq({ gated[i] : i \in 1..m }) /\ kept \in Seq({ kept[i] : i \in 1..k })
      /\ rs = gated \o kept
  <2>1. DOMAIN gated = 1..m /\ DOMAIN kept = 1..k
    BY <1>1
  <2>2. rs = gated \o kept
    BY DEF ListedReports, would_skip
  <2>3. gated = [ i \in 1..m |-> gated[i] ] /\ kept = [ i \in 1..k |-> kept[i] ]
    BY <1>1
  <2> DEFINE G == { gated[i] : i \in 1..m }
             K == { kept[i] : i \in 1..k }
  <2>4. m \in Nat /\ k \in Nat
    BY <1>1
  <2> HIDE DEF gated, kept, m, k, rs, a, b
  <2>5. gated \in [1..m -> G] /\ kept \in [1..k -> K]
    BY <2>3
  <2> HIDE DEF G, K
  <2>6. gated \in Seq(G) /\ kept \in Seq(K)
    BY <2>4, <2>5
  <2> QED
    BY <2>1, <2>2, <2>6 DEF G, K
<1>7. /\ DOMAIN rs = 1..(m + k)
      /\ \A i \in 1..m : rs[i] = gated[i]
      /\ \A i \in 1..k : rs[m + i] = kept[i]
      /\ \A i \in 1..(m + k) : i \in 1..m \/ \E j \in 1..k : i = m + j
  <2> HIDE DEF gated, kept, m, k, rs, a, b
  <2>1. \A i \in 1..(m + k) : i \in 1..m \/ \E j \in 1..k : i = m + j
    <3> TAKE i \in 1..(m + k)
    <3>1. i \notin 1..m => i - m \in 1..k /\ i = m + (i - m)
      BY <1>1
    <3> QED
      BY <3>1
  <2> DEFINE G == { gated[i] : i \in 1..m }
             K == { kept[i] : i \in 1..k }
  <2>2. /\ gated \in Seq(G) /\ kept \in Seq(K) /\ m \in Nat /\ k \in Nat
        /\ DOMAIN gated = 1..m /\ DOMAIN kept = 1..k
    BY <1>1, <1>6
  <2> HIDE DEF G, K
  <2>3. Len(gated) = m /\ Len(kept) = k
    BY <2>2
  <2>4. /\ DOMAIN (gated \o kept) = 1..(m + k)
        /\ \A i \in 1..m : (gated \o kept)[i] = gated[i]
        /\ \A i \in 1..k : (gated \o kept)[m + i] = kept[i]
    BY <2>2, <2>3
  <2> QED
    BY <1>6, <2>1, <2>4
<1>8. \A i \in 1..m : /\ gated[i].name = a[i] /\ gated[i].status = "Skipped"
  BY <1>1 DEF skipped
<1>9. \A i \in 1..k :
        /\ kept[i].name = b[i] /\ kept[i].status = "Skipped"
        /\ kept[i].skip_reason = IF b[i] \in ListSkipped THEN ListReason(b[i]) ELSE "unchanged"
  BY <1>1 DEF skipped, would_skip
<1> HIDE DEF gated, kept, a, b, m, k, rs
<1>10. /\ \A i \in 1..m : a[i] \in ListEligible
       /\ \A i \in 1..k : b[i] \in ListEligible \/ b[i] \in ListSkipped
  <2>1. \A i \in 1..m : a[i] \in ToSet(a)
    BY <1>1 DEF ToSet
  <2>2. \A i \in 1..k : b[i] \in ToSet(b)
    BY <1>1 DEF ToSet
  <2> QED
    BY <1>2, <1>3, <1>4, <2>1, <2>2
<1>11. /\ \A i \in 1..m : rs[i].name = a[i] /\ rs[i].status = "Skipped"
       /\ \A i \in 1..k : rs[m + i].name = b[i] /\ rs[m + i].status = "Skipped"
  BY <1>7, <1>8, <1>9
<1>12. Reasons(rs)
  <2> SUFFICES ASSUME NEW i \in 1..(m + k), StaticSkip(rs[i].name) # None
               PROVE  Reworded(rs[i].skip_reason) = Reworded(StaticSkip(rs[i].name))
    BY <1>7 DEF Reasons
  <2>1. CASE i \in 1..m
    <3>1. StaticSkip(a[i]) = None
      BY <1>10, <2>1, ListAgrees
    <3> QED
      BY <1>11, <2>1, <3>1
  <2>2. ASSUME NEW j \in 1..k, i = m + j
        PROVE  Reworded(rs[i].skip_reason) = Reworded(StaticSkip(rs[i].name))
    <3>1. rs[i].name = b[j] /\ rs[i] = kept[j]
      BY <1>7, <1>11, <2>2
    <3>2. StaticSkip(b[j]) # None
      BY <3>1
    <3>3. b[j] \in ListSkipped
      BY <1>10, <3>2, ListAgrees
    <3>4. ListReason(b[j]) = Reworded(StaticSkip(b[j]))
      BY <3>3, ListAgrees
    <3>5. rs[i].skip_reason = Reworded(StaticSkip(b[j]))
      BY <1>9, <3>1, <3>3, <3>4
    <3>6. \A reason : Reworded(Reworded(reason)) = Reworded(reason)
      BY DEF Reworded
    <3> QED
      BY <3>1, <3>5, <3>6
  <2> QED
    BY <1>7, <2>1, <2>2
<1>13. { rs[i].name : i \in 1..(m + k) } = Selected
  <2>1. \A i \in 1..m : i \in 1..(m + k)
    BY <1>1
  <2>2. \A i \in 1..k : m + i \in 1..(m + k)
    BY <1>1
  <2>3. { rs[i].name : i \in 1..(m + k) } = { a[i] : i \in 1..m } \cup { b[i] : i \in 1..k }
    BY <1>7, <1>11, <2>1, <2>2
  <2>4. { a[i] : i \in 1..m } = inside /\ { b[i] : i \in 1..k } = ListSkipped \cup outside
    BY <1>1, <1>3, <1>4 DEF ToSet
  <2> QED
    BY <1>2, <2>3, <2>4
<1>14. \A i \in 1..(m + k) : rs[i].name \in Pkg /\ rs[i].status = "Skipped"
  <2>1. /\ \A i \in 1..m : a[i] \in Pkg
        /\ \A i \in 1..k : b[i] \in Pkg
    BY <1>1
  <2> TAKE i \in 1..(m + k)
  <2>2. CASE i \in 1..m
    BY <1>11, <2>1, <2>2
  <2>3. ASSUME NEW j \in 1..k, i = m + j
        PROVE  rs[i].name \in Pkg /\ rs[i].status = "Skipped"
    BY <1>11, <2>1, <2>3
  <2> QED
    BY <1>7, <2>2, <2>3
<1>15. m + k \in Nat
  BY <1>1
<1> QED
  BY <1>5, <1>7, <1>12, <1>13, <1>14, <1>15 DEF rs

\* Sorting keeps every report, and keeps it once.
LEMMA GateReport ==
  LET rs == build_pr_mode_skipped_report
  IN  /\ Complete(rs)
      /\ rs # <<>> => all_skipped(rs)
<1> DEFINE rs == build_pr_mode_skipped_report
           listed == ListedReports
           n == Cardinality(Selected)
           places == Ordered(1..n, ByName(listed))
<1>1. /\ n \in Nat /\ DOMAIN listed = 1..n
      /\ { listed[i].name : i \in 1..n } = Selected
      /\ \A i \in 1..n : listed[i].name \in Pkg /\ listed[i].status = "Skipped"
      /\ Reasons(listed)
  BY GateSorts
<1>2. rs = [ i \in DOMAIN places |-> listed[places[i]] ]
  BY <1>1 DEF build_pr_mode_skipped_report
<1> HIDE DEF rs, listed, n
<1>3. IsFiniteSet(1..n) /\ Cardinality(1..n) = n
  <2>1. n \in Int /\ n >= 0
    BY <1>1
  <2>2. IsFiniteSet(1..n)
    BY <2>1, FS_Interval
  <2>3. Cardinality(1..n) = n
    BY <2>1, FS_Interval
  <2> QED
    BY <2>2, <2>3
<1>4. StrictOrder(1..n, ByName(listed))
  <2>1. \A i, j \in 1..n :
          <<i, j>> \in ByName(listed) <=>
            \/ listed[i].name < listed[j].name
            \/ listed[i].name = listed[j].name /\ i < j
    BY <1>1 DEF ByName
  <2>2. \A i \in 1..n : listed[i].name \in Int /\ i \in Int
    BY <1>1, NAssumption DEF Pkg
  <2> DEFINE name(i) == listed[i].name
  <2>3. \A i \in 1..n : <<i, i>> \notin ByName(listed)
    BY <2>1, <2>2
  <2>4. \A i, j, k \in 1..n :
          <<i, j>> \in ByName(listed) /\ <<j, k>> \in ByName(listed) =>
            <<i, k>> \in ByName(listed)
    BY <2>1, <2>2
  <2>5. \A i, j \in 1..n :
          i # j => <<i, j>> \in ByName(listed) \/ <<j, i>> \in ByName(listed)
    BY <2>1, <2>2
  <2> QED
    BY <2>3, <2>4, <2>5 DEF StrictOrder
<1>5. /\ places \in [1..n -> 1..n]
      /\ \A i \in 1..n : \E k \in 1..n : places[k] = i
  BY <1>3, <1>4, OrderedHolds
<1> HIDE DEF places
<1>6. DOMAIN rs = 1..n /\ \A k \in 1..n : rs[k] = listed[places[k]] /\ places[k] \in 1..n
  BY <1>2, <1>5
<1>7. rs \in Seq({ listed[i] : i \in 1..n }) /\ Len(rs) = n
  <2> DEFINE L == { listed[i] : i \in 1..n }
  <2>1. rs \in [1..n -> L]
    BY <1>2, <1>5
  <2> HIDE DEF L
  <2>2. rs \in Seq(L) /\ Len(rs) = n
    BY <1>1, <2>1
  <2> QED
    BY <2>2 DEF L
<1>8. ToSet(Names(rs)) = Selected
  <2>1. DOMAIN Names(rs) = 1..n /\ \A k \in 1..n : Names(rs)[k] = listed[places[k]].name
    BY <1>6 DEF Names
  <2>2. ToSet(Names(rs)) = { listed[places[k]].name : k \in 1..n }
    BY <2>1 DEF ToSet
  <2>3. { listed[places[k]].name : k \in 1..n } = { listed[i].name : i \in 1..n }
    BY <1>5
  <2> QED
    BY <1>1, <2>2, <2>3
<1>9. Reasons(rs)
  BY <1>1, <1>6 DEF Reasons
<1>10. rs # <<>> => all_skipped(rs)
  BY <1>1, <1>6, <1>7 DEF all_skipped
<1> QED
  BY <1>7, <1>8, <1>9, <1>10 DEF Complete, rs, n

GateOutput ==
  LET rs == build_pr_mode_skipped_report
      receipt == build_receipt(rs, {}, settings.waivers, settings.today)
  IN  [receipt |-> receipt, packages |-> rs,
       capabilities |-> build_capability_context(config.kind, settings.git, rs),
       index |-> IF Receipts THEN build_artifact_index(rs, SarifToo) ELSE {},
       code |-> Code(settings, receipt, rs)]

LEMMA GateIsSound ==
  ASSUME ~Unusable
  PROVE  Sound(GateOutput)
<1> DEFINE rs == build_pr_mode_skipped_report
           receipt == build_receipt(rs, {}, settings.waivers, settings.today)
<1>1. Complete(rs) /\ (rs # <<>> => all_skipped(rs))
  BY GateReport
<1> HIDE DEF rs
<1>2. rs # <<>> => receipt.verdict.status # "Pass"
  BY <1>1, SkippedIsNotPass
<1> HIDE DEF receipt
<1>3. ReceiptFile \in build_artifact_index(rs, SarifToo)
  BY BundleIsNamed
<1>4. /\ GateOutput.receipt = receipt /\ GateOutput.packages = rs
      /\ Receipts => GateOutput.index = build_artifact_index(rs, SarifToo)
  BY DEF GateOutput, receipt, rs
<1> QED
  BY <1>1, <1>2, <1>3, <1>4 DEF Sound

\* A package that a static filter drops is skipped, and for that reason.
LEMMA FilteredIsSkipped ==
  ASSUME Inv, ListInv, RawReports, pc = "done", NEW i \in DOMAIN reports,
         StaticSkip(reports[i].name) # None
  PROVE  /\ reports[i].status = "Skipped"
         /\ reports[i].skip_reason = StaticSkip(reports[i].name)
<1>1. /\ Len(ListedSkips) \in Nat /\ next - 1 \in 0..Len(would_check)
      /\ DOMAIN reports = 1..(Len(ListedSkips) + (next - 1))
      /\ \A k \in 1..(next - 1) : reports[Len(ListedSkips) + k].name = would_check[k]
  BY ReportsSplit DEF Running
<1>2. \A k \in 1..Len(would_check) : StaticSkip(would_check[k]) = None
  <2> DEFINE inside == { p \in ListEligible : InScope(p) }
  <2>1. inside \in SUBSET Pkg
    BY Lists
  <2>2. would_check \in Seq(inside)
    BY <2>1, AscendingGrows, ListAgrees
  <2>3. \A p \in inside : StaticSkip(p) = None
    BY ListAgrees
  <2> HIDE DEF inside
  <2> QED
    BY <2>2, <2>3
<1>3. i <= Len(ListedSkips)
  <2> SUFFICES ASSUME i > Len(ListedSkips)
               PROVE  FALSE
    BY <1>1
  <2> DEFINE k == i - Len(ListedSkips)
  <2>1. k \in 1..(next - 1) /\ k \in 1..Len(would_check) /\ i = Len(ListedSkips) + k
    BY <1>1
  <2> QED
    BY <1>1, <1>2, <2>1
<1>4. reports[i].status = "Skipped"
  BY <1>3 DEF ListInv, PassThree, Running
<1> QED
  BY <1>4 DEF RawReports, SkipReason

\* A finished run without fail_fast has reported every selected package.
LEMMA RunIsComplete ==
  ASSUME Inv, ListInv, RawReports, pc = "done", ~config.fail_fast
  PROVE  Complete(reports)
<1> DEFINE n == Len(reports)
           names == Names(reports)
<1>1. /\ reports \in Seq(Report) /\ names \in Seq(Pkg) /\ Len(names) = n
      /\ n \in Nat /\ DOMAIN reports = 1..n
      /\ \A i \in 1..n : names[i] = reports[i].name
  BY NamesType DEF Inv, TypeOK
<1>2. Reported = Selected
  BY DEF Inv, Partition, FailuresEndTheRun, BrokeOff
<1>3. DOMAIN names = 1..n
  BY <1>1
<1> HIDE DEF names, n
<1>4. ToSet(names) = Selected
  BY <1>1, <1>2, <1>3 DEF ToSet, Reported
<1>5. names \in Bijection(1..n, Selected)
  <2>1. names \in [1..n -> Selected] /\ \A p \in Selected : \E i \in 1..n : names[i] = p
    <3>1. names \in [1..n -> Pkg]
      BY <1>1, <1>3
    <3>2. \A i \in 1..n : names[i] \in Selected
      BY <1>3, <1>4 DEF ToSet
    <3>3. \A p \in Selected : \E i \in 1..n : names[i] = p
      BY <1>3, <1>4 DEF ToSet
    <3> QED
      BY <3>1, <3>2, <3>3
  <2>2. \A i, j \in 1..n : names[i] = names[j] => i = j
    BY <1>1 DEF Inv, ReportedOnce
  <2> QED
    BY <2>1, <2>2 DEF Bijection, Injection, Surjection, IsInjective
<1>6. ExistsBijection(1..n, Selected)
  BY <1>5 DEF ExistsBijection
<1>7. IsFiniteSet(1..n) /\ Cardinality(1..n) = n
  <2>1. n \in Int /\ n >= 0
    BY <1>1
  <2>2. IsFiniteSet(1..n)
    BY <2>1, FS_Interval
  <2>3. Cardinality(1..n) = n
    BY <2>1, FS_Interval
  <2> QED
    BY <2>2, <2>3
<1>8. Cardinality(Selected) = n
  BY <1>6, <1>7, FS_Bijection
<1>9. Reasons(reports)
  BY FilteredIsSkipped DEF Reasons
<1> QED
  BY <1>4, <1>8, <1>9 DEF Complete, names, n

\* A finished run that has started no engine has only skipped packages.
LEMMA NothingStarted ==
  ASSUME Inv, ListInv, EventInv, pc = "done",
         \A i \in DOMAIN events : events[i].type # "PackageStarted"
  PROVE  \A i \in DOMAIN reports : reports[i].status = "Skipped"
<1>1. Running
  BY DEF Running
<1>2. Sent("PackageStarted") = { 2 * k : k \in 1..(next - 1) }
  BY <1>1, WhereEventsAre
<1>3. Sent("PackageStarted") = {}
  BY DEF Sent
<1>4. next \in Nat \ {0}
  BY DEF Inv, TypeOK
<1>5. next = 1
  <2> SUFFICES ASSUME next # 1
               PROVE  FALSE
    OBVIOUS
  <2>1. 1 \in 1..(next - 1)
    BY <1>4
  <2>2. 2 * 1 \in { 2 * k : k \in 1..(next - 1) }
    BY <2>1
  <2> QED
    BY <1>2, <1>3, <2>2
<1>6. DOMAIN reports = 1..(Len(ListedSkips) + (next - 1)) /\ Len(ListedSkips) \in Nat
  BY <1>1, ReportsSplit
<1> QED
  BY <1>1, <1>5, <1>6 DEF ListInv, PassThree


\* What the pipeline returned, on its way out.
PipelineOutput ==
  [receipt |-> result.receipt, packages |-> result.report,
   capabilities |-> result.capabilities,
   index |-> IF Receipts THEN build_artifact_index(result.report, SarifToo) ELSE {},
   code |-> result.exit_code]

LEMMA PipelineIsSound ==
  ASSUME PipelineInv, command.toml.parses, settings.root,
         stage = "returned", result.is # "Err"
  PROVE  Sound(PipelineOutput)
<1>0. /\ PipelineOutput.receipt = result.receipt /\ PipelineOutput.packages = result.report
      /\ PipelineOutput.code = result.exit_code
      /\ Receipts => PipelineOutput.index = build_artifact_index(result.report, SarifToo)
  BY DEF PipelineOutput
<1>1. ReceiptFile \in build_artifact_index(result.report, SarifToo)
  BY BundleIsNamed
<1>2. TypeOK /\ Inv /\ ListInv /\ EventInv /\ RawReports /\ Concluded
  BY DEF PipelineInv
<1>3. CASE result.is = "Ok" /\ result.has_report
  <2> DEFINE final == result.report
  <2>1. pc = "done" /\ result = ReportResult(reports, settings, config.kind)
    BY <1>2, <1>3, Results DEF Checked, Ok
  <2>2. list_error = None
    <3>1. Pass1Error = None /\ Pass2Error = None
      BY <1>2, <2>1 DEF ListInv, Errors, Running
    <3> QED
      BY <1>2, <3>1, ListFails DEF Inv
  <2>3. ~Unusable
    BY <2>2 DEF Unusable
  <2>4. /\ final = After(reports, Mode)
        /\ result.receipt = build_receipt(final, {}, settings.waivers, settings.today)
    BY <2>1, Zenon DEF ReportResult, After, Mode
  <2>5. Coherent(reports) /\ settings \in Settings
    BY <1>2, CoherentReports DEF Concluded
  <2> HIDE DEF final
  <2>6. /\ final \in Seq(Report) /\ DOMAIN final = DOMAIN reports
        /\ \A i \in DOMAIN reports :
             /\ final[i].name = reports[i].name
             /\ reports[i].failure_kind # "BaselineError" => final[i] = reports[i]
    <3>1. \A i \in DOMAIN reports :
            /\ DOMAIN final = DOMAIN reports
            /\ Leaves(reports[i], ActionOn(reports, Mode, i), final[i])
      BY <2>4, <2>5, PolicyOn
    <3>2. DOMAIN final = DOMAIN reports
      BY <2>4 DEF After, apply_baseline_error_policy
    <3>3. \A i \in DOMAIN reports :
            /\ final[i] \in Report /\ final[i].name = reports[i].name
            /\ reports[i].failure_kind # "BaselineError" => final[i] = reports[i]
      BY <3>1, Zenon DEF Leaves
    <3>4. final = [ i \in DOMAIN reports |-> final[i] ]
      BY <2>4 DEF After, apply_baseline_error_policy
    <3>5. DOMAIN reports = 1..Len(reports) /\ Len(reports) \in Nat
      BY <2>5 DEF Coherent
    <3>6. final \in [1..Len(reports) -> Report]
      BY <3>3, <3>4, <3>5
    <3> QED
      BY <3>2, <3>3, <3>5, <3>6
  <2>7. ~config.fail_fast => Complete(final)
    <3>1. Names(final) = Names(reports)
      BY <2>6 DEF Names
    <3>2. Len(final) = Len(reports)
      BY <2>5, <2>6 DEF Coherent
    <3>3. Reasons(final)
      <4> SUFFICES ASSUME NEW i \in DOMAIN reports, StaticSkip(reports[i].name) # None
                   PROVE  /\ final[i].name = reports[i].name
                          /\ final[i].skip_reason = StaticSkip(reports[i].name)
        BY <2>6 DEF Reasons
      <4>1. /\ reports[i].status = "Skipped"
            /\ reports[i].skip_reason = StaticSkip(reports[i].name)
        BY <1>2, <2>1, FilteredIsSkipped
      <4>2. reports[i].failure_kind = None
        BY <2>5, <4>1 DEF Coherent
      <4> QED
        BY <2>6, <4>1, <4>2 DEF None
    <3> QED
      BY <1>2, <2>1, <3>1, <3>2, <3>3, RunIsComplete DEF Complete
  <2>8. ASSUME final # <<>>, \A i \in DOMAIN events : events[i].type # "PackageStarted"
        PROVE  result.receipt.verdict.status # "Pass"
    <3>1. \A i \in DOMAIN reports : reports[i].status = "Skipped"
      BY <1>2, <2>1, <2>8, NothingStarted
    <3>2. \A i \in DOMAIN reports : reports[i].failure_kind # "BaselineError"
      BY <2>5, <3>1 DEF Coherent, None
    <3>3. all_skipped(final)
      BY <2>6, <2>8, <3>1, <3>2 DEF all_skipped
    <3> QED
      BY <2>4, <3>3, SkippedIsNotPass
  <2> QED
    BY <1>0, <1>1, <2>3, <2>7, <2>8 DEF Sound, final
<1>4. CASE result.is = "Ok" /\ ~result.has_report
  <2> DEFINE receipt == build_receipt(<<>>, {ToolErrorFinding}, {}, settings.today)
  <2>1. result = ErrorResult(settings, config.kind)
    BY <1>2, <1>4, Results DEF Ok
  <2>2. /\ receipt.verdict.status = "Fail"
        /\ exit_code_from_receipt(receipt, settings.warn_as_fail) = 1
    BY ErrorReceipt
  <2>3. /\ result.receipt = receipt /\ result.report = <<>>
        /\ result.exit_code = exit_code_from_receipt(receipt, settings.warn_as_fail)
    BY <2>1 DEF ErrorResult
  <2> HIDE DEF receipt
  <2> QED
    BY <1>0, <1>1, <2>2, <2>3 DEF Sound
<1>5. result.is = "Ok"
  BY <1>2, ResultKinds DEF Concluded
<1> QED
  BY <1>3, <1>4, <1>5

(***************************************************************************)
(* The invariant of the process                                            *)
(***************************************************************************)
\* How far run_check has come, and what it knows by then.
Arrived ==
  /\ step \in {"config", "root", "dispatch", "pipeline", "write", "exited"}
  /\ step \in {"root", "dispatch", "pipeline"} => command.toml.parses
  /\ step \in {"dispatch", "pipeline"} => settings.root

Typed ==
  /\ exit \in {Alive, Killed, Panicked} \cup 0..3 /\ (exit # Alive <=> step = "exited")
  /\ disk \in [Files -> Torn..MaxRuns]
  /\ Len(past) <= MaxRuns /\ (step # "exited" => Len(past) < MaxRuns)
  /\ Receipts => todo \subseteq output.index

\* What the process emits, and the code it exits with, tell what happened.
Tells ==
  /\ step = "write" => Sound(output)
  /\ NoSilentError /\ CockpitIsNeutral

CheckInv == DiskInv /\ PipelineInv /\ Started /\ ErrorEnds /\ Arrived /\ Typed /\ Tells

\* What holds of a process at its start, the first one or a later one.
LEMMA CheckInit == CInit => CheckInv
<1> SUFFICES ASSUME CInit
             PROVE  CheckInv
  OBVIOUS
<1>1. DiskInv
  BY DiskInit
<1>2. PipelineInv
  BY PipelineInit DEF CInit
<1>3. Started /\ Arrived /\ ErrorEnds
  BY DEF CInit, PInit, Init, Started, Arrived, ErrorEnds
<1>4. Typed
  <2>1. MaxRuns \in Nat \ {0} /\ Len(past) = 0
    BY MaxRunsAssumption DEF CInit
  <2>2. disk \in [Files -> Torn..MaxRuns]
    BY <2>1 DEF CInit, Never, Torn
  <2> QED
    BY <2>1, <2>2 DEF CInit, Typed, Alive
<1>5. NoSilentError /\ CockpitIsNeutral
  BY DEF CInit, NoSilentError, CockpitIsNeutral, Exited
<1> QED
  BY <1>1, <1>2, <1>3, <1>4, <1>5 DEF CheckInv, Tells, CInit


(***************************************************************************)
(* Every step keeps it                                                     *)
(***************************************************************************)
\* A step of a process leaves alone what it was started with, and what follows
\* from that: a step that changes it starts another process.
LEMMA Proceeds ==
  ASSUME CNext, ~Again
  PROVE  /\ [PNext]_pvars /\ UNCHANGED <<command, input, settings>>
         /\ UNCHANGED <<Receipts, Cockpit, Mode, Selected, list_error, Unusable, SarifToo>>
         /\ config' = config /\ \A p : StaticSkip(p)' = StaticSkip(p)
<1>1. [PNext]_pvars /\ UNCHANGED <<command, settings>>
  <2>1. CASE ReadConfig \/ CheckRoot
    BY <2>1 DEF ReadConfig, CheckRoot, handle_tool_error, Goto, Exit, Emit, pvars
  <2>2. CASE DryRun
    BY <2>2 DEF DryRun, Exit, pvars
  <2>3. CASE Gate
    BY <2>3 DEF Gate, GateClosed, handle_tool_error, Goto, Exit, Emit, pvars
  <2>4. CASE RunPipeline
    BY <2>4 DEF RunPipeline, proc, PNext, Probe, RunnerStep, Conclude, ConcludeError
  <2>5. CASE PipelineReturned
    BY <2>5 DEF PipelineReturned, handle_tool_error, Exit, Emit, pvars
  <2>6. CASE WriteFile \/ WriteFails \/ SarifPanics \/ Written \/ Kill
    BY <2>6 DEF WriteFile, WriteFails, SarifPanics, Written, Kill, Exit, pvars
  <2> QED
    BY <2>1, <2>2, <2>3, <2>4, <2>5, <2>6 DEF CNext
<1>2. [Next]_vars
  BY <1>1 DEF PNext, Probe, RunnerStep, Conclude, ConcludeError, pvars, vars
<1>3. input' = input /\ Selected' = Selected
  BY <1>2, InputIsFixed
<1>4. list_error' = list_error /\ \A p : StaticSkip(p)' = StaticSkip(p)
  BY <1>2, ListIsFixed
<1>5. config' = config
  BY <1>3 DEF config
<1>6. UNCHANGED <<Receipts, Cockpit, Mode, SarifToo>>
  BY <1>1 DEF Receipts, Cockpit, Mode, SarifToo
<1>7. Unusable' = Unusable
  BY <1>1, <1>4 DEF Unusable
<1> QED
  BY <1>1, <1>3, <1>4, <1>5, <1>6, <1>7

LEMMA AfreshAgain == PInit' => PipelineInv'
BY PipelineInit, PTL

\* The next process starts as the first one did, but for what is on the disk.
LEMMA AgainStarts ==
  ASSUME Again
  PROVE  PInit' /\ Started' /\ step' = "config" /\ exit' = Alive /\ todo' = {}
         /\ UNCHANGED <<disk, past>> /\ Len(past) < MaxRuns
<1>1. PICK c \in Commands :
        command' = c /\ input' = InputOf(c) /\ settings' = SettingsOf(c)
  BY DEF Again
<1>2. InputOf(c) \in Inputs /\ SettingsOf(c) \in Settings
  BY InputsOfCommands
<1>3. PInit'
  BY <1>1, <1>2 DEF Again, PInit, Init
<1>4. Started'
  BY <1>1 DEF Started
<1> QED
  BY <1>3, <1>4 DEF Again


\* An error becomes an exit code of 1, or the receipt that says so.
LEMMA ToolErrorEmits ==
  ASSUME handle_tool_error
  PROVE  \/ ~Receipts /\ Exit(1)
         \/ Receipts /\ Emit(ErrorOutput, write_receipt_bundle(<<>>, SarifToo))
BY Zenon DEF handle_tool_error, ErrorOutput

\* A receipt names whatever is written beside it.
LEMMA BundleIsIndexed ==
  ASSUME NEW rs, NEW sarif
  PROVE  write_receipt_bundle(rs, sarif) \subseteq build_artifact_index(rs, sarif)
BY DEF write_receipt_bundle, build_artifact_index, write_raw_logs, build_raw_log_refs

\* A step that goes on, and emits nothing yet.
LEMMA GotoTells ==
  ASSUME CheckInv, CNext, ~Again, UNCHANGED <<disk, past, output, todo, exit>>,
         step \in {"config", "root", "dispatch", "pipeline"},
         step' \in {"root", "dispatch", "pipeline"}, command.toml.parses,
         step' \in {"dispatch", "pipeline"} => settings.root
  PROVE  Arrived' /\ Typed' /\ Tells'
<1>1. UNCHANGED <<command, settings, Receipts>>
  BY Proceeds
<1>2. Arrived'
  BY <1>1 DEF Arrived
<1>3. Typed'
  BY <1>1 DEF CheckInv, Typed
<1>4. Tells'
  BY DEF Tells, NoSilentError, CockpitIsNeutral, Exited
<1> QED
  BY <1>2, <1>3, <1>4

\* A process that starts to write something sound.
LEMMA EmitTells ==
  ASSUME CheckInv, CNext, ~Again, NEW o, NEW files, Emit(o, files), Sound(o),
         UNCHANGED <<pvars, disk>>, step \in {"config", "root", "dispatch", "pipeline"},
         Receipts => files \subseteq o.index
  PROVE  Arrived' /\ Typed' /\ Tells'
<1>1. /\ UNCHANGED <<command, settings, Receipts, Selected, Unusable>> /\ config' = config
      /\ events' = events /\ \A p : StaticSkip(p)' = StaticSkip(p)
  BY Proceeds DEF pvars, vars
<1>2. step' = "write" /\ output' = o /\ todo' = files /\ UNCHANGED <<exit, past, disk>>
  BY DEF Emit
<1>3. Arrived'
  BY <1>2 DEF Arrived
<1>4. Typed'
  BY <1>1, <1>2 DEF CheckInv, Typed
<1>5. Sound(output)'
  BY <1>1, <1>2 DEF Sound, Complete, Reasons
<1>6. Tells'
  BY <1>2, <1>5 DEF Tells, NoSilentError, CockpitIsNeutral, Exited
<1> QED
  BY <1>3, <1>4, <1>6

\* A process that exits with a code that tells what happened.
LEMMA ExitTells ==
  ASSUME CheckInv, CNext, ~Again, NEW code \in {Killed, Panicked} \cup 0..3, Exit(code),
         step # "exited", disk' \in [Files -> Torn..MaxRuns],
         code = 0 /\ Unusable => Cockpit /\ output.receipt.verdict.status = "Fail",
         Cockpit /\ code # Killed =>
           /\ code \in {0, 1}
           /\ code = 0 /\ ~command.args.dry_run =>
                output.index # {} /\ \A f \in output.index : disk'[f] = ThisRun
  PROVE  Arrived' /\ Typed' /\ Tells'
<1>1. UNCHANGED <<command, settings, Receipts, Cockpit, Unusable>>
  BY Proceeds
<1>2. /\ step' = "exited" /\ exit' = code /\ UNCHANGED <<command, output, todo>>
      /\ past' = Append(past, [index |-> output.index, code |-> code])
  BY DEF Exit
<1>3. Len(past) \in Nat /\ Len(past') = ThisRun
  <2>1. past \in Seq(Past) /\ [index |-> output.index, code |-> code] \in Past
    BY DEF CheckInv, DiskInv, CodesKept, Past, Killed, Panicked
  <2> QED
    BY <1>2, <2>1 DEF ThisRun
<1>4. Arrived'
  BY <1>2 DEF Arrived
<1>5. Typed'
  <2>1. Len(past) < MaxRuns /\ MaxRuns \in Nat
    BY MaxRunsAssumption DEF CheckInv, Typed
  <2>2. Len(past') <= MaxRuns
    BY <1>3, <2>1 DEF ThisRun
  <2> QED
    BY <1>1, <1>2, <2>2 DEF CheckInv, Typed, Alive, Killed, Panicked
<1>6. NoSilentError'
  BY <1>1, <1>2 DEF NoSilentError, Unusable
<1>7. CockpitIsNeutral'
  BY <1>1, <1>2, <1>3 DEF CockpitIsNeutral, Exited
<1> QED
  BY <1>2, <1>4, <1>5, <1>6, <1>7 DEF Tells


\* The cockpit lane emits receipts.
LEMMA CockpitIsReceipt == Started => (Cockpit => Receipts)
<1> SUFFICES ASSUME Started, Cockpit
             PROVE  Receipts
  OBVIOUS
<1>1. /\ settings.mode = ModeOf(command)
      /\ settings.format = Format(command.args, Loaded(command), ModeOf(command))
  BY StartedFields
<1> QED
  BY <1>1 DEF Cockpit, Receipts, Format

\* What a file's name is overwritten with keeps the disk's type.
LEMMA DiskType ==
  ASSUME CheckInv, step = "write", NEW v \in {Torn, ThisRun},
         \/ UNCHANGED disk
         \/ todo # {} /\ disk' = [disk EXCEPT ![Upcoming] = v]
  PROVE  disk' \in [Files -> Torn..MaxRuns]
<1>1. disk \in [Files -> Torn..MaxRuns] /\ Len(past) < MaxRuns
  BY DEF CheckInv, Typed
<1>2. Len(past) \in Nat /\ MaxRuns \in Nat
  BY MaxRunsAssumption DEF CheckInv, DiskInv, CodesKept
<1>3. v \in Torn..MaxRuns
  BY <1>1, <1>2 DEF Torn, ThisRun
<1> QED
  BY <1>1, <1>3

\* The tail of each error path.
LEMMA ToolErrorTells ==
  ASSUME CheckInv, CNext, ~Again, handle_tool_error, UNCHANGED <<pvars, disk>>,
         step \in {"config", "root", "dispatch", "pipeline"}
  PROVE  Arrived' /\ Typed' /\ Tells'
<1>1. Started /\ disk \in [Files -> Torn..MaxRuns] /\ (Cockpit => Receipts)
  BY CockpitIsReceipt DEF CheckInv, Typed
<1>2. CASE ~Receipts /\ Exit(1)
  BY <1>1, <1>2, ExitTells
<1>3. CASE Receipts /\ Emit(ErrorOutput, write_receipt_bundle(<<>>, SarifToo))
  <2>1. Sound(ErrorOutput)
    BY <1>1, ErrorIsSound
  <2>2. write_receipt_bundle(<<>>, SarifToo) \subseteq ErrorOutput.index
    BY BundleIsIndexed DEF ErrorOutput
  <2> QED
    BY <1>3, <2>1, <2>2, EmitTells
<1> QED
  BY <1>2, <1>3, ToolErrorEmits

LEMMA CheckStep == CheckInv /\ [CNext]_cvars => CheckInv'
<1> SUFFICES ASSUME CheckInv, [CNext]_cvars
             PROVE  CheckInv'
  OBVIOUS
<1>1. /\ DiskInv /\ PipelineInv /\ Started /\ ErrorEnds /\ Arrived /\ Typed /\ Tells
      /\ disk \in [Files -> Torn..MaxRuns] /\ (Cockpit => Receipts)
  BY CockpitIsReceipt DEF CheckInv, Typed
<1>2. DiskInv'
  BY <1>1, DiskStep
<1>3. ASSUME Again
      PROVE  CheckInv'
  <2>1. /\ PInit' /\ Started' /\ step' = "config" /\ exit' = Alive /\ todo' = {}
        /\ UNCHANGED <<disk, past>> /\ Len(past) < MaxRuns
    BY <1>3, AgainStarts
  <2>2. PipelineInv'
    BY <2>1, AfreshAgain
  <2>3. ErrorEnds' /\ Arrived'
    BY <2>1 DEF PInit, Init, ErrorEnds, Arrived
  <2>4. Typed' /\ Tells'
    BY <1>1, <2>1 DEF Typed, Tells, NoSilentError, CockpitIsNeutral, Exited
  <2> QED
    BY <1>2, <2>1, <2>2, <2>3, <2>4 DEF CheckInv
<1>4. ASSUME UNCHANGED cvars
      PROVE  CheckInv'
  <2>1. UNCHANGED <<pvars, vars, settings, stage, result, command, step, output, todo, exit,
                    disk, past>>
    BY <1>4 DEF cvars, proc, pvars
  <2>2. UNCHANGED <<input, pc, error, events>>
    BY <2>1 DEF vars
  <2>3. [PNext]_pvars /\ [Next]_vars
    BY <2>1
  <2>4. UNCHANGED <<Selected, list_error>> /\ \A p : StaticSkip(p)' = StaticSkip(p)
    BY <2>3, InputIsFixed, ListIsFixed
  <2>5. PipelineInv' /\ ErrorEnds' /\ Started'
    BY <1>1, <2>1, <2>2, <2>3, PipelineStep, ErrorStep DEF Started
  <2>6. UNCHANGED <<Receipts, Cockpit, Unusable>> /\ config' = config
    BY <2>1, <2>2, <2>4 DEF Receipts, Cockpit, Unusable, config
  <2>7. Arrived' /\ Typed'
    BY <1>1, <2>1, <2>6 DEF Arrived, Typed
  <2>8. Sound(output)' <=> Sound(output)
    BY <2>1, <2>2, <2>4, <2>6 DEF Sound, Complete, Reasons
  <2>9. NoSilentError' /\ CockpitIsNeutral'
    BY <1>1, <2>1, <2>4, <2>6 DEF Tells, NoSilentError, CockpitIsNeutral, Exited
  <2> QED
    BY <1>1, <1>2, <2>1, <2>5, <2>7, <2>8, <2>9 DEF CheckInv, Tells
<1>5. ASSUME CNext, ~Again
      PROVE  PipelineInv' /\ Started' /\ ErrorEnds'
  <2>1. [PNext]_pvars /\ UNCHANGED <<command, input, settings>>
    BY <1>5, Proceeds
  <2>2. [Next]_vars
    BY <2>1 DEF PNext, Probe, RunnerStep, Conclude, ConcludeError, pvars, vars
  <2> QED
    BY <1>1, <2>1, <2>2, PipelineStep, ErrorStep DEF Started
<1>6. ASSUME CNext, ~Again
      PROVE  Arrived' /\ Typed' /\ Tells'
  <2>1. CASE ReadConfig
    <3>1. step = "config" /\ UNCHANGED <<pvars, disk>>
      BY <2>1 DEF ReadConfig
    <3>2. CASE command.toml.parses /\ Goto("root")
      BY <1>6, <3>1, <3>2, GotoTells DEF Goto
    <3> QED
      BY <1>6, <2>1, <3>1, <3>2, ToolErrorTells DEF ReadConfig
  <2>2. CASE CheckRoot
    <3>1. step = "root" /\ UNCHANGED <<pvars, disk>> /\ command.toml.parses
      BY <1>1, <2>2 DEF CheckRoot, Arrived
    <3>2. CASE settings.root /\ Goto("dispatch")
      BY <1>6, <3>1, <3>2, GotoTells DEF Goto
    <3> QED
      BY <1>6, <2>2, <3>1, <3>2, ToolErrorTells DEF CheckRoot
  <2>3. CASE DryRun
    <3>1. /\ step = "dispatch" /\ command.args.dry_run /\ UNCHANGED disk
          /\ Exit(IF list_error = None THEN 0 ELSE 1)
          /\ command.toml.parses /\ settings.root
      BY <1>1, <2>3 DEF DryRun, Arrived
    <3>2. CASE list_error = None
      BY <1>1, <1>6, <3>1, <3>2, ExitTells DEF Unusable
    <3>3. CASE list_error # None
      BY <1>1, <1>6, <3>1, <3>3, ExitTells
    <3> QED
      BY <3>2, <3>3
  <2>4. CASE Gate
    <3>1. /\ step = "dispatch" /\ UNCHANGED <<pvars, disk>>
          /\ command.toml.parses /\ settings.root
      BY <1>1, <2>4 DEF Gate, Arrived
    <3>2. CASE Goto("pipeline")
      BY <1>6, <3>1, <3>2, GotoTells DEF Goto
    <3>3. CASE handle_tool_error
      BY <1>6, <3>1, <3>3, ToolErrorTells
    <3>4. CASE list_error = None /\ GateClosed
      <4> DEFINE rs == build_pr_mode_skipped_report
                 files == IF Receipts THEN write_receipt_bundle(rs, SarifToo) ELSE {}
      <4>1. Emit(GateOutput, files)
        BY <3>4, Zenon DEF GateClosed, GateOutput
      <4>2. Sound(GateOutput)
        BY <3>1, <3>4, GateIsSound DEF Unusable
      <4>3. Receipts => files \subseteq GateOutput.index
        BY BundleIsIndexed DEF GateOutput
      <4> HIDE DEF files
      <4> QED
        BY <1>6, <3>1, <4>1, <4>2, <4>3, EmitTells
    <3> QED
      BY <2>4, <3>2, <3>3, <3>4 DEF Gate
  <2>5. CASE RunPipeline
    <3>1. step = "pipeline" /\ UNCHANGED <<proc, disk, past>>
      BY <2>5 DEF RunPipeline
    <3>2. UNCHANGED <<command, settings, Receipts>>
      BY <1>6, Proceeds
    <3>3. Arrived' /\ Typed'
      BY <1>1, <3>1, <3>2 DEF Arrived, Typed, proc
    <3> QED
      BY <3>1, <3>3 DEF Tells, NoSilentError, CockpitIsNeutral, Exited, proc
  <2>6. CASE PipelineReturned
    <3>1. /\ step = "pipeline" /\ stage = "returned" /\ UNCHANGED <<pvars, disk>>
          /\ command.toml.parses /\ settings.root
      BY <1>1, <2>6 DEF PipelineReturned, Arrived
    <3>2. CASE result.is = "Err"
      BY <1>6, <2>6, <3>1, <3>2, ToolErrorTells DEF PipelineReturned
    <3>3. CASE result.is # "Err"
      <4> DEFINE files == IF Receipts THEN write_receipt_bundle(result.report, SarifToo) ELSE {}
      <4>1. Emit(PipelineOutput, files)
        BY <2>6, <3>3, Zenon DEF PipelineReturned, PipelineOutput
      <4>2. Sound(PipelineOutput)
        BY <1>1, <3>1, <3>3, PipelineIsSound
      <4>3. Receipts => files \subseteq PipelineOutput.index
        BY BundleIsIndexed DEF PipelineOutput
      <4> HIDE DEF files
      <4> QED
        BY <1>6, <3>1, <4>1, <4>2, <4>3, EmitTells
    <3> QED
      BY <3>2, <3>3
  <2>7. CASE WriteFile
    <3>1. /\ step = "write" /\ todo # {} /\ todo' = todo \ {Upcoming}
          /\ disk' = [disk EXCEPT ![Upcoming] = ThisRun]
          /\ UNCHANGED <<pvars, command, step, output, exit, past>>
      BY <2>7 DEF WriteFile
    <3>2. disk' \in [Files -> Torn..MaxRuns]
      BY <3>1, DiskType
    <3>3. /\ UNCHANGED <<command, settings, Receipts, Selected, Unusable>> /\ config' = config
          /\ events' = events /\ \A p : StaticSkip(p)' = StaticSkip(p)
      BY <1>6, <3>1, Proceeds DEF pvars, vars
    <3>4. Arrived' /\ Typed'
      BY <1>1, <3>1, <3>2, <3>3 DEF Arrived, Typed
    <3>5. Sound(output)'
      BY <1>1, <3>1, <3>3 DEF Tells, Sound, Complete, Reasons
    <3> QED
      BY <3>1, <3>4, <3>5 DEF Tells, NoSilentError, CockpitIsNeutral, Exited
  <2>8. CASE WriteFails
    <3>1. step = "write" /\ Exit(1) /\ CutShort
      BY <2>8 DEF WriteFails, CutShort
    <3>2. disk' \in [Files -> Torn..MaxRuns]
      BY <3>1, DiskType DEF CutShort
    <3> QED
      BY <1>6, <3>1, <3>2, ExitTells
  <2>9. CASE SarifPanics
    <3>1. /\ step = "write" /\ "sarif" \in emit_outputs(settings.format)
          /\ Exit(Panicked) /\ UNCHANGED disk
      BY <2>9 DEF SarifPanics
    <3>2. ~Cockpit
      BY <1>1, <3>1 DEF Receipts, emit_outputs
    <3>3. Panicked # 0
      BY DEF Panicked
    <3> QED
      BY <1>1, <1>6, <3>1, <3>2, <3>3, ExitTells
  <2>10. CASE Written
    <3> DEFINE code == IF Receipts /\ Cockpit THEN 0 ELSE output.code
    <3>1. step = "write" /\ todo = {} /\ Exit(code) /\ UNCHANGED disk
      BY <2>10 DEF Written
    <3>2. code \in 0..3 /\ \A f \in output.index : disk[f] = ThisRun
      BY <1>1, <3>1 DEF DiskInv, CodesKept, BundleCovered
    <3>3. Sound(output)
      BY <1>1, <3>1 DEF Tells
    <3>4. code = 0 /\ Unusable => Cockpit /\ output.receipt.verdict.status = "Fail"
      BY <3>3 DEF Sound
    <3>5. Cockpit => code = 0 /\ output.index # {}
      BY <1>1, <3>3 DEF Sound
    <3> HIDE DEF code
    <3> QED
      BY <1>1, <1>6, <3>1, <3>2, <3>4, <3>5, ExitTells
  <2>11. CASE Kill
    <3>1. step # "exited" /\ Exit(Killed) /\ Killed # 0
      BY <2>11 DEF Kill, Killed
    <3>2. disk' \in [Files -> Torn..MaxRuns]
      BY <1>1, <2>11, DiskType DEF Kill, CutShort
    <3> QED
      BY <1>6, <3>1, <3>2, ExitTells
  <2> QED
    BY <1>6, <2>1, <2>2, <2>3, <2>4, <2>5, <2>6, <2>7, <2>8, <2>9, <2>10, <2>11 DEF CNext
<1> QED
  BY <1>2, <1>3, <1>4, <1>5, <1>6 DEF CheckInv


LEMMA CheckInvariance == CSpec => []CheckInv
BY CheckInit, CheckStep, PTL DEF CSpec

(***************************************************************************)
(* The theorems                                                            *)
(***************************************************************************)
\* Every variable of a process has its type, exit codes are 0 to 3 (or that of
\* a panic), and nothing is written that the receipt does not name.
THEOREM CheckTypes == CSpec => []CTypeOK
<1>1. CheckInv => CTypeOK
  BY DEF CheckInv, Started, Typed, DiskInv, CodesKept, CTypeOK
<1> QED
  BY <1>1, CheckInvariance, PTL

\* The cockpit lane exits 0 or 1, and 0 only with its whole bundle on the disk.
THEOREM TheCockpitIsNeutral == CSpec => []CockpitIsNeutral
<1>1. CheckInv => CockpitIsNeutral
  BY DEF CheckInv, Tells
<1> QED
  BY <1>1, CheckInvariance, PTL

\* An unusable configuration, root, workspace or baseline never ends in exit
\* code 0, but for the cockpit lane, whose receipt then fails.
THEOREM NoErrorIsSilent == CSpec => []NoSilentError
<1>1. CheckInv => NoSilentError
  BY DEF CheckInv, Tells
<1> QED
  BY <1>1, CheckInvariance, PTL

\* A report that is emitted has every selected package, and each of them once,
\* whether the runner made it or the gate; one that a static filter drops has
\* that filter's reason, up to a wording that the code has twice.
THEOREM EveryPackageIsEmitted == CSpec => []EveryPackageIsReported
<1>1. CheckInv => EveryPackageIsReported
  BY DEF CheckInv, Tells, Sound, Complete, Reasons, EveryPackageIsReported
<1> QED
  BY <1>1, CheckInvariance, PTL

\* A process that has started no engine does not call its packages sound.
THEOREM NothingCheckedIsNoPass == CSpec => []UncheckedIsNotPass
<1>1. CheckInv => UncheckedIsNotPass
  BY DEF CheckInv, Tells, Sound, UncheckedIsNotPass
<1> QED
  BY <1>1, CheckInvariance, PTL

\* A scope that only the mode asks for is one the run can have.
THEOREM TheDefaultScopeIsUsable == CSpec => []DefaultScopeIsUsable
<1>1. CheckInv => DefaultScopeIsUsable
  BY ScopeIsUsable DEF CheckInv
<1> QED
  BY <1>1, CheckInvariance, PTL

\* What validate-config accepts, check can run with: neither the translation
\* of the file nor the overrides of the flags make it invalid.
THEOREM AValidConfigRuns == CSpec => []ValidConfigRuns
<1>1. CheckInv => ValidConfigRuns
  BY ValidRuns DEF CheckInv, PipelineInv
<1> QED
  BY <1>1, CheckInvariance, PTL

\* In the changed scope the revision whose files decide what is checked is the
\* one the engine is given, and nothing else is but what the extra arguments
\* ask for.
THEOREM TheChangedAreCompared == CSpec => []ScopeIsOfTheComparison
<1>1. CheckInv => ScopeIsOfTheComparison
  BY ScopeAndComparison DEF CheckInv, PipelineInv
<1> QED
  BY <1>1, CheckInvariance, PTL

=============================================================================
