------------------------------- MODULE ConfigFile -------------------------------
(***************************************************************************)
(* The processes that share semverguard.toml: `promote-baseline` of        *)
(* semverguard-cli/src/main.rs, which reads it twice and writes it in      *)
(* place, the head of `check`, which reads it twice as well, and whoever   *)
(* edits it.  Nothing locks the file.                                      *)
(***************************************************************************)
EXTENDS Configuration

CONSTANTS
  Promoters,  \* processes of promote-baseline
  Rev,        \* the commits a git ref may resolve to
  Saves,      \* what the file may hold at first, and what an edit makes of it
  MaxEdits    \* bound on the number of edits

Rest == 0..MaxEdits
Documents == Doc(Rev, Rest)

ASSUME MaxEditsAssumption == MaxEdits \in Nat
ASSUME RevAssumption == Unset \notin Rev
\* The rest of a document is the number of the edit that saved it.
ASSUME SavesAssumption == \A d \in Saves : d \in Documents /\ d.rest = 0

VARIABLES
  file,       \* semverguard.toml
  edits,      \* the number of edits so far
  proc,       \* the promoters
  check       \* the head of one `check`

vars == <<file, edits, proc, check>>

(***************************************************************************)
(* A promoter: where it is; --write; the commit it resolved; the document  *)
(* it loaded first and the one it edits; and the places where it was when  *)
(* somebody else changed the file.                                         *)
(***************************************************************************)
Places ==
  {"load", "resolve", "read", "write", "truncated", "cut", "done", "declined", "failed", "killed"}

Promoter ==
  [at : Places, write : BOOLEAN, target : Rev \cup {Unset},
   first : Documents, held : Documents, others : SUBSET Places]

Contents == {Missing, Broken} \cup { Holding(d) : d \in Documents }

ScopeModes == {"Workspace", "Changed"}

\* `scope` is what check goes on with.  The last two are history, for OneScope:
\* the scope that the file it loaded asks for, and what check met, an edit
\* between its reads or, at one of them, a promoter amid its write.
Checker ==
  [at : {"explicit", "load", "loaded", "failed"}, scope_set : BOOLEAN,
   scope : ScopeModes, asked : ScopeModes, met : SUBSET {"edit", "write"}]

Ended(p) == proc[p].at \in {"cut", "done", "declined", "failed", "killed"}

Init ==
  /\ file \in {Missing} \cup { Holding(d) : d \in Saves }
  /\ edits = 0
  /\ proc \in [Promoters -> { [at |-> "load", write |-> w, target |-> Unset,
                                first |-> EmptyDoc, held |-> EmptyDoc,
                                others |-> {}] : w \in BOOLEAN }]
  /\ check = [at |-> "explicit", scope_set |-> FALSE,
               scope |-> "Workspace", asked |-> "Workspace", met |-> {}]

\* What the other promoters notice of a change of the file.
Noticed(q) == [proc[q] EXCEPT !.others = @ \cup {proc[q].at}]

\* p goes on to `me` and leaves the file alone, or changes it.
Step(p, me) ==
  /\ proc' = [proc EXCEPT ![p] = me]
  /\ UNCHANGED <<file, edits, check>>

Change(p, me, new) ==
  /\ file' = new
  /\ proc' = [q \in Promoters |-> IF q = p THEN me ELSE Noticed(q)]
  /\ UNCHANGED <<edits, check>>

(***************************************************************************)
(* promote-baseline                                                        *)
(***************************************************************************)
\* run_promote_baseline: nothing to do for a crates-io baseline, which is also
\* what a file without a kind has; a missing file is found missing later.
LoadConfig(p) ==
  /\ proc[p].at = "load"
  /\ Step(p, [proc[p] EXCEPT
       !.first = file.doc,
       !.at = IF load_config_fails(file) THEN "failed"
              ELSE IF file.is # "missing" /\ load_config(file).kind = "CratesIo" THEN "declined"
              ELSE "resolve"])

\* Mutant: a ref that git does not know is promoted as it is.
Resolve_Raw(p) ==
  /\ proc[p].at = "resolve"
  /\ \/ \E r \in Rev : Step(p, [proc[p] EXCEPT !.at = "read", !.target = r])
     \/ Step(p, [proc[p] EXCEPT !.at = "read"])

\* resolve_git_revision: git answers with a commit, or fails.
Resolve(p) ==
  /\ proc[p].at = "resolve"
  /\ \/ \E r \in Rev : Step(p, [proc[p] EXCEPT !.at = "read", !.target = r])
     \/ Step(p, [proc[p] EXCEPT !.at = "failed"])

\* Mutant: the document of the first read is edited.
ReadAgain_First(p) ==
  /\ proc[p].at = "read"
  /\ Step(p, IF Promotable(file)
             THEN [proc[p] EXCEPT !.held = proc[p].first,
                                  !.at = IF proc[p].write THEN "write" ELSE "done"]
             ELSE [proc[p] EXCEPT !.at = "failed"])

\* promote_git_baseline reads the file for itself.
ReadAgain(p) ==
  /\ proc[p].at = "read"
  /\ Step(p, IF Promotable(file)
             THEN [proc[p] EXCEPT !.held = file.doc,
                                  !.at = IF proc[p].write THEN "write" ELSE "done"]
             ELSE [proc[p] EXCEPT !.at = "failed"])

\* fs::write empties the file before it writes, and may fail to open it.
Truncate(p) ==
  /\ proc[p].at = "write"
  /\ \/ Change(p, [proc[p] EXCEPT !.at = "truncated"], Empty)
     \/ Step(p, [proc[p] EXCEPT !.at = "failed"])

\* Where somebody else wrote in between, the two texts may overlap, or the file
\* was replaced and keeps its new text.
Outcomes(p) ==
  LET mine == Holding(Promoted(proc[p].held, proc[p].target))
  IN  IF "truncated" \in proc[p].others THEN {mine, Broken, file} ELSE {mine}

Write(p) ==
  /\ proc[p].at = "truncated"
  /\ \E new \in Outcomes(p) : Change(p, [proc[p] EXCEPT !.at = "done"], new)

\* What a text that is cut off reads as: nothing, or fewer keys.
Cuts(doc) ==
  {Broken} \cup { Holding([doc EXCEPT !.kind = k, !.rev = r, !.mode = m, !.rest = 0]) :
                  k \in {Unset, doc.kind}, r \in {Unset, doc.rev}, m \in {Unset, doc.mode} }

\* The disk is full, or the process is killed, before or amid the text.
CutShort(p) ==
  /\ proc[p].at = "truncated"
  /\ LET me == [proc[p] EXCEPT !.at = "cut"]
     IN  \/ Step(p, me)
         \/ \E new \in Cuts(Promoted(proc[p].held, proc[p].target)) : Change(p, me, new)

Kill(p) ==
  /\ ~Ended(p) /\ proc[p].at # "truncated"
  /\ Step(p, [proc[p] EXCEPT !.at = "killed"])

(***************************************************************************)
(* The head of run_check: is scope.mode set, then the configuration, and   *)
(* the scope that apply_cli_overrides makes of both when no flag concerns  *)
(* the scope or the baseline.                                              *)
(***************************************************************************)
MetNow == IF \E p \in Promoters : proc[p].at = "truncated" THEN {"write"} ELSE {}

CheckExplicit ==
  /\ check.at = "explicit"
  /\ check' = [check EXCEPT !.at = "load", !.met = MetNow,
                            !.scope_set = config_explicitly_sets_scope_mode(file)]
  /\ UNCHANGED <<file, edits, proc>>

\* The scope the run mode suggests is used where none is set, the changed one
\* only with a git baseline that has a revision.
scope_mode(scope_set, cfg, suggested) ==
  IF scope_set \/ (suggested = "Changed" /\ ~(cfg.kind = "Git" /\ cfg.rev))
  THEN cfg.mode ELSE suggested

\* The run mode is read from the same file, or is a flag's.
CheckLoads ==
  /\ check.at = "load"
  /\ \/ /\ load_config_fails(file)
        /\ check' = [check EXCEPT !.at = "failed"]
     \/ /\ ~load_config_fails(file)
        /\ \E suggested \in ScopeModes :
             check' = [check EXCEPT !.at = "loaded", !.met = @ \cup MetNow,
               !.scope = scope_mode(check.scope_set, load_config(file), suggested),
               !.asked = scope_mode(file.doc.mode # Unset, load_config(file), suggested)]
  /\ UNCHANGED <<file, edits, proc>>

(***************************************************************************)
(* Somebody saves another version of the file.                             *)
(***************************************************************************)
Edit ==
  /\ edits < MaxEdits
  /\ edits' = edits + 1
  /\ \E d \in Saves : file' = Holding([d EXCEPT !.rest = edits + 1])
  /\ proc' = [q \in Promoters |-> Noticed(q)]
  /\ check' = [check EXCEPT !.met = IF check.at = "load" THEN @ \cup {"edit"} ELSE @]

Next ==
  \/ \E p \in Promoters :
       LoadConfig(p) \/ Resolve(p) \/ ReadAgain(p) \/ Truncate(p) \/ Write(p)
         \/ CutShort(p) \/ Kill(p)
  \/ CheckExplicit \/ CheckLoads \/ Edit

Spec == Init /\ [][Next]_vars

(***************************************************************************)
(* Properties                                                              *)
(***************************************************************************)
\* Every variable has its type, and nothing but a commit that git resolved is
\* ever on its way into the file (run_promote_baseline).
TypeOK ==
  /\ file \in Contents
  /\ edits \in 0..MaxEdits
  /\ proc \in [Promoters -> Promoter]
  /\ check \in Checker
  /\ \A p \in Promoters :
       proc[p].at \in {"read", "write", "truncated", "cut", "done"} => proc[p].target \in Rev

\* A promotion that nobody interfered with changed baseline.rev and nothing
\* else, in a file that asked for a git baseline, and validate_config says
\* nothing of the new file that it did not say of the old one.
PromotionIsExact ==
  \A p \in Promoters :
    LET first == proc[p].first
    IN  proc[p].at = "done" /\ proc[p].write /\ proc[p].others \subseteq {"load"} =>
          /\ first.kind = "Git"
          /\ file = Holding([first EXCEPT !.rev = proc[p].target])
          /\ validate_config(load_config(file))
               \subseteq validate_config(load_config(Holding(first)))

\* The last edit is in the file unless a promoter is amid its write, was cut
\* off there, or was interfered with after it had read the file that it edits:
\* an edit made while git resolves the ref is safe.
LastEditSurvives ==
  file.doc.rest # edits =>
    \E p \in Promoters :
      proc[p].at \in {"truncated", "cut"} \/ proc[p].others \cap {"write", "truncated"} # {}

\* `check` learns from one read whether a scope is written down, and from
\* another which; yet it goes on in the scope that the file it loaded asks for,
\* unless the file was edited in between, a read came amid a promoter's write,
\* or a promoter was cut off there or raced.  So a whole promotion may come
\* between the two reads and do no harm, although it writes the file anew.
OneScope ==
  check.at = "loaded" /\ check.met = {} =>
    \/ check.scope = check.asked
    \/ \E p \in Promoters :
         proc[p].at = "cut" \/ proc[p].others \cap {"write", "truncated"} # {}

=============================================================================
