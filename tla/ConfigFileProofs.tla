---------------------------- MODULE ConfigFileProofs ----------------------------
(***************************************************************************)
(* Theorems about ConfigFile, for any number of promoters, commits, saved  *)
(* files and edits.                                                        *)
(***************************************************************************)
EXTENDS ConfigFile, TLAPS

(***************************************************************************)
(* Documents                                                               *)
(***************************************************************************)
\* What is written or left by a cut is a document again.
LEMMA DocumentLemma ==
  /\ EmptyDoc \in Documents
  /\ \A d \in Documents, r \in Rev : Promoted(d, r) \in Documents
  /\ \A d \in Documents : Cuts(d) \subseteq Contents
<1> USE MaxEditsAssumption DEF Documents, Doc, Rest
<1>1. EmptyDoc \in Documents
  BY DEF EmptyDoc
<1>2. ASSUME NEW d \in Documents, NEW r \in Rev PROVE Promoted(d, r) \in Documents
  BY DEF Promoted
<1>3. ASSUME NEW d \in Documents PROVE Cuts(d) \subseteq Contents
  <2> SUFFICES ASSUME NEW c \in Cuts(d) PROVE c \in Contents
    OBVIOUS
  <2>1. CASE c = Broken
    BY <2>1 DEF Contents
  <2>2. CASE c # Broken
    <3>1. PICK k \in {Unset, d.kind}, r \in {Unset, d.rev}, m \in {Unset, d.mode} :
            c = Holding([d EXCEPT !.kind = k, !.rev = r, !.mode = m, !.rest = 0])
      BY <2>2 DEF Cuts
    <3> DEFINE n == [d EXCEPT !.kind = k, !.rev = r, !.mode = m, !.rest = 0]
    <3>2. n.baseline = d.baseline /\ n.kind = k /\ n.rev = r /\ n.mode = m /\ n.rest = 0
      OBVIOUS
    <3>3. k \in {Unset, "CratesIo", "Git"} /\ r \in Rev \cup {Unset}
            /\ m \in {Unset, "Workspace", "Changed"} /\ 0 \in 0..MaxEdits
      OBVIOUS
    <3>4. n \in [baseline : {"absent", "table", "inline"}, kind : {Unset, "CratesIo", "Git"},
                 rev : Rev \cup {Unset}, mode : {Unset, "Workspace", "Changed"},
                 rest : 0..MaxEdits]
      BY <3>3
    <3>5. d.baseline = "absent" => d.kind = Unset /\ d.rev = Unset
      OBVIOUS
    <3>6. n \in Documents
      BY <3>2, <3>4, <3>5
    <3> QED BY <3>1, <3>6 DEF Contents
  <2> QED BY <2>1, <2>2
<1> QED BY <1>1, <1>2, <1>3

\* A file that may be promoted holds a document, a table where it has a kind.
LEMMA PromotableLemma ==
  ASSUME NEW f \in Contents, Promotable(f)
  PROVE  /\ f.doc \in Documents /\ f = Holding(f.doc)
         /\ f.doc.kind # Unset => f.doc.baseline = "table"
BY DEF Contents, Promotable, Missing, Broken, Holding, Documents, Doc

\* What validate_config has to say of a git baseline that is otherwise left at
\* its defaults is that it has no revision.
LEMMA ValidGit ==
  ASSUME NEW b \in BOOLEAN, NEW m,
         NEW c, c = [DefaultCfg EXCEPT !.kind = "Git", !.rev = b, !.mode = m]
  PROVE  b => validate_config(c) = {}
<1>1. /\ c.include /\ c.exclude /\ c.kind = "Git" /\ c.rev = b /\ c.version = FALSE
      /\ c.root = Unset /\ c.rustdoc = Unset /\ c.cargo_bin = Unset /\ c.waivers = {}
      /\ c.all_features = FALSE /\ c.only_explicit = FALSE
  BY DEF DefaultCfg
<1>2. b => Errors(c) = {}
  BY <1>1 DEF Errors, Unset
<1>3. Warnings(c) = {}
  BY <1>1 DEF Warnings, Unset
<1> QED BY <1>2, <1>3 DEF validate_config

\* So it has nothing to say of a git baseline that was promoted.
LEMMA ValidPromoted ==
  ASSUME NEW d \in Documents, NEW r \in Rev, d.kind = "Git"
  PROVE  validate_config(load_config(Holding([d EXCEPT !.rev = r]))) = {}
<1> DEFINE n == [d EXCEPT !.rev = r]
<1>1. n.kind = "Git" /\ n.rev = r /\ n.rev # Unset
  BY RevAssumption DEF Documents, Doc
<1>2. \E m : load_config(Holding(n)) = [DefaultCfg EXCEPT !.kind = "Git", !.rev = TRUE, !.mode = m]
  BY <1>1 DEF load_config, Holding, DefaultCfg, Unset
<1> QED BY <1>2, ValidGit

(***************************************************************************)
(* Type correctness                                                        *)
(***************************************************************************)
\* Step and Change keep the types if what is written and the promoter have theirs.
LEMMA StepTypes ==
  ASSUME TypeOK, NEW p \in Promoters, NEW me \in Promoter,
         me.at \in {"read", "write", "truncated", "cut", "done"} => me.target \in Rev
  PROVE  /\ Step(p, me) => TypeOK'
         /\ \A new \in Contents : Change(p, me, new) => TypeOK'
<1>1. ASSUME Step(p, me) PROVE TypeOK'
  BY <1>1 DEF Step, TypeOK
<1>2. ASSUME NEW new \in Contents, Change(p, me, new) PROVE TypeOK'
  <2>1. \A q \in Promoters : Noticed(q) \in Promoter /\ Noticed(q).at = proc[q].at
                              /\ Noticed(q).target = proc[q].target
    BY DEF TypeOK, Noticed, Promoter
  <2> QED BY <1>2, <2>1 DEF Change, TypeOK
<1> QED BY <1>1, <1>2

LEMMA InitTypes == Init => TypeOK
BY DocumentLemma, SavesAssumption, MaxEditsAssumption
   DEF Init, TypeOK, Contents, Promoter, Checker, Places, ScopeModes

LEMMA NextTypes == TypeOK /\ [Next]_vars => TypeOK'
<1> SUFFICES ASSUME TypeOK, [Next]_vars PROVE TypeOK'
  OBVIOUS
<1> DEFINE Written == {"read", "write", "truncated", "cut", "done"}
<1>0. file \in Contents /\ file.doc \in Documents
  BY DocumentLemma DEF TypeOK, Contents, Missing, Broken, Holding
<1>1. ASSUME NEW p \in Promoters, LoadConfig(p) PROVE TypeOK'
  <2> DEFINE next == IF load_config_fails(file) THEN "failed"
                     ELSE IF file.is # "missing" /\ load_config(file).kind = "CratesIo"
                          THEN "declined" ELSE "resolve"
             me == [proc[p] EXCEPT !.first = file.doc, !.at = next]
  <2>1. next \in Places /\ next \notin Written
    BY DEF Places
  <2>2. me \in Promoter /\ me.at = next
    BY <1>0, <2>1 DEF TypeOK, Promoter
  <2> HIDE DEF next
  <2> QED BY <1>1, <2>1, <2>2, StepTypes DEF LoadConfig, next
<1>2. ASSUME NEW p \in Promoters, Resolve(p) PROVE TypeOK'
  <2>1. ASSUME NEW r \in Rev, Step(p, [proc[p] EXCEPT !.at = "read", !.target = r])
        PROVE  TypeOK'
    <3>1. /\ [proc[p] EXCEPT !.at = "read", !.target = r] \in Promoter
          /\ [proc[p] EXCEPT !.at = "read", !.target = r].target = r
      BY DEF TypeOK, Promoter, Places
    <3> QED BY <2>1, <3>1, StepTypes
  <2>2. ASSUME Step(p, [proc[p] EXCEPT !.at = "failed"]) PROVE TypeOK'
    <3>1. /\ [proc[p] EXCEPT !.at = "failed"] \in Promoter
          /\ [proc[p] EXCEPT !.at = "failed"].at = "failed"
      BY DEF TypeOK, Promoter, Places
    <3> QED BY <2>2, <3>1, StepTypes
  <2> QED BY <1>2, <2>1, <2>2 DEF Resolve
<1>3. ASSUME NEW p \in Promoters, ReadAgain(p) PROVE TypeOK'
  <2> DEFINE next == IF proc[p].write THEN "write" ELSE "done"
             held == [proc[p] EXCEPT !.held = file.doc, !.at = next]
             failed == [proc[p] EXCEPT !.at = "failed"]
  <2>1. next \in Places
    BY DEF Places
  <2>2. /\ held \in Promoter /\ held.target = proc[p].target
        /\ failed \in Promoter /\ failed.at = "failed"
    BY <1>0, <2>1 DEF TypeOK, Promoter, Places
  <2>3. proc[p].target \in Rev
    BY <1>3 DEF ReadAgain, TypeOK
  <2>4. Step(p, held) \/ Step(p, failed)
    BY <1>3 DEF ReadAgain
  <2> HIDE DEF held, failed
  <2> QED BY <2>2, <2>3, <2>4, StepTypes
<1>4. ASSUME NEW p \in Promoters, Truncate(p) PROVE TypeOK'
  <2> DEFINE open == [proc[p] EXCEPT !.at = "truncated"]
             failed == [proc[p] EXCEPT !.at = "failed"]
  <2>1. /\ open \in Promoter /\ open.target = proc[p].target
        /\ failed \in Promoter /\ failed.at = "failed"
    BY DEF TypeOK, Promoter, Places
  <2>2. proc[p].target \in Rev
    BY <1>4 DEF Truncate, TypeOK
  <2>3. Change(p, open, Empty) \/ Step(p, failed)
    BY <1>4 DEF Truncate
  <2>4. Empty \in Contents
    BY DocumentLemma DEF Empty, Contents
  <2> HIDE DEF open, failed
  <2> QED BY <2>1, <2>2, <2>3, <2>4, StepTypes
<1>5. ASSUME NEW p \in Promoters, Write(p) PROVE TypeOK'
  <2> DEFINE me == [proc[p] EXCEPT !.at = "done"]
  <2>1. me \in Promoter /\ me.target = proc[p].target
    BY DEF TypeOK, Promoter, Places
  <2>2. proc[p].target \in Rev /\ proc[p].held \in Documents
    BY <1>5 DEF Write, TypeOK, Promoter
  <2>3. Outcomes(p) \subseteq Contents
    BY <1>0, <2>2, DocumentLemma DEF Outcomes, Contents
  <2>4. PICK new \in Contents : Change(p, me, new)
    BY <1>5, <2>3 DEF Write
  <2> HIDE DEF me
  <2> QED BY <2>1, <2>2, <2>4, StepTypes
<1>6. ASSUME NEW p \in Promoters, CutShort(p) PROVE TypeOK'
  <2> DEFINE me == [proc[p] EXCEPT !.at = "cut"]
  <2>1. me \in Promoter /\ me.target = proc[p].target
    BY DEF TypeOK, Promoter, Places
  <2>2. proc[p].target \in Rev /\ proc[p].held \in Documents
    BY <1>6 DEF CutShort, TypeOK, Promoter
  <2>3. Cuts(Promoted(proc[p].held, proc[p].target)) \subseteq Contents
    BY <2>2, DocumentLemma
  <2>4. Step(p, me) \/ \E new \in Contents : Change(p, me, new)
    BY <1>6, <2>3 DEF CutShort
  <2> HIDE DEF me
  <2> QED BY <2>1, <2>2, <2>4, StepTypes
<1>7. ASSUME NEW p \in Promoters, Kill(p) PROVE TypeOK'
  <2> DEFINE me == [proc[p] EXCEPT !.at = "killed"]
  <2>1. me \in Promoter /\ me.at = "killed"
    BY DEF TypeOK, Promoter, Places
  <2>2. Step(p, me)
    BY <1>7 DEF Kill
  <2> HIDE DEF me
  <2> QED BY <2>1, <2>2, StepTypes
<1>8. CASE CheckExplicit
  BY <1>8 DEF CheckExplicit, TypeOK, Checker, config_explicitly_sets_scope_mode, MetNow
<1>9. CASE CheckLoads
  <2>1. load_config(file).mode \in ScopeModes
    BY <1>0 DEF load_config, DefaultCfg, Documents, Doc, ScopeModes
  <2>2. ASSUME NEW set, NEW suggested \in ScopeModes
        PROVE  scope_mode(set, load_config(file), suggested) \in ScopeModes
    BY <2>1 DEF scope_mode
  <2>3. check.met \cup MetNow \in SUBSET {"edit", "write"}
    BY DEF MetNow, TypeOK, Checker
  <2>4. CASE check' = [check EXCEPT !.at = "failed"]
    <3>1. check' \in Checker
      BY <2>4 DEF TypeOK, Checker
    <3> QED BY <1>9, <3>1 DEF CheckLoads, TypeOK
  <2>5. ASSUME NEW suggested \in ScopeModes, NEW scope \in ScopeModes, NEW asked \in ScopeModes,
               check' = [check EXCEPT !.at = "loaded", !.met = @ \cup MetNow,
                                      !.scope = scope, !.asked = asked]
        PROVE  TypeOK'
    <3>1. check' \in Checker
      BY <2>3, <2>5 DEF TypeOK, Checker
    <3> QED BY <1>9, <3>1 DEF CheckLoads, TypeOK
  <2> QED BY <1>9, <2>2, <2>4, <2>5 DEF CheckLoads
<1>10. CASE Edit
  <2>1. \A q \in Promoters : /\ Noticed(q) \in Promoter /\ Noticed(q).at = proc[q].at
                              /\ Noticed(q).target = proc[q].target
    BY DEF TypeOK, Noticed, Promoter
  <2>2. check' \in Checker
    <3>1. check.met \cup {"edit"} \in SUBSET {"edit", "write"}
      BY DEF TypeOK, Checker
    <3> QED BY <1>10, <3>1 DEF Edit, TypeOK, Checker
  <2>3. edits + 1 \in 0..MaxEdits
    BY <1>10, MaxEditsAssumption DEF Edit, TypeOK
  <2>4. \A d \in Saves : [d EXCEPT !.rest = edits + 1] \in Documents
    <3> TAKE d \in Saves
    <3>1. d \in Documents
      BY SavesAssumption
    <3> QED BY <2>3, <3>1 DEF Documents, Doc, Rest
  <2> QED BY <1>10, <2>1, <2>2, <2>3, <2>4 DEF Edit, TypeOK, Contents
<1>11. CASE UNCHANGED vars
  BY <1>11 DEF vars, TypeOK
<1> QED BY <1>1, <1>2, <1>3, <1>4, <1>5, <1>6, <1>7, <1>8, <1>9, <1>10, <1>11 DEF Next

\* Nothing but a commit that git resolved is on its way into the file.
THEOREM TypeInvariant == Spec => []TypeOK
BY InitTypes, NextTypes, PTL DEF Spec

(***************************************************************************)
(* A promotion that nobody interferes with                                 *)
(***************************************************************************)
\* What a promoter knows at each place as long as nobody else changes the file.
Alone(p) ==
  LET me == proc[p]
  IN  me.others \subseteq {"load"} =>
        /\ me.at \in {"resolve", "read"} =>
             file.doc = me.first /\ (file.is = "toml" => me.first.kind = "Git")
        /\ me.at \in {"write", "truncated"} =>
             me.held = me.first /\ me.first.kind = "Git" /\ me.first.baseline = "table"
        /\ me.at = "done" /\ me.write =>
             me.first.kind = "Git" /\ file = Holding([me.first EXCEPT !.rev = me.target])

AloneInv == \A p \in Promoters : Alone(p)

\* A step that leaves p and the file alone keeps what p knows, and so does a
\* change that p notices: before it loaded the file it knows nothing, and
\* afterwards it is no longer alone.
LEMMA AloneOthers ==
  ASSUME TypeOK, NEW p \in Promoters, Alone(p),
         \/ proc'[p] = proc[p] /\ file' = file
         \/ proc'[p] = Noticed(p)
  PROVE  Alone(p)'
<1>1. CASE proc'[p] = proc[p] /\ file' = file
  BY <1>1 DEF Alone
<1>2. CASE proc'[p] = Noticed(p)
  <2>1. /\ proc'[p].at = proc[p].at
        /\ proc'[p].others = proc[p].others \cup {proc[p].at}
    BY <1>2 DEF Noticed, TypeOK, Promoter
  <2>2. CASE proc[p].at = "load"
    BY <2>1, <2>2 DEF Alone
  <2>3. CASE proc[p].at # "load"
    BY <2>1, <2>3 DEF Alone
  <2> QED BY <2>2, <2>3
<1> QED BY <1>1, <1>2

\* So it is enough to look at the promoter that takes the step.
LEMMA AloneStep ==
  ASSUME TypeOK, AloneInv, NEW p \in Promoters, NEW me,
         Step(p, me) \/ \E new : Change(p, me, new)
  PROVE  /\ proc'[p] = me
         /\ Alone(p)' => AloneInv'
<1>1. proc'[p] = me
  BY DEF Step, Change, TypeOK
<1>2. \A q \in Promoters \ {p} : \/ proc'[q] = proc[q] /\ file' = file
                                \/ proc'[q] = Noticed(q)
  BY DEF Step, Change, TypeOK
<1>3. \A q \in Promoters \ {p} : Alone(q)'
  BY <1>2, AloneOthers DEF AloneInv
<1> QED BY <1>1, <1>3 DEF AloneInv

LEMMA InitAlone == Init => AloneInv
BY DEF Init, AloneInv, Alone

LEMMA NextAlone == TypeOK /\ AloneInv /\ [Next]_vars => AloneInv'
<1> SUFFICES ASSUME TypeOK, AloneInv, [Next]_vars PROVE AloneInv'
  OBVIOUS
<1>0. file \in Contents /\ file.doc \in Documents
  BY DocumentLemma DEF TypeOK, Contents, Missing, Broken, Holding
<1>1. ASSUME NEW p \in Promoters, LoadConfig(p) PROVE AloneInv'
  <2> DEFINE next == IF load_config_fails(file) THEN "failed"
                     ELSE IF file.is # "missing" /\ load_config(file).kind = "CratesIo"
                          THEN "declined" ELSE "resolve"
             me == [proc[p] EXCEPT !.first = file.doc, !.at = next]
  <2>1. me.first = file.doc /\ me.at = next
    BY DEF TypeOK, Promoter
  <2>2. next = "resolve" /\ file.is = "toml" => file.doc.kind = "Git"
    BY <1>0 DEF load_config, load_config_fails, DefaultCfg, Documents, Doc
  <2>3. next \in {"failed", "declined", "resolve"}
    OBVIOUS
  <2>4. Step(p, me)
    BY <1>1 DEF LoadConfig
  <2>5. file' = file
    BY <2>4 DEF Step
  <2> HIDE DEF me, next
  <2>6. proc'[p] = me
    BY <2>4, AloneStep
  <2>7. Alone(p)'
    BY <2>1, <2>2, <2>3, <2>5, <2>6 DEF Alone
  <2> QED BY <2>4, <2>7, AloneStep
<1>2. ASSUME NEW p \in Promoters, Resolve(p) PROVE AloneInv'
  <2> DEFINE read(r) == [proc[p] EXCEPT !.at = "read", !.target = r]
             failed == [proc[p] EXCEPT !.at = "failed"]
  <2>a. /\ \A r \in Rev : /\ read(r).at = "read" /\ read(r).first = proc[p].first
                         /\ read(r).others = proc[p].others
        /\ failed.at = "failed" /\ failed.first = proc[p].first
        /\ failed.others = proc[p].others
    BY DEF TypeOK, Promoter
  <2>b. (\E r \in Rev : Step(p, read(r))) \/ Step(p, failed)
    BY <1>2 DEF Resolve
  <2> HIDE DEF read, failed
  <2>1. PICK me : /\ Step(p, me) /\ me.at \in {"read", "failed"}
                  /\ me.first = proc[p].first /\ me.others = proc[p].others
    BY <2>a, <2>b
  <2>2. proc'[p] = me /\ file' = file
    BY <2>1, AloneStep DEF Step
  <2>3. Alone(p)'
    BY <1>2, <2>1, <2>2 DEF Alone, AloneInv, Resolve
  <2> QED BY <2>1, <2>3, AloneStep
<1>3. ASSUME NEW p \in Promoters, ReadAgain(p) PROVE AloneInv'
  <2> DEFINE held == [proc[p] EXCEPT !.held = file.doc,
                                    !.at = IF proc[p].write THEN "write" ELSE "done"]
             failed == [proc[p] EXCEPT !.at = "failed"]
  <2>a. /\ held.held = file.doc /\ held.first = proc[p].first /\ held.others = proc[p].others
        /\ held.write = proc[p].write /\ held.at = IF held.write THEN "write" ELSE "done"
        /\ failed.at = "failed" /\ failed.first = proc[p].first
        /\ failed.others = proc[p].others /\ failed.write = proc[p].write
    BY DEF TypeOK, Promoter
  <2>b. (Promotable(file) /\ Step(p, held)) \/ Step(p, failed)
    BY <1>3 DEF ReadAgain
  <2> HIDE DEF held, failed
  <2>1. PICK me : /\ Step(p, me) /\ me.first = proc[p].first /\ me.others = proc[p].others
                  /\ me.write = proc[p].write
                  /\ \/ me.at = "failed"
                     \/ /\ Promotable(file) /\ me.held = file.doc
                        /\ me.at = IF me.write THEN "write" ELSE "done"
    BY <2>a, <2>b
  <2>2. proc'[p] = me /\ file' = file
    BY <2>1, AloneStep DEF Step
  <2>3. me.others \subseteq {"load"} =>
          file.doc = me.first /\ (file.is = "toml" => me.first.kind = "Git")
    BY <1>3, <2>1 DEF Alone, AloneInv, ReadAgain
  <2>4. Promotable(file) => file.is = "toml" /\ (file.doc.kind # Unset => file.doc.baseline = "table")
    BY <1>0, PromotableLemma DEF Promotable
  <2>5. Alone(p)'
    BY <2>1, <2>2, <2>3, <2>4 DEF Alone, Unset
  <2> QED BY <2>1, <2>5, AloneStep
<1>4. ASSUME NEW p \in Promoters, Truncate(p) PROVE AloneInv'
  <2> DEFINE open == [proc[p] EXCEPT !.at = "truncated"]
             failed == [proc[p] EXCEPT !.at = "failed"]
  <2>a. /\ open.at = "truncated" /\ open.first = proc[p].first
        /\ open.others = proc[p].others /\ open.held = proc[p].held
        /\ failed.at = "failed" /\ failed.first = proc[p].first
        /\ failed.others = proc[p].others /\ failed.held = proc[p].held
    BY DEF TypeOK, Promoter
  <2>b. Change(p, open, Empty) \/ Step(p, failed)
    BY <1>4 DEF Truncate
  <2> HIDE DEF open, failed
  <2>1. PICK me : /\ Step(p, me) \/ Change(p, me, Empty)
                  /\ me.at \in {"truncated", "failed"}
                  /\ me.first = proc[p].first /\ me.others = proc[p].others
                  /\ me.held = proc[p].held
    BY <2>a, <2>b
  <2>2. proc'[p] = me
    BY <2>1, AloneStep
  <2>3. Alone(p)'
    BY <1>4, <2>1, <2>2 DEF Alone, AloneInv, Truncate
  <2> QED BY <2>1, <2>3, AloneStep
<1>5. ASSUME NEW p \in Promoters, Write(p) PROVE AloneInv'
  <2> DEFINE me == [proc[p] EXCEPT !.at = "done"]
  <2>a. PICK new \in Outcomes(p) : Change(p, me, new)
    BY <1>5 DEF Write
  <2>1. /\ Change(p, me, new) /\ me.at = "done"
        /\ me.first = proc[p].first /\ me.others = proc[p].others
        /\ me.target = proc[p].target
    BY <2>a DEF TypeOK, Promoter
  <2> HIDE DEF me
  <2>2. proc'[p] = me /\ file' = new
    BY <2>1, AloneStep DEF Change
  <2>3. ASSUME me.others \subseteq {"load"}
        PROVE  me.first.kind = "Git" /\ new = Holding([me.first EXCEPT !.rev = me.target])
    <3>1. proc[p].held = me.first /\ me.first.kind = "Git" /\ me.first.baseline = "table"
      BY <1>5, <2>1, <2>3 DEF Alone, AloneInv, Write
    <3>2. new = Holding(Promoted(me.first, me.target))
      BY <2>1, <2>3, <3>1 DEF Outcomes
    <3>3. me.first \in Documents
      BY <2>1 DEF TypeOK, Promoter
    <3>4. Promoted(me.first, me.target) = [me.first EXCEPT !.rev = me.target]
      BY <3>1, <3>3 DEF Promoted, Documents, Doc, Unset
    <3> QED BY <3>1, <3>2, <3>4
  <2>4. Alone(p)'
    BY <2>1, <2>2, <2>3 DEF Alone
  <2> QED BY <2>1, <2>4, AloneStep
<1>6. ASSUME NEW p \in Promoters, CutShort(p) \/ Kill(p) PROVE AloneInv'
  <2> DEFINE ended(at) == [proc[p] EXCEPT !.at = at]
  <2>a. \A at \in Places : ended(at).at = at
    BY DEF TypeOK, Promoter
  <2>b. \E at \in {"cut", "killed"} :
          Step(p, ended(at)) \/ \E new : Change(p, ended(at), new)
    BY <1>6 DEF CutShort, Kill
  <2> HIDE DEF ended
  <2>1. PICK me : /\ Step(p, me) \/ \E new : Change(p, me, new)
                  /\ me.at \in {"cut", "killed"}
    BY <2>a, <2>b DEF Places
  <2>2. Alone(p)'
    BY <2>1, AloneStep DEF Alone
  <2> QED BY <2>1, <2>2, AloneStep
<1>7. CASE CheckExplicit \/ CheckLoads \/ UNCHANGED vars
  BY <1>7 DEF CheckExplicit, CheckLoads, vars, AloneInv, Alone
<1>8. CASE Edit
  <2>1. \A p \in Promoters : proc'[p] = Noticed(p)
    BY <1>8 DEF Edit
  <2> QED BY <2>1, AloneOthers DEF AloneInv
<1> QED BY <1>1, <1>2, <1>3, <1>4, <1>5, <1>6, <1>7, <1>8 DEF Next

\* A promotion that nobody interfered with changes baseline.rev and nothing
\* else, and leaves the file as valid as it was.
THEOREM PromotionIsExactTheorem == Spec => []PromotionIsExact
<1>1. TypeOK /\ AloneInv => PromotionIsExact
  <2> SUFFICES ASSUME TypeOK, AloneInv, NEW p \in Promoters,
                      proc[p].at = "done", proc[p].write, proc[p].others \subseteq {"load"}
               PROVE  LET first == proc[p].first
                      IN  /\ first.kind = "Git"
                          /\ file = Holding([first EXCEPT !.rev = proc[p].target])
                          /\ validate_config(load_config(file))
                               \subseteq validate_config(load_config(Holding(first)))
    BY DEF PromotionIsExact
  <2>1. /\ proc[p].first.kind = "Git"
        /\ file = Holding([proc[p].first EXCEPT !.rev = proc[p].target])
    BY DEF AloneInv, Alone
  <2>2. proc[p].first \in Documents /\ proc[p].target \in Rev
    BY DEF TypeOK, Promoter
  <2>3. validate_config(load_config(file)) = {}
    BY <2>1, <2>2, ValidPromoted
  <2> QED BY <2>1, <2>3
<1>2. Spec => [](TypeOK /\ AloneInv)
  BY InitTypes, NextTypes, InitAlone, NextAlone, PTL DEF Spec
<1> QED BY <1>1, <1>2, PTL

(***************************************************************************)
(* Edits                                                                   *)
(***************************************************************************)
Raced(p) == proc[p].others \cap {"write", "truncated"} # {}
Amid(p) == proc[p].at \in {"truncated", "cut"}

\* What a promoter is about to write has the last edit, unless it was raced or
\* somebody else is amid a write that it will notice.
HeldIsFresh(p) ==
  proc[p].at \in {"write", "truncated"} /\ proc[p].held.rest # edits =>
    Raced(p) \/ \E q \in Promoters \ {p} : Amid(q) \/ Raced(q)

EditInv == LastEditSurvives /\ \A p \in Promoters : HeldIsFresh(p)

\* Noticing a change is being raced, at the places where it matters.
LEMMA NoticedLemma ==
  ASSUME TypeOK, NEW p \in Promoters, proc'[p] = Noticed(p)
  PROVE  /\ proc'[p].at = proc[p].at /\ proc'[p].held = proc[p].held
         /\ Raced(p) => Raced(p)'
         /\ proc[p].at \in {"write", "truncated"} => Raced(p)'
<1>1. /\ proc'[p].at = proc[p].at /\ proc'[p].held = proc[p].held
      /\ proc'[p].others = proc[p].others \cup {proc[p].at}
  BY DEF Noticed, TypeOK, Promoter
<1> QED BY <1>1 DEF Raced

\* A step of p that leaves the file alone.
LEMMA EditStep ==
  ASSUME TypeOK, EditInv, NEW p \in Promoters, NEW me, Step(p, me),
         me.others = proc[p].others,
         proc[p].at = "truncated" => me.at = "cut",
         me.at \in {"write", "truncated"} =>
           \/ me.held = file.doc
           \/ proc[p].at = "write" /\ me.held = proc[p].held,
         proc[p].at # "cut"
  PROVE  EditInv'
<1>1. /\ proc'[p] = me /\ \A q \in Promoters \ {p} : proc'[q] = proc[q]
      /\ file' = file /\ edits' = edits
  BY DEF Step, TypeOK
<1>2. \A q \in Promoters : (Raced(q) => Raced(q)') /\ (Amid(q) => Amid(q)')
  BY <1>1 DEF Raced, Amid
<1>3. LastEditSurvives'
  BY <1>1, <1>2 DEF EditInv, LastEditSurvives, Raced, Amid
<1>4. ASSUME NEW q \in Promoters PROVE HeldIsFresh(q)'
  <2>1. CASE q # p
    BY <1>1, <1>2, <2>1 DEF EditInv, HeldIsFresh
  <2>2. CASE q = p
    <3>1. CASE me.held = file.doc /\ proc[p].at # "truncated"
      BY <1>1, <1>2, <2>2, <3>1 DEF EditInv, LastEditSurvives, HeldIsFresh, Raced, Amid
    <3>2. CASE proc[p].at = "write" /\ me.held = proc[p].held
      BY <1>1, <1>2, <2>2, <3>2 DEF EditInv, HeldIsFresh
    <3> QED BY <1>1, <2>2, <3>1, <3>2 DEF HeldIsFresh
  <2> QED BY <2>1, <2>2
<1> QED BY <1>3, <1>4 DEF EditInv

\* A change of the file by p: whoever is about to write has noticed it.
LEMMA EditChange ==
  ASSUME TypeOK, EditInv, NEW p \in Promoters, NEW me, NEW new, Change(p, me, new),
         me.others = proc[p].others,
         \/ proc[p].at = "write" /\ me.at = "truncated" /\ me.held = proc[p].held
         \/ me.at = "cut"
         \/ /\ proc[p].at = "truncated" /\ me.at = "done"
            /\ Raced(p) \/ new.doc.rest = proc[p].held.rest
  PROVE  EditInv'
<1>1. /\ proc'[p] = me /\ \A q \in Promoters \ {p} : proc'[q] = Noticed(q)
      /\ file' = new /\ edits' = edits
  BY DEF Change, TypeOK
<1>2. \A q \in Promoters : Raced(q) => Raced(q)'
  BY <1>1, NoticedLemma DEF Raced
<1>3. \A q \in Promoters \ {p} : Amid(q) => Amid(q)'
  BY <1>1, NoticedLemma DEF Amid
<1>4. ASSUME NEW q \in Promoters PROVE HeldIsFresh(q)'
  <2>1. CASE q # p
    BY <1>1, <2>1, NoticedLemma DEF HeldIsFresh
  <2>2. CASE q = p
    BY <1>1, <1>2, <1>3, <2>2 DEF EditInv, HeldIsFresh
  <2> QED BY <2>1, <2>2
<1>5. LastEditSurvives'
  <2>1. CASE me.at \in {"truncated", "cut"}
    BY <1>1, <2>1 DEF LastEditSurvives
  <2>2. CASE me.at = "done"
    <3> SUFFICES ASSUME new.doc.rest # edits
                 PROVE  \E q \in Promoters : Amid(q)' \/ Raced(q)'
      BY <1>1 DEF LastEditSurvives, Amid, Raced
    <3>1. Raced(p) \/ \E q \in Promoters \ {p} : Amid(q) \/ Raced(q)
      BY <2>2 DEF EditInv, HeldIsFresh
    <3> QED BY <1>2, <1>3, <3>1
  <2> QED BY <2>1, <2>2
<1> QED BY <1>4, <1>5 DEF EditInv

LEMMA InitEdit == Init => EditInv
<1> SUFFICES ASSUME Init PROVE EditInv
  OBVIOUS
<1>1. file.doc.rest = edits
  BY SavesAssumption DEF Init, Missing, Holding, EmptyDoc
<1>2. \A p \in Promoters : proc[p].at = "load"
  BY DEF Init
<1> QED BY <1>1, <1>2 DEF EditInv, LastEditSurvives, HeldIsFresh

LEMMA NextEdit == TypeOK /\ EditInv /\ [Next]_vars => EditInv'
<1> SUFFICES ASSUME TypeOK, EditInv, [Next]_vars PROVE EditInv'
  OBVIOUS
<1>1. ASSUME NEW p \in Promoters,
             LoadConfig(p) \/ Resolve(p) \/ Kill(p)
      PROVE  EditInv'
  <2>1. \E me : /\ Step(p, me) /\ me.others = proc[p].others
                /\ me.at \in {"failed", "declined", "resolve", "read", "killed"}
    <3>1. CASE LoadConfig(p)
      <4> DEFINE next == IF load_config_fails(file) THEN "failed"
                         ELSE IF file.is # "missing" /\ load_config(file).kind = "CratesIo"
                              THEN "declined" ELSE "resolve"
                 me == [proc[p] EXCEPT !.first = file.doc, !.at = next]
      <4>1. /\ me.others = proc[p].others
            /\ me.at \in {"failed", "declined", "resolve"}
        BY DEF TypeOK, Promoter
      <4>2. Step(p, me)
        BY <3>1 DEF LoadConfig
      <4> QED BY <4>1, <4>2
    <3>2. CASE Resolve(p)
      <4> DEFINE read(r) == [proc[p] EXCEPT !.at = "read", !.target = r]
                 failed == [proc[p] EXCEPT !.at = "failed"]
      <4>1. /\ \A r \in Rev : read(r).at = "read" /\ read(r).others = proc[p].others
            /\ failed.at = "failed" /\ failed.others = proc[p].others
        BY DEF TypeOK, Promoter
      <4>2. (\E r \in Rev : Step(p, read(r))) \/ Step(p, failed)
        BY <3>2 DEF Resolve
      <4> HIDE DEF read, failed
      <4> QED BY <4>1, <4>2
    <3>3. CASE Kill(p)
      <4> DEFINE me == [proc[p] EXCEPT !.at = "killed"]
      <4>1. me.others = proc[p].others /\ me.at = "killed"
        BY DEF TypeOK, Promoter
      <4> QED BY <3>3, <4>1 DEF Kill
    <3> QED BY <1>1, <3>1, <3>2, <3>3
  <2>2. proc[p].at \notin {"truncated", "cut"}
    BY <1>1 DEF LoadConfig, Resolve, Kill, Ended
  <2> QED BY <2>1, <2>2, EditStep
<1>2. ASSUME NEW p \in Promoters, ReadAgain(p) PROVE EditInv'
  <2> DEFINE held == [proc[p] EXCEPT !.held = file.doc,
                                    !.at = IF proc[p].write THEN "write" ELSE "done"]
             failed == [proc[p] EXCEPT !.at = "failed"]
  <2>1. /\ held.held = file.doc /\ held.others = proc[p].others
        /\ failed.at = "failed" /\ failed.others = proc[p].others
    BY DEF TypeOK, Promoter
  <2>2. Step(p, held) \/ Step(p, failed)
    BY <1>2 DEF ReadAgain
  <2>3. proc[p].at = "read"
    BY <1>2 DEF ReadAgain
  <2> HIDE DEF held, failed
  <2> QED BY <2>1, <2>2, <2>3, EditStep
<1>3. ASSUME NEW p \in Promoters, Truncate(p) PROVE EditInv'
  <2> DEFINE open == [proc[p] EXCEPT !.at = "truncated"]
             failed == [proc[p] EXCEPT !.at = "failed"]
  <2>1. /\ open.at = "truncated" /\ open.others = proc[p].others
        /\ open.held = proc[p].held
        /\ failed.at = "failed" /\ failed.others = proc[p].others
    BY DEF TypeOK, Promoter
  <2>2. Change(p, open, Empty) \/ Step(p, failed)
    BY <1>3 DEF Truncate
  <2>3. proc[p].at = "write"
    BY <1>3 DEF Truncate
  <2> HIDE DEF open, failed
  <2> QED BY <2>1, <2>2, <2>3, EditStep, EditChange
<1>4. ASSUME NEW p \in Promoters, Write(p) PROVE EditInv'
  <2> DEFINE me == [proc[p] EXCEPT !.at = "done"]
  <2>1. me.at = "done" /\ me.others = proc[p].others
    BY DEF TypeOK, Promoter
  <2>2. PICK new \in Outcomes(p) : Change(p, me, new)
    BY <1>4 DEF Write
  <2>3. Raced(p) \/ new.doc.rest = proc[p].held.rest
    <3>1. Raced(p) \/ new = Holding(Promoted(proc[p].held, proc[p].target))
      BY <2>2 DEF Outcomes, Raced
    <3>2. proc[p].held \in Documents
      BY DEF TypeOK, Promoter
    <3>3. Promoted(proc[p].held, proc[p].target).rest = proc[p].held.rest
      BY <3>2 DEF Promoted, Documents, Doc
    <3> QED BY <3>1, <3>3 DEF Holding
  <2>4. proc[p].at = "truncated"
    BY <1>4 DEF Write
  <2> HIDE DEF me
  <2> QED BY <2>1, <2>2, <2>3, <2>4, EditChange
<1>5. ASSUME NEW p \in Promoters, CutShort(p) PROVE EditInv'
  <2> DEFINE me == [proc[p] EXCEPT !.at = "cut"]
  <2>1. me.at = "cut" /\ me.others = proc[p].others
    BY DEF TypeOK, Promoter, Places
  <2>2. Step(p, me) \/ \E new : Change(p, me, new)
    BY <1>5 DEF CutShort
  <2>3. proc[p].at = "truncated"
    BY <1>5 DEF CutShort
  <2> HIDE DEF me
  <2> QED BY <2>1, <2>2, <2>3, EditStep, EditChange
<1>6. CASE CheckExplicit \/ CheckLoads \/ UNCHANGED vars
  BY <1>6 DEF CheckExplicit, CheckLoads, vars, EditInv, LastEditSurvives, HeldIsFresh, Raced, Amid
<1>7. CASE Edit
  <2>1. \A p \in Promoters : proc'[p] = Noticed(p)
    BY <1>7 DEF Edit
  <2>2. \A p \in Promoters : HeldIsFresh(p)'
    BY <2>1, NoticedLemma DEF HeldIsFresh
  <2>3. file'.doc.rest = edits'
    <3>1. PICK d \in Saves : file' = Holding([d EXCEPT !.rest = edits + 1])
      BY <1>7 DEF Edit
    <3>2. [d EXCEPT !.rest = edits + 1].rest = edits + 1
      BY SavesAssumption DEF Documents, Doc
    <3> QED BY <1>7, <3>1, <3>2 DEF Edit, Holding
  <2> QED BY <2>2, <2>3 DEF EditInv, LastEditSurvives
<1> QED BY <1>1, <1>2, <1>3, <1>4, <1>5, <1>6, <1>7 DEF Next

\* The last edit is lost only to a write that is under way, was cut off, or
\* started from a file that was read before the edit.
THEOREM LastEditSurvivesTheorem == Spec => []LastEditSurvives
<1>1. TypeOK /\ EditInv => LastEditSurvives
  BY DEF EditInv
<1>2. Spec => [](TypeOK /\ EditInv)
  BY InitTypes, NextTypes, InitEdit, NextEdit, PTL DEF Spec
<1> QED BY <1>1, <1>2, PTL


(***************************************************************************)
(* A check that reads the file twice                                       *)
(***************************************************************************)
Quiet == \A p \in Promoters : ~Raced(p) /\ proc[p].at # "cut"
Open(p) == proc[p].at = "truncated"

\* Nobody changes the file between a promoter's read and its write unnoticed.
HeldIsFile(p) == proc[p].at = "write" /\ ~Raced(p) => proc[p].held = file.doc

\* What the first read told check is still true of the file, and while a
\* promoter is amid its write, of the document that it writes.
KnownOf(doc) == check.scope_set <=> doc.mode # Unset

Between ==
  check.at = "load" /\ check.met = {} /\ Quiet =>
    /\ (\A p \in Promoters : ~Open(p)) => KnownOf(file.doc)
    /\ \A p \in Promoters : Open(p) => KnownOf(proc[p].held)

HeadInv == OneScope /\ Between /\ \A p \in Promoters : HeldIsFile(p)

\* Only a TOML document has keys.
LEMMA ExplicitLemma ==
  ASSUME TypeOK
  PROVE  config_explicitly_sets_scope_mode(file) <=> file.doc.mode # Unset
BY DEF TypeOK, Contents, Missing, Broken, Holding, EmptyDoc, config_explicitly_sets_scope_mode

\* A race or a cut is never forgotten.
LEMMA QuietLemma ==
  ASSUME TypeOK, [Next]_vars, Quiet'
  PROVE  Quiet
<1>1. ASSUME NEW p \in Promoters, NEW q \in Promoters,
             LoadConfig(p) \/ Resolve(p) \/ ReadAgain(p) \/ Truncate(p) \/ Write(p)
               \/ CutShort(p) \/ Kill(p)
      PROVE  /\ proc[q].others \subseteq proc'[q].others
             /\ proc[q].at = "cut" => proc'[q].at = "cut"
  <2>1. PICK me : /\ Step(p, me) \/ \E new : Change(p, me, new)
                  /\ me.others = proc[p].others
                  /\ proc[p].at # "cut"
    <3>1. CASE LoadConfig(p)
      <4> DEFINE next == IF load_config_fails(file) THEN "failed"
                         ELSE IF file.is # "missing" /\ load_config(file).kind = "CratesIo"
                              THEN "declined" ELSE "resolve"
                 me == [proc[p] EXCEPT !.first = file.doc, !.at = next]
      <4>1. me.others = proc[p].others
        BY DEF TypeOK, Promoter
      <4>2. Step(p, me) /\ proc[p].at # "cut"
        BY <3>1 DEF LoadConfig
      <4> QED BY <4>1, <4>2
    <3>2. CASE Resolve(p)
      <4> DEFINE read(r) == [proc[p] EXCEPT !.at = "read", !.target = r]
                 failed == [proc[p] EXCEPT !.at = "failed"]
      <4>1. /\ \A r \in Rev : read(r).others = proc[p].others
            /\ failed.others = proc[p].others
        BY DEF TypeOK, Promoter
      <4>2. ((\E r \in Rev : Step(p, read(r))) \/ Step(p, failed)) /\ proc[p].at # "cut"
        BY <3>2 DEF Resolve
      <4> HIDE DEF read, failed
      <4> QED BY <4>1, <4>2
    <3>3. CASE ReadAgain(p)
      <4> DEFINE held == [proc[p] EXCEPT !.held = file.doc,
                                         !.at = IF proc[p].write THEN "write" ELSE "done"]
                 failed == [proc[p] EXCEPT !.at = "failed"]
      <4>1. held.others = proc[p].others /\ failed.others = proc[p].others
        BY DEF TypeOK, Promoter
      <4>2. (Step(p, held) \/ Step(p, failed)) /\ proc[p].at # "cut"
        BY <3>3 DEF ReadAgain
      <4> HIDE DEF held, failed
      <4> QED BY <4>1, <4>2
    <3>4. CASE Truncate(p) \/ Write(p) \/ CutShort(p) \/ Kill(p)
      <4> DEFINE me(at) == [proc[p] EXCEPT !.at = at]
      <4>1. \A at : me(at).others = proc[p].others
        BY DEF TypeOK, Promoter
      <4>2. /\ \E at : Step(p, me(at)) \/ \E new : Change(p, me(at), new)
            /\ proc[p].at # "cut"
        BY <3>4 DEF Truncate, Write, CutShort, Kill, Ended
      <4> HIDE DEF me
      <4> QED BY <4>1, <4>2
    <3> QED BY <1>1, <3>1, <3>2, <3>3, <3>4
  <2>2. CASE q = p
    <3>1. proc'[p] = me
      BY <2>1 DEF Step, Change, TypeOK
    <3> QED BY <2>1, <2>2, <3>1
  <2>3. CASE q # p
    <3>1. proc'[q] = proc[q] \/ proc'[q] = Noticed(q)
      BY <2>1, <2>3 DEF Step, Change, TypeOK
    <3> QED BY <3>1 DEF Noticed, TypeOK, Promoter
  <2> QED BY <2>2, <2>3
<1>2. ASSUME NEW q \in Promoters, CheckExplicit \/ CheckLoads \/ Edit \/ UNCHANGED vars
      PROVE  /\ proc[q].others \subseteq proc'[q].others
             /\ proc[q].at = "cut" => proc'[q].at = "cut"
  <2>1. proc' = proc \/ proc'[q] = Noticed(q)
    BY <1>2 DEF CheckExplicit, CheckLoads, Edit, vars
  <2> QED BY <2>1 DEF Noticed, TypeOK, Promoter
<1>3. \A q \in Promoters : /\ proc[q].others \subseteq proc'[q].others
                           /\ proc[q].at = "cut" => proc'[q].at = "cut"
  BY <1>1, <1>2 DEF Next
<1> QED BY <1>3 DEF Quiet, Raced


\* OneScope once more, and what becomes of it in a step that is no load.
LEMMA OneScopeStays ==
  ASSUME TypeOK, OneScope, [Next]_vars, check' = check
  PROVE  OneScope'
<1>1. OneScope <=> (check.at = "loaded" /\ check.met = {} /\ Quiet => check.scope = check.asked)
  BY DEF OneScope, Quiet, Raced
<1>2. OneScope' <=> (check'.at = "loaded" /\ check'.met = {} /\ Quiet' => check'.scope = check'.asked)
  BY DEF OneScope, Quiet, Raced
<1> QED BY <1>1, <1>2, QuietLemma

\* A step of p that leaves the file alone.
LEMMA HeadStep ==
  ASSUME TypeOK, HeadInv, [Next]_vars, NEW p \in Promoters, NEW me, Step(p, me),
         me.at # "truncated", Open(p) => me.at = "cut",
         me.at = "write" => me.held = file.doc
  PROVE  HeadInv'
<1>1. /\ proc'[p] = me /\ \A q \in Promoters \ {p} : proc'[q] = proc[q]
      /\ file' = file /\ check' = check
  BY DEF Step, TypeOK
<1>2. OneScope'
  BY <1>1, OneScopeStays DEF HeadInv
<1>3. \A q \in Promoters : HeldIsFile(q)'
  BY <1>1 DEF HeadInv, HeldIsFile, Raced
<1>4. Between'
  <2> SUFFICES ASSUME check.at = "load", check.met = {}, Quiet'
               PROVE  /\ (\A q \in Promoters : ~Open(q)') => KnownOf(file.doc)
                      /\ \A q \in Promoters : Open(q)' => KnownOf(proc'[q].held)
    BY <1>1 DEF Between, KnownOf
  <2>1. /\ (\A q \in Promoters : ~Open(q)) => KnownOf(file.doc)
        /\ \A q \in Promoters : Open(q) => KnownOf(proc[q].held)
    BY QuietLemma DEF HeadInv, Between
  <2>2. ~Open(p) /\ ~Open(p)'
    BY <1>1 DEF Open, Quiet
  <2>3. \A q \in Promoters : Open(q)' <=> Open(q)
    BY <1>1, <2>2 DEF Open
  <2> QED BY <1>1, <2>1, <2>2, <2>3
<1> QED BY <1>2, <1>3, <1>4 DEF HeadInv

\* A change of the file by p: a promoter that is amid its write is raced by it.
LEMMA HeadChange ==
  ASSUME TypeOK, HeadInv, [Next]_vars, NEW p \in Promoters, NEW me, NEW new, Change(p, me, new),
         \/ proc[p].at = "write" /\ me.at = "truncated" /\ me.held = proc[p].held
         \/ me.at = "cut"
         \/ /\ Open(p) /\ me.at = "done"
            /\ Raced(p) \/ new.doc.mode = proc[p].held.mode
  PROVE  HeadInv'
<1>1. /\ proc'[p] = me /\ \A q \in Promoters \ {p} : proc'[q] = Noticed(q)
      /\ file' = new /\ check' = check
  BY DEF Change, TypeOK
<1>2. OneScope'
  BY <1>1, OneScopeStays DEF HeadInv
<1>3. \A q \in Promoters : HeldIsFile(q)'
  <2> TAKE q \in Promoters
  <2>1. CASE q = p
    BY <1>1, <2>1 DEF HeldIsFile
  <2>2. CASE q # p
    BY <1>1, <2>2, NoticedLemma DEF HeldIsFile
  <2> QED BY <2>1, <2>2
<1>4. Between'
  <2> SUFFICES ASSUME check.at = "load", check.met = {}, Quiet'
               PROVE  /\ (\A q \in Promoters : ~Open(q)') => KnownOf(new.doc)
                      /\ \A q \in Promoters : Open(q)' => KnownOf(proc'[q].held)
    BY <1>1 DEF Between, KnownOf
  <2>1. /\ Quiet
        /\ (\A q \in Promoters : ~Open(q)) => KnownOf(file.doc)
        /\ \A q \in Promoters : Open(q) => KnownOf(proc[q].held)
    BY QuietLemma DEF HeadInv, Between
  <2>2. \A q \in Promoters \ {p} : ~Open(q) /\ ~Open(q)'
    BY <1>1, NoticedLemma DEF Quiet, Open
  <2>3. CASE proc[p].at = "write" /\ me.at = "truncated" /\ me.held = proc[p].held
    <3>1. proc[p].held = file.doc
      BY <2>1, <2>3 DEF HeadInv, HeldIsFile, Quiet
    <3>2. ~Open(p) /\ Open(p)'
      BY <1>1, <2>3 DEF Open
    <3> QED BY <1>1, <2>1, <2>2, <2>3, <3>1, <3>2
  <2>4. CASE Open(p) /\ me.at = "done" /\ (Raced(p) \/ new.doc.mode = proc[p].held.mode)
    <3>1. new.doc.mode = proc[p].held.mode /\ KnownOf(proc[p].held) /\ ~Open(p)'
      BY <1>1, <2>1, <2>4 DEF Quiet, Open
    <3> QED BY <2>2, <3>1 DEF KnownOf
  <2>5. me.at # "cut"
    BY <1>1 DEF Quiet
  <2> QED BY <2>3, <2>4, <2>5
<1> QED BY <1>2, <1>3, <1>4 DEF HeadInv

LEMMA NextHead == TypeOK /\ HeadInv /\ [Next]_vars => HeadInv'
<1> SUFFICES ASSUME TypeOK, HeadInv, [Next]_vars PROVE HeadInv'
  OBVIOUS
<1>1. ASSUME NEW p \in Promoters, LoadConfig(p) PROVE HeadInv'
  <2> DEFINE next == IF load_config_fails(file) THEN "failed"
                     ELSE IF file.is # "missing" /\ load_config(file).kind = "CratesIo"
                          THEN "declined" ELSE "resolve"
             me == [proc[p] EXCEPT !.first = file.doc, !.at = next]
  <2>1. me.at \in {"failed", "declined", "resolve"}
    BY DEF TypeOK, Promoter
  <2>2. Step(p, me) /\ ~Open(p)
    BY <1>1 DEF LoadConfig, Open
  <2> HIDE DEF me
  <2> QED BY <2>1, <2>2, HeadStep
<1>2. ASSUME NEW p \in Promoters, Resolve(p) PROVE HeadInv'
  <2> DEFINE read(r) == [proc[p] EXCEPT !.at = "read", !.target = r]
             failed == [proc[p] EXCEPT !.at = "failed"]
  <2>1. /\ \A r \in Rev : read(r).at = "read"
        /\ failed.at = "failed"
    BY DEF TypeOK, Promoter
  <2>2. ((\E r \in Rev : Step(p, read(r))) \/ Step(p, failed)) /\ ~Open(p)
    BY <1>2 DEF Resolve, Open
  <2> HIDE DEF read, failed
  <2> QED BY <2>1, <2>2, HeadStep
<1>3. ASSUME NEW p \in Promoters, ReadAgain(p) PROVE HeadInv'
  <2> DEFINE held == [proc[p] EXCEPT !.held = file.doc,
                                    !.at = IF proc[p].write THEN "write" ELSE "done"]
             failed == [proc[p] EXCEPT !.at = "failed"]
  <2>1. /\ held.held = file.doc /\ held.at \in {"write", "done"} /\ failed.at = "failed"
    BY DEF TypeOK, Promoter
  <2>2. (Step(p, held) \/ Step(p, failed)) /\ ~Open(p)
    BY <1>3 DEF ReadAgain, Open
  <2> HIDE DEF held, failed
  <2> QED BY <2>1, <2>2, HeadStep
<1>4. ASSUME NEW p \in Promoters, Truncate(p) PROVE HeadInv'
  <2> DEFINE open == [proc[p] EXCEPT !.at = "truncated"]
             failed == [proc[p] EXCEPT !.at = "failed"]
  <2>1. /\ open.at = "truncated" /\ open.held = proc[p].held /\ failed.at = "failed"
    BY DEF TypeOK, Promoter
  <2>2. (Change(p, open, Empty) \/ Step(p, failed)) /\ ~Open(p) /\ proc[p].at = "write"
    BY <1>4 DEF Truncate, Open
  <2> HIDE DEF open, failed
  <2> QED BY <2>1, <2>2, HeadStep, HeadChange
<1>5. ASSUME NEW p \in Promoters, Write(p) PROVE HeadInv'
  <2> DEFINE me == [proc[p] EXCEPT !.at = "done"]
  <2>1. me.at = "done"
    BY DEF TypeOK, Promoter
  <2>2. PICK new \in Outcomes(p) : Change(p, me, new)
    BY <1>5 DEF Write
  <2>3. Raced(p) \/ new.doc.mode = proc[p].held.mode
    <3>1. Raced(p) \/ new = Holding(Promoted(proc[p].held, proc[p].target))
      BY <2>2 DEF Outcomes, Raced
    <3>2. proc[p].held \in Documents
      BY DEF TypeOK, Promoter
    <3>3. Promoted(proc[p].held, proc[p].target).mode = proc[p].held.mode
      BY <3>2 DEF Promoted, Documents, Doc
    <3> QED BY <3>1, <3>3 DEF Holding
  <2>4. Open(p)
    BY <1>5 DEF Write, Open
  <2> HIDE DEF me
  <2> QED BY <2>1, <2>2, <2>3, <2>4, HeadChange
<1>6. ASSUME NEW p \in Promoters, CutShort(p) PROVE HeadInv'
  <2> DEFINE me == [proc[p] EXCEPT !.at = "cut"]
  <2>1. me.at = "cut"
    BY DEF TypeOK, Promoter
  <2>2. Step(p, me) \/ \E new : Change(p, me, new)
    BY <1>6 DEF CutShort
  <2> HIDE DEF me
  <2> QED BY <2>1, <2>2, HeadStep, HeadChange
<1>7. ASSUME NEW p \in Promoters, Kill(p) PROVE HeadInv'
  <2> DEFINE me == [proc[p] EXCEPT !.at = "killed"]
  <2>1. me.at = "killed"
    BY DEF TypeOK, Promoter
  <2>2. Step(p, me) /\ ~Open(p)
    BY <1>7 DEF Kill, Open
  <2> HIDE DEF me
  <2> QED BY <2>1, <2>2, HeadStep
<1>8. CASE CheckExplicit \/ CheckLoads
  <2>1. UNCHANGED <<file, proc>>
    BY <1>8 DEF CheckExplicit, CheckLoads
  <2>2. \A q \in Promoters : HeldIsFile(q)'
    BY <2>1 DEF HeadInv, HeldIsFile, Raced
  <2>3. CASE CheckExplicit
    <3>1. /\ check'.at = "load" /\ check'.met = MetNow
          /\ check'.scope_set = config_explicitly_sets_scope_mode(file)
      BY <2>3 DEF CheckExplicit, TypeOK, Checker
    <3>2. check'.met = {} => \A q \in Promoters : ~Open(q)'
      BY <2>1, <3>1 DEF MetNow, Open
    <3>3. Between' /\ OneScope'
      BY <2>1, <3>1, <3>2, ExplicitLemma DEF Between, KnownOf, OneScope
    <3> QED BY <2>2, <3>3 DEF HeadInv
  <2>4. CASE CheckLoads /\ check' = [check EXCEPT !.at = "failed"]
    <3>1. check'.at = "failed"
      BY <2>4 DEF TypeOK, Checker
    <3> QED BY <2>2, <3>1 DEF HeadInv, Between, OneScope
  <2>5. ASSUME NEW suggested \in ScopeModes, check.at = "load",
               check' = [check EXCEPT !.at = "loaded", !.met = @ \cup MetNow,
                 !.scope = scope_mode(check.scope_set, load_config(file), suggested),
                 !.asked = scope_mode(file.doc.mode # Unset, load_config(file), suggested)]
        PROVE  HeadInv'
    <3> DEFINE cfg == load_config(file)
    <3>1. /\ check'.at = "loaded" /\ check'.met = check.met \cup MetNow
          /\ check'.scope = scope_mode(check.scope_set, cfg, suggested)
          /\ check'.asked = scope_mode(file.doc.mode # Unset, cfg, suggested)
      BY <2>5 DEF TypeOK, Checker
    <3>2. Quiet' <=> Quiet
      BY <2>1 DEF Quiet, Raced
    <3>3. check'.met = {} /\ Quiet => check'.scope = check'.asked
      <4> SUFFICES ASSUME check'.met = {}, Quiet
                   PROVE  check'.scope = check'.asked
        OBVIOUS
      <4>1. check.met = {} /\ \A q \in Promoters : ~Open(q)
        BY <3>1 DEF MetNow, Open
      <4>2. check.scope_set <=> file.doc.mode # Unset
        BY <2>5, <4>1 DEF HeadInv, Between, KnownOf
      <4> QED BY <3>1, <4>2 DEF scope_mode
    <3>4. OneScope'
      BY <3>2, <3>3 DEF OneScope, Quiet, Raced
    <3> QED BY <2>2, <3>1, <3>4 DEF HeadInv, Between
  <2> QED BY <1>8, <2>3, <2>4, <2>5 DEF CheckLoads
<1>9. CASE Edit
  <2>1. \A q \in Promoters : proc'[q] = Noticed(q)
    BY <1>9 DEF Edit
  <2>2. \A q \in Promoters : HeldIsFile(q)'
    BY <2>1, NoticedLemma DEF HeldIsFile
  <2>3. /\ check'.at = check.at /\ check'.scope = check.scope /\ check'.asked = check.asked
        /\ check'.met = IF check.at = "load" THEN check.met \cup {"edit"} ELSE check.met
    BY <1>9 DEF Edit, TypeOK, Checker
  <2>4. Between'
    BY <2>3 DEF Between
  <2>5. OneScope'
    <3>1. Quiet' => Quiet
      BY QuietLemma
    <3> QED BY <2>3, <3>1 DEF HeadInv, OneScope, Quiet, Raced
  <2> QED BY <2>2, <2>4, <2>5 DEF HeadInv
<1>10. CASE UNCHANGED vars
  BY <1>10 DEF vars, HeadInv, OneScope, Between, Quiet, Open, KnownOf, HeldIsFile, Raced
<1> QED BY <1>1, <1>2, <1>3, <1>4, <1>5, <1>6, <1>7, <1>8, <1>9, <1>10 DEF Next

\* What check goes on with is the scope that the file it loaded asks for, and
\* no mixture of two versions, however many promotions come between its two
\* reads: only an edit in between, a read amid a promoter's write, and a
\* promoter that was cut off there or raced can make one.
THEOREM OneScopeTheorem == Spec => []OneScope
<1>1. Init => HeadInv
  BY DEF Init, HeadInv, OneScope, Between, HeldIsFile
<1>2. HeadInv => OneScope
  BY DEF HeadInv
<1> QED BY <1>1, <1>2, InitTypes, NextTypes, NextHead, PTL DEF Spec

=============================================================================
