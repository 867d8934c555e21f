----------------------------- MODULE RefinementProofs -----------------------------
(***************************************************************************)
(* Proofs about what a step of Runner may do: that reports are final, that *)
(* the three passes implement RunContract, and that the bar of Display     *)
(* follows the reports.                                                    *)
(***************************************************************************)
EXTENDS Display, ListProofs

(***************************************************************************)
(* What a step pushes                                                      *)
(***************************************************************************)
\* A step of run() pushes no report, or the report of a skip while no package
\* is checked yet, or the report of the check that was running.
Quiet == UNCHANGED reports
SkipPushed ==
  /\ pc \in {"filter", "scope"} /\ pc' = pc
  /\ \E r \in Report : r.status = "Skipped" /\ reports' = Append(reports, r)
CheckPushed ==
  /\ pc = "running"
  /\ \E r \in Report : r.status \in {"Passed", "Failed"} /\ reports' = Append(reports, r)

\* Nothing but the four places that push a report changes the reports.
LEMMA StepPushes ==
  ASSUME Inv, [Next]_vars
  PROVE  Quiet \/ SkipPushed \/ CheckPushed
<1> USE NAssumption
<1>1. CASE FilterPackage
  <2>1. pc = "filter" /\ pc' = pc /\ next \in Pkg
    BY <1>1 DEF Inv, TypeOK, FilterPackage, Pkg
  <2>2. CASE UNCHANGED reports
    BY <2>2 DEF Quiet
  <2>3. CASE StaticSkip(next) # None
             /\ reports' = Append(reports, skipped(next, StaticSkip(next)))
    <3> DEFINE reason == StaticSkip(next)
               r == skipped(next, reason)
    <3>1. reason \in {"filtered by include/exclude patterns", "publish = false",
                      "no library target", "unchanged"}
      BY <2>3, StaticSkipType
    <3> HIDE DEF reason
    <3>2. r \in Report /\ r.status = "Skipped"
      BY <2>1, <3>1, SkippedType, Zenon
    <3>3. reports' = Append(reports, r)
      BY <2>3 DEF reason
    <3> HIDE DEF r
    <3> QED
      BY <2>1, <3>2, <3>3 DEF SkipPushed
  <2> QED
    BY <1>1, <2>2, <2>3 DEF FilterPackage
<1>2. CASE ScopePackage
  <2>1. pc = "scope" /\ pc' = pc /\ eligible[next] \in Pkg
    BY <1>2 DEF Inv, TypeOK, ScopePackage
  <2>2. CASE UNCHANGED reports
    BY <2>2 DEF Quiet
  <2>3. CASE reports' = Append(reports, skipped(eligible[next], "unchanged"))
    BY <2>1, <2>3, SkippedType DEF SkipPushed
  <2> QED
    BY <1>2, <2>2, <2>3 DEF ScopePackage
<1>3. ASSUME NEW answer \in Answers, CompleteCheck(answer)
      PROVE  CheckPushed
  <2> DEFINE r == checked(scoped[next], answer)
  <2>1. /\ pc = "running" /\ scoped[next] \in Pkg
        /\ reports' = Append(reports, r)
    BY <1>3 DEF Inv, TypeOK, LoopsInOrder, CompleteCheck
  <2>2. r \in Report /\ r.status \in {"Passed", "Failed"}
    BY <2>1, CheckedType, AnswersAssumption
  <2> HIDE DEF r
  <2> QED
    BY <2>1, <2>2 DEF CheckPushed
<1>4. CASE Load \/ EnterScope \/ EnterCheck \/ StartCheck \/ Finish \/ UNCHANGED vars
  BY <1>4 DEF Quiet, Load, Fail, EnterScope, EnterCheck, StartCheck, Finish, vars
<1> QED
  BY <1>1, <1>2, <1>3, <1>4 DEF Next

\* A list is a prefix of itself, and of itself with one more element.
LEMMA AppendIsPrefix ==
  ASSUME NEW S, NEW s \in Seq(S), NEW e \in S
  PROVE  IsPrefix(s, s) /\ IsPrefix(s, Append(s, e))
BY DEF IsPrefix

\* A report is final: later steps only append one, and all skipped packages
\* are reported before the first checked one.
THEOREM ReportsStayFinal == Spec => ReportsAreFinal
<1> DEFINE A == /\ IsPrefix(reports, reports')
                /\ Len(reports') <= Len(reports) + 1
                /\ reports' # reports /\ Last(reports').status = "Skipped" =>
                     \A i \in DOMAIN reports : reports[i].status = "Skipped"
<1>1. Inv /\ [Next]_vars => [A]_vars
  <2> SUFFICES ASSUME Inv, [Next]_vars
               PROVE  A
    OBVIOUS
  <2>0. reports \in Seq(Report)
    BY DEF Inv, TypeOK
  <2>1. CASE Quiet
    BY <2>0, <2>1, AppendIsPrefix DEF Quiet, IsPrefix
  <2>2. ASSUME NEW r \in Report, reports' = Append(reports, r)
        PROVE  /\ IsPrefix(reports, reports')
               /\ Len(reports') <= Len(reports) + 1
               /\ Last(reports') = r
    BY <2>0, <2>2, AppendIsPrefix, Push
  <2>3. CASE SkipPushed
    <3>1. \A i \in DOMAIN reports : reports[i].status = "Skipped"
      BY <2>3 DEF SkipPushed, Inv, FailuresEndTheRun
    <3> QED
      BY <2>2, <2>3, <3>1 DEF SkipPushed
  <2>4. CASE CheckPushed
    BY <2>2, <2>4 DEF CheckPushed
  <2> QED
    BY <2>1, <2>3, <2>4, StepPushes
<1> QED
  BY <1>1, Invariance, PTL DEF Spec, ReportsAreFinal

(***************************************************************************)
(* The outcome of each package, as RunContract sees it                     *)
(***************************************************************************)
\* The one report of a package is the one CHOOSE finds.
LEMMA OnlyReport ==
  ASSUME NEW rs, NEW i \in DOMAIN rs,
         \A j, k \in DOMAIN rs : rs[j].name = rs[k].name => j = k
  PROVE  (CHOOSE j \in DOMAIN rs : rs[j].name = rs[i].name) = i
OBVIOUS

\* The outcome of a package is what its report says; without one it is ignored
\* or pending.
LEMMA Outcomes ==
  ASSUME ReportedOnce
  PROVE  /\ \A i \in DOMAIN reports :
              OutcomeOf(reports[i].name) = Lower(reports[i].status)
         /\ \A p \in Pkg \ Reported :
              OutcomeOf(p) = IF PassedBy(p) THEN "ignored" ELSE "pending"
<1>1. ASSUME NEW i \in DOMAIN reports
      PROVE  OutcomeOf(reports[i].name) = Lower(reports[i].status)
  <2>1. (CHOOSE j \in DOMAIN reports : reports[j].name = reports[i].name) = i
    BY <1>1, OnlyReport DEF ReportedOnce
  <2> QED
    BY <1>1, <2>1 DEF OutcomeOf
<1>2. ASSUME NEW p \in Pkg \ Reported
      PROVE  OutcomeOf(p) = IF PassedBy(p) THEN "ignored" ELSE "pending"
  BY <1>2 DEF OutcomeOf, Reported
<1> QED
  BY <1>1, <1>2

\* A step that pushes no report changes the outcome of those packages alone
\* that it passes by.
LEMMA QuietOutcomes ==
  ASSUME UNCHANGED reports, NEW p \in Pkg, PassedBy(p)' = PassedBy(p)
  PROVE  OutcomeOf(p)' = OutcomeOf(p)
BY DEF OutcomeOf

\* A step that pushes a report settles that package, and no other as long as it
\* passes none by.
LEMMA PushOutcomes ==
  ASSUME reports \in Seq(Report), ReportedOnce, ReportedOnce',
         NEW r \in Report, reports' = Append(reports, r),
         NEW p \in Pkg, PassedBy(p)' = PassedBy(p)
  PROVE  OutcomeOf(p)' = IF p = r.name THEN Lower(r.status) ELSE OutcomeOf(p)
<1>1. /\ Len(reports) \in Nat
      /\ DOMAIN reports = 1..Len(reports)
      /\ DOMAIN reports' = 1..(Len(reports) + 1)
      /\ \A i \in DOMAIN reports : reports'[i] = reports[i]
      /\ reports'[Len(reports) + 1] = r
  BY Push
<1>2. ASSUME NEW i \in DOMAIN reports', reports'[i].name = p
      PROVE  OutcomeOf(p)' = Lower(reports'[i].status)
  <2>1. (CHOOSE j \in DOMAIN reports' : reports'[j].name = reports'[i].name) = i
    BY <1>2, OnlyReport DEF ReportedOnce
  <2> QED
    BY <1>2, <2>1 DEF OutcomeOf
<1>3. CASE p = r.name
  BY <1>1, <1>2, <1>3
<1>4. CASE p # r.name /\ \E i \in DOMAIN reports : reports[i].name = p
  <2>1. PICK i \in DOMAIN reports : reports[i].name = p
    BY <1>4
  <2>2. OutcomeOf(p) = Lower(reports[i].status)
    BY <2>1, Outcomes
  <2>3. OutcomeOf(p)' = Lower(reports[i].status)
    BY <1>1, <1>2, <2>1
  <2> QED
    BY <1>4, <2>2, <2>3
<1>5. CASE p # r.name /\ ~\E i \in DOMAIN reports : reports[i].name = p
  <2>1. ~\E i \in DOMAIN reports' : reports'[i].name = p
    BY <1>1, <1>5
  <2> QED
    BY <1>5, <2>1 DEF OutcomeOf
<1> QED
  BY <1>3, <1>4, <1>5

\* While the loops of passes 1 and 2 run, no package has been checked.
LEMMA NothingCheckedYet ==
  ASSUME Inv, pc \in {"load", "filter", "scope"}
  PROVE  Contract!NothingChecked
<1> SUFFICES ASSUME NEW p \in Pkg
             PROVE  OutcomeOf(p) \notin {"passed", "failed"}
  BY DEF Contract!NothingChecked, Contract!Packages, Contract!Checked, Pkg
<1>1. CASE p \in Reported
  <2>1. PICK i \in DOMAIN reports : reports[i].name = p
    BY <1>1 DEF Reported
  <2>2. OutcomeOf(p) = "skipped"
    BY <2>1, Outcomes DEF Inv, FailuresEndTheRun, Lower
  <2> QED
    BY <2>2
<1>2. CASE p \notin Reported
  BY <1>2, Outcomes DEF Inv
<1> QED
  BY <1>1, <1>2

(***************************************************************************)
(* The steps of run() as steps of RunContract                              *)
(***************************************************************************)
\* The variables of RunContract that Runner's state stands for.
outcome == [p \in Pkg |-> OutcomeOf(p)]
phase == CASE pc = "done" -> "closed" [] pc = "failed" -> "aborted" [] OTHER -> "open"

\* Every report in the list has its type.
LEMMA ReportAt ==
  ASSUME reports \in Seq(Report), NEW i \in DOMAIN reports
  PROVE  reports[i].status \in Status /\ reports[i].name \in Pkg
<1>1. reports[i] \in Report
  OBVIOUS
<1> QED
  BY <1>1 DEF Report

\* Settling one package is an update of outcome.
LEMMA SettleOne ==
  ASSUME NEW p \in Pkg, NEW how,
         \A q \in Pkg : OutcomeOf(q)' = IF q = p THEN how ELSE OutcomeOf(q)
  PROVE  outcome' = [outcome EXCEPT ![p] = how]
BY DEF outcome

\* Settling none leaves outcome alone.
LEMMA SettleNone ==
  ASSUME \A q \in Pkg : OutcomeOf(q)' = OutcomeOf(q)
  PROVE  outcome' = outcome
BY DEF outcome

\* A step of passes 1 and 2 that pushes the report of a skip settles that
\* package as skipped.
LEMMA SkipSettles ==
  ASSUME Inv, Inv', pc \in {"filter", "scope"}, pc' = pc, input' = input,
         NEW p \in Pkg, p \in Selected \ Reported,
         NEW r \in Report, r.name = p, r.status = "Skipped",
         reports' = Append(reports, r),
         \A q \in Pkg : PassedBy(q)' = PassedBy(q)
  PROVE  Contract!CNext
<1>1. \A q \in Pkg : OutcomeOf(q)' = IF q = p THEN "skipped" ELSE OutcomeOf(q)
  BY PushOutcomes DEF Inv, TypeOK, Lower
<1>2. outcome' = [outcome EXCEPT ![p] = "skipped"]
  BY <1>1, SettleOne
<1>3. outcome[p] = "pending"
  BY Outcomes DEF Inv, outcome, PassedBy, Selected
<1>4. /\ phase = "open" /\ phase' = phase
      /\ config' = config
  BY DEF phase, config
<1>5. Contract!SettleUnchecked(p, "skipped")
  BY <1>2, <1>3, <1>4, NothingCheckedYet DEF Contract!SettleUnchecked, outcome, phase
<1> QED
  BY <1>5 DEF Contract!CNext, Contract!Packages, Contract!Unchecked, Pkg

\* Every step of run() is a step of RunContract or leaves its variables alone.
LEMMA StepRefines ==
  Inv /\ Inv' /\ [Next]_vars => [Contract!CNext]_(Contract!cvars)
<1> SUFFICES ASSUME Inv, Inv', [Next]_vars
             PROVE  Contract!CNext \/ UNCHANGED Contract!cvars
  OBVIOUS
<1> USE NAssumption
<1>0. input' = input /\ config' = config /\ Selected' = Selected
  BY InputIsFixed DEF config
<1>1. ASSUME UNCHANGED reports, \A q \in Pkg : PassedBy(q)' = PassedBy(q), phase' = phase
      PROVE  UNCHANGED Contract!cvars
  <2>1. outcome' = outcome
    BY <1>1, QuietOutcomes, SettleNone
  <2> QED
    BY <1>0, <1>1, <2>1 DEF Contract!cvars, outcome, phase
<1>2. ASSUME UNCHANGED reports, \A q \in Pkg : PassedBy(q)' = PassedBy(q),
             pc \in {"load", "filter"}, pc' = "failed"
      PROVE  Contract!CNext
  <2>1. outcome' = outcome
    BY <1>2, QuietOutcomes, SettleNone
  <2>2. phase = "open" /\ phase' = "aborted"
    BY <1>2 DEF phase
  <2>3. Contract!Abort
    BY <1>0, <1>2, <2>1, <2>2, NothingCheckedYet DEF Contract!Abort, outcome, phase
  <2> QED
    BY <2>3 DEF Contract!CNext
<1>3. CASE Load
  <2>1. /\ pc = "load" /\ UNCHANGED <<reports, next>> /\ next = 1
        /\ pc' \in {"failed", "filter"}
    BY <1>3 DEF Load, Fail, Inv, LoopsInOrder
  <2>2. \A q \in Pkg : PassedBy(q)' = PassedBy(q)
    BY <2>1 DEF PassedBy, Pkg
  <2> QED
    BY <1>1, <1>2, <2>1, <2>2 DEF phase
<1>4. CASE FilterPackage
  <2>1. /\ pc = "filter" /\ pc' = pc
        /\ next \in Pkg /\ next \in Nat /\ next' = next + 1
        /\ reports \in Seq(Report)
    BY <1>4 DEF Inv, TypeOK, FilterPackage, Pkg
  <2>2. \A q \in Pkg : Ignored(q)' = Ignored(q)
    BY <1>0 DEF Ignored, Explicit
  <2>3. \A q \in Pkg : q # next => PassedBy(q)' = PassedBy(q)
    BY <2>1, <2>2 DEF PassedBy, Pkg
  <2>4. CASE Ignored(next)
    <3>0. PICK p \in Pkg : p = next
      BY <2>1
    <3>1. UNCHANGED reports
      BY <1>4, <2>4 DEF FilterPackage
    <3>2. p \notin Reported /\ p \notin Reported'
      BY <2>1, <2>4, <3>0, <3>1 DEF Inv, Partition, Selected, Reported
    <3>3. ~PassedBy(p) /\ PassedBy(p)'
      BY <2>1, <2>2, <2>4, <3>0 DEF PassedBy
    <3>4. OutcomeOf(p) = "pending"
      BY <3>2, <3>3, Outcomes DEF Inv
    <3>5. OutcomeOf(p)' = "ignored"
      BY <3>2, <3>3 DEF OutcomeOf, Reported
    <3>6. ASSUME NEW q \in Pkg
          PROVE  OutcomeOf(q)' = IF q = p THEN "ignored" ELSE OutcomeOf(q)
      BY <2>3, <3>0, <3>1, <3>5, QuietOutcomes
    <3>7. outcome' = [outcome EXCEPT ![p] = "ignored"] /\ outcome[p] = "pending"
      BY <3>4, <3>6, SettleOne DEF outcome
    <3>8. phase = "open" /\ phase' = phase
      BY <2>1 DEF phase
    <3>9. Contract!SettleUnchecked(p, "ignored")
      BY <1>0, <2>1, <3>7, <3>8, NothingCheckedYet
         DEF Contract!SettleUnchecked, outcome, phase
    <3> QED
      BY <3>9 DEF Contract!CNext, Contract!Packages, Contract!Unchecked, Pkg
  <2>5. CASE ~Ignored(next)
    <3>1. \A q \in Pkg : PassedBy(q)' = PassedBy(q)
      BY <2>1, <2>2, <2>3, <2>5 DEF PassedBy
    <3>2. CASE StaticSkip(next) = None
      BY <1>1, <1>4, <2>1, <2>5, <3>1, <3>2 DEF FilterPackage, phase
    <3>3. CASE StaticSkip(next) # None
      <4> DEFINE reason == StaticSkip(next)
                 r == skipped(next, reason)
      <4>1. reason \in {"filtered by include/exclude patterns", "publish = false",
                        "no library target", "unchanged"}
        BY <3>3, StaticSkipType
      <4>2. reports' = Append(reports, r)
        BY <1>4, <2>5, <3>3 DEF FilterPackage
      <4> HIDE DEF reason
      <4>3. r \in Report /\ r.name = next /\ r.status = "Skipped"
        BY <2>1, <4>1, SkippedType, Zenon
      <4> HIDE DEF r
      <4>4. next \in Selected \ Reported
        BY <2>1, <2>5 DEF Inv, Partition, Open, Selected, Pkg
      <4> QED
        BY <1>0, <2>1, <3>1, <4>2, <4>3, <4>4, SkipSettles
    <3> QED
      BY <3>2, <3>3
  <2> QED
    BY <2>4, <2>5
<1>5. CASE EnterScope
  <2>1. /\ pc = "filter" /\ next > N /\ next \in Nat /\ UNCHANGED reports
        /\ (pc' = "failed" /\ next' = next) \/ pc' = "scope"
    BY <1>5 DEF EnterScope, Fail, Inv, TypeOK
  <2>2. \A q \in Pkg : PassedBy(q)' = PassedBy(q)
    BY <1>0, <2>1 DEF PassedBy, Ignored, Explicit, Pkg
  <2> QED
    BY <1>1, <1>2, <2>1, <2>2 DEF phase
<1>6. CASE ScopePackage
  <2> DEFINE p == eligible[next]
  <2>1. /\ pc = "scope" /\ pc' = pc
        /\ next \in 1..Len(eligible) /\ eligible \in Seq(Pkg)
        /\ p \in Pkg /\ Increasing(eligible)
    BY <1>6 DEF Inv, TypeOK, LoopsInOrder, ScopePackage
  <2>2. \A q \in Pkg : PassedBy(q)' = PassedBy(q)
    BY <1>0, <2>1 DEF PassedBy, Ignored, Explicit
  <2>3. CASE UNCHANGED reports
    BY <1>1, <2>1, <2>2, <2>3 DEF phase
  <2>4. CASE reports' = Append(reports, skipped(p, "unchanged"))
    <3>1. /\ skipped(p, "unchanged") \in Report
          /\ skipped(p, "unchanged").name = p
          /\ skipped(p, "unchanged").status = "Skipped"
      BY <2>1, SkippedType
    <3>2. p \in From(eligible, next)
      BY <2>1 DEF From
    <3>3. p \in Selected \ Reported
      BY <2>1, <3>2 DEF Inv, Partition, Open
    <3> HIDE DEF p
    <3> QED
      BY <1>0, <2>1, <2>2, <2>4, <3>1, <3>3, SkipSettles
  <2> QED
    BY <1>6, <2>3, <2>4 DEF ScopePackage
<1>7. CASE EnterCheck \/ StartCheck
  <2>1. /\ pc \in {"scope", "check"} /\ pc' \in {"check", "running"}
        /\ UNCHANGED reports
    BY <1>7 DEF EnterCheck, StartCheck
  <2>2. \A q \in Pkg : PassedBy(q)' = PassedBy(q)
    BY <1>0, <2>1 DEF PassedBy, Ignored, Explicit
  <2> QED
    BY <1>1, <2>1, <2>2 DEF phase
<1>8. ASSUME NEW answer \in Answers, CompleteCheck(answer)
      PROVE  Contract!CNext
  <2> DEFINE p == scoped[next]
             r == checked(p, answer)
             how == Lower(r.status)
  <2>1. /\ pc = "running" /\ pc' \in {"check", "finish"}
        /\ next \in 1..Len(scoped) /\ scoped \in Seq(Pkg) /\ Increasing(scoped)
        /\ reports \in Seq(Report) /\ reports' = Append(reports, r)
        /\ p \in Pkg
    BY <1>8 DEF Inv, TypeOK, LoopsInOrder, CompleteCheck
  <2>2. r \in Report /\ r.name = p /\ r.status \in {"Passed", "Failed"}
    BY <2>1, CheckedType, AnswersAssumption
  <2>3. p \in From(scoped, next) /\ \A q \in From(scoped, next) : q >= p
    <3>1. /\ From(scoped, next) = {p} \cup From(scoped, next + 1)
          /\ \A q \in From(scoped, next + 1) : q > p
      BY <2>1, TakeOne
    <3>2. p \in Nat /\ From(scoped, next + 1) \subseteq Nat
      BY <2>1 DEF From, Pkg
    <3> QED
      BY <3>1, <3>2
  <2> HIDE DEF r, p
  <2>4. how \in {"passed", "failed"}
    BY <2>2 DEF Lower
  <2>5. \A q \in Pkg : PassedBy(q)' = PassedBy(q) /\ (PassedBy(q) <=> Ignored(q))
    BY <1>0, <2>1 DEF PassedBy, Ignored, Explicit
  <2>6. \A q \in Pkg : OutcomeOf(q)' = IF q = p THEN how ELSE OutcomeOf(q)
    BY <2>1, <2>2, <2>5, PushOutcomes DEF Inv
  <2> HIDE DEF how
  <2>7. outcome' = [outcome EXCEPT ![p] = how]
    BY <2>1, <2>6, SettleOne
  <2>8. /\ Open = From(scoped, next)
        /\ Reported \cap Open = {} /\ Reported \cup Open = Selected
    BY <2>1 DEF Inv, Partition, Open
  <2>9. outcome[p] = "pending"
    BY <2>1, <2>3, <2>5, <2>8, Outcomes DEF Inv, outcome, Selected
  <2>10. \A q \in Pkg : q < p => outcome[q] # "pending"
    <3> SUFFICES ASSUME NEW q \in Pkg, q < p
                 PROVE  OutcomeOf(q) # "pending"
      BY DEF outcome
    <3>1. CASE q \in Reported
      <4>1. PICK i \in DOMAIN reports : reports[i].name = q
        BY <3>1 DEF Reported
      <4>2. reports[i].status \in Status
        BY <2>1, <4>1, ReportAt
      <4> QED
        BY <4>1, <4>2, Outcomes DEF Inv, Lower, Status
    <3>2. CASE q \notin Reported
      <4>1. q \notin From(scoped, next)
        BY <2>1, <2>3 DEF Pkg
      <4>2. PassedBy(q)
        BY <2>5, <2>8, <3>2, <4>1 DEF Selected
      <4> QED
        BY <3>2, <4>2, Outcomes DEF Inv
    <3> QED
      BY <3>1, <3>2
  <2>11. ~Contract!Stopped
    <3> SUFFICES ASSUME config.fail_fast, NEW q \in Pkg, OutcomeOf(q) = "failed"
                 PROVE  FALSE
      BY DEF Contract!Stopped, Contract!Packages, Pkg
    <3>1. q \in Reported
      BY Outcomes DEF Inv
    <3>2. PICK i \in DOMAIN reports : reports[i].name = q
      BY <3>1 DEF Reported
    <3>3. reports[i].status \in Status /\ reports[i].status # "Failed"
      BY <2>1, <3>2, ReportAt DEF Inv, FailuresEndTheRun
    <3> QED
      BY <3>2, <3>3, Outcomes DEF Inv, Lower, Status
  <2>12. phase = "open" /\ phase' = phase
    BY <2>1 DEF phase
  <2>13. Contract!Check(p, how)
    BY <1>0, <2>7, <2>9, <2>10, <2>11, <2>12
       DEF Contract!Check, Contract!Packages, outcome, phase, Pkg
  <2> QED
    BY <2>1, <2>4, <2>13 DEF Contract!CNext, Contract!Packages, Contract!Checked, Pkg
<1>9. CASE Finish
  <2>1. /\ pc \in {"check", "finish"} /\ pc' = "done" /\ UNCHANGED reports
        /\ pc = "check" => next > Len(scoped)
        /\ next \in Nat /\ scoped \in Seq(Pkg) /\ reports \in Seq(Report)
    BY <1>9 DEF Finish, Inv, TypeOK
  <2>2. \A q \in Pkg : PassedBy(q)' = PassedBy(q) /\ (PassedBy(q) <=> Ignored(q))
    BY <1>0, <2>1 DEF PassedBy, Ignored, Explicit
  <2>3. outcome' = outcome
    BY <2>1, <2>2, QuietOutcomes, SettleNone
  <2>4. Contract!Stopped \/ \A q \in Pkg : outcome[q] # "pending"
    <3>1. CASE pc = "finish"
      <4> DEFINE k == Len(reports)
      <4>1. /\ config.fail_fast /\ k \in DOMAIN reports
            /\ reports[k] \in Report /\ reports[k].status = "Failed"
        BY <2>1, <3>1 DEF Inv, FailuresEndTheRun, BrokeOff, Last
      <4>2. OutcomeOf(reports[k].name) = "failed" /\ reports[k].name \in Pkg
        BY <4>1, Outcomes DEF Inv, Lower, Report
      <4> QED
        BY <4>1, <4>2 DEF Contract!Stopped, Contract!Packages, Pkg
    <3>2. CASE pc = "check"
      <4> SUFFICES ASSUME NEW q \in Pkg
                   PROVE  OutcomeOf(q) # "pending"
        BY DEF outcome
      <4>1. Reported = Selected
        <5>1. next..Len(scoped) = {}
          BY <2>1, <3>2
        <5>2. Open = {}
          BY <3>2, <5>1 DEF Open, From
        <5> QED
          BY <3>2, <5>2 DEF Inv, Partition
      <4>2. CASE q \in Reported
        <5>1. PICK i \in DOMAIN reports : reports[i].name = q
          BY <4>2 DEF Reported
        <5>2. reports[i].status \in Status
          BY <2>1, <5>1, ReportAt
        <5> QED
          BY <5>1, <5>2, Outcomes DEF Inv, Lower, Status
      <4>3. CASE q \notin Reported
        BY <2>2, <4>1, <4>3, Outcomes DEF Inv, Selected
      <4> QED
        BY <4>2, <4>3
    <3> QED
      BY <2>1, <3>1, <3>2
  <2>5. phase = "open" /\ phase' = "closed"
    BY <2>1 DEF phase
  <2>6. Contract!Close
    BY <1>0, <2>3, <2>4, <2>5 DEF Contract!Close, Contract!Packages, outcome, phase, Pkg
  <2> QED
    BY <2>6 DEF Contract!CNext
<1>10. CASE UNCHANGED vars
  <2>1. UNCHANGED <<reports, pc, next>>
    BY <1>10 DEF vars
  <2>2. \A q \in Pkg : PassedBy(q)' = PassedBy(q)
    BY <1>0, <2>1 DEF PassedBy, Ignored, Explicit
  <2> QED
    BY <1>1, <2>1, <2>2 DEF phase
<1> QED
  BY <1>3, <1>4, <1>5, <1>6, <1>7, <1>8, <1>9, <1>10 DEF Next

\* The three passes keep the promise of RunContract: no package is settled
\* twice, none is skipped after the first check, the checks follow the
\* workspace's order, and a run closes only when nothing is left or fail_fast
\* stopped it.
THEOREM ContractIsKept == Spec => RefinesContract
<1>1. Init => Contract!CInit
  <2> SUFFICES ASSUME Init
               PROVE  Contract!CInit
    OBVIOUS
  <2>1. \A p \in Pkg : OutcomeOf(p) = "pending"
    BY NAssumption DEF Init, OutcomeOf, PassedBy, Pkg
  <2>2. config.fail_fast \in BOOLEAN
    BY InputsAssumption DEF Init, InputType, Config, config
  <2> QED
    BY <2>1, <2>2 DEF Init, Contract!CInit, Contract!Packages, Pkg
<1>2. Inv /\ Inv' /\ [Next]_vars => [Contract!CNext]_(Contract!cvars)
  BY StepRefines
<1> QED
  BY <1>1, <1>2, Invariance, PTL DEF Spec, RefinesContract, Contract!CSpec


(***************************************************************************)
(* The bar                                                                 *)
(***************************************************************************)
\* What the spinner says after the events so far.
Told ==
  IF pc = "running" THEN <<"Checking", would_check[next]>>
  ELSE IF next = 1 THEN <<>>
  ELSE <<reports[Len(ListedSkips) + (next - 1)].status, would_check[next - 1]>>

BarInv ==
  /\ ~Running => bar = Blank
  /\ pc \in {"check", "running", "finish"} =>
       bar = [position |-> next - 1, length |-> Len(would_check), message |-> Told]
  /\ pc = "done" => bar.position = Len(would_check) /\ bar.length = Len(would_check)

\* The event a step sends is the last one.
LEMMA LastHeard ==
  ASSUME NEW s, NEW n, Len(s) = n
  PROVE  Last(s) = s[n]
BY DEF Last

LEMMA BarStep == Inv /\ ListInv /\ EventInv /\ BarInv /\ [DNext]_dvars => BarInv'
<1> SUFFICES ASSUME Inv, ListInv, EventInv, BarInv, [DNext]_dvars
             PROVE  BarInv'
  OBVIOUS
<1>0. [Next]_vars
  BY DEF DNext, dvars, Next
<1>1. would_check' = would_check /\ ListedSkips' = ListedSkips /\ EventInv'
  BY <1>0, ListIsFixed, EventStep
<1>2. next \in Nat \ {0} /\ Len(would_check) \in Nat
  BY Lists DEF Inv, TypeOK
<1>3. CASE (Load \/ FilterPackage \/ EnterScope \/ ScopePackage) /\ UNCHANGED bar
  <2>1. ~Running /\ ~Running'
    BY <1>3 DEF Load, FilterPackage, EnterScope, ScopePackage, Fail, Running
  <2> QED
    BY <1>3, <2>1 DEF BarInv, Running
<1>4. CASE EnterCheck /\ on_progress
  <2>1. pc' = "check" /\ next' = 1 /\ bar = Blank
    BY <1>4 DEF EnterCheck, BarInv, Running
  <2>2. Len(events') = 1 /\ events'[1] = TotalPackages(Len(would_check))
    BY <1>1, <2>1 DEF EventInv, Running, Heard
  <2>3. bar' = report(TotalPackages(Len(would_check)))
    BY <1>4, <2>2, LastHeard DEF on_progress
  <2>4. bar' = [position |-> 0, length |-> Len(would_check), message |-> <<>>]
    BY <2>1, <2>3 DEF report, TotalPackages, Blank
  <2> QED
    BY <1>1, <2>1, <2>4 DEF BarInv, Told, Running
<1>5. CASE StartCheck /\ on_progress
  <2>1. pc' = "running" /\ next' = next
    BY <1>5 DEF StartCheck
  <2>2. Len(events') = 2 * next /\ events'[2 * next] = CheckStarted(next)'
    BY <1>1, <2>1 DEF EventInv, Running, Heard
  <2>3. CheckStarted(next)' = PackageStarted(would_check[next], next - 1, Len(would_check))
    BY <1>1, <2>1 DEF CheckStarted
  <2>4. bar' = report(PackageStarted(would_check[next], next - 1, Len(would_check)))
    BY <1>5, <2>2, <2>3, LastHeard DEF on_progress
  <2>5. bar' = [position |-> next - 1, length |-> Len(would_check),
                message |-> <<"Checking", would_check[next]>>]
    BY <2>4 DEF report, PackageStarted
  <2> QED
    BY <1>1, <2>1, <2>5 DEF BarInv, Told, Running
<1>6. CASE (\E answer \in Answers : CompleteCheck(answer)) /\ on_progress
  <2> DEFINE status == reports'[Len(ListedSkips) + next].status
  <2>1. pc = "running" /\ pc' \in {"check", "finish"} /\ next' = next + 1
    BY <1>6 DEF CompleteCheck
  <2>2. /\ Len(events') = 2 * next + 1
        /\ \A k \in 1..next : events'[2 * k + 1] = CheckCompleted(k)'
    BY <1>1, <1>2, <2>1 DEF EventInv, Running, Heard
  <2>3. events'[2 * next + 1] = PackageCompleted(would_check[next], status)
    BY <1>1, <1>2, <2>2 DEF CheckCompleted
  <2>4. bar' = report(PackageCompleted(would_check[next], status))
    BY <1>6, <2>2, <2>3, LastHeard DEF on_progress
  <2>5. bar = [position |-> next - 1, length |-> Len(would_check), message |-> Told]
    BY <2>1 DEF BarInv
  <2> HIDE DEF status
  <2>6. bar' = [position |-> next, length |-> Len(would_check),
                message |-> <<status, would_check[next]>>]
    <3>1. bar' = [bar EXCEPT !.position = @ + 1, !.message = <<status, would_check[next]>>]
      BY <2>4 DEF report, PackageCompleted
    <3>2. (next - 1) + 1 = next
      BY <1>2
    <3> QED
      BY <2>5, <3>1, <3>2
  <2>7. Told' = <<status, would_check[next]>>
    BY <1>1, <1>2, <2>1 DEF Told, status
  <2> QED
    BY <1>1, <1>2, <2>1, <2>6, <2>7 DEF BarInv, Running
<1>7. CASE Finish /\ on_progress
  <2>1. pc \in {"check", "finish"} /\ pc' = "done" /\ next' = next
    BY <1>7 DEF Finish
  <2>2. Len(events') = 2 * next /\ events'[2 * next] = Finished(summarize(reports))'
    BY <1>1, <2>1 DEF EventInv, Running, Heard
  <2>3. bar' = report(Finished(summarize(reports))')
    BY <1>7, <2>2, LastHeard DEF on_progress
  <2>4. bar = [position |-> next - 1, length |-> Len(would_check), message |-> Told]
    BY <2>1 DEF BarInv
  <2>5. bar' = [position |-> Len(would_check), length |-> Len(would_check), message |-> <<>>]
    BY <2>3, <2>4 DEF report, Finished
  <2> QED
    BY <1>1, <2>1, <2>5 DEF BarInv, Running
<1>8. CASE UNCHANGED dvars
  BY <1>1, <1>8 DEF dvars, vars, BarInv, Told, Running
<1> QED
  BY <1>3, <1>4, <1>5, <1>6, <1>7, <1>8 DEF DNext


\* Nothing that passed or failed was skipped: the summary counts the checks.
LEMMA SummaryCountsChecks ==
  ASSUME Inv, ListInv, Running
  PROVE  summarize(reports).passed + summarize(reports).failed = Len(Checks)
<1> DEFINE k == Len(ListedSkips)
           m == next - 1
           of(status) == { i \in DOMAIN reports : reports[i].status = status }
           C == { i \in DOMAIN reports : reports[i].status # "Skipped" }
<1>1. /\ k \in Nat /\ m \in Nat /\ DOMAIN reports = 1..(k + m)
      /\ Checks = [ i \in 1..m |-> reports[k + i] ]
  BY ReportsSplit
<1>2. reports \in Seq(Report)
  BY DEF Inv, TypeOK
<1>3. C = (k + 1)..(k + m)
  <2>1. \A i \in DOMAIN reports : reports[i].status = "Skipped" <=> i <= k
    BY DEF ListInv, PassThree
  <2> HIDE DEF k, m
  <2> QED
    BY <1>1, <2>1
<1>4. \A i \in DOMAIN reports : reports[i].status \in {"Passed", "Failed", "Skipped"}
  <2> TAKE i \in DOMAIN reports
  <2>1. reports[i] \in Report
    BY <1>2
  <2> QED
    BY <2>1 DEF Report, Status
<1>5. Cardinality(C) = Cardinality(of("Passed")) + Cardinality(of("Failed"))
  <2>1. /\ of("Passed") \subseteq DOMAIN reports /\ of("Failed") \subseteq DOMAIN reports
        /\ C \subseteq DOMAIN reports
    OBVIOUS
  <2>2. \A i \in DOMAIN reports :
          /\ ~(i \in of("Passed") /\ i \in of("Failed"))
          /\ i \in C <=> i \in of("Passed") \/ i \in of("Failed")
    BY <1>4
  <2> HIDE DEF of, C
  <2> QED
    BY <1>2, <2>1, <2>2, CountTwo
<1> HIDE DEF k, m
<1>6. Cardinality((k + 1)..(k + m)) = m
  <2>1. k + 1 \in Int /\ k + m \in Int
    BY <1>1
  <2> DEFINE a == k + 1
             b == k + m
  <2>2. a \in Int /\ b \in Int
    BY <2>1
  <2> HIDE DEF a, b
  <2>3. Cardinality(a..b) = IF a > b THEN 0 ELSE b - a + 1
    BY <2>2, FS_Interval
  <2> QED
    BY <1>1, <2>3 DEF a, b
<1>7. Len(Checks) = m
  BY <1>1
<1> QED
  BY <1>3, <1>5, <1>6, <1>7 DEF summarize, Count

\* The bar stands where the reports are, and the lines say the same; neither
\* counts a check that has not ended, nor one twice.
THEOREM TheBarCounts == DSpec => []BarCountsReports
<1>1. DInit => Init /\ BarInv
  BY DEF DInit, Init, BarInv, Running
<1>2. [DNext]_dvars => [Next]_vars
  BY DEF DNext, dvars, Next
<1>3. Inv /\ ListInv /\ EventInv /\ BarInv => BarCountsReports
  <2> SUFFICES ASSUME Inv, ListInv, EventInv, BarInv
               PROVE  BarCountsReports
    OBVIOUS
  <2>1. next \in Nat \ {0} /\ Len(would_check) \in Nat /\ next - 1 \in Int
    BY Lists DEF Inv, TypeOK
  <2>2. Running => /\ next - 1 \in 0..Len(would_check)
                   /\ DOMAIN reports = 1..(Len(ListedSkips) + (next - 1))
                   /\ Len(ListedSkips) \in Nat
                   /\ Checks = [ i \in 1..(next - 1) |-> reports[Len(ListedSkips) + i] ]
                   /\ \A i \in 1..(next - 1) :
                        reports[Len(ListedSkips) + i].name = would_check[i]
    BY ReportsSplit
  <2>3. Running => Len(Checks) = next - 1
    BY <2>1, <2>2
  <2>4. bar.position <= bar.length
    <3>1. CASE ~Running
      BY <3>1 DEF BarInv, Blank
    <3>2. CASE Running
      BY <2>1, <2>2, <3>2 DEF BarInv, Running
    <3> QED
      BY <3>1, <3>2
  <2>5. ASSUME pc \in {"check", "running", "finish"}
        PROVE  /\ bar.position = Len(Checks) /\ bar.length = Len(would_check)
               /\ bar.message = IF pc = "running" THEN <<"Checking", would_check[bar.position + 1]>>
                                ELSE IF Checks = <<>> THEN <<>>
                                ELSE <<Last(Checks).status, Last(Checks).name>>
    <3>1. /\ bar.position = next - 1 /\ bar.length = Len(would_check) /\ bar.message = Told
          /\ bar.position + 1 = next
      BY <2>1, <2>5 DEF BarInv
    <3>2. Running
      BY <2>5 DEF Running
    <3>3. Checks = <<>> <=> next = 1
      BY <2>1, <2>2, <2>3, <3>2
    <3>4. next # 1 => /\ Last(Checks) = reports[Len(ListedSkips) + (next - 1)]
                      /\ Last(Checks).name = would_check[next - 1]
      <4> SUFFICES ASSUME next # 1
                   PROVE  /\ Last(Checks) = reports[Len(ListedSkips) + (next - 1)]
                          /\ Last(Checks).name = would_check[next - 1]
        OBVIOUS
      <4>1. next - 1 \in 1..(next - 1)
        BY <2>1
      <4>2. Last(Checks) = Checks[next - 1]
        BY <2>3, <3>2, LastHeard
      <4> QED
        BY <2>2, <3>2, <4>1, <4>2
    <3> QED
      BY <2>3, <3>1, <3>2, <3>3, <3>4, Zenon DEF Told
  <2>6. Running => /\ \E S : events \in Seq(S)
                   /\ Last(LineProgress(events)) = LineOf(events[Len(events)])
    <3> SUFFICES ASSUME Running
                 PROVE  /\ \E S : events \in Seq(S)
                        /\ Last(LineProgress(events)) = LineOf(events[Len(events)])
      OBVIOUS
    <3>1. /\ \E S : events \in Seq(S)
          /\ Len(events) = IF pc \in {"running", "done"} THEN 2 * next ELSE 2 * next - 1
      BY DEF EventInv, Heard
    <3>2. Len(events) \in Nat \ {0} /\ DOMAIN events = 1..Len(events)
      BY <2>1, <3>1
    <3>3. LineProgress(events) = [ i \in 1..Len(events) |-> LineOf(events[i]) ]
      BY <3>2 DEF LineProgress
    <3>4. Len(LineProgress(events)) = Len(events)
      BY <3>2, <3>3
    <3>5. Last(LineProgress(events)) = LineProgress(events)[Len(events)]
      BY <3>4, LastHeard
    <3>6. LineProgress(events)[Len(events)] = LineOf(events[Len(events)])
      BY <3>2, <3>3
    <3> QED
      BY <3>1, <3>5, <3>6
  <2>7. ASSUME pc = "running"
        PROVE  Last(LineProgress(events)) = <<bar.position + 1, bar.length, bar.message[2]>>
    <3>1. Running /\ Len(events) = 2 * next /\ events[2 * next] = CheckStarted(next)
      BY <2>7 DEF EventInv, Running, Heard
    <3>2. /\ bar.position = next - 1 /\ bar.length = Len(would_check)
          /\ bar.message = <<"Checking", would_check[next]>>
      BY <2>7 DEF BarInv, Told
    <3>3. LineOf(CheckStarted(next))
            = <<(next - 1) + 1, Len(would_check), would_check[next]>>
      BY DEF LineOf, CheckStarted, PackageStarted
    <3> QED
      BY <2>6, <3>1, <3>2, <3>3
  <2>8. ASSUME pc = "done"
        PROVE  LET done == Last(LineProgress(events))
               IN  done[2] + done[3] = Len(Checks)
    <3>1. Running /\ Len(events) = 2 * next /\ events[2 * next] = Finished(summarize(reports))
      BY <2>8 DEF EventInv, Running, Heard
    <3>2. LineOf(Finished(summarize(reports)))
            = <<"Done", summarize(reports).passed, summarize(reports).failed,
                summarize(reports).skipped>>
      BY DEF LineOf, Finished
    <3>3. Last(LineProgress(events)) = LineOf(Finished(summarize(reports)))
      BY <2>6, <3>1
    <3> QED
      BY <3>1, <3>2, <3>3, SummaryCountsChecks
  <2> QED
    BY <2>4, <2>5, <2>7, <2>8 DEF BarCountsReports
<1> QED
  BY <1>1, <1>2, <1>3, InvInit, ListInit, EventInit, InvStep, ListStep, EventStep, BarStep, PTL
     DEF DSpec

=============================================================================
