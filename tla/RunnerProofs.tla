------------------------------ MODULE RunnerProofs ------------------------------
(***************************************************************************)
(* Proofs about Runner, for any workspace, any set of inputs and whatever  *)
(* the engine answers.                                                     *)
(***************************************************************************)
EXTENDS Runner, SequenceTheorems, WellFoundedInduction, TLAPS

(***************************************************************************)
(* Classification                                                          *)
(***************************************************************************)

\* A nonempty set of naturals has a least element, and Min is that element.
LEMMA MinIsLeast ==
  ASSUME NEW S \in SUBSET Nat, S # {}
  PROVE  Min(S) \in S /\ \A y \in S : Min(S) <= y
<1>1. \E x \in S : \A y \in S : <<y, x>> \notin OpToRel(<, Nat)
  BY NatLessThanWellFounded, WFMin
<1>2. PICK x \in S : \A y \in S : <<y, x>> \notin OpToRel(<, Nat)
  BY <1>1
<1>3. \A y \in S : ~(y < x)
  BY <1>2, Zenon DEF OpToRel
<1>4. \A y \in S : x <= y
  BY <1>3
<1> QED
  BY <1>4, Zenon DEF Min

\* The first rule that holds is one of the rules: it decides, or none does.
LEMMA FirstOfDecides ==
  ASSUME NEW n \in Nat, NEW rules, DOMAIN rules = 1..n
  PROVE  \/ FirstOf(rules) = None
         \/ \E i \in 1..n : FirstOf(rules) = rules[i][2]
<1> DEFINE holding == { i \in DOMAIN rules : rules[i][1] }
<1>1. CASE holding = {}
  BY <1>1 DEF FirstOf
<1>2. CASE holding # {}
  <2>1. holding \in SUBSET Nat
    OBVIOUS
  <2>2. Min(holding) \in holding
    BY <1>2, <2>1, MinIsLeast
  <2> QED
    BY <1>2, <2>2 DEF FirstOf
<1> QED
  BY <1>1, <1>2

\* infer's four rules decide for one of their levels, or for none.
LEMMA FourRules ==
  ASSUME NEW T, NEW v1 \in T, NEW v2 \in T, NEW v3 \in T, NEW v4 \in T,
         NEW b1, NEW b2, NEW b3, NEW b4
  PROVE  FirstOf(<< <<b1, v1>>, <<b2, v2>>, <<b3, v3>>, <<b4, v4>> >>) \in T \cup {None}
<1> DEFINE rules == << <<b1, v1>>, <<b2, v2>>, <<b3, v3>>, <<b4, v4>> >>
<1>1. DOMAIN rules = 1..4
  OBVIOUS
<1>2. \A i \in 1..4 : rules[i][2] \in T
  OBVIOUS
<1> HIDE DEF rules
<1>3. FirstOf(rules) \in T \cup {None}
  BY <1>1, <1>2, FirstOfDecides
<1> QED
  BY <1>3 DEF rules

\* The same of detect_baseline_error_from_message's seven rules.
LEMMA SevenRules ==
  ASSUME NEW T, NEW v1 \in T, NEW v2 \in T, NEW v3 \in T, NEW v4 \in T,
         NEW v5 \in T, NEW v6 \in T, NEW v7 \in T,
         NEW b1, NEW b2, NEW b3, NEW b4, NEW b5, NEW b6, NEW b7
  PROVE  FirstOf(<< <<b1, v1>>, <<b2, v2>>, <<b3, v3>>, <<b4, v4>>,
                    <<b5, v5>>, <<b6, v6>>, <<b7, v7>> >>) \in T \cup {None}
<1> DEFINE rules == << <<b1, v1>>, <<b2, v2>>, <<b3, v3>>, <<b4, v4>>,
                       <<b5, v5>>, <<b6, v6>>, <<b7, v7>> >>
<1>1. DOMAIN rules = 1..7
  OBVIOUS
<1>2. \A i \in 1..7 : rules[i][2] \in T
  OBVIOUS
<1> HIDE DEF rules
<1>3. FirstOf(rules) \in T \cup {None}
  BY <1>1, <1>2, FirstOfDecides
<1> QED
  BY <1>3 DEF rules

\* RequiredBump::infer answers with a bump or none, whatever the text says.
LEMMA InferType ==
  ASSUME NEW text
  PROVE  infer(text) \in RequiredBump \cup {None}
<1> DEFINE asks(level) == {level, "bump", "required"} \subseteq text
           b1 == asks("major")
           b2 == asks("minor")
           b3 == asks("patch")
           b4 == "bump required" \in text
           bump == FirstOf(<< <<b1, "Major">>, <<b2, "Minor">>,
                              <<b3, "Patch">>, <<b4, "Unknown">> >>)
<1>1. infer(text) = bump
  BY Zenon DEF infer
<1>2. /\ "Major" \in RequiredBump /\ "Minor" \in RequiredBump
      /\ "Patch" \in RequiredBump /\ "Unknown" \in RequiredBump
  BY DEF RequiredBump
<1> HIDE DEF b1, b2, b3, b4
<1>3. bump \in RequiredBump \cup {None}
  BY <1>2, FourRules, Zenon
<1> QED
  BY <1>1, <1>3, Zenon

\* detect_baseline_error_from_message answers with a cause or none, whatever
\* the text says.
LEMMA CauseType ==
  ASSUME NEW text
  PROVE  detect_baseline_error_from_message(text) \in BaselineErrorCause \cup {None}
<1> DEFINE any(words) == text \cap words # {}
           all(words) == words \subseteq text
           b1 == any({"shallow"})
           b2 == \/ any({"unknown revision", "bad revision", "unknown ref"})
                 \/ all({"revision", "not found"})
           b3 == /\ any({"crate", "package"})
                 /\ any({"not found", "does not exist", "missing"})
                 /\ any({"baseline"})
           b4 == any({"merge base", "merge-base"})
           b5 == any({"rustdoc"}) /\ any({"failed", "error"})
           b6 == any({"crates.io", "registry", "not published", "never published"})
           b7 == any({"baseline"}) /\ any({"not found", "missing", "error", "failed"})
           verdict == FirstOf(<< <<b1, "ShallowClone">>, <<b2, "RevisionNotFound">>,
             <<b3, "CrateAbsentFromBaseline">>, <<b4, "MergeBaseNotFound">>,
             <<b5, "RustdocGenerationFailed">>, <<b6, "NotPublished">>, <<b7, "Other">> >>)
<1>1. \/ detect_baseline_error_from_message(text) = None
      \/ detect_baseline_error_from_message(text) = verdict
  BY Zenon DEF detect_baseline_error_from_message
<1>2. /\ "ShallowClone" \in BaselineErrorCause /\ "RevisionNotFound" \in BaselineErrorCause
      /\ "CrateAbsentFromBaseline" \in BaselineErrorCause
      /\ "MergeBaseNotFound" \in BaselineErrorCause
      /\ "RustdocGenerationFailed" \in BaselineErrorCause
      /\ "NotPublished" \in BaselineErrorCause /\ "Other" \in BaselineErrorCause
  BY DEF BaselineErrorCause
<1> HIDE DEF b1, b2, b3, b4, b5, b6, b7
<1>3. verdict \in BaselineErrorCause \cup {None}
  BY <1>2, SevenRules, Zenon
<1> HIDE DEF verdict
<1> QED
  BY <1>1, <1>3

\* A report of a check has its type, whatever the engine answered, and says
\* why exactly when the check failed.
LEMMA CheckedType ==
  ASSUME NEW p \in Pkg, NEW answer \in Answer
  PROVE  LET r == checked(p, answer)
         IN  /\ r \in Report /\ r.name = p
             /\ r.status = IF Success(answer) THEN "Passed" ELSE "Failed"
             /\ r.failure_kind # None <=> r.status = "Failed"
             /\ r.baseline_error # None <=> r.failure_kind = "BaselineError"
<1> DEFINE c == Classified(answer)
<1>1. /\ answer.ran \in BOOLEAN /\ Success(answer) \in BOOLEAN
  BY DEF Answer, Success
<1>2. required_bump(answer) \in RequiredBump \cup {None}
  BY InferType DEF required_bump
<1>3. /\ c.kind \in FailureKind \cup {None}
      /\ c.cause \in BaselineErrorCause \cup {None}
      /\ c.kind = None <=> Success(answer)
      /\ c.cause # None <=> c.kind = "BaselineError"
  <2>1. CASE Success(answer)
    BY <2>1 DEF Classified, simple, None
  <2>2. CASE ~Success(answer) /\ answer.ran
    BY <2>2, CauseType DEF Classified, classify_output_detailed, simple, baseline,
       None, FailureKind, BaselineErrorCause
  <2>3. CASE ~Success(answer) /\ ~answer.ran
    BY <2>3, CauseType DEF Classified, classify_engine_error_detailed, simple, baseline,
       None, FailureKind, BaselineErrorCause
  <2> QED
    BY <1>1, <2>1, <2>2, <2>3
<1> DEFINE bump == required_bump(answer)
           status == IF Success(answer) THEN "Passed" ELSE "Failed"
           reason == IF answer.ran THEN None ELSE "engine invocation failed"
<1>4. checked(p, answer) =
        [name |-> p, status |-> status, skip_reason |-> reason, engine |-> answer.ran,
         bump |-> bump, failure_kind |-> c.kind, baseline_error |-> c.cause]
  BY DEF checked
<1>5. /\ status \in Status
      /\ reason \in {None, "engine invocation failed"}
      /\ status = "Failed" <=> ~Success(answer)
  BY <1>1 DEF Status
<1>6. status = IF Success(answer) THEN "Passed" ELSE "Failed"
  OBVIOUS
<1>7. bump \in RequiredBump \cup {None}
  BY <1>2
<1> DEFINE kind == c.kind
           cause == c.cause
<1>8. /\ kind \in FailureKind \cup {None}
      /\ cause \in BaselineErrorCause \cup {None}
      /\ kind # None <=> status = "Failed"
      /\ cause # None <=> kind = "BaselineError"
  BY <1>3, <1>5
<1> HIDE DEF c, bump, status, reason, kind, cause
<1> DEFINE r == [name |-> p, status |-> status, skip_reason |-> reason,
                 engine |-> answer.ran, bump |-> bump,
                 failure_kind |-> kind, baseline_error |-> cause]
<1>9. checked(p, answer) = r
  BY <1>4 DEF kind, cause
<1>10. r \in Report
  BY <1>1, <1>5, <1>7, <1>8 DEF Report
<1>11. /\ r.name = p /\ r.status = status
       /\ r.failure_kind = kind /\ r.baseline_error = cause
  OBVIOUS
<1> HIDE DEF r
<1> QED
  BY <1>6, <1>8, <1>9, <1>10, <1>11

(***************************************************************************)
(* Reports and the actions that push them                                  *)
(***************************************************************************)
\* The report of a skip in passes 1 and 2 has its type and no failure kind.
LEMMA SkippedType ==
  ASSUME NEW p \in Pkg,
         NEW reason \in {"filtered by include/exclude patterns", "publish = false",
                         "no library target", "unchanged"}
  PROVE  /\ skipped(p, reason) \in Report
         /\ skipped(p, reason).name = p
         /\ skipped(p, reason).status = "Skipped"
         /\ skipped(p, reason).failure_kind = None
         /\ skipped(p, reason).baseline_error = None
BY DEF skipped, Report, Status, None

\* Pass 1 skips for one of three reasons.
LEMMA StaticSkipType ==
  ASSUME NEW p, StaticSkip(p) # None
  PROVE  StaticSkip(p) \in {"filtered by include/exclude patterns", "publish = false",
                            "no library target"}
BY DEF StaticSkip

\* What pushing a report does to the list of reports.
LEMMA Push ==
  ASSUME reports \in Seq(Report), NEW r \in Report, reports' = Append(reports, r)
  PROVE  /\ reports' \in Seq(Report) /\ reports' # <<>>
         /\ Len(reports') = Len(reports) + 1
         /\ DOMAIN reports = 1..Len(reports)
         /\ DOMAIN reports' = 1..(Len(reports) + 1)
         /\ \A i \in DOMAIN reports : reports'[i] = reports[i]
         /\ reports'[Len(reports) + 1] = r
         /\ Last(reports') = r
         /\ Reported' = Reported \cup {r.name}
<1>1. /\ reports' \in Seq(Report) /\ reports' # <<>>
      /\ Len(reports') = Len(reports) + 1
      /\ \A i \in 1..Len(reports) : reports'[i] = reports[i]
      /\ reports'[Len(reports) + 1] = r
  BY AppendProperties
<1>2. /\ DOMAIN reports = 1..Len(reports)
      /\ DOMAIN reports' = 1..(Len(reports) + 1)
      /\ Len(reports) \in Nat
  BY <1>1
<1>3. Last(reports') = r
  BY <1>1 DEF Last
<1>4. Reported' = Reported \cup {r.name}
  BY <1>1, <1>2 DEF Reported
<1> QED
  BY <1>1, <1>2, <1>3, <1>4

\* The engine is asked about a package of the workspace.
Asking == pc = "running" => next <= Len(scoped)

\* Every step of run() keeps the types: each of its cases pushes a report that
\* has its type, or none.
LEMMA TypeStep ==
  TypeOK /\ Asking /\ [Next]_vars => TypeOK'
<1> SUFFICES ASSUME TypeOK, Asking, [Next]_vars
             PROVE  TypeOK'
  OBVIOUS
<1> USE NAssumption
<1> DEFINE Coherent(r) ==
             /\ r.failure_kind # None <=> r.status = "Failed"
             /\ r.baseline_error # None <=> r.failure_kind = "BaselineError"
<1>1. ASSUME NEW r \in Report, Coherent(r), reports' = Append(reports, r)
      PROVE  /\ reports' \in Seq(Report)
             /\ \A i \in DOMAIN reports' : Coherent(reports'[i])
  <2>1. reports \in Seq(Report) /\ \A i \in DOMAIN reports : Coherent(reports[i])
    BY DEF TypeOK
  <2> HIDE DEF Coherent
  <2> QED
    BY <1>1, <2>1, Push
<1>2. CASE Load
  BY <1>2 DEF TypeOK, Load, Fail, Pass1Error
<1>3. CASE FilterPackage
  <2>1. next \in Pkg /\ next' \in Nat \ {0}
    BY <1>3 DEF TypeOK, FilterPackage, Pkg
  <2>2. CASE UNCHANGED <<eligible, reports>>
    BY <1>3, <2>1, <2>2 DEF TypeOK, FilterPackage
  <2>3. CASE StaticSkip(next) # None /\ UNCHANGED eligible
             /\ reports' = Append(reports, skipped(next, StaticSkip(next)))
    <3> DEFINE reason == StaticSkip(next)
    <3>1. reason \in {"filtered by include/exclude patterns", "publish = false",
                      "no library target", "unchanged"}
      BY <2>3, StaticSkipType
    <3> HIDE DEF reason
    <3>2. /\ skipped(next, reason) \in Report
          /\ skipped(next, reason).status = "Skipped"
          /\ skipped(next, reason).failure_kind = None
          /\ skipped(next, reason).baseline_error = None
      BY <2>1, <3>1, SkippedType, Zenon
    <3>3. Coherent(skipped(next, reason))
      BY <3>2 DEF None
    <3>4. /\ reports' \in Seq(Report)
          /\ \A i \in DOMAIN reports' : Coherent(reports'[i])
      BY <1>1, <2>3, <3>2, <3>3 DEF reason
    <3> QED
      BY <1>3, <2>1, <2>3, <3>4 DEF TypeOK, FilterPackage
  <2>4. CASE eligible' = Append(eligible, next) /\ UNCHANGED reports
    BY <1>3, <2>1, <2>4 DEF TypeOK, FilterPackage
  <2> QED
    BY <1>3, <2>2, <2>3, <2>4 DEF FilterPackage
<1>4. CASE EnterScope
  BY <1>4 DEF TypeOK, EnterScope, Fail, Pass2Error
<1>5. CASE ScopePackage
  <2>1. eligible[next] \in Pkg /\ next' \in Nat \ {0}
    BY <1>5 DEF TypeOK, ScopePackage
  <2>2. CASE scoped' = Append(scoped, eligible[next]) /\ UNCHANGED reports
    BY <1>5, <2>1, <2>2 DEF TypeOK, ScopePackage
  <2>3. CASE reports' = Append(reports, skipped(eligible[next], "unchanged"))
             /\ UNCHANGED scoped
    <3>1. skipped(eligible[next], "unchanged") \in Report
          /\ Coherent(skipped(eligible[next], "unchanged"))
      BY <2>1, SkippedType DEF None
    <3>2. /\ reports' \in Seq(Report)
          /\ \A i \in DOMAIN reports' : Coherent(reports'[i])
      BY <1>1, <2>3, <3>1
    <3> QED
      BY <1>5, <2>1, <2>3, <3>2 DEF TypeOK, ScopePackage
  <2> QED
    BY <1>5, <2>2, <2>3 DEF ScopePackage
<1>6. CASE EnterCheck
  BY <1>6 DEF TypeOK, EnterCheck
<1>7. CASE StartCheck
  BY <1>7 DEF TypeOK, StartCheck
<1>8. ASSUME NEW answer \in Answers, CompleteCheck(answer)
      PROVE  TypeOK'
  <2>1. scoped[next] \in Pkg /\ next' \in Nat \ {0}
    BY <1>8 DEF TypeOK, CompleteCheck, Asking
  <2>2. checked(scoped[next], answer) \in Report /\ Coherent(checked(scoped[next], answer))
    BY <2>1, CheckedType, AnswersAssumption
  <2>3. reports' = Append(reports, checked(scoped[next], answer))
    BY <1>8 DEF CompleteCheck
  <2>4. /\ reports' \in Seq(Report)
        /\ \A i \in DOMAIN reports' : Coherent(reports'[i])
    BY <1>1, <2>2, <2>3
  <2> QED
    BY <1>8, <2>1, <2>4 DEF TypeOK, CompleteCheck
<1>9. CASE Finish
  BY <1>9 DEF TypeOK, Finish
<1>10. CASE UNCHANGED vars
  BY <1>10 DEF TypeOK, vars
<1> QED
  BY <1>2, <1>3, <1>4, <1>5, <1>6, <1>7, <1>8, <1>9, <1>10 DEF Next

(***************************************************************************)
(* The loops                                                               *)
(***************************************************************************)
\* What appending a package to a list of packages does to its elements.
LEMMA AppendOne ==
  ASSUME NEW s \in Seq(Pkg), NEW p \in Pkg
  PROVE  /\ Append(s, p) \in Seq(Pkg)
         /\ DOMAIN s = 1..Len(s) /\ Len(s) \in Nat
         /\ DOMAIN Append(s, p) = 1..(Len(s) + 1)
         /\ \A i \in DOMAIN s : Append(s, p)[i] = s[i]
         /\ Append(s, p)[Len(s) + 1] = p
         /\ Elements(Append(s, p)) = Elements(s) \cup {p}
<1>1. /\ Append(s, p) \in Seq(Pkg)
      /\ Len(Append(s, p)) = Len(s) + 1
      /\ \A i \in 1..Len(s) : Append(s, p)[i] = s[i]
      /\ Append(s, p)[Len(s) + 1] = p
  BY AppendProperties
<1>2. /\ DOMAIN s = 1..Len(s) /\ Len(s) \in Nat
      /\ DOMAIN Append(s, p) = 1..(Len(s) + 1)
  BY <1>1
<1>3. Elements(Append(s, p)) = Elements(s) \cup {p}
  BY <1>1, <1>2 DEF Elements
<1> QED
  BY <1>1, <1>2, <1>3

\* A list in workspace order stays so when a later package is appended.
LEMMA AppendIncreasing ==
  ASSUME NEW s \in Seq(Pkg), NEW p \in Pkg, Increasing(s),
         \A i \in DOMAIN s : s[i] < p
  PROVE  Increasing(Append(s, p))
BY AppendOne, NAssumption DEF Increasing, Pkg

\* The loop index takes one package at a time off the rest of a list.
LEMMA TakeOne ==
  ASSUME NEW s \in Seq(Pkg), NEW k \in 1..Len(s), Increasing(s)
  PROVE  /\ From(s, k) = {s[k]} \cup From(s, k + 1)
         /\ s[k] \notin From(s, k + 1)
         /\ \A q \in From(s, k + 1) : q > s[k]
<1>1. Len(s) \in Nat /\ DOMAIN s = 1..Len(s) /\ \A i \in 1..Len(s) : s[i] \in Nat
  BY NAssumption DEF Pkg
<1>2. \A q \in From(s, k + 1) : q > s[k]
  BY <1>1 DEF From, Increasing
<1>3. s[k] \notin From(s, k + 1)
  BY <1>1, <1>2
<1>4. k..Len(s) = {k} \cup (k + 1)..Len(s)
  BY <1>1
<1>5. From(s, k) = {s[k]} \cup From(s, k + 1)
  BY <1>4 DEF From
<1> QED
  BY <1>2, <1>3, <1>5

\* Every step of run() keeps the loop indexes in bounds and the lists in order.
LEMMA LoopsStep ==
  TypeOK /\ LoopsInOrder /\ [Next]_vars => LoopsInOrder'
<1> SUFFICES ASSUME TypeOK, LoopsInOrder, [Next]_vars
             PROVE  LoopsInOrder'
  OBVIOUS
<1> USE NAssumption
<1>1. CASE Load
  BY <1>1 DEF TypeOK, LoopsInOrder, Load, Fail, Increasing
<1>2. CASE FilterPackage
  <2>1. /\ next \in Pkg /\ next \in Nat /\ next' = next + 1 /\ next' <= N + 1
        /\ pc = "filter" /\ pc' = pc /\ scoped' = scoped /\ scoped = <<>>
        /\ eligible \in Seq(Pkg) /\ Increasing(eligible) /\ Increasing(scoped)
        /\ \A i \in DOMAIN eligible : eligible[i] < next
    BY <1>2 DEF TypeOK, LoopsInOrder, FilterPackage, Pkg
  <2>2. \/ eligible' = eligible
        \/ eligible' = Append(eligible, next)
    BY <1>2 DEF FilterPackage
  <2>3. Increasing(eligible')
    BY <2>1, <2>2, AppendIncreasing
  <2>4. \A i \in DOMAIN eligible' : eligible'[i] < next'
    <3>1. CASE eligible' = eligible
      BY <2>1, <3>1 DEF Pkg
    <3>2. CASE eligible' = Append(eligible, next)
      BY <2>1, <3>2, AppendOne DEF Pkg
    <3> QED
      BY <2>2, <3>1, <3>2
  <2> QED
    BY <2>1, <2>3, <2>4 DEF LoopsInOrder, Increasing
<1>3. CASE EnterScope
  BY <1>3 DEF TypeOK, LoopsInOrder, EnterScope, Fail, Increasing
<1>4. CASE ScopePackage
  <2>1. /\ next \in 1..Len(eligible) /\ next' = next + 1
        /\ pc = "scope" /\ pc' = pc /\ eligible' = eligible
        /\ eligible \in Seq(Pkg) /\ scoped \in Seq(Pkg)
        /\ eligible[next] \in Pkg
        /\ Increasing(eligible) /\ Increasing(scoped)
        /\ \A i \in DOMAIN scoped, k \in next..Len(eligible) : scoped[i] < eligible[k]
    BY <1>4 DEF TypeOK, LoopsInOrder, ScopePackage
  <2>2. CASE scoped' = scoped
    BY <2>1, <2>2 DEF LoopsInOrder, Increasing
  <2>3. CASE scoped' = Append(scoped, eligible[next])
    <3>1. \A i \in DOMAIN scoped : scoped[i] < eligible[next]
      BY <2>1
    <3>2. Increasing(scoped')
      BY <2>1, <2>3, <3>1, AppendIncreasing
    <3>3. \A k \in next'..Len(eligible) : eligible[next] < eligible[k]
      BY <2>1 DEF Increasing
    <3>4. \A i \in DOMAIN scoped', k \in next'..Len(eligible) : scoped'[i] < eligible[k]
      <4>1. /\ DOMAIN scoped = 1..Len(scoped) /\ Len(scoped) \in Nat
            /\ DOMAIN scoped' = 1..(Len(scoped) + 1)
            /\ \A i \in DOMAIN scoped : scoped'[i] = scoped[i]
            /\ scoped'[Len(scoped) + 1] = eligible[next]
        BY <2>1, <2>3, AppendOne
      <4> QED
        BY <2>1, <3>3, <4>1
    <3> QED
      BY <2>1, <3>2, <3>4 DEF LoopsInOrder, Increasing
  <2> QED
    BY <1>4, <2>2, <2>3 DEF ScopePackage
<1>5. CASE EnterCheck
  BY <1>5 DEF TypeOK, LoopsInOrder, EnterCheck, Increasing
<1>6. CASE StartCheck
  BY <1>6 DEF TypeOK, LoopsInOrder, StartCheck, Increasing
<1>7. ASSUME NEW answer \in Answers, CompleteCheck(answer)
      PROVE  LoopsInOrder'
  BY <1>7 DEF TypeOK, LoopsInOrder, CompleteCheck, Increasing
<1>8. CASE Finish
  BY <1>8 DEF TypeOK, LoopsInOrder, Finish, Increasing
<1>9. CASE UNCHANGED vars
  BY <1>9 DEF TypeOK, LoopsInOrder, Increasing, vars
<1> QED
  BY <1>1, <1>2, <1>3, <1>4, <1>5, <1>6, <1>7, <1>8, <1>9 DEF Next

(***************************************************************************)
(* Every selected package is reported or open                              *)
(***************************************************************************)
\* No step of run() changes what it was started with, so neither the packages
\* that are selected.
LEMMA InputIsFixed ==
  ASSUME [Next]_vars
  PROVE  input' = input /\ Selected' = Selected
<1>1. input' = input
  BY DEF Next, vars, Load, Fail, FilterPackage, EnterScope, ScopePackage, EnterCheck,
     StartCheck, CompleteCheck, Finish
<1> QED
  BY <1>1 DEF Selected, Ignored, Explicit, config

\* Pushing the report of an open package keeps the names apart.
LEMMA PushOnce ==
  ASSUME reports \in Seq(Report), NEW r \in Report, reports' = Append(reports, r),
         ReportedOnce, r.name \notin Reported
  PROVE  ReportedOnce'
<1>1. /\ Len(reports) \in Nat
      /\ DOMAIN reports = 1..Len(reports)
      /\ DOMAIN reports' = 1..(Len(reports) + 1)
      /\ \A i \in DOMAIN reports : reports'[i] = reports[i]
      /\ reports'[Len(reports) + 1] = r
  BY Push
<1>2. \A i \in DOMAIN reports : reports[i].name # r.name
  BY DEF Reported
<1> QED
  BY <1>1, <1>2 DEF ReportedOnce

\* Every step of run() keeps the selected packages divided into the reported
\* and the open ones, and the reports' names apart.
LEMMA SettleStep ==
  TypeOK /\ LoopsInOrder /\ Partition /\ ReportedOnce /\ [Next]_vars
    => Partition' /\ ReportedOnce'
<1> SUFFICES ASSUME TypeOK, LoopsInOrder, Partition, ReportedOnce, [Next]_vars
             PROVE  Partition' /\ ReportedOnce'
  OBVIOUS
<1> USE NAssumption
<1>0. input' = input /\ Selected' = Selected
  BY InputIsFixed
<1>1. ASSUME UNCHANGED reports
      PROVE  Reported' = Reported /\ ReportedOnce'
  BY <1>1 DEF Reported, ReportedOnce
<1>2. CASE Load
  <2>1. Reported' = Reported /\ ReportedOnce'
    BY <1>1, <1>2 DEF Load, Fail
  <2>2. pc' = "failed" \/ (pc \in {"load", "filter"} /\ pc' = "filter" /\ Open' = Open)
    BY <1>0, <1>2 DEF Load, Fail, Open, Elements
  <2> QED
    BY <1>0, <2>1, <2>2 DEF Partition
<1>3. CASE FilterPackage
  <2>1. /\ pc = "filter" /\ pc' = "filter"
        /\ next \in Pkg /\ next \in Nat /\ next' = next + 1
        /\ eligible \in Seq(Pkg) /\ reports \in Seq(Report)
        /\ \A i \in DOMAIN eligible : eligible[i] < next
        /\ Selected \subseteq Pkg
    BY <1>3 DEF TypeOK, LoopsInOrder, FilterPackage, Pkg, Selected
  <2>2. /\ Open = Elements(eligible) \cup { p \in Selected : p >= next }
        /\ Open' = Elements(eligible') \cup { p \in Selected : p >= next + 1 }
        /\ Reported \cap Open = {} /\ Reported \cup Open = Selected
    BY <1>0, <2>1 DEF Open, Partition, Elements
  <2>3. next \notin Elements(eligible)
    BY <2>1 DEF Elements, Pkg
  <2>4. CASE Ignored(next)
    <3>1. /\ UNCHANGED <<eligible, reports>>
          /\ { p \in Selected : p >= next } = { p \in Selected : p >= next + 1 }
      BY <1>3, <2>1, <2>4 DEF FilterPackage, Selected, Pkg
    <3> QED
      BY <1>0, <1>1, <2>2, <3>1 DEF Partition, Elements
  <2>5. CASE ~Ignored(next)
    <3>1. /\ next \in Selected
          /\ { p \in Selected : p >= next } = {next} \cup { p \in Selected : p >= next + 1 }
          /\ next \notin { p \in Selected : p >= next + 1 }
      BY <2>1, <2>5 DEF Selected, Pkg
    <3>2. next \notin Reported
      BY <2>2, <3>1
    <3>3. CASE StaticSkip(next) # None
      <4> DEFINE reason == StaticSkip(next)
                 r == skipped(next, reason)
      <4>1. reason \in {"filtered by include/exclude patterns", "publish = false",
                        "no library target", "unchanged"}
        BY <3>3, StaticSkipType
      <4>2. UNCHANGED eligible /\ reports' = Append(reports, r)
        BY <1>3, <2>5, <3>3 DEF FilterPackage
      <4> HIDE DEF reason
      <4>3. r \in Report /\ r.name = next
        BY <2>1, <4>1, SkippedType, Zenon
      <4> HIDE DEF r
      <4>4. Reported' = Reported \cup {next} /\ ReportedOnce'
        BY <2>1, <3>2, <4>2, <4>3, Push, PushOnce
      <4>5. Elements(eligible') = Elements(eligible)
        BY <4>2
      <4> QED
        BY <1>0, <2>2, <2>3, <3>1, <4>4, <4>5 DEF Partition
    <3>4. CASE StaticSkip(next) = None
      <4>1. eligible' = Append(eligible, next) /\ UNCHANGED reports
        BY <1>3, <2>5, <3>4 DEF FilterPackage
      <4>2. Elements(eligible') = Elements(eligible) \cup {next}
        BY <2>1, <4>1, AppendOne
      <4> QED
        BY <1>0, <1>1, <2>2, <3>1, <3>2, <4>1, <4>2 DEF Partition
    <3> QED
      BY <3>3, <3>4
  <2> QED
    BY <2>4, <2>5
<1>4. CASE EnterScope
  <2>1. Reported' = Reported /\ ReportedOnce'
    BY <1>1, <1>4 DEF EnterScope, Fail
  <2>2. CASE pc' = "failed"
    BY <2>1, <2>2 DEF Partition
  <2>3. CASE pc' # "failed"
    <3>1. /\ pc = "filter" /\ next > N /\ pc' = "scope" /\ next' = 1
          /\ eligible' = eligible /\ scoped' = scoped /\ scoped = <<>>
          /\ eligible \in Seq(Pkg) /\ next \in Nat
      BY <1>4, <2>3 DEF EnterScope, Fail, TypeOK, LoopsInOrder
    <3>2. { p \in Selected : p >= next } = {}
      BY <3>1 DEF Selected, Pkg
    <3>3. Open = Elements(eligible)
      BY <3>1, <3>2 DEF Open
    <3>4. Open' = Elements(eligible)
      BY <3>1 DEF Open, Elements, From
    <3> QED
      BY <1>0, <2>1, <3>1, <3>3, <3>4 DEF Partition
  <2> QED
    BY <2>2, <2>3
<1>5. CASE ScopePackage
  <2> DEFINE p == eligible[next]
  <2>1. /\ pc = "scope" /\ pc' = "scope"
        /\ next \in 1..Len(eligible) /\ next' = next + 1
        /\ eligible \in Seq(Pkg) /\ eligible' = eligible /\ Len(eligible) \in Nat
        /\ scoped \in Seq(Pkg) /\ reports \in Seq(Report)
        /\ p \in Pkg /\ Increasing(eligible)
        /\ \A i \in DOMAIN scoped : scoped[i] < p
    BY <1>5 DEF TypeOK, LoopsInOrder, ScopePackage
  <2>2. /\ Open = Elements(scoped) \cup From(eligible, next)
        /\ Open' = Elements(scoped') \cup From(eligible, next + 1)
        /\ Reported \cap Open = {} /\ Reported \cup Open = Selected
    BY <2>1 DEF Open, Partition, Elements, From
  <2>3. p \notin Elements(scoped)
    BY <2>1 DEF Elements, Pkg
  <2>4. /\ From(eligible, next) = {p} \cup From(eligible, next + 1)
        /\ p \notin From(eligible, next + 1)
    BY <2>1, TakeOne
  <2>5. CASE scoped' = Append(scoped, p) /\ UNCHANGED reports
    <3>1. Elements(scoped') = Elements(scoped) \cup {p}
      BY <2>1, <2>5, AppendOne
    <3> QED
      BY <1>0, <1>1, <2>2, <2>4, <2>5, <3>1 DEF Partition
  <2>6. CASE reports' = Append(reports, skipped(p, "unchanged")) /\ UNCHANGED scoped
    <3>1. skipped(p, "unchanged") \in Report /\ skipped(p, "unchanged").name = p
      BY <2>1, SkippedType
    <3>2. p \notin Reported
      BY <2>2, <2>4
    <3> HIDE DEF p
    <3>3. Reported' = Reported \cup {p} /\ ReportedOnce'
      BY <2>1, <2>6, <3>1, <3>2, Push, PushOnce
    <3>4. Elements(scoped') = Elements(scoped)
      BY <2>6
    <3> QED
      BY <1>0, <2>2, <2>3, <2>4, <3>3, <3>4 DEF Partition
  <2> QED
    BY <1>5, <2>5, <2>6 DEF ScopePackage
<1>6. CASE EnterCheck
  <2>1. Reported' = Reported /\ ReportedOnce'
    BY <1>1, <1>6 DEF EnterCheck
  <2>2. /\ pc = "scope" /\ pc' = "check" /\ next > Len(eligible) /\ next' = 1
        /\ eligible \in Seq(Pkg) /\ next \in Nat
        /\ scoped' = scoped /\ scoped \in Seq(Pkg)
    BY <1>6 DEF EnterCheck, TypeOK
  <2>3. From(eligible, next) = {} /\ From(scoped, 1) = Elements(scoped)
    BY <2>2 DEF From, Elements
  <2>4. Open = Elements(scoped) /\ Open' = Elements(scoped)
    BY <2>2, <2>3 DEF Open, From
  <2> QED
    BY <1>0, <2>1, <2>2, <2>4 DEF Partition
<1>7. CASE StartCheck
  BY <1>0, <1>1, <1>7 DEF StartCheck, Partition, Open, From
<1>8. ASSUME NEW answer \in Answers, CompleteCheck(answer)
      PROVE  Partition' /\ ReportedOnce'
  <2> DEFINE p == scoped[next]
             r == checked(p, answer)
  <2>1. /\ pc = "running" /\ pc' \in {"check", "finish"}
        /\ next \in 1..Len(scoped) /\ next' = next + 1
        /\ scoped \in Seq(Pkg) /\ scoped' = scoped /\ Len(scoped) \in Nat
        /\ reports \in Seq(Report) /\ reports' = Append(reports, r)
        /\ p \in Pkg /\ Increasing(scoped)
    BY <1>8 DEF TypeOK, LoopsInOrder, CompleteCheck
  <2> HIDE DEF r
  <2>2. /\ Open = From(scoped, next) /\ Open' = From(scoped, next + 1)
        /\ Reported \cap Open = {} /\ Reported \cup Open = Selected
    BY <2>1 DEF Open, Partition, From
  <2>3. /\ From(scoped, next) = {p} \cup From(scoped, next + 1)
        /\ p \notin From(scoped, next + 1)
    BY <2>1, TakeOne
  <2>4. r \in Report /\ r.name = p
    BY <2>1, CheckedType, AnswersAssumption DEF r
  <2> HIDE DEF p
  <2>5. Reported' = Reported \cup {p} /\ ReportedOnce'
    BY <2>1, <2>2, <2>3, <2>4, Push, PushOnce
  <2> QED
    BY <1>0, <2>2, <2>3, <2>5 DEF Partition
<1>9. CASE Finish
  <2>1. Reported' = Reported /\ ReportedOnce'
    BY <1>1, <1>9 DEF Finish
  <2>2. /\ pc \in {"check", "finish"} /\ pc' = "done"
        /\ scoped' = scoped /\ next' = next
    BY <1>9 DEF Finish
  <2>3. Open' = Open
    BY <2>2 DEF Open, From
  <2> QED
    BY <1>0, <2>1, <2>2, <2>3 DEF Partition
<1>10. CASE UNCHANGED vars
  <2>1. Reported' = Reported /\ ReportedOnce' /\ Open' = Open /\ pc' = pc
    BY <1>0, <1>1, <1>10 DEF vars, Open, Elements, From
  <2> QED
    BY <1>0, <2>1 DEF Partition
<1> QED
  BY <1>2, <1>3, <1>4, <1>5, <1>6, <1>7, <1>8, <1>9, <1>10 DEF Next

(***************************************************************************)
(* Failures                                                                *)
(***************************************************************************)
\* Every step of run() keeps a failure the last report of a fail-fast run, and
\* breaks pass 3's loop on nothing else.
LEMMA FailuresStep ==
  TypeOK /\ LoopsInOrder /\ FailFastStops /\ FailuresEndTheRun /\ [Next]_vars
    => FailFastStops' /\ FailuresEndTheRun'
<1> SUFFICES ASSUME TypeOK, LoopsInOrder, FailFastStops, FailuresEndTheRun, [Next]_vars
             PROVE  FailFastStops' /\ FailuresEndTheRun'
  OBVIOUS
<1>0. config' = config
  BY InputIsFixed DEF config
<1>1. ASSUME UNCHANGED reports
      PROVE  FailFastStops'
  BY <1>0, <1>1 DEF FailFastStops
<1>2. ASSUME NEW r \in Report, reports' = Append(reports, r), r.status = "Skipped",
             pc \in {"load", "filter", "scope"}, pc' \in {"load", "filter", "scope"}
      PROVE  FailFastStops' /\ FailuresEndTheRun'
  <2>1. reports \in Seq(Report) /\ \A i \in DOMAIN reports : reports[i].status = "Skipped"
    BY <1>2 DEF TypeOK, FailuresEndTheRun
  <2>2. \A i \in DOMAIN reports' : reports'[i].status = "Skipped"
    BY <1>2, <2>1, Push
  <2> QED
    BY <1>2, <2>2 DEF FailFastStops, FailuresEndTheRun
<1>3. CASE Load
  BY <1>0, <1>1, <1>3 DEF Load, Fail, FailuresEndTheRun
<1>4. CASE FilterPackage
  <2>1. pc = "filter" /\ pc' = "filter" /\ next \in Pkg
    BY <1>4 DEF FilterPackage, TypeOK, Pkg
  <2>2. CASE UNCHANGED reports
    BY <1>0, <1>1, <2>1, <2>2 DEF FailuresEndTheRun
  <2>3. CASE StaticSkip(next) # None
             /\ reports' = Append(reports, skipped(next, StaticSkip(next)))
    <3> DEFINE reason == StaticSkip(next)
               r == skipped(next, reason)
    <3>1. reason \in {"filtered by include/exclude patterns", "publish = false",
                      "no library target", "unchanged"}
      BY <2>3, StaticSkipType
    <3> HIDE DEF reason
    <3>2. r \in Report /\ r.status = "Skipped"
      BY <2>1, <3>1, SkippedType, Zenon
    <3>3. reports' = Append(reports, r)
      BY <2>3 DEF reason
    <3> HIDE DEF r
    <3> QED
      BY <1>2, <2>1, <3>2, <3>3
  <2> QED
    BY <1>4, <2>2, <2>3 DEF FilterPackage
<1>5. CASE EnterScope
  BY <1>0, <1>1, <1>5 DEF EnterScope, Fail, FailuresEndTheRun
<1>6. CASE ScopePackage
  <2>1. pc = "scope" /\ pc' = "scope" /\ eligible[next] \in Pkg
    BY <1>6 DEF ScopePackage, TypeOK
  <2>2. CASE UNCHANGED reports
    BY <1>0, <1>1, <2>1, <2>2 DEF FailuresEndTheRun
  <2>3. CASE reports' = Append(reports, skipped(eligible[next], "unchanged"))
    BY <1>2, <2>1, <2>3, SkippedType
  <2> QED
    BY <1>6, <2>2, <2>3 DEF ScopePackage
<1>7. CASE EnterCheck
  BY <1>0, <1>1, <1>7 DEF EnterCheck, FailuresEndTheRun
<1>8. CASE StartCheck
  BY <1>0, <1>1, <1>8 DEF StartCheck, FailuresEndTheRun
<1>9. ASSUME NEW answer \in Answers, CompleteCheck(answer)
      PROVE  FailFastStops' /\ FailuresEndTheRun'
  <2> DEFINE r == checked(scoped[next], answer)
  <2>1. /\ pc = "running" /\ next \in 1..Len(scoped) /\ next' = next + 1
        /\ scoped \in Seq(Pkg) /\ scoped' = scoped /\ Increasing(scoped)
        /\ scoped[next] \in Pkg
        /\ reports \in Seq(Report) /\ reports' = Append(reports, r)
        /\ pc' = IF ~Success(answer) /\ config.fail_fast THEN "finish" ELSE "check"
    BY <1>9 DEF TypeOK, LoopsInOrder, CompleteCheck
  <2>2. /\ r \in Report /\ r.name = scoped[next]
        /\ r.status = IF Success(answer) THEN "Passed" ELSE "Failed"
    BY <2>1, CheckedType, AnswersAssumption
  <2> HIDE DEF r
  <2>3. /\ reports' # <<>> /\ Last(reports') = r
        /\ Len(reports) \in Nat /\ Len(reports') = Len(reports) + 1
        /\ DOMAIN reports = 1..Len(reports)
        /\ DOMAIN reports' = 1..(Len(reports) + 1)
        /\ \A i \in DOMAIN reports : reports'[i] = reports[i]
        /\ reports'[Len(reports) + 1] = r
    BY <2>1, <2>2, Push
  <2>4. config.fail_fast => \A i \in DOMAIN reports : reports[i].status # "Failed"
    BY <2>1 DEF FailuresEndTheRun
  <2>5. FailFastStops'
    BY <1>0, <2>3, <2>4 DEF FailFastStops
  <2>6. CASE ~Success(answer) /\ config.fail_fast
    <3>1. pc' = "finish" /\ r.status = "Failed"
      BY <2>1, <2>2, <2>6
    <3>2. Open' = From(scoped, next + 1)
      BY <2>1, <3>1 DEF Open, From
    <3>3. \A p \in Open' : p > r.name
      BY <2>1, <2>2, <3>2, TakeOne
    <3>4. BrokeOff'
      BY <1>0, <2>3, <2>6, <3>1, <3>3 DEF BrokeOff
    <3> QED
      BY <2>5, <3>1, <3>4 DEF FailuresEndTheRun
  <2>7. CASE ~(~Success(answer) /\ config.fail_fast)
    <3>1. pc' = "check" /\ (config.fail_fast => r.status # "Failed")
      BY <2>1, <2>2, <2>7
    <3>2. config.fail_fast => \A i \in DOMAIN reports' : reports'[i].status # "Failed"
      BY <2>3, <2>4, <3>1
    <3> QED
      BY <1>0, <2>5, <3>1, <3>2 DEF FailuresEndTheRun
  <2> QED
    BY <2>6, <2>7
<1>10. CASE Finish
  <2>1. /\ pc' = "done" /\ UNCHANGED <<reports, scoped, next>>
        /\ scoped \in Seq(Pkg) /\ next \in Nat
    BY <1>10 DEF Finish, TypeOK
  <2>2. CASE pc = "finish"
    <3>1. BrokeOff /\ Open' = Open
      BY <2>1, <2>2 DEF FailuresEndTheRun, Open, From
    <3> QED
      BY <1>0, <1>1, <2>1, <3>1 DEF FailuresEndTheRun, BrokeOff
  <2>3. CASE next > Len(scoped) /\ pc = "check"
    <3>1. Open' = {}
      BY <2>1, <2>3 DEF Open, From
    <3> QED
      BY <1>1, <2>1, <3>1 DEF FailuresEndTheRun
  <2> QED
    BY <1>10, <2>2, <2>3 DEF Finish
<1>11. CASE UNCHANGED vars
  <2>1. Open' = Open
    BY <1>11, InputIsFixed DEF vars, Open, Elements, From
  <2> QED
    BY <1>0, <1>1, <1>11, <2>1 DEF FailuresEndTheRun, BrokeOff, vars
<1> QED
  BY <1>3, <1>4, <1>5, <1>6, <1>7, <1>8, <1>9, <1>10, <1>11 DEF Next

(***************************************************************************)
(* The theorems                                                            *)
(***************************************************************************)

\* The invariant holds when run() begins.
LEMMA InvInit == Init => Inv
<1> SUFFICES ASSUME Init
             PROVE  Inv
  OBVIOUS
<1>1. TypeOK
  BY DEF Init, TypeOK
<1>2. LoopsInOrder
  BY NAssumption DEF Init, LoopsInOrder, Increasing
<1>3. Partition
  <2>1. Reported = {} /\ Elements(eligible) = {}
    BY DEF Init, Reported, Elements
  <2>2. { p \in Selected : p >= next } = Selected
    BY NAssumption DEF Init, Selected, Pkg
  <2> QED
    BY <2>1, <2>2 DEF Init, Partition, Open
<1>4. ReportedOnce /\ FailFastStops /\ FailuresEndTheRun
  BY DEF Init, ReportedOnce, FailFastStops, FailuresEndTheRun
<1> QED
  BY <1>1, <1>2, <1>3, <1>4 DEF Inv

\* And every step keeps it.
LEMMA InvStep == Inv /\ [Next]_vars => Inv'
<1> SUFFICES ASSUME Inv, [Next]_vars
             PROVE  Inv'
  OBVIOUS
<1>1. Asking
  BY DEF Inv, LoopsInOrder, Asking
<1>2. TypeOK'
  BY <1>1, TypeStep DEF Inv
<1>3. LoopsInOrder' /\ Partition' /\ ReportedOnce' /\ FailFastStops' /\ FailuresEndTheRun'
  BY LoopsStep, SettleStep, FailuresStep DEF Inv
<1> QED
  BY <1>2, <1>3 DEF Inv

\* The inductive invariant: the loops run in order, every selected package is
\* reported or open, no package is reported twice, and only a failure in a
\* fail-fast run leaves packages open at the end.
THEOREM Invariance == Spec => []Inv
BY InvInit, InvStep, PTL DEF Spec

\* run()'s locals keep their types, and a report says why exactly when the
\* check failed, whatever the engine answers.
THEOREM TypeCorrect == Spec => []TypeOK
<1>1. Inv => TypeOK
  BY DEF Inv
<1> QED
  BY <1>1, Invariance, PTL

\* No package is reported twice, whatever the workspace and the configuration.
THEOREM NoDoubleReport == Spec => []ReportedOnce
<1>1. Inv => ReportedOnce
  BY DEF Inv
<1> QED
  BY <1>1, Invariance, PTL

\* With fail_fast nothing is checked after a failure.
THEOREM FailFastIsFast == Spec => []FailFastStops
<1>1. Inv => FailFastStops
  BY DEF Inv
<1> QED
  BY <1>1, Invariance, PTL

\* A run that is done has reported every selected package, or is a fail-fast
\* run and the missing ones are behind its last report, a failure.
THEOREM NothingIsLost == Spec => []OnlyFailFastDrops
<1>1. Inv => OnlyFailFastDrops
  <2> SUFFICES ASSUME Inv, pc = "done"
               PROVE  \/ Reported = Selected
                      \/ /\ config.fail_fast
                         /\ Last(reports).status = "Failed"
                         /\ \A p \in Selected \ Reported : p > Last(reports).name
    BY DEF OnlyFailFastDrops
  <2>1. Reported \cup Open = Selected
    BY DEF Inv, Partition
  <2>2. Open = {} \/ BrokeOff
    BY DEF Inv, FailuresEndTheRun
  <2> QED
    BY <2>1, <2>2 DEF BrokeOff
<1> QED
  BY <1>1, Invariance, PTL

=============================================================================
