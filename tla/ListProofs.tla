-------------------------------- MODULE ListProofs --------------------------------
(***************************************************************************)
(* Proofs about what a run checks and skips, and in which order: the three *)
(* passes of run() come to what list_packages answers, and the progress    *)
(* events tell of just these checks.                                       *)
(***************************************************************************)
EXTENDS RunnerProofs, OrderingProofs

(***************************************************************************)
(* Counting                                                                *)
(***************************************************************************)
\* Two sets of a list's places that have none in common count for themselves.
LEMMA CountTwo ==
  ASSUME NEW S, NEW s \in Seq(S), NEW A, NEW B, NEW C,
         A \subseteq DOMAIN s, B \subseteq DOMAIN s,
         \A i \in DOMAIN s : ~(i \in A /\ i \in B),
         C \subseteq DOMAIN s, \A i \in DOMAIN s : i \in C <=> i \in A \/ i \in B
  PROVE  /\ Cardinality(A) \in Nat /\ Cardinality(B) \in Nat
         /\ Cardinality(C) = Cardinality(A) + Cardinality(B)
<1>1. IsFiniteSet(DOMAIN s)
  <2>1. DOMAIN s = 1..Len(s) /\ Len(s) \in Nat
    OBVIOUS
  <2> QED
    BY <2>1, FS_Interval
<1>2. IsFiniteSet(A) /\ IsFiniteSet(B)
  BY <1>1, FS_Subset
<1>3. Cardinality(A) \in Nat /\ Cardinality(B) \in Nat
  BY <1>2, FS_CardinalityType
<1>4. A \cap B = {} /\ C = A \cup B
  OBVIOUS
<1>5. Cardinality(A \cup B) = Cardinality(A) + Cardinality(B) - Cardinality(A \cap B)
  BY <1>2, FS_Union
<1>6. Cardinality({}) = 0
  BY FS_EmptySet
<1>7. Cardinality(C) = Cardinality(A) + Cardinality(B) - 0
  BY <1>4, <1>5, <1>6, Zenon
<1> QED
  BY <1>3, <1>7

(***************************************************************************)
(* Lists that grow                                                         *)
(***************************************************************************)
\* Packages in workspace order; a later one goes to the end.
LEMMA AscendingGrows ==
  ASSUME NEW S \in SUBSET Pkg
  PROVE  /\ IsFiniteSet(S)
         /\ Ascending(S) \in Seq(S) /\ Ascending(S) \in Seq(Pkg)
         /\ Len(Ascending(S)) = Cardinality(S)
         /\ Increasing(Ascending(S))
         /\ Elements(Ascending(S)) = S
         /\ S = {} => Ascending(S) = <<>>
         /\ \A x \in Pkg : (\A y \in S : y < x) =>
              Ascending(S \cup {x}) = Append(Ascending(S), x)
<1> DEFINE s == Ascending(S)
           n == Cardinality(S)
<1> USE NAssumption
<1>1. S \in SUBSET Int /\ IsFiniteSet(S)
  <2>1. IsFiniteSet(1..N)
    BY FS_Interval
  <2>2. IsFiniteSet(S)
    BY <2>1, FS_Subset, Zenon DEF Pkg
  <2>3. S \in SUBSET Int
    BY DEF Pkg
  <2> QED
    BY <2>2, <2>3
<1>2. /\ n \in Nat
      /\ s \in [1..n -> S]
      /\ \A x \in S : \E k \in 1..n : s[k] = x
      /\ \A i, j \in 1..n : i < j <=> s[i] < s[j]
  BY <1>1, AscendingHolds
<1> HIDE DEF s, n
<1>3. s \in Seq(S) /\ Len(s) = n /\ DOMAIN s = 1..n
  BY <1>2
<1>4. s \in Seq(Pkg)
  <2>1. s \in [1..n -> Pkg]
    BY <1>2
  <2> QED
    BY <1>2, <2>1
<1>5. Increasing(s) /\ Elements(s) = S
  BY <1>2, <1>3 DEF Increasing, Elements
<1>6. S = {} => s = <<>>
  <2> SUFFICES ASSUME S = {}
               PROVE  s = <<>>
    OBVIOUS
  <2>1. n = 0
    BY <1>2
  <2> QED
    BY <1>3, <2>1
<1>7. ASSUME NEW x \in Pkg, \A y \in S : y < x
      PROVE  Ascending(S \cup {x}) = Append(s, x)
  <2> DEFINE t == Append(s, x)
  <2>1. /\ t \in [1..(n + 1) -> S \cup {x}]
        /\ \A i \in 1..n : t[i] = s[i]
        /\ t[n + 1] = x
    <3>1. s \in Seq(S \cup {x}) /\ x \in S \cup {x}
      <4>1. s \in [1..n -> S \cup {x}]
        BY <1>2
      <4> QED
        BY <1>2, <4>1
    <3>2. /\ t \in Seq(S \cup {x}) /\ Len(t) = n + 1
          /\ \A i \in 1..n : t[i] = s[i]
          /\ t[n + 1] = x
      BY <1>3, <3>1, AppendProperties
    <3> HIDE DEF t
    <3> QED
      BY <3>2
  <2> HIDE DEF t
  <2>2. S \cup {x} \in SUBSET Int /\ n + 1 \in Nat
    BY <1>1, <1>2 DEF Pkg
  <2>3. \A y \in S \cup {x} : \E k \in 1..(n + 1) : t[k] = y
    <3>1. n + 1 \in 1..(n + 1) /\ 1..n \subseteq 1..(n + 1)
      BY <1>2
    <3> QED
      BY <1>2, <2>1, <3>1
  <2>4. \A i, j \in 1..(n + 1) : i < j => t[i] < t[j]
    <3> TAKE i \in 1..(n + 1), j \in 1..(n + 1)
    <3> HAVE i < j
    <3>1. i \in 1..n /\ t[i] = s[i] /\ s[i] \in S
      BY <1>2, <2>1
    <3>2. CASE j = n + 1
      BY <1>7, <2>1, <3>1, <3>2
    <3>3. CASE j \in 1..n
      BY <1>2, <2>1, <3>1, <3>3
    <3> QED
      BY <1>2, <3>2, <3>3
  <2>5. t = Ascending(S \cup {x})
    BY <2>1, <2>2, <2>3, <2>4, AscendingIsUnique
  <2> QED
    BY <2>5 DEF t
<1> QED
  BY <1>1, <1>3, <1>4, <1>5, <1>6, <1>7 DEF s, n

\* One more package is before the next index, if it is of the set.
LEMMA BeforeNext ==
  ASSUME NEW S \in SUBSET Pkg, NEW k \in Nat
  PROVE  /\ { p \in S : p < k } \in SUBSET Pkg
         /\ k \in S => { p \in S : p < k + 1 } = { p \in S : p < k } \cup {k}
         /\ k \notin S => { p \in S : p < k + 1 } = { p \in S : p < k }
         /\ k > N => { p \in S : p < k } = S
<1>1. \A p \in S : p \in Nat /\ p <= N /\ (p < k + 1 <=> p < k \/ p = k)
  BY NAssumption DEF Pkg
<1>2. k \in S => { p \in S : p < k + 1 } = { p \in S : p < k } \cup {k}
  BY <1>1
<1>3. k \notin S => { p \in S : p < k + 1 } = { p \in S : p < k }
  BY <1>1
<1>4. k > N => \A p \in S : p < k
  BY <1>1, NAssumption
<1> QED
  BY <1>2, <1>3, <1>4

\* A stretch of a list of reports is what is filtered out by its indexes.
LEMMA AtStretch ==
  ASSUME NEW s, NEW a \in Nat, NEW b \in Nat
  PROVE  At(s, (a + 1)..(a + b)) = [ k \in 1..b |-> s[a + k] ]
<1> DEFINE t == [ k \in 1..b |-> a + k ]
           I == (a + 1)..(a + b)
<1>1. /\ I \in SUBSET Int
      /\ t \in [1..b -> I]
      /\ \A i, j \in 1..b : i < j => t[i] < t[j]
  OBVIOUS
<1>2. \A x \in I : \E k \in 1..b : t[k] = x
  <2> TAKE x \in I
  <2>1. x - a \in 1..b /\ t[x - a] = x
    OBVIOUS
  <2> QED
    BY <2>1
<1> HIDE DEF I, t
<1>3. At(s, I) = [ k \in 1..b |-> s[t[k]] ]
  BY <1>1, <1>2, AtIsUnique
<1> QED
  BY <1>3 DEF I, t

LEMMA AtStart ==
  ASSUME NEW s, NEW b \in Nat
  PROVE  At(s, 1..b) = [ k \in 1..b |-> s[k] ]
<1> DEFINE t == [ k \in 1..b |-> k ]
           I == 1..b
<1>1. /\ I \in SUBSET Int /\ t \in [1..b -> I]
      /\ \A x \in I : \E k \in 1..b : t[k] = x
      /\ \A i, j \in 1..b : i < j => t[i] < t[j]
  OBVIOUS
<1> HIDE DEF I, t
<1>2. At(s, I) = [ k \in 1..b |-> s[t[k]] ]
  BY <1>1, AtIsUnique
<1> QED
  BY <1>2 DEF I, t

\* The names of a list of reports, and of a list that is longer by one.
LEMMA NamesType ==
  ASSUME NEW rs \in Seq(Report)
  PROVE  /\ Names(rs) \in Seq(Pkg) /\ Len(Names(rs)) = Len(rs)
         /\ Len(rs) \in Nat /\ DOMAIN rs = 1..Len(rs)
         /\ \A i \in 1..Len(rs) : Names(rs)[i] = rs[i].name
<1>1. \A x \in Report : x.name \in Pkg
  BY DEF Report
<1>2. /\ Len(rs) \in Nat /\ rs \in [1..Len(rs) -> Report]
      /\ DOMAIN rs = 1..Len(rs)
  OBVIOUS
<1>3. Names(rs) \in [1..Len(rs) -> Pkg]
  BY <1>1, <1>2 DEF Names
<1>4. Names(rs) \in Seq(Pkg) /\ Len(Names(rs)) = Len(rs)
  BY <1>2, <1>3
<1> QED
  BY <1>2, <1>4 DEF Names

LEMMA NamesGrow ==
  ASSUME reports \in Seq(Report), NEW r \in Report, reports' = Append(reports, r)
  PROVE  Names(reports') = Append(Names(reports), r.name)
<1>1. r.name \in Pkg /\ reports' \in Seq(Report) /\ Len(reports') = Len(reports) + 1
  BY Push DEF Report
<1>2. /\ Names(reports) \in Seq(Pkg) /\ Len(Names(reports)) = Len(reports)
      /\ Names(reports') \in Seq(Pkg) /\ Len(Names(reports')) = Len(reports) + 1
      /\ Len(reports) \in Nat
  BY <1>1, NamesType
<1>3. /\ Append(Names(reports), r.name) \in Seq(Pkg)
      /\ Len(Append(Names(reports), r.name)) = Len(reports) + 1
      /\ \A i \in 1..Len(reports) : Append(Names(reports), r.name)[i] = reports[i].name
      /\ Append(Names(reports), r.name)[Len(reports) + 1] = r.name
  BY <1>1, <1>2, NamesType, AppendProperties
<1>4. \A i \in 1..(Len(reports) + 1) :
        Names(reports')[i] = Append(Names(reports), r.name)[i]
  <2>1. /\ \A i \in 1..Len(reports) : reports'[i] = reports[i]
        /\ reports'[Len(reports) + 1] = r
        /\ \A i \in 1..(Len(reports) + 1) : Names(reports')[i] = reports'[i].name
    BY <1>1, Push, NamesType
  <2> QED
    BY <1>2, <1>3, <2>1
<1> QED
  BY <1>2, <1>3, <1>4, SeqEqual

(***************************************************************************)
(* How far each pass has come                                              *)
(***************************************************************************)
\* Pass 1 has sorted the packages before the loop index into the eligible and
\* the skipped ones.
PassOne ==
  /\ eligible = Ascending({ p \in ListEligible : p < next })
  /\ Names(reports) = Ascending({ p \in ListSkipped : p < next })

\* Pass 2 has sorted the eligible ones before its index by the scope.
Handled == { eligible[i] : i \in 1..(next - 1) }

PassTwo ==
  /\ eligible = Ascending(ListEligible)
  /\ scoped = Ascending({ p \in Handled : InScope(p) })
  /\ Names(reports) = Ascending(ListSkipped) \o Ascending({ p \in Handled : ~InScope(p) })

\* Pass 3 has checked what is before its index.
PassThree ==
  /\ scoped = would_check /\ next <= Len(scoped) + 1
  /\ Names(reports) = ListedSkips \o SubSeq(would_check, 1, next - 1)
  /\ \A i \in DOMAIN reports : reports[i].status = "Skipped" <=> i <= Len(ListedSkips)

\* A run that goes on has met no error, and one that failed met the first.
Errors ==
  /\ pc \notin {"load", "failed"} => Pass1Error = None
  /\ pc = "scope" \/ Running => Pass2Error = None
  /\ pc = "failed" => /\ error = list_error
                      /\ \A i \in DOMAIN reports : reports[i].status = "Skipped"

ListInv ==
  /\ Errors
  /\ pc \in {"load", "filter"} => PassOne
  /\ pc = "scope" => PassTwo
  /\ Running => PassThree

\* list_packages sorts the packages as run() does, for the same reasons but for
\* the wording of one.
LEMMA ListAgrees ==
  /\ \A p : /\ ListReason(p) = NotRequested <=> Ignored(p)
            /\ ~Ignored(p) => ListReason(p) = Reworded(StaticSkip(p))
            /\ ~Ignored(p) => (ListReason(p) = None <=> StaticSkip(p) = None)
  /\ ListEligible = { p \in Pkg : ~Ignored(p) /\ StaticSkip(p) = None }
  /\ ListSkipped = { p \in Pkg : ~Ignored(p) /\ StaticSkip(p) # None }
  /\ would_check = Ascending({ p \in ListEligible : InScope(p) })
  /\ ListedSkips = Ascending(ListSkipped) \o Ascending({ p \in ListEligible : ~InScope(p) })
<1>1. ASSUME NEW p
      PROVE  /\ ListReason(p) = NotRequested <=> Ignored(p)
             /\ ~Ignored(p) => ListReason(p) = Reworded(StaticSkip(p))
             /\ ~Ignored(p) => (ListReason(p) = None <=> StaticSkip(p) = None)
             /\ Ignored(p) => ListReason(p) # None
  BY DEF ListReason, NotRequested, Ignored, Explicit, StaticSkip, Reworded, None
<1>2. ListEligible = { p \in Pkg : ~Ignored(p) /\ StaticSkip(p) = None }
  BY <1>1 DEF ListEligible
<1>3. ListSkipped = { p \in Pkg : ~Ignored(p) /\ StaticSkip(p) # None }
  BY <1>1 DEF ListSkipped
<1>4. /\ ListScoped = { p \in ListEligible : InScope(p) }
      /\ ListEligible \ ListScoped = { p \in ListEligible : ~InScope(p) }
  BY DEF ListScoped, InScope
<1> QED
  BY <1>1, <1>2, <1>3, <1>4, Zenon DEF would_check, ListedSkips

\* And it fails as run() does.
LEMMA ListFails ==
  ASSUME TypeOK
  PROVE  list_error = IF Pass1Error # None THEN Pass1Error ELSE Pass2Error
<1>1. config.mode \in {"Workspace", "Changed"}
  BY InputsAssumption DEF TypeOK, InputType, Config, config
<1>2. config.explicit \cap Pkg = {} <=> \A p \in config.explicit : p \notin Pkg
  OBVIOUS
<1>3. (\E g \in {config.include, config.exclude} : build_globset_fails(g))
        <=> build_globset_fails(config.include) \/ build_globset_fails(config.exclude)
  OBVIOUS
<1> QED
  BY <1>1, <1>2, <1>3 DEF list_error, Pass1Error, Pass2Error, Explicit, None

\* What list_packages answers depends on nothing a step changes.
LEMMA ListIsFixed ==
  ASSUME [Next]_vars
  PROVE  /\ ListEligible' = ListEligible /\ ListSkipped' = ListSkipped
         /\ would_check' = would_check /\ ListedSkips' = ListedSkips
         /\ Pass1Error' = Pass1Error /\ Pass2Error' = Pass2Error
         /\ list_error' = list_error
         /\ \A p : InScope(p)' = InScope(p) /\ StaticSkip(p)' = StaticSkip(p)
<1>1. input' = input
  BY InputIsFixed
<1> USE DEF config
<1>2. ListEligible' = ListEligible /\ ListSkipped' = ListSkipped
  BY <1>1 DEF ListEligible, ListSkipped, ListReason, matches_name_filters
<1>3. \A p : InScope(p)' = InScope(p)
  BY <1>1 DEF InScope
<1>4. would_check' = would_check /\ ListedSkips' = ListedSkips
  BY <1>1, <1>2 DEF would_check, ListedSkips, ListScoped
<1>5. Pass1Error' = Pass1Error /\ Pass2Error' = Pass2Error
  BY <1>1 DEF Pass1Error, Pass2Error, Explicit, build_globset_fails
<1>6. list_error' = list_error
  BY <1>1 DEF list_error, build_globset_fails
<1>7. \A p : StaticSkip(p)' = StaticSkip(p)
  BY <1>1 DEF StaticSkip, Explicit, matches_name_filters
<1> QED
  BY <1>2, <1>3, <1>4, <1>5, <1>6, <1>7

\* The lists of list_packages.
LEMMA Lists ==
  /\ ListEligible \in SUBSET Pkg /\ ListSkipped \in SUBSET Pkg
  /\ ListEligible \cap ListSkipped = {}
  /\ would_check \in Seq(Pkg) /\ ListedSkips \in Seq(Pkg)
  /\ Increasing(would_check)
<1>1. ListEligible \in SUBSET Pkg /\ ListSkipped \in SUBSET Pkg
  BY DEF ListEligible, ListSkipped
<1>2. ListEligible \cap ListSkipped = {}
  BY DEF ListEligible, ListSkipped, NotRequested
<1>3. /\ { p \in ListEligible : InScope(p) } \in SUBSET Pkg
      /\ { p \in ListEligible : ~InScope(p) } \in SUBSET Pkg
  BY <1>1
<1>4. would_check \in Seq(Pkg) /\ Increasing(would_check)
  BY <1>3, AscendingGrows, ListAgrees, Zenon
<1>5. ListedSkips \in Seq(Pkg)
  <2>1. /\ Ascending(ListSkipped) \in Seq(Pkg)
        /\ Ascending({ p \in ListEligible : ~InScope(p) }) \in Seq(Pkg)
    BY <1>1, <1>3, AscendingGrows, Zenon
  <2> QED
    BY <2>1, ListAgrees
<1> QED
  BY <1>1, <1>2, <1>4, <1>5

\* The last of two lists is the one that grows.
LEMMA AppendAfter ==
  ASSUME NEW s \in Seq(Pkg), NEW t \in Seq(Pkg), NEW p \in Pkg
  PROVE  Append(s \o t, p) = s \o Append(t, p)
OBVIOUS

\* A stretch of the second list moves over one by one.
LEMMA StretchGrows ==
  ASSUME NEW s \in Seq(Pkg), NEW t \in Seq(Pkg), NEW k \in 1..Len(t)
  PROVE  /\ Append(s \o SubSeq(t, 1, k - 1), t[k]) = s \o SubSeq(t, 1, k)
         /\ s \o SubSeq(t, 1, 0) = s
<1>1. k \in Nat /\ k - 1 \in Nat /\ t[k] \in Pkg
  OBVIOUS
<1>2. /\ SubSeq(t, 1, k) \in Seq(Pkg) /\ Len(SubSeq(t, 1, k)) = k
      /\ \A i \in 1..k : SubSeq(t, 1, k)[i] = t[i]
  BY <1>1
<1>3. /\ SubSeq(t, 1, k - 1) \in Seq(Pkg) /\ Len(SubSeq(t, 1, k - 1)) = k - 1
      /\ \A i \in 1..(k - 1) : SubSeq(t, 1, k - 1)[i] = t[i]
  BY <1>1
<1>4. SubSeq(t, 1, k) = Append(SubSeq(t, 1, k - 1), t[k])
  BY <1>1, <1>2, <1>3, SeqEqual
<1>5. Append(s \o SubSeq(t, 1, k - 1), t[k]) = s \o Append(SubSeq(t, 1, k - 1), t[k])
  BY <1>1, <1>3
<1>6. s \o SubSeq(t, 1, 0) = s
  OBVIOUS
<1> QED
  BY <1>4, <1>5, <1>6

\* Every step of run() carries the pass on.
LEMMA ListStep == Inv /\ ListInv /\ [Next]_vars => ListInv'
<1> SUFFICES ASSUME Inv, ListInv, [Next]_vars
             PROVE  ListInv'
  OBVIOUS
<1> USE NAssumption
<1>0. /\ ListEligible' = ListEligible /\ ListSkipped' = ListSkipped
      /\ would_check' = would_check /\ ListedSkips' = ListedSkips
      /\ Pass1Error' = Pass1Error /\ Pass2Error' = Pass2Error
      /\ list_error' = list_error
      /\ \A p : InScope(p)' = InScope(p)
  BY ListIsFixed
<1>1. /\ eligible \in Seq(Pkg) /\ scoped \in Seq(Pkg) /\ reports \in Seq(Report)
      /\ next \in Nat \ {0}
      /\ ListEligible \in SUBSET Pkg /\ ListSkipped \in SUBSET Pkg
      /\ ListEligible \cap ListSkipped = {}
      /\ would_check \in Seq(Pkg) /\ ListedSkips \in Seq(Pkg)
  BY Lists DEF Inv, TypeOK
<1>2. pc \in {"load", "filter", "scope"} => \A i \in DOMAIN reports : reports[i].status = "Skipped"
  BY DEF Inv, FailuresEndTheRun
<1>e. list_error = IF Pass1Error # None THEN Pass1Error ELSE Pass2Error
  BY ListFails DEF Inv
<1> USE DEF Running
<1>3. CASE Load
  <2>1. pc = "load" /\ UNCHANGED <<next, eligible, reports>>
        /\ Names(reports)' = Names(reports) /\ PassOne
    BY <1>3 DEF Load, Fail, ListInv, Names
  <2>2. \/ pc' = "failed" /\ error' = Pass1Error /\ Pass1Error # None
        \/ pc' = "filter" /\ Pass1Error = None
    BY <1>3 DEF Load, Fail
  <2>3. PassOne'
    BY <1>0, <2>1 DEF PassOne
  <2>4. Errors'
    BY <1>0, <1>2, <1>e, <2>1, <2>2 DEF Errors
  <2> QED
    BY <2>2, <2>3, <2>4 DEF ListInv
<1>4. CASE FilterPackage
  <2> DEFINE E == { p \in ListEligible : p < next }
             K == { p \in ListSkipped : p < next }
  <2>1. /\ pc = "filter" /\ pc' = "filter" /\ next \in Pkg /\ next' = next + 1
        /\ eligible = Ascending(E) /\ Names(reports) = Ascending(K)
        /\ Pass1Error = None
    BY <1>1, <1>4 DEF FilterPackage, ListInv, PassOne, Errors, Pkg
  <2>2. Errors'
    BY <1>0, <2>1 DEF Errors
  <2>3. /\ E \in SUBSET Pkg /\ K \in SUBSET Pkg
        /\ \A p \in E \cup K : p < next
        /\ { p \in ListEligible : p < next + 1 } = IF next \in ListEligible THEN E \cup {next} ELSE E
        /\ { p \in ListSkipped : p < next + 1 } = IF next \in ListSkipped THEN K \cup {next} ELSE K
    <3>1. \A p \in E \cup K : p < next
      OBVIOUS
    <3> QED
      BY <1>1, <3>1, BeforeNext
  <2> HIDE DEF E, K
  <2>4. /\ Ascending(E \cup {next}) = Append(Ascending(E), next)
        /\ Ascending(K \cup {next}) = Append(Ascending(K), next)
    BY <2>1, <2>3, AscendingGrows, Zenon
  <2>5. CASE Ignored(next)
    <3>1. next \notin ListEligible /\ next \notin ListSkipped
      BY <2>5, ListAgrees
    <3>2. UNCHANGED <<eligible, reports>> /\ Names(reports)' = Names(reports)
      BY <1>4, <2>5 DEF FilterPackage, Names
    <3> QED
      BY <1>0, <2>1, <2>2, <2>3, <3>1, <3>2 DEF ListInv, PassOne
  <2>6. CASE ~Ignored(next) /\ StaticSkip(next) # None
    <3> DEFINE reason == StaticSkip(next)
               r == skipped(next, reason)
    <3>1. next \in ListSkipped /\ next \notin ListEligible
      BY <2>1, <2>6, ListAgrees
    <3>2. reason \in {"filtered by include/exclude patterns", "publish = false",
                      "no library target", "unchanged"}
      BY <2>6, StaticSkipType
    <3>3. UNCHANGED eligible /\ reports' = Append(reports, r)
      BY <1>4, <2>6 DEF FilterPackage
    <3> HIDE DEF reason
    <3>4. r \in Report /\ r.name = next
      BY <2>1, <3>2, SkippedType, Zenon
    <3> HIDE DEF r
    <3>5. Names(reports') = Append(Names(reports), next)
      BY <1>1, <3>3, <3>4, NamesGrow
    <3>6. PassOne'
      BY <1>0, <2>1, <2>3, <2>4, <3>1, <3>3, <3>5 DEF PassOne, Names
    <3> QED
      BY <2>1, <2>2, <3>6 DEF ListInv
  <2>7. CASE ~Ignored(next) /\ StaticSkip(next) = None
    <3>1. next \in ListEligible /\ next \notin ListSkipped
      BY <2>1, <2>7, ListAgrees
    <3>2. eligible' = Append(eligible, next) /\ UNCHANGED reports
      BY <1>4, <2>7 DEF FilterPackage
    <3>3. Names(reports)' = Names(reports)
      BY <3>2 DEF Names
    <3>4. PassOne'
      BY <1>0, <2>1, <2>3, <2>4, <3>1, <3>2, <3>3 DEF PassOne
    <3> QED
      BY <2>1, <2>2, <3>4 DEF ListInv
  <2> QED
    BY <2>5, <2>6, <2>7
<1>5. CASE EnterScope
  <2>1. /\ pc = "filter" /\ next > N /\ UNCHANGED <<eligible, scoped, reports>>
        /\ Names(reports)' = Names(reports) /\ PassOne /\ scoped = <<>>
        /\ Pass1Error = None
    BY <1>5 DEF EnterScope, Fail, ListInv, Errors, Names, Inv, LoopsInOrder
  <2>2. CASE Pass2Error # None /\ pc' = "failed" /\ error' = Pass2Error
    <3>1. Errors'
      BY <1>0, <1>2, <1>e, <2>1, <2>2 DEF Errors
    <3> QED
      BY <2>2, <3>1 DEF ListInv
  <2>3. CASE Pass2Error = None /\ pc' = "scope" /\ next' = 1
    <3>1. /\ { p \in ListEligible : p < next } = ListEligible
          /\ { p \in ListSkipped : p < next } = ListSkipped
      BY <1>1, <2>1, BeforeNext
    <3>2. Handled' = {}
      BY <2>3 DEF Handled
    <3>3. /\ eligible' = Ascending(ListEligible)
          /\ Names(reports)' = Ascending(ListSkipped)
          /\ Ascending(ListSkipped) \in Seq(Pkg)
          /\ Ascending({}) = <<>>
      <4>1. eligible' = Ascending(ListEligible) /\ Names(reports)' = Ascending(ListSkipped)
        BY <2>1, <3>1 DEF PassOne
      <4>2. Ascending(ListSkipped) \in Seq(Pkg) /\ Ascending({}) = <<>>
        BY <1>1, AscendingGrows, Zenon
      <4> QED
        BY <4>1, <4>2
    <3>4. PassTwo'
      <4>1. { p \in Handled : InScope(p) }' = {} /\ { p \in Handled : ~InScope(p) }' = {}
        BY <3>2
      <4>2. Ascending(ListSkipped) \o <<>> = Ascending(ListSkipped)
        BY <3>3
      <4> QED
        BY <1>0, <2>1, <3>3, <4>1, <4>2 DEF PassTwo
    <3>5. Errors'
      BY <1>0, <2>1, <2>3 DEF Errors
    <3> QED
      BY <2>3, <3>4, <3>5 DEF ListInv
  <2> QED
    BY <1>5, <2>2, <2>3 DEF EnterScope, Fail
<1>6. CASE ScopePackage
  <2> DEFINE p == eligible[next]
             I == { q \in Handled : InScope(q) }
             O == { q \in Handled : ~InScope(q) }
  <2>1. /\ pc = "scope" /\ pc' = "scope" /\ next \in 1..Len(eligible) /\ next' = next + 1
        /\ eligible' = eligible /\ p \in Pkg
        /\ eligible = Ascending(ListEligible) /\ scoped = Ascending(I)
        /\ Names(reports) = Ascending(ListSkipped) \o Ascending(O)
        /\ Increasing(eligible) /\ Pass1Error = None /\ Pass2Error = None
    BY <1>1, <1>6 DEF ScopePackage, ListInv, PassTwo, Errors, Inv, LoopsInOrder
  <2>2. Handled \in SUBSET Pkg /\ \A q \in Handled : q < p
    BY <1>1, <2>1 DEF Handled, Increasing
  <2>3. Handled' = Handled \cup {p}
    <3>1. /\ Handled' = { eligible[i] : i \in 1..next }
          /\ 1..next = 1..(next - 1) \cup {next}
      BY <2>1 DEF Handled
    <3> QED
      BY <3>1 DEF Handled
  <2> HIDE DEF p
  <2>4. /\ I \in SUBSET Pkg /\ O \in SUBSET Pkg
        /\ \A q \in I \cup O : q < p
        /\ { q \in Handled : InScope(q) }' = IF InScope(p) THEN I \cup {p} ELSE I
        /\ { q \in Handled : ~InScope(q) }' = IF InScope(p) THEN O ELSE O \cup {p}
    BY <1>0, <2>2, <2>3
  <2> HIDE DEF I, O
  <2>5. /\ Ascending(I \cup {p}) = Append(Ascending(I), p)
        /\ Ascending(O \cup {p}) = Append(Ascending(O), p)
        /\ Ascending(O) \in Seq(Pkg) /\ Ascending(ListSkipped) \in Seq(Pkg)
    BY <1>1, <2>1, <2>4, AscendingGrows, Zenon
  <2>6. Errors'
    BY <1>0, <2>1 DEF Errors
  <2>7. CASE InScope(p)
    <3>1. scoped' = Append(scoped, p) /\ UNCHANGED reports
      BY <1>6, <2>7 DEF ScopePackage, p
    <3>2. Names(reports)' = Names(reports)
      BY <3>1 DEF Names
    <3>3. PassTwo'
      BY <1>0, <2>1, <2>4, <2>5, <2>7, <3>1, <3>2 DEF PassTwo
    <3> QED
      BY <2>1, <2>6, <3>3 DEF ListInv
  <2>8. CASE ~InScope(p)
    <3> DEFINE r == skipped(p, "unchanged")
    <3>1. reports' = Append(reports, r) /\ UNCHANGED scoped
      BY <1>6, <2>8 DEF ScopePackage, p
    <3>2. r \in Report /\ r.name = p
      BY <2>1, SkippedType
    <3> HIDE DEF r
    <3>3. Names(reports') = Append(Names(reports), p)
      BY <1>1, <3>1, <3>2, NamesGrow
    <3>4. Names(reports)' = Ascending(ListSkipped) \o Append(Ascending(O), p)
      <4>1. Append(Ascending(ListSkipped) \o Ascending(O), p)
              = Ascending(ListSkipped) \o Append(Ascending(O), p)
        BY <2>1, <2>5, AppendAfter
      <4>2. Names(reports') = Ascending(ListSkipped) \o Append(Ascending(O), p)
        BY <2>1, <3>3, <4>1
      <4> QED
        BY <4>2 DEF Names
    <3>5. PassTwo'
      BY <1>0, <2>1, <2>4, <2>5, <2>8, <3>1, <3>4 DEF PassTwo
    <3> QED
      BY <2>1, <2>6, <3>5 DEF ListInv
  <2> QED
    BY <2>7, <2>8
<1>7. CASE EnterCheck
  <2>1. /\ pc = "scope" /\ pc' = "check" /\ next > Len(eligible) /\ next' = 1
        /\ UNCHANGED <<eligible, scoped, reports>> /\ Names(reports)' = Names(reports)
        /\ PassTwo /\ Pass1Error = None /\ Pass2Error = None
        /\ next <= Len(eligible) + 1
    BY <1>7 DEF EnterCheck, ListInv, Errors, Names, Inv, LoopsInOrder
  <2>2. Handled = ListEligible
    <3>1. Elements(eligible) = ListEligible
      BY <1>1, <2>1, AscendingGrows DEF PassTwo
    <3>2. next - 1 = Len(eligible) /\ DOMAIN eligible = 1..Len(eligible)
      BY <1>1, <2>1
    <3> QED
      BY <3>1, <3>2 DEF Handled, Elements
  <2>3. scoped = would_check /\ Names(reports) = ListedSkips
    BY <2>1, <2>2, ListAgrees DEF PassTwo
  <2>4. ListedSkips \o SubSeq(would_check, 1, 0) = ListedSkips
    BY <1>1
  <2>5. Len(reports) = Len(ListedSkips) /\ DOMAIN reports = 1..Len(reports)
    BY <1>1, <2>3, NamesType
  <2>6. PassThree'
    BY <1>0, <1>1, <1>2, <2>1, <2>3, <2>4, <2>5 DEF PassThree
  <2>7. Errors'
    BY <1>0, <2>1 DEF Errors
  <2> QED
    BY <2>1, <2>6, <2>7 DEF ListInv
<1>8. CASE StartCheck \/ Finish
  <2>1. /\ pc \in {"check", "finish"} /\ pc' \in {"running", "done"}
        /\ UNCHANGED <<next, scoped, reports>> /\ Names(reports)' = Names(reports)
        /\ PassThree /\ Errors
    BY <1>8 DEF StartCheck, Finish, ListInv, Names
  <2>2. PassThree' /\ Errors'
    BY <1>0, <2>1 DEF PassThree, Errors
  <2> QED
    BY <2>1, <2>2 DEF ListInv
<1>9. ASSUME NEW answer \in Answers, CompleteCheck(answer)
      PROVE  ListInv'
  <2> DEFINE p == scoped[next]
             r == checked(p, answer)
  <2>1. /\ pc = "running" /\ pc' \in {"check", "finish"}
        /\ next \in 1..Len(scoped) /\ next' = next + 1 /\ scoped' = scoped
        /\ p \in Pkg /\ reports' = Append(reports, r)
        /\ PassThree /\ Errors
    BY <1>1, <1>9 DEF CompleteCheck, ListInv, Inv, LoopsInOrder
  <2>2. r \in Report /\ r.name = p /\ r.status \in {"Passed", "Failed"}
    BY <2>1, CheckedType, AnswersAssumption
  <2> HIDE DEF r
  <2>3. Names(reports') = ListedSkips \o SubSeq(would_check, 1, next)
    <3>1. /\ scoped = would_check /\ p = would_check[next]
          /\ Names(reports) = ListedSkips \o SubSeq(would_check, 1, next - 1)
      BY <2>1 DEF PassThree
    <3>2. Names(reports') = Append(Names(reports), p)
      BY <1>1, <2>1, <2>2, NamesGrow
    <3> HIDE DEF p
    <3> QED
      <4>1. Append(ListedSkips \o SubSeq(would_check, 1, next - 1), would_check[next])
              = ListedSkips \o SubSeq(would_check, 1, next)
        BY <1>1, <2>1, <3>1, StretchGrows
      <4> QED
        BY <3>1, <3>2, <4>1
  <2>4. \A i \in DOMAIN reports' : reports'[i].status = "Skipped" <=> i <= Len(ListedSkips)
    <3>1. /\ Len(Names(reports)) = Len(ListedSkips) + (next - 1)
          /\ Len(Names(reports)) = Len(reports)
      <4>1. SubSeq(would_check, 1, next - 1) \in Seq(Pkg)
            /\ Len(SubSeq(would_check, 1, next - 1)) = next - 1
        BY <1>1, <2>1 DEF PassThree
      <4>2. Len(ListedSkips \o SubSeq(would_check, 1, next - 1))
              = Len(ListedSkips) + Len(SubSeq(would_check, 1, next - 1))
        BY <1>1, <4>1
      <4>3. Names(reports) = ListedSkips \o SubSeq(would_check, 1, next - 1)
        BY <2>1 DEF PassThree
      <4>4. Len(Names(reports)) = Len(reports)
        BY <1>1, NamesType
      <4> QED
        BY <4>1, <4>2, <4>3, <4>4
    <3>2. /\ DOMAIN reports = 1..Len(reports) /\ DOMAIN reports' = 1..(Len(reports) + 1)
          /\ \A i \in DOMAIN reports : reports'[i] = reports[i]
          /\ reports'[Len(reports) + 1] = r
      BY <1>1, <2>1, <2>2, Push
    <3>3. Len(reports) \in Nat /\ Len(ListedSkips) \in Nat
      BY <1>1
    <3>4. \A i \in DOMAIN reports : reports[i].status = "Skipped" <=> i <= Len(ListedSkips)
      BY <2>1 DEF PassThree
    <3> QED
      BY <2>1, <2>2, <3>1, <3>2, <3>3, <3>4
  <2>5. PassThree'
    <3>1. Names(reports)' = ListedSkips \o SubSeq(would_check, 1, next)
      BY <2>3 DEF Names
    <3>2. next' - 1 = next /\ next' <= Len(scoped) + 1
      BY <1>1, <2>1
    <3> QED
      BY <1>0, <2>1, <2>4, <3>1, <3>2 DEF PassThree
  <2>6. Errors'
    BY <1>0, <2>1 DEF Errors
  <2> QED
    BY <2>1, <2>5, <2>6 DEF ListInv
<1>10. CASE UNCHANGED vars
  <2>1. /\ UNCHANGED <<pc, next, eligible, scoped, reports, error>>
        /\ Names(reports)' = Names(reports) /\ Handled' = Handled
    BY <1>10 DEF vars, Names, Handled
  <2>2. { q \in Handled : InScope(q) }' = { q \in Handled : InScope(q) }
        /\ { q \in Handled : ~InScope(q) }' = { q \in Handled : ~InScope(q) }
    BY <1>0, <2>1
  <2>3. (PassOne => PassOne') /\ (PassTwo => PassTwo') /\ (PassThree => PassThree')
    BY <1>0, <2>1, <2>2 DEF PassOne, PassTwo, PassThree
  <2>4. Errors'
    BY <1>0, <2>1 DEF ListInv, Errors
  <2> QED
    BY <2>1, <2>3, <2>4 DEF ListInv
<1> QED
  BY <1>3, <1>4, <1>5, <1>6, <1>7, <1>8, <1>9, <1>10 DEF Next

\* It holds when run() begins.
LEMMA ListInit == Init => ListInv
<1> SUFFICES ASSUME Init
             PROVE  ListInv
  OBVIOUS
<1>1. /\ { p \in ListEligible : p < 1 } = {} /\ { p \in ListSkipped : p < 1 } = {}
  <2>1. \A p \in Pkg : ~(p < 1)
    BY NAssumption DEF Pkg
  <2> QED
    BY <2>1, Lists
<1>2. Ascending({}) = <<>>
  BY AscendingGrows
<1>3. Names(<<>>) = <<>>
  BY DEF Names
<1>4. PassOne
  BY <1>1, <1>2, <1>3 DEF Init, PassOne
<1> QED
  BY <1>4 DEF Init, ListInv, Errors, Running

\* The passes come to what list_packages answers, in every state.
LEMMA ListHolds == Spec => [](Inv /\ ListInv)
BY ListInit, ListStep, Invariance, PTL DEF Spec

(***************************************************************************)
(* What a report says besides the outcome                                  *)
(***************************************************************************)
\* The runner gives none of the reasons that are given later, "unchanged" only
\* to a package outside the scope, to a skipped one the filters' reason if they
\* have one, and a bump to no failure it cannot classify.
SkipReason(p) == IF StaticSkip(p) # None THEN StaticSkip(p) ELSE "unchanged"

RawReports ==
  \A i \in DOMAIN reports :
    /\ reports[i].skip_reason \notin {"baseline warning", "baseline skipped", "pr mode gate"}
    /\ reports[i].skip_reason = "unchanged" => ~InScope(reports[i].name)
    /\ reports[i].status = "Skipped" =>
         reports[i].skip_reason = SkipReason(reports[i].name)
    /\ reports[i].failure_kind = "Unknown" => reports[i].bump = None

LEMMA RawStep == Inv /\ ListInv /\ RawReports /\ [Next]_vars => RawReports'
<1> SUFFICES ASSUME Inv, ListInv, RawReports, [Next]_vars
             PROVE  RawReports'
  OBVIOUS
<1> DEFINE Raw(r) ==
             /\ r.skip_reason \notin {"baseline warning", "baseline skipped", "pr mode gate"}
             /\ r.skip_reason = "unchanged" => ~InScope(r.name)
             /\ r.status = "Skipped" => r.skip_reason = SkipReason(r.name)
             /\ r.failure_kind = "Unknown" => r.bump = None
<1>0. /\ reports \in Seq(Report) /\ eligible \in Seq(Pkg) /\ scoped \in Seq(Pkg)
      /\ next \in Nat \ {0} /\ (pc = "running" => next <= Len(scoped))
  BY DEF Inv, TypeOK, LoopsInOrder
<1>a. \A i \in DOMAIN reports : Raw(reports[i])
  BY DEF RawReports
<1>1. (\A i \in DOMAIN reports' : Raw(reports'[i])) => RawReports'
  <2>1. \A p : InScope(p)' = InScope(p) /\ SkipReason(p)' = SkipReason(p)
    BY ListIsFixed DEF SkipReason
  <2> QED
    BY <2>1 DEF RawReports
<1> HIDE DEF Raw
<1>2. ASSUME NEW r \in Report, Raw(r), reports' = Append(reports, r)
      PROVE  \A i \in DOMAIN reports' : Raw(reports'[i])
  <2>1. /\ DOMAIN reports' = 1..(Len(reports) + 1) /\ DOMAIN reports = 1..Len(reports)
        /\ \A i \in DOMAIN reports : reports'[i] = reports[i]
        /\ reports'[Len(reports) + 1] = r /\ Len(reports) \in Nat
    BY <1>0, <1>2, Push
  <2> QED
    BY <1>a, <1>2, <2>1
<1>3. CASE FilterPackage /\ ~Ignored(next) /\ StaticSkip(next) # None
  <2>1. /\ next \in Pkg /\ reports' = Append(reports, skipped(next, StaticSkip(next)))
        /\ StaticSkip(next) \in {"filtered by include/exclude patterns", "publish = false",
                                 "no library target"}
    <3>1. next \in Pkg /\ reports' = Append(reports, skipped(next, StaticSkip(next)))
      BY <1>0, <1>3, NAssumption DEF FilterPackage, Pkg
    <3> QED
      BY <1>3, <3>1, StaticSkipType
  <2>2. skipped(next, StaticSkip(next)) \in Report /\ Raw(skipped(next, StaticSkip(next)))
    BY <1>3, <2>1, SkippedType DEF skipped, None, Raw, SkipReason
  <2> QED
    BY <1>1, <1>2, <2>1, <2>2
<1>4. CASE ScopePackage /\ ~InScope(eligible[next])
  <2>1. /\ eligible[next] \in Pkg
        /\ reports' = Append(reports, skipped(eligible[next], "unchanged"))
    BY <1>0, <1>4 DEF ScopePackage
  <2>3. StaticSkip(eligible[next]) = None
    <3>1. eligible = Ascending(ListEligible) /\ next \in DOMAIN eligible
      BY <1>0, <1>4 DEF ScopePackage, ListInv, PassTwo
    <3>2. Elements(Ascending(ListEligible)) = ListEligible
      BY Lists, AscendingGrows
    <3> QED
      BY <3>1, <3>2, ListAgrees DEF Elements
  <2>2. skipped(eligible[next], "unchanged") \in Report /\ Raw(skipped(eligible[next], "unchanged"))
    BY <1>4, <2>1, <2>3, SkippedType DEF skipped, None, Raw, SkipReason
  <2> QED
    BY <1>1, <1>2, <2>1, <2>2
<1>5. ASSUME NEW answer \in Answers, CompleteCheck(answer)
      PROVE  RawReports'
  <2>1. /\ scoped[next] \in Pkg /\ answer \in Answer
        /\ reports' = Append(reports, checked(scoped[next], answer))
    BY <1>0, <1>5, AnswersAssumption DEF CompleteCheck
  <2> DEFINE r == checked(scoped[next], answer)
  <2>2. r \in Report
    BY <2>1, CheckedType
  <2>3. r.failure_kind = "Unknown" => r.bump = None
    <3>1. r.failure_kind = Classified(answer).kind /\ r.bump = required_bump(answer)
      BY DEF checked
    <3>2. ~answer.ran => required_bump(answer) = None
      BY DEF required_bump
    <3>3. answer.ran /\ required_bump(answer) # None => Classified(answer).kind \in {None, "SemverViolation"}
      BY DEF Classified, classify_output_detailed, simple
    <3> QED
      BY <3>1, <3>2, <3>3 DEF None
  <2>4. r.skip_reason \in {None, "engine invocation failed"}
    BY DEF checked
  <2>6. r.status # "Skipped"
    BY DEF checked
  <2>5. Raw(r)
    BY <2>3, <2>4, <2>6 DEF None, Raw
  <2> QED
    BY <1>1, <1>2, <2>1, <2>2, <2>5
<1>6. CASE reports' = reports
  BY <1>a, <1>1, <1>6
<1>7. CASE UNCHANGED vars
  BY <1>6, <1>7 DEF vars
<1>8. CASE Load \/ EnterScope \/ EnterCheck \/ StartCheck \/ Finish
  BY <1>6, <1>8 DEF Load, EnterScope, EnterCheck, StartCheck, Finish, Fail
<1>9. CASE FilterPackage /\ (Ignored(next) \/ StaticSkip(next) = None)
  BY <1>6, <1>9 DEF FilterPackage
<1>10. CASE ScopePackage /\ InScope(eligible[next])
  BY <1>6, <1>10 DEF ScopePackage
<1> QED
  BY <1>3, <1>4, <1>5, <1>7, <1>8, <1>9, <1>10 DEF Next

\* There is no report when run() begins.
LEMMA RawInit == Init => RawReports
<1>1. Init => DOMAIN reports = {}
  BY DEF Init
<1> QED
  BY <1>1 DEF RawReports

LEMMA RawHolds == Spec => [](Inv /\ ListInv /\ RawReports)
BY RawInit, RawStep, ListHolds, PTL DEF Spec

(***************************************************************************)
(* A run follows the list                                                  *)
(***************************************************************************)
\* Once pass 3 has begun, the reports are the skipped packages and then the
\* checked ones, and each of the lists is a stretch of the reports.
LEMMA ReportsSplit ==
  ASSUME Inv, ListInv, Running
  PROVE  /\ Len(ListedSkips) \in Nat /\ next - 1 \in 0..Len(would_check)
         /\ DOMAIN reports = 1..(Len(ListedSkips) + (next - 1))
         /\ Skips = [ i \in 1..Len(ListedSkips) |-> reports[i] ]
         /\ Checks = [ i \in 1..(next - 1) |-> reports[Len(ListedSkips) + i] ]
         /\ \A i \in 1..Len(ListedSkips) : reports[i].name = ListedSkips[i]
         /\ \A i \in 1..(next - 1) : reports[Len(ListedSkips) + i].name = would_check[i]
<1> DEFINE k == Len(ListedSkips)
           m == next - 1
<1>1. /\ would_check \in Seq(Pkg) /\ ListedSkips \in Seq(Pkg) /\ next \in Nat \ {0}
      /\ scoped = would_check /\ next <= Len(scoped) + 1 /\ reports \in Seq(Report)
      /\ Names(reports) = ListedSkips \o SubSeq(would_check, 1, m)
      /\ \A i \in DOMAIN reports : reports[i].status = "Skipped" <=> i <= k
  BY Lists DEF Inv, TypeOK, ListInv, PassThree
<1>2. k \in Nat /\ m \in Nat /\ m <= Len(would_check)
  BY <1>1
<1>3. /\ SubSeq(would_check, 1, m) \in Seq(Pkg) /\ Len(SubSeq(would_check, 1, m)) = m
      /\ \A i \in 1..m : SubSeq(would_check, 1, m)[i] = would_check[i]
  BY <1>1, <1>2
<1>4. /\ Len(Names(reports)) = k + m
      /\ \A i \in 1..k : Names(reports)[i] = ListedSkips[i]
      /\ \A i \in 1..m : Names(reports)[k + i] = would_check[i]
  <2>1. /\ Len(ListedSkips \o SubSeq(would_check, 1, m)) = k + m
        /\ \A i \in 1..k : (ListedSkips \o SubSeq(would_check, 1, m))[i] = ListedSkips[i]
        /\ \A i \in 1..m : (ListedSkips \o SubSeq(would_check, 1, m))[k + i]
                             = SubSeq(would_check, 1, m)[i]
    BY <1>1, <1>2, <1>3
  <2> QED
    BY <1>1, <1>3, <2>1
<1>5. /\ DOMAIN reports = 1..(k + m)
      /\ \A i \in 1..(k + m) : Names(reports)[i] = reports[i].name
  BY <1>1, <1>4, NamesType
<1> HIDE DEF k, m
<1>6. /\ { i \in DOMAIN reports : reports[i].status = "Skipped" } = 1..k
      /\ { i \in DOMAIN reports : reports[i].status # "Skipped" } = (k + 1)..(k + m)
  BY <1>1, <1>2, <1>5
<1>7. Skips = [ i \in 1..k |-> reports[i] ]
  <2>1. At(reports, 1..k) = [ i \in 1..k |-> reports[i] ]
    BY <1>2, AtStart
  <2> QED
    BY <1>6, <2>1, Zenon DEF Skips
<1>8. Checks = [ i \in 1..m |-> reports[k + i] ]
  <2>1. At(reports, (k + 1)..(k + m)) = [ i \in 1..m |-> reports[k + i] ]
    BY <1>2, AtStretch
  <2> QED
    BY <1>6, <2>1, Zenon DEF Checks
<1>9. \A i \in 1..k : i \in 1..(k + m) /\ reports[i].name = ListedSkips[i]
  BY <1>2, <1>4, <1>5
<1>10. \A i \in 1..m : k + i \in 1..(k + m) /\ reports[k + i].name = would_check[i]
  BY <1>2, <1>4, <1>5
<1> QED
  BY <1>2, <1>5, <1>7, <1>8, <1>9, <1>10 DEF k, m

\* No check before pass 3.
LEMMA NoCheckYet ==
  ASSUME Inv, ListInv, ~Running
  PROVE  Checks = <<>> /\ DOMAIN Checks = {}
<1>1. \A i \in DOMAIN reports : reports[i].status = "Skipped"
  BY DEF Running, Inv, TypeOK, FailuresEndTheRun, ListInv, Errors
<1>2. { i \in DOMAIN reports : reports[i].status # "Skipped" } = 1..0
  BY <1>1
<1>3. Checks = [ i \in 1..0 |-> reports[i] ]
  <2>1. At(reports, 1..0) = [ i \in 1..0 |-> reports[i] ]
    BY AtStart
  <2> QED
    BY <1>2, <2>1, Zenon DEF Checks
<1> QED
  BY <1>3

\* What run() says of a skipped package is what list_packages says, but for the
\* wording of one reason.
LEMMA SkipsAreListed ==
  ASSUME Inv, ListInv, RawReports, Running
  PROVE  [ i \in DOMAIN Skips |->
             [name |-> Skips[i].name, reason |-> Reworded(Skips[i].skip_reason)] ] = would_skip
<1> DEFINE K == DOMAIN ListedSkips
           reason(p) == IF p \in ListSkipped THEN ListReason(p) ELSE "unchanged"
<1>1. /\ K = 1..Len(ListedSkips)
      /\ Skips = [ i \in K |-> reports[i] ]
      /\ \A i \in K : i \in DOMAIN reports /\ reports[i].name = ListedSkips[i]
  BY Lists, ReportsSplit
<1>2. \A i \in K : reports[i].status = "Skipped"
  BY <1>1, Lists DEF ListInv, PassThree
<1>3. ASSUME NEW i \in K
      PROVE  Reworded(reports[i].skip_reason) = reason(ListedSkips[i])
  <2> DEFINE p == ListedSkips[i]
  <2>1. p \in ListSkipped \/ p \in ListEligible
    <3> DEFINE a == Ascending(ListSkipped)
               b == Ascending({ q \in ListEligible : ~InScope(q) })
    <3>1. ListedSkips = a \o b
      BY ListAgrees
    <3>2. /\ a \in Seq(ListSkipped) /\ b \in Seq({ q \in ListEligible : ~InScope(q) })
      <4>1. { q \in ListEligible : ~InScope(q) } \in SUBSET Pkg
        BY Lists
      <4> QED
        BY <4>1, Lists, AscendingGrows, Zenon
    <3> HIDE DEF a, b
    <3>3. b \in Seq(ListEligible)
      BY <3>2
    <3>4. a \o b \in Seq(ListSkipped \cup ListEligible)
      <4>1. a \in Seq(ListSkipped \cup ListEligible) /\ b \in Seq(ListSkipped \cup ListEligible)
        BY <3>2, <3>3
      <4> QED
        BY <4>1
    <3> QED
      BY <3>1, <3>4
  <2>2. reports[i].skip_reason = SkipReason(p)
    BY <1>1, <1>2 DEF RawReports
  <2> HIDE DEF p
  <2>3. CASE p \in ListSkipped
    <3>1. ~Ignored(p) /\ StaticSkip(p) # None /\ ListReason(p) = Reworded(StaticSkip(p))
      BY <2>3, ListAgrees
    <3> QED
      BY <2>2, <2>3, <3>1 DEF SkipReason, p
  <2>4. CASE p \in ListEligible
    <3>1. StaticSkip(p) = None /\ p \notin ListSkipped
      BY <2>4, ListAgrees
    <3> QED
      BY <2>2, <3>1 DEF SkipReason, Reworded, p
  <2> QED
    BY <2>1, <2>3, <2>4
<1>4. DOMAIN Skips = K /\ \A i \in K : Skips[i] = reports[i]
  BY <1>1
<1> QED
  BY <1>1, <1>3, <1>4 DEF would_skip

\* `list` previews `check`: a run skips just what list_packages would skip, in
\* its order and for its reasons up to the wording of the name filter's; it
\* checks what list_packages would check, in its order and up to where fail_fast
\* stops; and one fails exactly when the other does, and with the same error.
THEOREM RunsFollowTheList == Spec => []RunFollowsList
<1>1. Inv /\ ListInv /\ RawReports => RunFollowsList
  <2> SUFFICES ASSUME Inv, ListInv, RawReports
               PROVE  RunFollowsList
    OBVIOUS
  <2>1. would_check \in Seq(Pkg)
    BY Lists
  <2>2. CASE Running
    <3>1. [ i \in DOMAIN Skips |->
              [name |-> Skips[i].name, reason |-> Reworded(Skips[i].skip_reason)] ] = would_skip
      BY <2>2, SkipsAreListed
    <3>2. Names(Checks) = [ i \in 1..(next - 1) |-> would_check[i] ]
      BY <2>2, ReportsSplit DEF Names
    <3>3. next - 1 \in 0..Len(would_check)
      BY <2>2, ReportsSplit
    <3>4. Names(Checks) = SubSeq(would_check, 1, next - 1)
      BY <2>1, <3>2, <3>3
    <3>5. IsPrefix(Names(Checks), would_check)
      BY <2>1, <3>2, <3>3, <3>4 DEF IsPrefix
    <3>6. pc = "done" /\ ~config.fail_fast => Names(Checks) = would_check
      <4> SUFFICES ASSUME pc = "done", ~config.fail_fast
                   PROVE  Names(Checks) = would_check
        OBVIOUS
      <4>1. From(scoped, next) = {}
        BY DEF Inv, FailuresEndTheRun, BrokeOff, Open
      <4>2. scoped = would_check
        BY <2>2 DEF ListInv, PassThree
      <4>3. next - 1 = Len(would_check)
        <5>1. next \in Nat /\ Len(would_check) \in Nat
          BY <2>1 DEF Inv, TypeOK
        <5>2. ~(next \in next..Len(would_check))
          BY <4>1, <4>2 DEF From
        <5> QED
          BY <3>3, <5>1, <5>2
      <4> QED
        BY <2>1, <3>2, <4>3
    <3>7. pc = "done" => list_error = None
      BY ListFails DEF Running, ListInv, Errors, Inv
    <3> QED
      BY <2>2, <3>1, <3>5, <3>6, <3>7 DEF RunFollowsList, Running
  <2>3. CASE ~Running
    <3>1. Names(Checks) = <<>>
      BY <2>3, NoCheckYet DEF Names
    <3>2. IsPrefix(<<>>, would_check)
      BY <2>1 DEF IsPrefix
    <3> QED
      BY <2>3, <3>1, <3>2 DEF RunFollowsList, Running, ListInv, Errors
  <2> QED
    BY <2>2, <2>3
<1> QED
  BY <1>1, RawHolds, PTL

(***************************************************************************)
(* The progress events                                                     *)
(***************************************************************************)
\* What is heard of the k-th check, and of all checks so far.
CheckStarted(k) == PackageStarted(would_check[k], k - 1, Len(would_check))
CheckCompleted(k) ==
  PackageCompleted(would_check[k], reports[Len(ListedSkips) + k].status)

Heard ==
  /\ \E S : events \in Seq(S)
  /\ Len(events) = IF pc \in {"running", "done"} THEN 2 * next ELSE 2 * next - 1
  /\ events[1] = TotalPackages(Len(would_check))
  /\ \A k \in 1..(next - 1) :
       events[2 * k] = CheckStarted(k) /\ events[2 * k + 1] = CheckCompleted(k)
  /\ pc = "running" => events[2 * next] = CheckStarted(next)
  /\ pc = "done" => events[2 * next] = Finished(summarize(reports))

EventInv ==
  /\ Running => Heard
  /\ ~Running => events = <<>>

\* One more event, of whatever type, at the end.
LEMMA EventSent ==
  ASSUME NEW S, NEW s \in Seq(S), NEW e
  PROVE  /\ Len(s) \in Nat /\ Len(Append(s, e)) = Len(s) + 1
         /\ \A i \in 1..Len(s) : Append(s, e)[i] = s[i]
         /\ Append(s, e)[Len(s) + 1] = e
         /\ \E T : Append(s, e) \in Seq(T)
<1> DEFINE T == S \cup {e}
<1>1. s \in [1..Len(s) -> T] /\ Len(s) \in Nat
  OBVIOUS
<1>2. s \in Seq(T) /\ e \in T
  BY <1>1
<1> HIDE DEF T
<1>3. /\ Append(s, e) \in Seq(T) /\ Len(Append(s, e)) = Len(s) + 1
      /\ \A i \in 1..Len(s) : Append(s, e)[i] = s[i]
      /\ Append(s, e)[Len(s) + 1] = e
  BY <1>2, AppendProperties
<1> QED
  BY <1>1, <1>3

\* Every step of run() sends what it should.
LEMMA EventStep == Inv /\ ListInv /\ EventInv /\ [Next]_vars => EventInv'
<1> SUFFICES ASSUME Inv, ListInv, EventInv, [Next]_vars
             PROVE  EventInv'
  OBVIOUS
<1>0. would_check' = would_check /\ ListedSkips' = ListedSkips
  BY ListIsFixed
<1>1. /\ next \in Nat \ {0} /\ would_check \in Seq(Pkg) /\ ListedSkips \in Seq(Pkg)
      /\ reports \in Seq(Report)
  BY Lists DEF Inv, TypeOK
<1>2. CASE Load \/ FilterPackage \/ EnterScope \/ ScopePackage
  <2>1. ~Running /\ ~Running' /\ events' = events
    BY <1>2 DEF Load, FilterPackage, EnterScope, ScopePackage, Fail, Running
  <2> QED
    BY <2>1 DEF EventInv
<1>3. CASE EnterCheck
  <2>1. pc = "scope" /\ pc' = "check" /\ next' = 1 /\ events = <<>>
    BY <1>3 DEF EnterCheck, EventInv, Running
  <2>2. scoped' = would_check /\ scoped' = scoped
    <3>1. ListInv'
      BY ListStep
    <3> QED
      BY <1>0, <1>3, <2>1, <3>1 DEF EnterCheck, ListInv, PassThree, Running
  <2>3. events' = <<TotalPackages(Len(would_check))>>
    BY <1>3, <2>1, <2>2 DEF EnterCheck
  <2>4. <<TotalPackages(Len(would_check))>> \in Seq({TotalPackages(Len(would_check))})
    OBVIOUS
  <2>5. Heard'
    <3>1. \E S : events' \in Seq(S)
      BY <2>3, <2>4
    <3>2. Len(events') = 1 /\ events'[1] = TotalPackages(Len(would_check))
      BY <2>3
    <3> QED
      BY <1>0, <2>1, <3>1, <3>2 DEF Heard
  <2> QED
    BY <2>1, <2>5 DEF EventInv, Running
<1>4. ASSUME Running, UNCHANGED <<next, reports>>, NEW e, events' = Append(events, e),
             \/ /\ pc = "check" /\ pc' = "running"
                /\ e = CheckStarted(next)
             \/ /\ pc \in {"check", "finish"} /\ pc' = "done"
                /\ e = Finished(summarize(reports))
      PROVE  EventInv'
  <2>1. PICK S : events \in Seq(S)
    BY <1>4 DEF EventInv, Heard
  <2>2. /\ Len(events) = 2 * next - 1 /\ Len(events') = Len(events) + 1
        /\ \A i \in 1..Len(events) : events'[i] = events[i]
        /\ events'[Len(events) + 1] = e
        /\ \E T : events' \in Seq(T)
    <3>1. Len(events) = 2 * next - 1
      BY <1>4 DEF EventInv, Heard
    <3>2. /\ Len(Append(events, e)) = Len(events) + 1
          /\ \A i \in 1..Len(events) : Append(events, e)[i] = events[i]
          /\ Append(events, e)[Len(events) + 1] = e
          /\ \E T : Append(events, e) \in Seq(T)
      BY <2>1, EventSent
    <3> QED
      BY <1>4, <3>1, <3>2
  <2>3. /\ events'[1] = events[1] /\ events'[2 * next] = e
        /\ \A k \in 1..(next - 1) :
             events'[2 * k] = events[2 * k] /\ events'[2 * k + 1] = events[2 * k + 1]
    BY <1>1, <2>2
  <2>4. Heard
    BY <1>4 DEF EventInv
  <2>5. Heard'
    BY <1>0, <1>1, <1>4, <2>2, <2>3, <2>4 DEF Heard, CheckStarted, CheckCompleted
  <2> QED
    BY <1>4, <2>5 DEF EventInv, Running
<1>5. CASE StartCheck
  <2>1. scoped = would_check
    BY <1>5 DEF StartCheck, ListInv, PassThree, Running
  <2> QED
    BY <1>4, <1>5, <2>1 DEF StartCheck, CheckStarted, Running
<1>6. CASE Finish
  BY <1>4, <1>6 DEF Finish, Running
<1>7. ASSUME NEW answer \in Answers, CompleteCheck(answer)
      PROVE  EventInv'
  <2> DEFINE r == checked(scoped[next], answer)
             e == PackageCompleted(scoped[next], r.status)
  <2>1. /\ pc = "running" /\ pc' \in {"check", "finish"} /\ next' = next + 1
        /\ reports' = Append(reports, r) /\ events' = Append(events, e)
        /\ Heard /\ scoped = would_check /\ next \in 1..Len(scoped) /\ scoped[next] \in Pkg
    BY <1>1, <1>7 DEF CompleteCheck, ListInv, PassThree, EventInv, Running, Inv, LoopsInOrder
  <2>2. r \in Report
    BY <2>1, CheckedType, AnswersAssumption
  <2>3. e = PackageCompleted(would_check[next], r.status)
    BY <2>1
  <2> HIDE DEF r, e
  <2>4. /\ Len(ListedSkips) \in Nat
        /\ \A k \in 1..(next - 1) : reports'[Len(ListedSkips) + k] = reports[Len(ListedSkips) + k]
        /\ reports'[Len(ListedSkips) + next] = r
    <3>1. DOMAIN reports = 1..(Len(ListedSkips) + (next - 1)) /\ Len(ListedSkips) \in Nat
      BY <2>1, ReportsSplit DEF Running
    <3>2. Len(reports) = Len(ListedSkips) + (next - 1)
      BY <1>1, <3>1
    <3>3. /\ \A i \in 1..Len(reports) : reports'[i] = reports[i]
          /\ reports'[Len(reports) + 1] = r
      BY <1>1, <2>1, <2>2, Push
    <3> QED
      BY <1>1, <3>1, <3>2, <3>3
  <2>5. PICK S : events \in Seq(S)
    BY <2>1 DEF Heard
  <2>6. /\ Len(events) = 2 * next /\ Len(events') = Len(events) + 1
        /\ \A i \in 1..Len(events) : events'[i] = events[i]
        /\ events'[Len(events) + 1] = e
        /\ \E T : events' \in Seq(T)
    <3>1. Len(events) = 2 * next
      BY <2>1 DEF Heard
    <3>2. /\ Len(Append(events, e)) = Len(events) + 1
          /\ \A i \in 1..Len(events) : Append(events, e)[i] = events[i]
          /\ Append(events, e)[Len(events) + 1] = e
          /\ \E T : Append(events, e) \in Seq(T)
      BY <2>5, EventSent
    <3> QED
      BY <2>1, <3>1, <3>2
  <2>7. /\ events'[1] = events[1] /\ events'[2 * next] = events[2 * next]
        /\ events'[2 * next + 1] = e
        /\ \A k \in 1..(next - 1) :
             events'[2 * k] = events[2 * k] /\ events'[2 * k + 1] = events[2 * k + 1]
    BY <1>1, <2>6
  <2>8. /\ events[2 * next] = CheckStarted(next)
        /\ \A k \in 1..(next - 1) :
             events[2 * k] = CheckStarted(k) /\ events[2 * k + 1] = CheckCompleted(k)
    BY <2>1 DEF Heard
  <2>9. ASSUME NEW k \in 1..next
        PROVE  events'[2 * k] = CheckStarted(k)' /\ events'[2 * k + 1] = CheckCompleted(k)'
    <3>1. CASE k = next
      BY <1>0, <2>3, <2>4, <2>7, <2>8, <3>1 DEF CheckStarted, CheckCompleted
    <3>2. CASE k \in 1..(next - 1)
      BY <1>0, <2>4, <2>7, <2>8, <3>2 DEF CheckStarted, CheckCompleted
    <3> QED
      BY <1>1, <3>1, <3>2
  <2>10. Heard'
    <3>1. Len(events') = 2 * next' - 1 /\ next' - 1 = next
      BY <1>1, <2>1, <2>6
    <3>2. events'[1] = TotalPackages(Len(would_check'))
      BY <1>0, <2>1, <2>7 DEF Heard
    <3> QED
      BY <2>1, <2>6, <2>9, <3>1, <3>2 DEF Heard
  <2> QED
    BY <2>1, <2>10 DEF EventInv, Running
<1>8. CASE UNCHANGED vars
  BY <1>0, <1>8 DEF vars, EventInv, Heard, Running, CheckStarted, CheckCompleted
<1> QED
  BY <1>2, <1>3, <1>5, <1>6, <1>7, <1>8 DEF Next

\* No event has been sent when run() begins.
LEMMA EventInit == Init => EventInv
BY DEF Init, EventInv, Running

LEMMA EventsHold == Spec => [](Inv /\ ListInv /\ EventInv)
BY EventInit, EventStep, ListHolds, PTL DEF Spec

\* Filtering the even indexes, the odd ones after the first, one index, or none.
LEMMA AtEvens ==
  ASSUME NEW s, NEW b \in Nat
  PROVE  At(s, { 2 * k : k \in 1..b }) = [ k \in 1..b |-> s[2 * k] ]
<1> DEFINE t == [ k \in 1..b |-> 2 * k ]
           I == { 2 * k : k \in 1..b }
<1>1. /\ I \in SUBSET Int /\ t \in [1..b -> I]
      /\ \A x \in I : \E k \in 1..b : t[k] = x
      /\ \A i, j \in 1..b : i < j => t[i] < t[j]
  OBVIOUS
<1> HIDE DEF I, t
<1>2. At(s, I) = [ k \in 1..b |-> s[t[k]] ]
  BY <1>1, AtIsUnique
<1> QED
  BY <1>2 DEF I, t

LEMMA AtOdds ==
  ASSUME NEW s, NEW b \in Nat
  PROVE  At(s, { 2 * k + 1 : k \in 1..b }) = [ k \in 1..b |-> s[2 * k + 1] ]
<1> DEFINE t == [ k \in 1..b |-> 2 * k + 1 ]
           I == { 2 * k + 1 : k \in 1..b }
<1>1. /\ I \in SUBSET Int /\ t \in [1..b -> I]
      /\ \A x \in I : \E k \in 1..b : t[k] = x
      /\ \A i, j \in 1..b : i < j => t[i] < t[j]
  OBVIOUS
<1> HIDE DEF I, t
<1>2. At(s, I) = [ k \in 1..b |-> s[t[k]] ]
  BY <1>1, AtIsUnique
<1> QED
  BY <1>2 DEF I, t

LEMMA AtOne ==
  ASSUME NEW s, NEW x \in Int
  PROVE  Len(At(s, {x})) = 1
<1> DEFINE b == 1
           t == [ k \in 1..b |-> x ]
           I == {x}
<1>1. /\ I \in SUBSET Int /\ t \in [1..b -> I] /\ b \in Nat
      /\ \A y \in I : \E k \in 1..b : t[k] = y
      /\ \A i, j \in 1..b : i < j => t[i] < t[j]
  OBVIOUS
<1> HIDE DEF I, t, b
<1>2. At(s, I) = [ k \in 1..b |-> s[t[k]] ]
  BY <1>1, AtIsUnique
<1>3. Len(At(s, I)) = b
  BY <1>1, <1>2
<1> QED
  BY <1>3 DEF I, b

LEMMA AtNone ==
  ASSUME NEW s
  PROVE  At(s, {}) = <<>>
<1>1. At(s, 1..0) = [ k \in 1..0 |-> s[k] ]
  BY AtStart
<1> QED
  BY <1>1

\* Where the events of each type are.
Sent(type) == { i \in DOMAIN events : events[i].type = type }

LEMMA WhereEventsAre ==
  ASSUME Inv, ListInv, EventInv, Running
  PROVE  /\ Sent("TotalPackages") = {1}
         /\ Sent("PackageStarted") =
              { 2 * k : k \in 1..(IF pc = "running" THEN next ELSE next - 1) }
         /\ Sent("PackageCompleted") = { 2 * k + 1 : k \in 1..(next - 1) }
         /\ Sent("Finished") = IF pc = "done" THEN {2 * next} ELSE {}
<1>1. next \in Nat \ {0} /\ Heard
  BY DEF EventInv, Inv, TypeOK
<1>2. DOMAIN events = 1..(IF pc \in {"running", "done"} THEN 2 * next ELSE 2 * next - 1)
  <2>1. PICK S : events \in Seq(S)
    BY <1>1 DEF Heard
  <2>2. DOMAIN events = 1..Len(events)
    BY <2>1
  <2> QED
    BY <1>1, <2>2 DEF Heard
<1>3. /\ events[1].type = "TotalPackages"
      /\ \A k \in 1..(next - 1) : /\ events[2 * k].type = "PackageStarted"
                                  /\ events[2 * k + 1].type = "PackageCompleted"
      /\ pc = "running" => events[2 * next].type = "PackageStarted"
      /\ pc = "done" => events[2 * next].type = "Finished"
  <2>1. /\ TotalPackages(Len(would_check)).type = "TotalPackages"
        /\ \A k : CheckStarted(k).type = "PackageStarted"
        /\ \A k : CheckCompleted(k).type = "PackageCompleted"
        /\ Finished(summarize(reports)).type = "Finished"
    BY DEF TotalPackages, CheckStarted, PackageStarted, CheckCompleted, PackageCompleted,
       Finished
  <2> QED
    BY <1>1, <2>1 DEF Heard
<1>4. ASSUME NEW i \in DOMAIN events
      PROVE  \/ i = 1
             \/ \E k \in 1..(next - 1) : i = 2 * k \/ i = 2 * k + 1
             \/ i = 2 * next /\ pc \in {"running", "done"}
  <2>1. PICK k \in Nat : i = 2 * k \/ i = 2 * k + 1
    <3>1. i \in Nat
      BY <1>1, <1>2, <1>4
    <3>2. i \div 2 \in Nat /\ (i = 2 * (i \div 2) \/ i = 2 * (i \div 2) + 1)
      BY <3>1
    <3> QED
      BY <3>2
  <2>2. CASE k \in 1..(next - 1)
    BY <2>1, <2>2
  <2>3. CASE k = 0
    BY <1>1, <1>2, <1>4, <2>1, <2>3
  <2>4. CASE k >= next
    BY <1>1, <1>2, <1>4, <2>1, <2>4
  <2> QED
    BY <1>1, <2>1, <2>2, <2>3, <2>4
<1>5. /\ 1 \in DOMAIN events
      /\ \A k \in 1..(next - 1) : 2 * k \in DOMAIN events /\ 2 * k + 1 \in DOMAIN events
      /\ pc \in {"running", "done"} => 2 * next \in DOMAIN events
  BY <1>1, <1>2
<1>6. Sent("TotalPackages") = {1}
  BY <1>3, <1>4, <1>5 DEF Sent
<1>7. Sent("PackageCompleted") = { 2 * k + 1 : k \in 1..(next - 1) }
  BY <1>3, <1>4, <1>5 DEF Sent
<1>8. Sent("PackageStarted") =
        { 2 * k : k \in 1..(IF pc = "running" THEN next ELSE next - 1) }
  <2>1. CASE pc = "running"
    <3>1. 1..next = 1..(next - 1) \cup {next}
      BY <1>1
    <3>2. Sent("PackageStarted") = { 2 * k : k \in 1..(next - 1) } \cup {2 * next}
      BY <1>3, <1>4, <1>5, <2>1 DEF Sent
    <3> QED
      BY <2>1, <3>1, <3>2
  <2>2. CASE pc # "running"
    <3>1. Sent("PackageStarted") = { 2 * k : k \in 1..(next - 1) }
      BY <1>3, <1>4, <1>5, <2>2 DEF Sent
    <3> QED
      BY <2>2, <3>1
  <2> QED
    BY <2>1, <2>2
<1>9. Sent("Finished") = IF pc = "done" THEN {2 * next} ELSE {}
  BY <1>3, <1>4, <1>5 DEF Sent
<1> QED
  BY <1>6, <1>7, <1>8, <1>9

\* The progress reporter hears the total first, then of each check a start and
\* its completion with the status that is reported, in order and numbered
\* without gaps, and the summary of the reports last.
THEOREM ProgressIsTold == Spec => []ProgressProtocol
<1>1. Inv /\ ListInv /\ EventInv => ProgressProtocol
  <2> SUFFICES ASSUME Inv, ListInv, EventInv
               PROVE  ProgressProtocol
    OBVIOUS
  <2> DEFINE of(type) == At(events, { i \in DOMAIN events : events[i].type = type })
             started == of("PackageStarted")
             completed == of("PackageCompleted")
             begun == IF pc = "running" THEN next ELSE next - 1
             done == next - 1
  <2>0. \A type : of(type) = At(events, Sent(type))
    BY DEF Sent
  <2> HIDE DEF of
  <2>1. CASE Running
    <3>1. next \in Nat \ {0} /\ Heard /\ done \in Nat /\ begun \in Nat
      BY <2>1 DEF EventInv, Inv, TypeOK
    <3>2. /\ started = [ k \in 1..begun |-> events[2 * k] ]
          /\ completed = [ k \in 1..done |-> events[2 * k + 1] ]
      <4>1. /\ started = At(events, { 2 * k : k \in 1..begun })
            /\ completed = At(events, { 2 * k + 1 : k \in 1..done })
        BY <2>0, <2>1, WhereEventsAre
      <4> HIDE DEF begun, done
      <4> QED
        BY <3>1, <4>1, AtEvens, AtOdds
    <3>3. Len(of("TotalPackages")) = 1 /\ Len(of("Finished")) = IF pc = "done" THEN 1 ELSE 0
      <4>1. 1 \in Int /\ 2 * next \in Int
        BY <3>1
      <4>2. QED
        <5>1. Len(At(events, {1})) = 1 /\ Len(At(events, {2 * next})) = 1
          BY <4>1, AtOne
        <5>2. Len(At(events, {})) = 0
          BY AtNone
        <5>3. /\ of("TotalPackages") = At(events, {1})
              /\ of("Finished") = At(events, IF pc = "done" THEN {2 * next} ELSE {})
          BY <2>0, <2>1, WhereEventsAre
        <5> QED
          BY <5>1, <5>2, <5>3
    <3>4. \A k \in 1..begun : events[2 * k] = CheckStarted(k)
      BY <3>1 DEF Heard
    <3>5. \A k \in 1..done : events[2 * k + 1] = CheckCompleted(k)
      BY <3>1 DEF Heard
    <3> HIDE DEF started, completed, begun, done
    <3>6. \A i \in DOMAIN started :
            /\ started[i].name = would_check[i]
            /\ started[i].index = i - 1 /\ started[i].total = Len(would_check)
      <4>1. \A k : /\ CheckStarted(k).name = would_check[k]
                   /\ CheckStarted(k).index = k - 1
                   /\ CheckStarted(k).total = Len(would_check)
        BY DEF CheckStarted, PackageStarted
      <4> QED
        BY <3>2, <3>4, <4>1
    <3>7. completed = [ i \in DOMAIN Checks |->
                          PackageCompleted(Checks[i].name, Checks[i].status) ]
      <4>1. /\ Checks = [ i \in 1..done |-> reports[Len(ListedSkips) + i] ]
            /\ \A i \in 1..done : reports[Len(ListedSkips) + i].name = would_check[i]
        BY <2>1, ReportsSplit DEF done
      <4> QED
        BY <3>2, <3>5, <4>1 DEF CheckCompleted
    <3>8. Len(started) - Len(completed) = IF pc = "running" THEN 1 ELSE 0
      <4>1. Len(started) = begun /\ Len(completed) = done
        BY <3>1, <3>2
      <4> QED
        BY <3>1, <4>1 DEF begun, done
    <3>9. pc = "done" => Last(events) = Finished(summarize(reports))
      BY <3>1 DEF Heard, Last
    <3>10. events[1] = TotalPackages(Len(would_check))
      BY <3>1 DEF Heard
    <3>11. pc = "done" <=> Len(of("Finished")) = 1
      BY <3>3
    <3> QED
      BY <3>3, <3>6, <3>7, <3>8, <3>9, <3>10, <3>11, Zenon
         DEF ProgressProtocol, started, completed, of
  <2>2. CASE ~Running
    <3>1. events = <<>> /\ pc \notin {"running", "done"}
      BY <2>2 DEF EventInv, Running
    <3>2. \A type : Sent(type) = {}
      BY <3>1 DEF Sent
    <3>3. \A type : of(type) = <<>>
      BY <2>0, <3>2, AtNone
    <3>4. completed = [ i \in DOMAIN Checks |->
                          PackageCompleted(Checks[i].name, Checks[i].status) ]
      <4>1. DOMAIN Checks = {}
        BY <2>2, NoCheckYet
      <4> QED
        BY <3>3, <4>1
    <3>5. /\ started = <<>> /\ completed = <<>>
          /\ Len(of("TotalPackages")) = 0 /\ Len(of("Finished")) = 0
      BY <3>3
    <3> HIDE DEF started, completed
    <3> QED
      BY <3>1, <3>4, <3>5 DEF ProgressProtocol, started, completed, of
  <2> QED
    BY <2>1, <2>2
<1> QED
  BY <1>1, EventsHold, PTL

=============================================================================
