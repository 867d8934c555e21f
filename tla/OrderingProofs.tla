------------------------------ MODULE OrderingProofs ------------------------------
(***************************************************************************)
(* What the lists of Ordering hold: every element once, in order, and no   *)
(* other list does.                                                        *)
(***************************************************************************)
EXTENDS Ordering, Sequences, FiniteSetTheorems, TLAPS

\* R is a strict total order on S.
StrictOrder(S, R) ==
  /\ \A x \in S : <<x, x>> \notin R
  /\ \A x, y, z \in S : <<x, y>> \in R /\ <<y, z>> \in R => <<x, z>> \in R
  /\ \A x, y \in S : x # y => <<x, y>> \in R \/ <<y, x>> \in R

(***************************************************************************)
(* Ranks                                                                   *)
(***************************************************************************)
\* Fewer elements are before x than before a later y, and fewer before both
\* than there are.
LEMMA RankIsMonotonic ==
  ASSUME NEW S, IsFiniteSet(S), NEW R, StrictOrder(S, R), NEW x \in S
  PROVE  /\ IsFiniteSet(Before(x, S, R))
         /\ Cardinality(Before(x, S, R)) \in 0..(Cardinality(S) - 1)
         /\ \A y \in S : <<x, y>> \in R =>
              Cardinality(Before(x, S, R)) < Cardinality(Before(y, S, R))
<1>1. ASSUME NEW z \in S
      PROVE  /\ Before(z, S, R) \subseteq S \ {z}
             /\ IsFiniteSet(Before(z, S, R)) /\ Cardinality(Before(z, S, R)) \in Nat
  <2>1. Before(z, S, R) \subseteq S \ {z}
    BY DEF Before, StrictOrder
  <2> QED
    BY <2>1, FS_Subset, FS_CardinalityType
<1>2. Cardinality(Before(x, S, R)) <= Cardinality(S) - 1 /\ Cardinality(S) \in Nat
  <2>1. /\ IsFiniteSet(S \ {x}) /\ Cardinality(S \ {x}) = Cardinality(S) - 1
        /\ Cardinality(S) \in Nat
    BY FS_RemoveElement, FS_CardinalityType
  <2> QED
    BY <1>1, <2>1, FS_Subset
<1>3. ASSUME NEW y \in S, <<x, y>> \in R
      PROVE  Cardinality(Before(x, S, R)) < Cardinality(Before(y, S, R))
  <2>1. /\ Before(x, S, R) \subseteq Before(y, S, R)
        /\ x \in Before(y, S, R) /\ x \notin Before(x, S, R)
    BY <1>3 DEF Before, StrictOrder
  <2>2. /\ Cardinality(Before(x, S, R)) <= Cardinality(Before(y, S, R))
        /\ Cardinality(Before(x, S, R)) # Cardinality(Before(y, S, R))
    BY <1>1, <2>1, FS_Subset
  <2> QED
    BY <1>1, <2>2
<1> QED
  BY <1>1, <1>2, <1>3

\* Each place of the list has exactly one element.
LEMMA RankIsBijective ==
  ASSUME NEW S, IsFiniteSet(S), NEW R, StrictOrder(S, R)
  PROVE  /\ Cardinality(S) \in Nat
         /\ \A k \in 1..Cardinality(S) :
              \E x \in S : /\ Cardinality(Before(x, S, R)) = k - 1
                           /\ \A y \in S : Cardinality(Before(y, S, R)) = k - 1 => y = x
<1> DEFINE n == Cardinality(S)
           place == [ x \in S |-> Cardinality(Before(x, S, R)) + 1 ]
<1>1. n \in Nat
  BY FS_CardinalityType
<1>2. \A x, y \in S : x # y =>
        Cardinality(Before(x, S, R)) # Cardinality(Before(y, S, R))
  <2> SUFFICES ASSUME NEW x \in S, NEW y \in S, x # y
               PROVE  Cardinality(Before(x, S, R)) # Cardinality(Before(y, S, R))
    OBVIOUS
  <2>1. /\ Cardinality(Before(x, S, R)) \in Int /\ Cardinality(Before(y, S, R)) \in Int
        /\ <<x, y>> \in R \/ <<y, x>> \in R
    BY <1>1, RankIsMonotonic DEF StrictOrder
  <2> QED
    BY <2>1, RankIsMonotonic
<1>3. place \in Injection(S, 1..n)
  <2>1. \A x \in S : Cardinality(Before(x, S, R)) + 1 \in 1..n
    BY <1>1, RankIsMonotonic
  <2>2. \A x, y \in S : place[x] = place[y] => x = y
    BY <1>2, RankIsMonotonic
  <2> QED
    BY <2>1, <2>2 DEF Injection, IsInjective
<1>4. IsFiniteSet(1..n) /\ Cardinality(1..n) = n
  BY <1>1, FS_Interval
<1>5. place \in Surjection(S, 1..n)
  <2> HIDE DEF place
  <2> QED
    BY <1>3, <1>4, FS_Injection
<1>6. \A k \in 1..n : \E x \in S : place[x] = k
  BY <1>5 DEF Surjection
<1>7. \A k \in 1..n : \E x \in S : Cardinality(Before(x, S, R)) = k - 1
  <2> TAKE k \in 1..n
  <2>1. PICK x \in S : place[x] = k
    BY <1>6
  <2>2. Cardinality(Before(x, S, R)) \in Int /\ Cardinality(Before(x, S, R)) + 1 = k
    BY <2>1, RankIsMonotonic
  <2> QED
    BY <2>2
<1> QED
  BY <1>1, <1>2, <1>7

(***************************************************************************)
(* The list                                                                *)
(***************************************************************************)
\* The list has every element of the set, each once, and in order.
LEMMA OrderedHolds ==
  ASSUME NEW S, IsFiniteSet(S), NEW R, StrictOrder(S, R)
  PROVE  LET s == Ordered(S, R)
         IN  /\ Cardinality(S) \in Nat
             /\ s \in [1..Cardinality(S) -> S]
             /\ \A x \in S : \E k \in 1..Cardinality(S) : s[k] = x
             /\ \A i, j \in 1..Cardinality(S) : s[i] = s[j] => i = j
             /\ \A i, j \in 1..Cardinality(S) : i < j <=> <<s[i], s[j]>> \in R
<1> DEFINE n == Cardinality(S)
           s == Ordered(S, R)
           rank(x) == Cardinality(Before(x, S, R))
<1>1. n \in Nat
  BY RankIsBijective
<1>2. \A k \in 1..n : s[k] \in S /\ rank(s[k]) = k - 1
  BY RankIsBijective DEF Ordered
<1>3. s \in [1..n -> S]
  BY <1>2 DEF Ordered
<1>4. \A x \in S : \E k \in 1..n : s[k] = x
  <2> TAKE x \in S
  <2>1. rank(x) + 1 \in 1..n /\ (rank(x) + 1) - 1 = rank(x)
    BY <1>1, RankIsMonotonic
  <2>2. rank(s[rank(x) + 1]) = rank(x) /\ s[rank(x) + 1] \in S
    BY <1>2, <2>1
  <2>3. s[rank(x) + 1] = x
    BY <2>1, <2>2, RankIsBijective
  <2> QED
    BY <2>1, <2>3
<1>5. \A i, j \in 1..n : s[i] = s[j] => i = j
  BY <1>1, <1>2
<1> HIDE DEF s
<1>6. ASSUME NEW i \in 1..n, NEW j \in 1..n
      PROVE  i < j <=> <<s[i], s[j]>> \in R
  <2>1. <<s[i], s[j]>> \in R => i < j
    <3> SUFFICES ASSUME <<s[i], s[j]>> \in R
                 PROVE  i < j
      OBVIOUS
    <3>1. rank(s[i]) < rank(s[j])
      BY <1>2, RankIsMonotonic
    <3> QED
      BY <1>1, <1>2, <3>1
  <2>2. <<s[j], s[i]>> \in R => j < i
    <3> SUFFICES ASSUME <<s[j], s[i]>> \in R
                 PROVE  j < i
      OBVIOUS
    <3>1. rank(s[j]) < rank(s[i])
      BY <1>2, RankIsMonotonic
    <3> QED
      BY <1>1, <1>2, <3>1
  <2>3. i # j => <<s[i], s[j]>> \in R \/ <<s[j], s[i]>> \in R
    BY <1>2, <1>5 DEF StrictOrder
  <2> QED
    BY <1>1, <2>1, <2>2, <2>3
<1> QED
  BY <1>1, <1>3, <1>4, <1>5, <1>6 DEF s

\* And no other list does.
LEMMA OrderedIsUnique ==
  ASSUME NEW S, NEW R, StrictOrder(S, R),
         NEW n \in Nat, NEW t \in [1..n -> S],
         \A x \in S : \E k \in 1..n : t[k] = x,
         \A i, j \in 1..n : i < j => <<t[i], t[j]>> \in R
  PROVE  IsFiniteSet(S) /\ Cardinality(S) = n /\ t = Ordered(S, R)
<1>0. ASSUME NEW i \in 1..n, NEW j \in 1..n
      PROVE  /\ t[i] \in S /\ t[j] \in S /\ (i = j \/ i < j \/ j < i)
             /\ i < j => <<t[i], t[j]>> \in R
             /\ j < i => <<t[j], t[i]>> \in R
  OBVIOUS
<1>1. \A i, j \in 1..n : t[i] = t[j] => i = j
  <2> TAKE i \in 1..n, j \in 1..n
  <2> QED
    BY <1>0 DEF StrictOrder
<1>2. \A i, j \in 1..n : <<t[i], t[j]>> \in R => i < j
  <2> TAKE i \in 1..n, j \in 1..n
  <2>1. CASE i = j
    BY <1>0, <2>1 DEF StrictOrder
  <2>2. CASE j < i
    <3>1. <<t[j], t[i]>> \in R /\ t[i] \in S /\ t[j] \in S
      BY <1>0, <2>2
    <3> QED
      BY <3>1, Zenon DEF StrictOrder
  <2> QED
    BY <1>0, <2>1, <2>2
<1>3. t \in Bijection(1..n, S)
  BY <1>1 DEF Bijection, Injection, Surjection, IsInjective
<1>4. IsFiniteSet(S) /\ Cardinality(S) = n
  BY <1>3, FS_CountingElements, FS_NatBijection DEF ExistsBijection
<1>5. ASSUME NEW k \in 1..n
      PROVE  Cardinality(Before(t[k], S, R)) = k - 1
  <2> DEFINE first == [ i \in 1..(k - 1) |-> t[i] ]
  <2>1. first \in Bijection(1..(k - 1), Before(t[k], S, R))
    <3>1. 1..(k - 1) \subseteq 1..n /\ \A i \in 1..(k - 1) : i < k
      OBVIOUS
    <3>2. \A i \in 1..(k - 1) : first[i] \in Before(t[k], S, R)
      BY <3>1 DEF Before
    <3>3. \A x \in Before(t[k], S, R) : \E i \in 1..(k - 1) : first[i] = x
      <4> SUFFICES ASSUME NEW x \in Before(t[k], S, R)
                   PROVE  \E i \in 1..(k - 1) : t[i] = x
        OBVIOUS
      <4>1. PICK i \in 1..n : t[i] = x
        BY DEF Before
      <4>2. i < k
        BY <1>2, <4>1 DEF Before
      <4> QED
        BY <4>1, <4>2
    <3>4. \A i, j \in 1..(k - 1) : first[i] = first[j] => i = j
      BY <1>1, <3>1
    <3> QED
      BY <3>2, <3>3, <3>4 DEF Bijection, Injection, Surjection, IsInjective
  <2>2. k - 1 \in Nat
    OBVIOUS
  <2> HIDE DEF first
  <2> QED
    BY <2>1, <2>2, FS_CountingElements DEF ExistsBijection
<1>6. ASSUME NEW k \in 1..n
      PROVE  t[k] = CHOOSE x \in S : Cardinality(Before(x, S, R)) = k - 1
  BY <1>4, <1>5, RankIsBijective
<1> QED
  BY <1>4, <1>6 DEF Ordered

(***************************************************************************)
(* Lists of numbers                                                        *)
(***************************************************************************)
\* The usual order is one.
LEMMA LessIsStrict ==
  ASSUME NEW S \in SUBSET Int
  PROVE  StrictOrder(S, Less(S))
BY DEF StrictOrder, Less

\* A finite set of numbers as an increasing list.
LEMMA AscendingHolds ==
  ASSUME NEW S \in SUBSET Int, IsFiniteSet(S)
  PROVE  LET s == Ascending(S)
         IN  /\ Cardinality(S) \in Nat
             /\ s \in [1..Cardinality(S) -> S]
             /\ \A x \in S : \E k \in 1..Cardinality(S) : s[k] = x
             /\ \A i, j \in 1..Cardinality(S) : s[i] = s[j] => i = j
             /\ \A i, j \in 1..Cardinality(S) : i < j <=> s[i] < s[j]
<1> DEFINE s == Ordered(S, Less(S))
<1>1. /\ Cardinality(S) \in Nat
      /\ s \in [1..Cardinality(S) -> S]
      /\ \A x \in S : \E k \in 1..Cardinality(S) : s[k] = x
      /\ \A i, j \in 1..Cardinality(S) : s[i] = s[j] => i = j
      /\ \A i, j \in 1..Cardinality(S) : i < j <=> <<s[i], s[j]>> \in Less(S)
  BY LessIsStrict, OrderedHolds
<1> HIDE DEF s
<1>2. \A i, j \in 1..Cardinality(S) : i < j <=> s[i] < s[j]
  BY <1>1 DEF Less
<1> QED
  BY <1>1, <1>2 DEF Ascending, s

\* The only one with these elements.
LEMMA AscendingIsUnique ==
  ASSUME NEW S \in SUBSET Int, NEW n \in Nat, NEW t \in [1..n -> S],
         \A x \in S : \E k \in 1..n : t[k] = x,
         \A i, j \in 1..n : i < j => t[i] < t[j]
  PROVE  IsFiniteSet(S) /\ Cardinality(S) = n /\ t = Ascending(S)
<1>1. \A i, j \in 1..n : i < j => <<t[i], t[j]>> \in Less(S)
  BY DEF Less
<1> QED
  BY <1>1, LessIsStrict, OrderedIsUnique DEF Ascending

(***************************************************************************)
(* Filtered lists                                                          *)
(***************************************************************************)
\* Filtering by index keeps the entries with these indexes, in order.
LEMMA AtHolds ==
  ASSUME NEW s, NEW I \in SUBSET Int, IsFiniteSet(I)
  PROVE  /\ Cardinality(I) \in Nat
         /\ DOMAIN At(s, I) = 1..Cardinality(I)
         /\ At(s, I) = [ k \in 1..Cardinality(I) |-> s[Ascending(I)[k]] ]
         /\ \A k \in 1..Cardinality(I) : Ascending(I)[k] \in I
         /\ \A i \in I : \E k \in 1..Cardinality(I) : At(s, I)[k] = s[i]
         /\ \A T : (\A i \in I : s[i] \in T) => At(s, I) \in Seq(T)
<1>1. /\ Cardinality(I) \in Nat
      /\ Ascending(I) \in [1..Cardinality(I) -> I]
      /\ \A i \in I : \E k \in 1..Cardinality(I) : Ascending(I)[k] = i
  BY AscendingHolds
<1>2. At(s, I) = [ k \in 1..Cardinality(I) |-> s[Ascending(I)[k]] ]
  BY <1>1 DEF At
<1>3. \A i \in I : \E k \in 1..Cardinality(I) : At(s, I)[k] = s[i]
  BY <1>1, <1>2
<1>4. ASSUME NEW T, \A i \in I : s[i] \in T
      PROVE  At(s, I) \in Seq(T)
  <2>1. At(s, I) \in [1..Cardinality(I) -> T]
    BY <1>1, <1>2, <1>4
  <2> QED
    BY <1>1, <2>1
<1> QED
  BY <1>1, <1>2, <1>3, <1>4

\* Whatever lists the same indexes in order is the filtered list.
LEMMA AtIsUnique ==
  ASSUME NEW s, NEW I \in SUBSET Int, NEW n \in Nat, NEW t \in [1..n -> I],
         \A x \in I : \E k \in 1..n : t[k] = x,
         \A i, j \in 1..n : i < j => t[i] < t[j]
  PROVE  /\ IsFiniteSet(I) /\ Cardinality(I) = n
         /\ At(s, I) = [ k \in 1..n |-> s[t[k]] ]
<1>1. IsFiniteSet(I) /\ Cardinality(I) = n /\ t = Ascending(I)
  BY AscendingIsUnique
<1> QED
  BY <1>1 DEF At

=============================================================================
