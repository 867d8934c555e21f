--------------------------------- MODULE Ordering ---------------------------------
(***************************************************************************)
(* Sorted lists, for the places where the code sorts, filters a list or    *)
(* walks through one in a fixed order.                                     *)
(*                                                                         *)
(* An order is a set of pairs and no operator, and a list is given by what *)
(* is at each place instead of by recursion, so that OrderingProofs can    *)
(* say what these lists hold.                                              *)
(***************************************************************************)
EXTENDS Integers, FiniteSets

Before(x, S, R) == { y \in S : <<y, x>> \in R }

\* The elements of a finite set in the order R: the k-th has k - 1 before it.
Ordered(S, R) ==
  [ k \in 1..Cardinality(S) |-> CHOOSE x \in S : Cardinality(Before(x, S, R)) = k - 1 ]

Less(S) == { pair \in S \X S : pair[1] < pair[2] }
Ascending(S) == Ordered(S, Less(S))

\* The entries of s with an index in I, in the order they have in s.
At(s, I) ==
  LET index == Ascending(I)
  IN  [ k \in DOMAIN index |-> s[index[k]] ]

=============================================================================
