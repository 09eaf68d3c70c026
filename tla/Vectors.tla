------------------------------- MODULE Vectors ------------------------------
(***************************************************************************)
(* What std::erase and std::erase_if leave of a vector: the elements that  *)
(* pass a test, in their order.  The Filter of this module says it without *)
(* recursion, so that proofs can expand it.                                *)
(***************************************************************************)
EXTENDS Integers, FiniteSets, Sequences

\* The i-th least of a finite set of numbers.
Nth(K, i) == CHOOSE k \in K : Cardinality({j \in K : j <= k}) = i

\* The elements of s at the indices of K, in their order.
Picked(s, K) == [i \in 1..Cardinality(K) |-> s[Nth(K, i)]]

Filter(s, Test(_)) == Picked(s, {i \in 1..Len(s) : Test(s[i])})
=============================================================================
