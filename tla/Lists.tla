------------------------------- MODULE Lists -------------------------------
(***************************************************************************)
(* The elements of a list at some of its positions, in their order: what   *)
(* std::erase_if leaves of a vector.                                       *)
(***************************************************************************)
EXTENDS Integers, Sequences, FiniteSets

(* The n-th of some positions. *)
Nth(K, n) == CHOOSE i \in K : Cardinality({j \in K : j <= i}) = n
Kept(s, K) == [n \in 1..Cardinality(K) |-> s[Nth(K, n)]]
=============================================================================
