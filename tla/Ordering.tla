------------------------------ MODULE Ordering ------------------------------
(***************************************************************************)
(* The members of a set of integers in their order, and what is built on   *)
(* it: the elements of a sequence that are in a set.  Both are defined by  *)
(* counting, not by recursion.                                             *)
(***************************************************************************)
EXTENDS Integers, Sequences, FiniteSets

\* The n-th smallest member of I: n members are not above it.
Nth(I, n) == CHOOSE i \in I : Cardinality({j \in I : j <= i}) = n

\* The elements of s that are in S, in the order they have in s.
Filter(s, S) ==
    LET I == {i \in DOMAIN s : s[i] \in S}
    IN  [n \in 1 .. Cardinality(I) |-> s[Nth(I, n)]]

=============================================================================
