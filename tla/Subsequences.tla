---------------------------- MODULE Subsequences ----------------------------
(***************************************************************************)
(* A sequence without some of its elements, as the loops that filter a     *)
(* slice, the SELECT ... WHERE and the DELETE ... WHERE of the code leave  *)
(* it.  SelectSeq says the same, but is defined by recursion, about which  *)
(* the provers know nothing.                                               *)
(***************************************************************************)
EXTENDS Naturals, Sequences, FiniteSets

Rank(I, i) == Cardinality({j \in I : j <= i})

\* The k-th of the positions I.
Position(I, k) == CHOOSE i \in I : Rank(I, i) = k

\* The elements of s at the positions I, in the order of s.
Keep(s, I) == [k \in 1 .. Cardinality(I) |-> s[Position(I, k)]]
=============================================================================
