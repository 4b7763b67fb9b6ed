------------------------------ MODULE Filtering ------------------------------
(***************************************************************************)
(* [x for x in seq if x in S]: the filter by which the order of deposits,  *)
(* the snapshots in reach and the charges of the last minute are taken.    *)
(***************************************************************************)
EXTENDS Integers, Sequences, FiniteSets

\* The places that are kept.
Kept(seq, S) == {i \in DOMAIN seq : seq[i] \in S}

\* The members of a sequence that lie in a set, in their order: the n-th of them is the one
\* with n - 1 of them before it.
Filtered(seq, S) ==
  LET kept == Kept(seq, S)
      Nth(n) == CHOOSE i \in kept : Cardinality({j \in kept : j < i}) = n - 1
  IN  [n \in 1..Cardinality(kept) |-> seq[Nth(n)]]
=============================================================================
