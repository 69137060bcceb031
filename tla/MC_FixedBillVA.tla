--------------------------- MODULE MC_FixedBillVA ---------------------------
(* TLC instances of FixedBillVA.                                           *)
EXTENDS FixedBillVA, TLC

\* Handlers, inquiry ids and payments are interchangeable.
Symmetry == Permutations(Handlers) \cup Permutations(InqIds) \cup Permutations(PayReqs)
=============================================================================
