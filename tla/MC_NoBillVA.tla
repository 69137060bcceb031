---------------------------- MODULE MC_NoBillVA ----------------------------
(* TLC instances of NoBillVA.                                              *)
EXTENDS NoBillVA, TLC

\* Handlers, payments and external ids are interchangeable.
Symmetry == Permutations(Handlers) \cup Permutations(PayReqs) \cup Permutations(ExtIds)
=============================================================================
