--------------------------- MODULE MC_Idempotency ---------------------------
(* TLC instances of Idempotency.                                           *)
EXTENDS Idempotency, TLC

\* Handlers, X-EXTERNAL-IDs and paymentRequestIds are interchangeable.
Symmetry == Permutations(Handlers) \cup Permutations(Keys) \cup Permutations(PayReqs)
=============================================================================
