---------------------------- MODULE MC_TypeRules ----------------------------
(* TLC instances of TypeRules.                                             *)
EXTENDS TypeRules, TLC
CONSTANTS r1, r2, t1, t2, q1, q2

\* Two replicas with a ticker, and the second with a request slot as well.
MCAt2 == t1 :> r1 @@ t2 :> r2 @@ q2 :> r2
=============================================================================
