------------------------- MODULE MC_Reconciliation -------------------------
(* Reconciliation, and the gateway beneath it, on small instances.        *)
EXTENDS Reconciliation

CONSTANTS c1, c2

\* Every decision of the vendor, spread over two transactions.
MCDecisions == <<{"paid", "noAmount"}, {"timeout", "rejected"}>>

\* One caller on two transactions with a failure; two callers on one.
MCLoads ==
    {[callers |-> {c1}, rows |-> {1, 2}, targets |-> {2}, expiring |-> {},
      flagged |-> {2}, faults |-> 1],
     [callers |-> {c1, c2}, rows |-> {1}, targets |-> {1}, expiring |-> {1},
      flagged |-> {1}, faults |-> 0]}

\* Two callers on one transaction with a failure.
MCOneTransactionLoads ==
    {[callers |-> {c1, c2}, rows |-> {1}, targets |-> {1}, expiring |-> {1},
      flagged |-> {1}, faults |-> 1]}

\* Any callers on two transactions, and nothing fails.
MCUndisturbed ==
    {[callers |-> Callers, rows |-> {1, 2}, targets |-> {1}, expiring |-> {},
      flagged |-> {1, 2}, faults |-> 0]}

\* One transaction that is paid, with or without an amount, or rejected.
MCOneTransaction == <<{"paid", "noAmount", "rejected"}>>
=============================================================================
