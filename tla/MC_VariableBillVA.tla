-------------------------- MODULE MC_VariableBillVA --------------------------
(* TLC instances of VariableBillVA.                                        *)
EXTENDS VariableBillVA, TLC

\* Handlers are interchangeable, and payments other than the inquired one.
Symmetry == Permutations(Handlers) \cup Permutations(PayReqs \ {Inquired})

LoadOf(kinds, overlap, tenders, totals, claims) ==
    [kinds |-> kinds, overlap |-> overlap, tenders |-> tenders, totals |-> totals,
     claims |-> claims]

\* Every request overlapping with every other, for two payments of one total: on a
\* claimed row, on a placeholder but for delete-va, and on a placeholder with one
\* payment.  And three payments in turn.
MCLoads ==
    {LoadOf(RequestKinds, TRUE, 2, {2}, {TRUE}),
     LoadOf(RequestKinds \ {"delete"}, TRUE, 2, {2}, {FALSE}),
     LoadOf(RequestKinds, TRUE, 1, {2}, {FALSE}),
     LoadOf({"inquiry", "payment", "delete"}, FALSE, 3, {2, 3}, {TRUE})}

\* Loads for single questions: instalments alone, and with the reconciler.
MCPayments == {LoadOf({"payment"}, TRUE, 2, Totals, {TRUE})}
MCReconciled == {LoadOf({"payment", "reconcile"}, TRUE, 2, Totals, {TRUE})}
=============================================================================
