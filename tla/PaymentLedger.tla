--------------------------- MODULE PaymentLedger ---------------------------
(***************************************************************************)
(* What the service promises about money, whatever the kind of virtual     *)
(* account: a paymentRequestId is credited at most once, the credit is     *)
(* never altered or withdrawn, and the merchant is called back at most     *)
(* once for it, only after the credit.                                     *)
(***************************************************************************)
EXTENDS Naturals

CONSTANTS
    PayReqs,  \* paymentRequestIds
    Credits,  \* what is put on file for a payment
    None      \* nothing is on file

VARIABLES
    ledger,   \* the credit of every payment
    told      \* callbacks enqueued for every payment

ledgerVars == <<ledger, told>>

Init ==
    /\ ledger = [p \in PayReqs |-> None]
    /\ told = [p \in PayReqs |-> 0]

\* The payment is put on file.
Credit(p, c) ==
    /\ ledger[p] = None
    /\ ledger' = [ledger EXCEPT ![p] = c]
    /\ UNCHANGED told

\* The merchant's callback is enqueued.
Tell(p) ==
    /\ ledger[p] # None
    /\ told[p] = 0
    /\ told' = [told EXCEPT ![p] = 1]
    /\ UNCHANGED ledger

Next == \E p \in PayReqs : Tell(p) \/ \E c \in Credits : Credit(p, c)

Spec == Init /\ [][Next]_ledgerVars
=============================================================================
