--------------------------- MODULE VariableBillVA ---------------------------
(***************************************************************************)
(* A variable-bill transaction (vaType 02/05): /payment adds instalments   *)
(* to va_payments until their sum reaches the total.  The ceiling is       *)
(* checked on the record read before; SaveVAPayment is a READ COMMITTED    *)
(* transaction that inserts the instalment, sums the instalments and       *)
(* overwrites paid_amount and status.                                      *)
(*                                                                         *)
(* The module has one va_transactions row.  claimed: an inquiry has put    *)
(* the vendor's id on it.  While it is unclaimed, create-va reopens it;    *)
(* a claimed row is left behind by create-va (see FixedBillVA, which also  *)
(* has the claim and the va.expired callback).                             *)
(***************************************************************************)
EXTENDS Naturals, FiniteSetsExt

CONSTANTS
    PayReqs,   \* paymentRequestIds of the instalments
    Inquired,  \* the payment the vendor knows under the row's inquiryRequestId
    Amounts,   \* amounts tendered
    Totals,    \* totals billed
    Handlers,  \* slots for requests in progress
    Loads,     \* what the number is used for: one Load per initial state
    Faults,    \* which failures happen: a subset of {"crash", "queue"}
    None       \* "nothing"

RequestKinds == {"create", "inquiry", "payment", "delete", "reconcile"}

ASSUME AmountsAssumption == Amounts \subseteq Nat \ {0} /\ Totals \subseteq Nat \ {0}

\* Which requests are made, whether they overlap, how many payments are tendered
\* (a bound), the totals billed and whether the row is claimed.
Load == [kinds: SUBSET RequestKinds, overlap: BOOLEAN, tenders: Nat,
         totals: SUBSET Totals, claims: SUBSET BOOLEAN]

ASSUME LoadsAssumption == Loads \subseteq Load
ASSUME NoneAssumption == None \notin Nat \cup PayReqs
ASSUME InquiredAssumption == Inquired \in PayReqs

\* va_transactions.status
Success == "00"
Expired == "02"
Pending == "03"
Deleted == "04"

Row == [status: {Success, Expired, Pending, Deleted}, paid: Nat, total: Totals,
        preq: PayReqs \cup {None}, claimed: BOOLEAN, past: BOOLEAN, url: BOOLEAN]

Request == [kind: {"payment"}, preq: PayReqs]
           \cup [kind: {"create"}, total: Totals]
           \cup [kind: {"inquiry", "delete", "reconcile"}]

VARIABLES
    txn,        \* the row; past: its expired_date has passed
    payments,   \* va_payments: the amount committed, per paymentRequestId
    tendered,   \* external: what the vendor's customers paid
    load,       \* external: one of Loads
    callbacks,  \* payment.received tasks enqueued by /payment
    recovered,  \* payment.received tasks enqueued by the reconciler
    pc, req, read,  \* a handler's position, request and record read
    recorded,   \* what the INSERT of a handler's database transaction reported
    paidAmount, \* the sum a handler's database transaction read
    answered    \* history: payments answered 2002500 or 4042518

given == <<tendered, load>>
tasks == <<callbacks, recovered>>
tx    == <<recorded, paidAmount>>
vars  == <<txn, payments, given, tasks, pc, req, read, tx, answered>>

PCs == {"idle", "existing", "lookup", "replay", "insert", "sum", "total", "update", "notify",
        "mark", "open", "cancel", "vendor", "settle", "recovered"}

\* Types; an instalment is on file with the amount its customer tendered.
TypeOK ==
    /\ txn \in Row /\ load \in Loads
    /\ tendered \in [PayReqs -> Amounts \cup {None}]
    /\ payments \in [PayReqs -> Amounts \cup {None}]
    /\ \A p \in PayReqs : payments[p] \in {None, tendered[p]}
    /\ callbacks \in [PayReqs -> Nat]
    /\ recovered \in Nat
    /\ pc \in [Handlers -> PCs]
    /\ req \in [Handlers -> Request \cup {None}]
    /\ read \in [Handlers -> Row \cup {None}]
    /\ recorded \in [Handlers -> BOOLEAN]
    /\ paidAmount \in [Handlers -> Nat]
    /\ answered \in SUBSET PayReqs

Init ==
    /\ load \in Loads
    /\ txn \in [status: {Pending}, paid: {0}, total: load.totals, preq: {None},
                claimed: load.claims, past: {FALSE}, url: BOOLEAN]
    /\ payments = [p \in PayReqs |-> None]
    /\ tendered = [p \in PayReqs |-> None]
    /\ callbacks = [p \in PayReqs |-> 0]
    /\ recovered = 0
    /\ pc = [h \in Handlers |-> "idle"]
    /\ req = [h \in Handlers |-> None]
    /\ read = [h \in Handlers |-> None]
    /\ recorded = [h \in Handlers |-> FALSE]
    /\ paidAmount = [h \in Handlers |-> 0]
    /\ answered = {}

-----------------------------------------------------------------------------
(* Helpers                                                                 *)

OnFile == {p \in PayReqs : payments[p] # None}

\* The sum of the amounts f of the instalments ps.
SumOf(f, ps) == MapThenSumSet(LAMBDA p : f[p], ps)

\* SUM(amount) over the instalments ps.
Total(ps) == SumOf(tendered, ps)

\* h has inserted its instalment and not committed.
Inserted(h) == pc[h] \in {"sum", "total", "update"} /\ recorded[h]

IsExpired(row) == row.status = Expired \/ (row.status = Pending /\ row.past)

\* Mutant: the status of the transaction is not looked at.
AlwaysPayable(row) == TRUE

IsPayable(row) == row.status = Pending \/ (row.status = Success /\ row.paid < row.total)

\* Mutant: what was paid before is not added.
OverpaysAlone(row, amount) == amount > row.total

\* variableBillOverpayment
Overpays(row, amount) == row.paid + amount > row.total

\* Mutant: the bill must be exceeded.
SuccessAbove(paid, total) == IF paid > total THEN Success ELSE Pending

\* The status SaveVAPayment writes.
StatusAfter(paid, total) == IF paid >= total THEN Success ELSE Pending

Quiescent == \A h \in Handlers : pc[h] = "idle"

Goto(h, l) == pc' = [pc EXCEPT ![h] = l]

\* The response goes out, or the handler stops: an open database transaction
\* is rolled back.
Respond(h) ==
    /\ Goto(h, "idle")
    /\ req' = [req EXCEPT ![h] = None]
    /\ read' = [read EXCEPT ![h] = None]
    /\ recorded' = [recorded EXCEPT ![h] = FALSE]
    /\ paidAmount' = [paidAmount EXCEPT ![h] = 0]

-----------------------------------------------------------------------------
(* Requests                                                                *)

\* External: the customer pays an instalment at the vendor.
CustomerPays(p, m) ==
    /\ tendered[p] = None
    /\ Cardinality({q \in PayReqs : tendered[q] # None}) < load.tenders
    /\ tendered' = [tendered EXCEPT ![p] = m]
    /\ UNCHANGED <<load, txn, payments, tasks, pc, req, read, tx, answered>>

ExpiredDatePasses ==
    /\ ~txn.past
    /\ txn' = [txn EXCEPT !.past = TRUE]
    /\ UNCHANGED <<payments, given, tasks, pc, req, read, tx, answered>>

Arrive(h, r, l) ==
    /\ r.kind \in load.kinds
    /\ pc[h] = "idle"
    /\ load.overlap \/ Quiescent
    /\ Goto(h, l)
    /\ req' = [req EXCEPT ![h] = r]
    /\ UNCHANGED <<txn, payments, given, tasks, read, tx, answered>>

\* The vendor flags a payment, any number of times, under an X-EXTERNAL-ID of
\* its own each time.
PaymentArrives(h, p) ==
    /\ tendered[p] # None
    /\ Arrive(h, [kind |-> "payment", preq |-> p], "existing")

InquiryArrives(h) == Arrive(h, [kind |-> "inquiry"], "lookup")

DeleteArrives(h) == Arrive(h, [kind |-> "delete"], "lookup")

ReconcileArrives(h) == Arrive(h, [kind |-> "reconcile"], "lookup")

CreateArrives(h) ==
    /\ ~txn.claimed
    /\ \E t \in load.totals : Arrive(h, [kind |-> "create", total |-> t], "lookup")

-----------------------------------------------------------------------------
(* payment                                                                 *)

\* GetPaymentByPaymentRequestID: va_transactions only.
CheckExisting(h) ==
    /\ pc[h] = "existing"
    /\ \/ /\ txn.preq = req[h].preq
          /\ answered' = answered \cup {req[h].preq}
          /\ Respond(h)
       \/ /\ txn.preq # req[h].preq
          /\ Goto(h, "lookup")
          /\ UNCHANGED <<req, read, tx, answered>>
    /\ UNCHANGED <<txn, payments, given, tasks>>

\* replayVariableInstalment, before the status guards: an instalment on file is
\* answered from it.  The guards and the ceiling look at the record read.
Replay(h) ==
    /\ pc[h] = "replay"
    /\ LET p == req[h].preq
           refused == ~IsPayable(read[h]) \/ Overpays(read[h], tendered[p])
       IN  \/ /\ p \in OnFile
              /\ answered' = answered \cup {p}
              /\ Respond(h)
           \/ /\ p \notin OnFile /\ ~IsExpired(read[h]) /\ refused
              /\ Respond(h)
              /\ UNCHANGED answered
           \/ /\ p \notin OnFile
              /\ IsExpired(read[h]) \/ ~refused
              /\ Goto(h, IF IsExpired(read[h]) THEN "mark" ELSE "insert")
              /\ UNCHANGED <<req, read, tx, answered>>
    /\ UNCHANGED <<txn, payments, given, tasks>>

\* Mutant: the conflict is not looked at.
InsertAlways(h) ==
    /\ pc[h] = "insert"
    /\ recorded' = [recorded EXCEPT ![h] = TRUE]
    /\ Goto(h, "sum")
    /\ UNCHANGED <<txn, payments, given, tasks, req, read, paidAmount, answered>>

\* SaveVAPayment: INSERT ... ON CONFLICT (payment_request_id) DO NOTHING.  The
\* statement waits while another database transaction holds the same key.
Insert(h) ==
    /\ pc[h] = "insert"
    /\ \A g \in Handlers \ {h} : Inserted(g) => req[g].preq # req[h].preq
    /\ recorded' = [recorded EXCEPT ![h] = req[h].preq \notin OnFile]
    /\ Goto(h, "sum")
    /\ UNCHANGED <<txn, payments, given, tasks, req, read, paidAmount, answered>>

\* SaveVAPayment: the SUM sees what is committed and the transaction's own row.
SumInstalments(h) ==
    /\ pc[h] = "sum"
    /\ paidAmount' = [paidAmount EXCEPT ![h] =
                        Total(OnFile \cup (IF recorded[h] THEN {req[h].preq} ELSE {}))]
    /\ Goto(h, "total")
    /\ UNCHANGED <<txn, payments, given, tasks, req, read, recorded, answered>>

\* SaveVAPayment: SELECT total_amount.
SelectTotal(h) ==
    /\ pc[h] = "total"
    /\ read' = [read EXCEPT ![h].total = txn.total]
    /\ Goto(h, "update")
    /\ UNCHANGED <<txn, payments, given, tasks, req, tx, answered>>

\* After SaveVAPayment: 2002500, or for an instalment found on file 2002500 or
\* 4042518.  Only the handler that recorded it notifies.
Recorded(h) ==
    \/ /\ recorded[h]
       /\ Goto(h, "notify")
       /\ UNCHANGED <<req, read, tx, answered>>
    \/ /\ ~recorded[h]
       /\ answered' = answered \cup {req[h].preq}
       /\ Respond(h)

\* Mutant: the amount is added to what the row has.
AddAndCommit(h) ==
    /\ pc[h] = "update"
    /\ LET paid == txn.paid + tendered[req[h].preq]
       IN  txn' = [txn EXCEPT !.paid = paid, !.status = StatusAfter(paid, read[h].total)]
    /\ payments' = [payments EXCEPT ![req[h].preq] = tendered[req[h].preq]]
    /\ Recorded(h)
    /\ UNCHANGED <<given, tasks>>

\* Mutant: a failed commit is taken for a success.
CommitUnchecked(h) ==
    /\ pc[h] = "update"
    /\ \/ /\ txn' = [txn EXCEPT !.paid = paidAmount[h],
                                !.status = StatusAfter(paidAmount[h], read[h].total)]
          /\ payments' = [payments EXCEPT ![req[h].preq] = tendered[req[h].preq]]
       \/ UNCHANGED <<txn, payments>>
    /\ Recorded(h)
    /\ UNCHANGED <<given, tasks>>

\* SaveVAPayment: UPDATE va_transactions ... WHERE id = $1, then COMMIT.  The row
\* stays locked between the two and nothing of them can be read before the end,
\* so they are one step.
UpdateAndCommit(h) ==
    /\ pc[h] = "update"
    /\ txn' = [txn EXCEPT !.paid = paidAmount[h], !.status = StatusAfter(paidAmount[h], read[h].total)]
    /\ payments' = [payments EXCEPT ![req[h].preq] = tendered[req[h].preq]]
    /\ Recorded(h)
    /\ UNCHANGED <<given, tasks>>

\* notifyMerchantWithVA: best effort, then 2002500.
NotifyPayment(h) ==
    /\ pc[h] = "notify"
    /\ \/ /\ read[h].url
          /\ callbacks' = [callbacks EXCEPT ![req[h].preq] = @ + 1]
       \/ /\ ~read[h].url \/ "queue" \in Faults
          /\ UNCHANGED callbacks
    /\ answered' = answered \cup {req[h].preq}
    /\ Respond(h)
    /\ UNCHANGED <<txn, payments, given, recovered>>

-----------------------------------------------------------------------------
(* The other requests                                                      *)

Route(h) ==
    CASE req[h].kind = "payment" -> "replay"
      [] req[h].kind = "inquiry" -> IF IsExpired(txn) THEN "mark" ELSE "answer"
      [] req[h].kind = "delete" -> IF txn.status = Pending THEN "cancel" ELSE "answer"
      [] req[h].kind = "create" -> IF txn.status = Pending THEN "answer" ELSE "open"
      [] req[h].kind = "reconcile" ->
           IF txn.status = Pending /\ txn.claimed THEN "vendor" ELSE "answer"

\* GetVAByVirtualAccountNo, called by every handler.
Lookup(h) ==
    /\ pc[h] = "lookup"
    /\ \/ /\ Route(h) = "answer"
          /\ Respond(h)
       \/ /\ Route(h) # "answer"
          /\ Goto(h, Route(h))
          /\ read' = [read EXCEPT ![h] = txn]
          /\ UNCHANGED <<req, tx>>
    /\ UNCHANGED <<txn, payments, given, tasks, answered>>

\* UpdateVAStatus ... WHERE status = '03'
SetPending(s) == txn' = IF txn.status = Pending THEN [txn EXCEPT !.status = s] ELSE txn

MarkExpired(h) ==
    /\ pc[h] = "mark"
    /\ SetPending(Expired)
    /\ Respond(h)
    /\ UNCHANGED <<payments, given, tasks, answered>>

CancelVA(h) ==
    /\ pc[h] = "cancel"
    /\ SetPending(Deleted)
    /\ Respond(h)
    /\ UNCHANGED <<payments, given, tasks, answered>>

\* SaveInquiry on the placeholder's row: ON CONFLICT DO UPDATE.  The request has a
\* notificationUrl or none.
SaveInquiry(h) ==
    /\ pc[h] = "open"
    /\ \E url \in BOOLEAN :
         txn' = [txn EXCEPT !.status = Pending, !.total = req[h].total, !.past = FALSE, !.url = url]
    /\ Respond(h)
    /\ UNCHANGED <<payments, given, tasks, answered>>

\* gateway.PaymentStatus: the payment the vendor has under the row's id.
VendorAnswers(h) ==
    /\ pc[h] = "vendor"
    /\ \/ /\ tendered[Inquired] = None
          /\ Respond(h)
       \/ /\ tendered[Inquired] # None
          /\ Goto(h, "settle")
          /\ UNCHANGED <<req, read, tx>>
    /\ UNCHANGED <<txn, payments, given, tasks, answered>>

\* SettlePendingFromVendor: paid_amount becomes what the vendor reported.
Settle(h) ==
    /\ pc[h] = "settle"
    /\ \/ /\ txn.status = Pending
          /\ txn' = [txn EXCEPT !.status = Success, !.paid = tendered[Inquired], !.preq = Inquired]
          /\ Goto(h, "recovered")
          /\ UNCHANGED <<req, read, tx>>
       \/ /\ txn.status # Pending
          /\ Respond(h)
          /\ UNCHANGED txn
    /\ UNCHANGED <<payments, given, tasks, answered>>

NotifyRecovered(h) ==
    /\ pc[h] = "recovered"
    /\ \/ /\ read[h].url
          /\ recovered' = recovered + 1
       \/ /\ ~read[h].url \/ "queue" \in Faults
          /\ UNCHANGED recovered
    /\ Respond(h)
    /\ UNCHANGED <<txn, payments, given, callbacks, answered>>

\* The process dies, the request is cancelled or a statement fails.
Stop(h) ==
    /\ "crash" \in Faults
    /\ pc[h] # "idle"
    /\ Respond(h)
    /\ UNCHANGED <<txn, payments, given, tasks, answered>>

-----------------------------------------------------------------------------
(* Specification                                                           *)

Step(h) ==
    \/ CheckExisting(h) \/ Lookup(h) \/ Replay(h)
    \/ Insert(h) \/ SumInstalments(h) \/ SelectTotal(h) \/ UpdateAndCommit(h)
    \/ NotifyPayment(h)
    \/ MarkExpired(h) \/ CancelVA(h) \/ SaveInquiry(h)
    \/ VendorAnswers(h) \/ Settle(h) \/ NotifyRecovered(h)

Arrivals(h) ==
    \/ \E p \in PayReqs : PaymentArrives(h, p)
    \/ InquiryArrives(h) \/ DeleteArrives(h) \/ ReconcileArrives(h) \/ CreateArrives(h)

Next ==
    \/ \E h \in Handlers : Arrivals(h) \/ Step(h) \/ Stop(h)
    \/ \E p \in PayReqs, m \in Amounts : CustomerPays(p, m)
    \/ ExpiredDatePasses

Spec == Init /\ [][Next]_vars

\* A request in progress goes on; the vendor flags a payment until it is
\* answered as on file.
FairSpec ==
    /\ Spec
    /\ \A h \in Handlers : WF_vars(Step(h))
    /\ \A p \in PayReqs : SF_vars(\E h \in Handlers : PaymentArrives(h, p))

-----------------------------------------------------------------------------
(* Properties                                                              *)

\* An instalment is credited once, its credit never changes, and /payment calls
\* the merchant back at most once and only after the commit, whatever races.
Ledger == INSTANCE PaymentLedger WITH Credits <- Amounts, ledger <- payments, told <- callbacks
ImplementsLedger == Ledger!Spec

\* A payment answered as on file (2002500 or 4042518) is on file.
AnsweredIsOnFile == \A p \in answered : p \in OnFile \/ txn.preq = p

\* Under every interleaving of instalments the row claims no more than the
\* instalments amount to, and is settled only when they reach the total, unless
\* the reconciler settled it or create-va gave it another bill.
RowIsBacked ==
    txn.claimed /\ txn.preq = None =>
        /\ txn.paid <= Total(OnFile)
        /\ txn.status = Success => Total(OnFile) >= txn.total

\* An instalment tendered for what the bill still owes gets on file, however its
\* retries and the other instalments interleave, unless the bill expires first.
InstalmentLands ==
    \A p \in PayReqs : tendered[p] # None ~> p \in OnFile \/ IsExpired(txn)

\* "A variable bill takes instalments, but only up to what it billed."
UpToTheBill == Total(OnFile) <= txn.total

\* Between requests paid_amount is the sum of the instalments.
PaidIsTheSum == Quiescent => txn.paid = Total(OnFile)

\* "SaveVAPayment only flips the row to '00' once the cumulative total reaches
\* total_amount": between requests a bill paid in full does not stay pending.
PaidInFullIsSettled == Quiescent /\ Total(OnFile) >= txn.total => txn.status # Pending

\* "expired ('02') and deleted ('04') VAs are closed for reasons no amount
\* comparison may reopen."
ClosedStaysClosed ==
    [][txn.status \in {Expired, Deleted} /\ txn.claimed => txn'.status = txn.status]_vars

\* Each of the four does hold while the requests for the number do not overlap,
\* also when one of them stops half way and the next goes on from there: what
\* breaks them is the record read before SaveVAPayment, never the steps by
\* themselves.
InTurn == ~load.overlap

\* Instalments that follow one another, stopped anywhere and sent again, never
\* add up to more than the bill.
UpToTheBillInTurn == InTurn => UpToTheBill

\* paid_amount is the sum after every sequence of requests, replays and failures.
PaidIsTheSumInTurn == InTurn => PaidIsTheSum

\* The last instalment settles the bill, whichever request it takes to land it.
PaidInFullIsSettledInTurn == InTurn => PaidInFullIsSettled

\* No sequence of requests reopens an expired or deleted bill.
ClosedStaysClosedInTurn ==
    [][InTurn /\ txn.status \in {Expired, Deleted} /\ txn.claimed
       => txn'.status = txn.status]_vars

\* "the money is recorded once, and the merchant is told once."
ToldOnce == callbacks[Inquired] + recovered <= 1

\* "the money is recorded once": between requests paid_amount counts every
\* payment on file, the recovered one included.
RecoveredMoneyCounts ==
    Quiescent /\ txn.preq # None => txn.paid >= Total(OnFile \cup {txn.preq})

\* "'03' ... already means "belum lunas"": a pending bill owes something.
PendingOwes == txn.status = Pending /\ Quiescent => txn.paid < txn.total
=============================================================================
