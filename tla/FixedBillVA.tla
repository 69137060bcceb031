----------------------------- MODULE FixedBillVA -----------------------------
(***************************************************************************)
(* A fixed-bill virtual account number: /create-va opens a transaction,    *)
(* /inquiry claims the vendor's id onto it, /payment settles it with the   *)
(* exact amount, and the number is reused for the next bill.  /delete-va,  *)
(* the detection of expiry and the reconciliation with the vendor change   *)
(* the same va_transactions rows.                                          *)
(*                                                                         *)
(* Every action is one SQL statement, one call to the vendor or one        *)
(* dispatch to the callback queue.  Payments arrive under an X-EXTERNAL-ID *)
(* of their own, so that the double-flag table (see NoBillVA) is never     *)
(* hit.  The number has no va_accounts row of billing "none".              *)
(***************************************************************************)
EXTENDS Naturals, FiniteSets, FiniteSetsExt

CONSTANTS
    InqIds,     \* the vendor's inquiryRequestIds
    PayReqs,    \* paymentRequestIds
    Bills,      \* amounts billed and paid
    Handlers,   \* slots for requests in progress
    Dates,      \* expiredDates of create-va: a subset of {"never", "future"}
    Kinds,      \* which requests are made: a subset of RequestKinds
    Direct,     \* TRUE: customers also pay without an inquiry
    BillDetails,\* which payments carry billDetails: a subset of BOOLEAN
    Faults,     \* which failures happen: a subset of {"db", "queue", "crash"}
    MaxRows,    \* bound: rows of the VA number
    MaxCycles,  \* bound: create-va calls
    None        \* "no row"

RequestKinds == {"create", "inquiry", "payment", "delete", "reconcile", "sweep"}

ASSUME BillsAssumption == Bills \subseteq Nat \ {0}
ASSUME InputsAssumption ==
    /\ Kinds \subseteq RequestKinds
    /\ Dates \subseteq {"never", "future"}
    /\ BillDetails \subseteq BOOLEAN
    /\ Direct \in BOOLEAN
ASSUME BoundsAssumption == MaxRows \in Nat /\ MaxCycles \in Nat

-----------------------------------------------------------------------------
(* Rows                                                                    *)

\* va_transactions.status
Success == "00"
Expired == "02"
Pending == "03"
Deleted == "04"

\* What create-va writes into inquiry_request_id: the VA number itself.
Placeholder == "virtualAccountNo"

ASSUME PlaceholderAssumption == Placeholder \notin InqIds

RowIds == 1 .. MaxRows     \* in the order of created_at
Row == [inq: InqIds \cup {Placeholder}, preq: PayReqs \cup {None},
        status: {Success, Expired, Pending, Deleted},
        paid: Bills \cup {0}, total: Bills, date: {"never", "future", "past"}, url: BOOLEAN]

\* A record read, with its id.
Read == [id: RowIds \cup {None}, row: Row]

Request ==
    [kind: {"create"}, total: Bills, date: Dates, url: BOOLEAN]
    \cup [kind: {"inquiry"}, inq: InqIds]
    \cup [kind: {"payment"}, preq: PayReqs, amount: Bills, bills: BOOLEAN]
    \cup [kind: {"delete", "reconcile", "sweep"}]

\* What the vendor knows of an inquiry it was answered: the amount presented
\* and, once its customer has paid, the payment and its flag.
VendorRecord == [amount: Bills, preq: PayReqs \cup {None}, flag: {"00", "02", "03"}]

ASSUME NoneAssumption ==
    None \notin Row \cup Read \cup Request \cup VendorRecord \cup PayReqs

VARIABLES
    rows,             \* va_transactions of the VA number
    expiryRow,        \* a va.expired/auto row is in va_notification_deliveries
    vendor,           \* external: the vendor's inquiries and their payments
    callbacks,        \* payment.received tasks enqueued, per paymentRequestId
    expiryCallbacks,  \* va.expired tasks enqueued
    recoveredCallbacks, \* payment.received tasks enqueued by the reconciler
    pc, req, read,    \* a handler's position, request and record read
    accepted,         \* history: payments answered 2002500
    expiries,         \* history: transitions to expired that owe a callback
    recoveries,       \* history: settlements by the reconciler
    cycles            \* create-va calls so far (bounded by MaxCycles)

history == <<accepted, expiries, recoveries, cycles>>
tasks   == <<callbacks, expiryCallbacks, recoveredCallbacks>>
vars    == <<rows, expiryRow, vendor, tasks, pc, req, read, history>>

PCs == {"idle", "existing", "byid", "lookup", "save", "bills", "notify", "claim",
        "mark", "dedupe", "expire", "open", "cancel", "stale", "vendor", "settle", "recovered"}

TypeOK ==
    /\ rows \in [RowIds -> Row \cup {None}]
    /\ expiryRow \in BOOLEAN
    /\ vendor \in [InqIds -> VendorRecord \cup {None}]
    /\ callbacks \in [PayReqs -> Nat]
    /\ expiryCallbacks \in Nat /\ recoveredCallbacks \in Nat
    /\ pc \in [Handlers -> PCs]
    /\ req \in [Handlers -> Request \cup {None}]
    /\ read \in [Handlers -> Read \cup {None}]
    /\ accepted \in SUBSET PayReqs
    /\ expiries \in Nat /\ recoveries \in Nat
    /\ cycles \in 0 .. MaxCycles

Init ==
    /\ rows = [r \in RowIds |-> None]
    /\ expiryRow = FALSE
    /\ vendor = [i \in InqIds |-> None]
    /\ callbacks = [p \in PayReqs |-> 0]
    /\ expiryCallbacks = 0 /\ recoveredCallbacks = 0
    /\ pc = [h \in Handlers |-> "idle"]
    /\ req = [h \in Handlers |-> None]
    /\ read = [h \in Handlers |-> None]
    /\ accepted = {}
    /\ expiries = 0 /\ recoveries = 0 /\ cycles = 0

-----------------------------------------------------------------------------
(* Queries                                                                 *)

Stored == {r \in RowIds : rows[r] # None}
WithInq(i) == {r \in Stored : rows[r].inq = i}
WithStatus(s) == {r \in Stored : rows[r].status = s}

\* GetVAByVirtualAccountNo: the newest pending row, else the newest row.
GetVA ==
    LET candidates == IF WithStatus(Pending) # {} THEN WithStatus(Pending) ELSE Stored
    IN  IF candidates = {} THEN None
        ELSE LET r == Max(candidates) IN [id |-> r, row |-> rows[r]]

\* The isExpired test of Inquiry and payment on the record read.
IsExpired(row) == row.status = Expired \/ (row.status = Pending /\ row.date = "past")

\* The record read is there and pending.
IsOpen(rec) == rec # None /\ rec.row.status = Pending

\* The row of a statement that inserts.
NewId == Cardinality(Stored) + 1

Goto(h, l) == pc' = [pc EXCEPT ![h] = l]

\* The response goes out.
Respond(h) ==
    /\ Goto(h, "idle")
    /\ req' = [req EXCEPT ![h] = None]
    /\ read' = [read EXCEPT ![h] = None]

-----------------------------------------------------------------------------
(* Requests                                                                *)

Arrive(h, r, l) ==
    /\ r.kind \in Kinds
    /\ pc[h] = "idle"
    /\ Goto(h, l)
    /\ req' = [req EXCEPT ![h] = r]
    /\ UNCHANGED <<rows, expiryRow, vendor, tasks, read, accepted, expiries, recoveries>>

CreateArrives(h) ==
    /\ cycles < MaxCycles
    /\ cycles' = cycles + 1
    /\ \E t \in Bills, d \in Dates, u \in BOOLEAN :
         Arrive(h, [kind |-> "create", total |-> t, date |-> d, url |-> u], "lookup")

\* External: the customer has paid what inquiry i presented.
PaidFor(i) == vendor[i] # None /\ vendor[i].preq # None

\* The vendor does not inquire again under an id its customer has paid.
InquiryArrives(h) ==
    /\ \E i \in InqIds :
         /\ ~PaidFor(i)
         /\ Arrive(h, [kind |-> "inquiry", inq |-> i], "byid")
    /\ UNCHANGED cycles

\* The payments the vendor's customers made after an inquiry.
PaidAfterInquiry(p) == {i \in InqIds : vendor[i] # None /\ vendor[i].preq = p}

\* The vendor flags a payment: one its customer made after an inquiry (any
\* number of times, at any time later), or one made without an inquiry.
PaymentArrives(h) ==
    /\ \E p \in PayReqs, b \in BillDetails, m \in Bills :
         /\ \/ \E i \in PaidAfterInquiry(p) : m = vendor[i].amount
            \/ Direct /\ PaidAfterInquiry(p) = {}
         /\ Arrive(h, [kind |-> "payment", preq |-> p, amount |-> m, bills |-> b], "existing")
    /\ UNCHANGED cycles

DeleteArrives(h) ==
    /\ Arrive(h, [kind |-> "delete"], "lookup")
    /\ UNCHANGED cycles

\* An operator has the number reconciled.
ReconcileArrives(h) ==
    /\ Arrive(h, [kind |-> "reconcile"], "lookup")
    /\ UNCHANGED cycles

\* The scheduled sweep comes to the number.
SweepArrives(h) ==
    /\ Arrive(h, [kind |-> "sweep"], "stale")
    /\ UNCHANGED cycles

\* External: the customer pays, at the vendor, the amount the latest answer to
\* inquiry i presented.  A paymentRequestId names one payment.
CustomerPays(i, p, f) ==
    /\ vendor[i] # None
    /\ ~PaidFor(i)
    /\ \A h \in Handlers : req[h] # None /\ req[h].kind = "inquiry" => req[h].inq # i
    /\ PaidAfterInquiry(p) = {}
    /\ \A h \in Handlers : req[h] # None /\ req[h].kind = "payment" => req[h].preq # p
    /\ \A r \in Stored : rows[r].preq # p
    /\ p \notin accepted
    /\ vendor' = [vendor EXCEPT ![i].preq = p, ![i].flag = f]
    /\ UNCHANGED <<rows, expiryRow, tasks, pc, req, read, history>>

\* External: an inquiry answered 2002400 from the open record rec tells the
\* vendor the amount; any other answer tells it nothing.
Quote(h, rec) ==
    vendor' = IF req[h].kind = "inquiry" /\ IsOpen(rec) /\ ~IsExpired(rec.row)
              THEN [vendor EXCEPT ![req[h].inq] =
                      [amount |-> rec.row.total, preq |-> None, flag |-> "03"]]
              ELSE vendor

ExpiredDatePasses(r) ==
    /\ rows[r] # None
    /\ rows[r].date = "future"
    /\ rows' = [rows EXCEPT ![r].date = "past"]
    /\ UNCHANGED <<expiryRow, vendor, tasks, pc, req, read, history>>

-----------------------------------------------------------------------------
(* The shared lookup                                                       *)

\* Mutant: the status of the transaction is not looked at.
AlwaysPayable(row) == TRUE

\* IsPayable, for a bill that is not variable.
IsPayable(row) == row.status = Pending

\* Mutant: an open transaction does not stop create-va.
AlwaysCreatable(rec) == TRUE

\* create-va starts a transaction unless one is pending.
MayCreate(rec) == ~IsOpen(rec)

\* Mutant: the bill is not compared.
AnyAmount(h, rec) == TRUE

\* amountsEqual, of the amount paid and the amount billed.
AmountMatches(h, rec) == rec.row.total = req[h].amount

\* Where a handler goes with the record it read: on to its next statement, or
\* to its answer.
Route(h, rec) ==
    CASE req[h].kind = "create" -> IF MayCreate(rec) THEN "open" ELSE "answer"
      [] req[h].kind = "delete" -> IF IsOpen(rec) THEN "cancel" ELSE "answer"
      [] req[h].kind \in {"reconcile", "sweep"} ->
           IF IsOpen(rec) /\ rec.row.inq # Placeholder THEN "vendor" ELSE "answer"
      [] req[h].kind = "inquiry" ->
           IF rec # None /\ IsExpired(rec.row) THEN "mark"
           ELSE IF IsOpen(rec) /\ rec.row.inq = Placeholder THEN "claim" ELSE "answer"
      [] req[h].kind = "payment" ->
           IF rec # None /\ IsExpired(rec.row) THEN "mark"
           ELSE IF rec # None /\ IsPayable(rec.row) /\ AmountMatches(h, rec)
           THEN "save" ELSE "answer"

\* The record decides: answer now, or go on holding it.
Continue(h, rec) ==
    \/ /\ Route(h, rec) = "answer"
       /\ Respond(h)
       /\ Quote(h, rec)
    \/ /\ Route(h, rec) # "answer"
       /\ Goto(h, Route(h, rec))
       /\ read' = [read EXCEPT ![h] = rec]
       /\ UNCHANGED <<req, vendor>>

\* GetVAByVirtualAccountNo, called by every handler but the sweep.  create-va drops the error of
\* a failed query and goes on as if nothing was pending.
Lookup(h) ==
    /\ pc[h] = "lookup"
    /\ \/ Continue(h, GetVA)
       \/ /\ "db" \in Faults
          /\ req[h].kind = "create"
          /\ Goto(h, "open")
          /\ UNCHANGED <<req, read, vendor>>
    /\ UNCHANGED <<rows, expiryRow, tasks, history>>

-----------------------------------------------------------------------------
(* create-va and delete-va                                                 *)

\* SaveInquiry: INSERT ... ON CONFLICT (inquiry_request_id) DO UPDATE.  The row
\* that still carries the placeholder is reopened; its payment stays on it.
SaveInquiry(h) ==
    /\ pc[h] = "open"
    /\ \/ \E r \in WithInq(Placeholder) :
            rows' = [rows EXCEPT ![r].status = Pending, ![r].total = req[h].total,
                                 ![r].date = req[h].date, ![r].url = req[h].url]
       \/ /\ WithInq(Placeholder) = {}
          /\ NewId <= MaxRows
          /\ rows' = [rows EXCEPT ![NewId] =
                        [inq |-> Placeholder, preq |-> None, status |-> Pending, paid |-> 0,
                         total |-> req[h].total, date |-> req[h].date, url |-> req[h].url]]
    /\ Respond(h)
    /\ UNCHANGED <<expiryRow, vendor, tasks, history>>

\* Mutant: the UPDATE is not scoped to pending rows.
SetEvery(s) == [r \in RowIds |-> IF r \in Stored THEN [rows[r] EXCEPT !.status = s] ELSE None]

\* UpdateVAStatus: every pending row of the number takes the status s.
SetPending(s) == [r \in RowIds |-> IF r \in WithStatus(Pending) THEN [rows[r] EXCEPT !.status = s]
                                   ELSE rows[r]]

CancelVA(h) ==
    /\ pc[h] = "cancel"
    /\ rows' = SetPending(Deleted)
    /\ Respond(h)
    /\ UNCHANGED <<expiryRow, vendor, tasks, history>>

-----------------------------------------------------------------------------
(* inquiry                                                                 *)

\* GetInquiry by the request's own id.
GetInquiry(h) ==
    /\ pc[h] = "byid"
    /\ \/ \E r \in WithInq(req[h].inq) : Continue(h, [id |-> r, row |-> rows[r]])
       \/ /\ WithInq(req[h].inq) = {}
          /\ Goto(h, "lookup")
          /\ UNCHANGED <<req, read, vendor>>
    /\ UNCHANGED <<rows, expiryRow, tasks, history>>

\* Mutant: the UPDATE has no guard on the id the row carries.
ClaimAlways(h) ==
    /\ pc[h] = "claim"
    /\ WithInq(req[h].inq) = {}
    /\ rows' = [rows EXCEPT ![read[h].id].inq = req[h].inq]
    /\ Quote(h, read[h])
    /\ Respond(h)
    /\ UNCHANGED <<expiryRow, tasks, history>>

\* ClaimInquiryRequestID: only while the row carries the placeholder.  The id is
\* UNIQUE: if another row took it meanwhile the inquiry is answered 5002400.
Claim(h) ==
    /\ pc[h] = "claim"
    /\ LET r == read[h].id
           unclaimed == rows[r].inq = Placeholder
       IN  \/ /\ unclaimed /\ WithInq(req[h].inq) # {}
              /\ UNCHANGED <<rows, vendor>>
           \/ /\ unclaimed => WithInq(req[h].inq) = {}
              /\ rows' = [rows EXCEPT ![r].inq = IF unclaimed THEN req[h].inq ELSE @]
              /\ Quote(h, read[h])
    /\ Respond(h)
    /\ UNCHANGED <<expiryRow, tasks, history>>

-----------------------------------------------------------------------------
(* payment                                                                 *)

\* GetPaymentByPaymentRequestID: a payment on file is replayed (2002500 for
\* advice, 4042518 otherwise); nothing is written and nobody is called back.
CheckExisting(h) ==
    /\ pc[h] = "existing"
    /\ \/ /\ \E r \in Stored : rows[r].preq = req[h].preq
          /\ Respond(h)
       \/ /\ \A r \in Stored : rows[r].preq # req[h].preq
          /\ Goto(h, "lookup")
          /\ UNCHANGED <<req, read>>
    /\ UNCHANGED <<rows, expiryRow, vendor, tasks, history>>

\* SavePayment: INSERT ... ON CONFLICT (inquiry_request_id) DO UPDATE, keyed by
\* the id on the record read and without a guard on the status.  The id the
\* handler holds afterwards is the one it generated: on the conflict path no row
\* has it.
SavePayment(h) ==
    /\ pc[h] = "save"
    /\ \/ \E r \in WithInq(read[h].row.inq) :
            /\ rows' = [rows EXCEPT ![r].preq = req[h].preq, ![r].status = Success,
                                    ![r].paid = req[h].amount]
            /\ read' = [read EXCEPT ![h].id = None]
       \/ /\ WithInq(read[h].row.inq) = {}
          /\ NewId <= MaxRows
          /\ rows' = [rows EXCEPT ![NewId] =
                        [inq |-> read[h].row.inq, preq |-> req[h].preq, status |-> Success,
                         paid |-> req[h].amount, total |-> req[h].amount, date |-> "never",
                         url |-> read[h].row.url]]
          /\ read' = [read EXCEPT ![h].id = NewId]
    /\ Goto(h, IF req[h].bills THEN "bills" ELSE "notify")
    /\ UNCHANGED <<expiryRow, vendor, tasks, req, history>>

\* SaveBillDetails: transaction_id REFERENCES va_transactions(id); a violation
\* is answered 5002500.
SaveBillDetails(h) ==
    /\ pc[h] = "bills"
    /\ \/ /\ read[h].id # None
          /\ Goto(h, "notify")
          /\ UNCHANGED <<req, read>>
       \/ /\ read[h].id = None
          /\ Respond(h)
    /\ UNCHANGED <<rows, expiryRow, vendor, tasks, history>>

\* notifyMerchantWithVA, when the record read has a URL; a failed enqueue is
\* swallowed.  The answer is 2002500.
NotifyPayment(h) ==
    /\ pc[h] = "notify"
    /\ \/ /\ read[h].row.url
          /\ callbacks' = [callbacks EXCEPT ![req[h].preq] = @ + 1]
       \/ /\ ~read[h].row.url \/ "queue" \in Faults
          /\ UNCHANGED callbacks
    /\ accepted' = accepted \cup {req[h].preq}
    /\ Respond(h)
    /\ UNCHANGED <<rows, expiryRow, vendor, expiryCallbacks, recoveredCallbacks,
                   expiries, recoveries, cycles>>

-----------------------------------------------------------------------------
(* markExpiredAndNotify, shared by inquiry and payment                     *)

\* UpdateVAStatus ... WHERE status = '03': only the caller that changed a row
\* goes on to the callback, and only if the record it read has a URL.
MarkExpired(h) ==
    /\ pc[h] = "mark"
    /\ rows' = SetPending(Expired)
    /\ \/ /\ WithStatus(Pending) # {} /\ read[h].row.url
          /\ Goto(h, "dedupe")
          /\ expiries' = expiries + 1
          /\ UNCHANGED <<req, read>>
       \/ /\ WithStatus(Pending) = {} \/ ~read[h].row.url
          /\ Respond(h)
          /\ UNCHANGED expiries
    /\ UNCHANGED <<expiryRow, vendor, tasks, accepted, recoveries, cycles>>

\* ExistsByVirtualAccountNoAndEventType; a failed lookup counts as "no row".
DedupeExpiry(h) ==
    /\ pc[h] = "dedupe"
    /\ \/ /\ expiryRow
          /\ Respond(h)
       \/ /\ ~expiryRow \/ "db" \in Faults
          /\ Goto(h, "expire")
          /\ UNCHANGED <<req, read>>
    /\ UNCHANGED <<rows, expiryRow, vendor, tasks, history>>

\* dispatchNotification: the delivery row, then the task; either may fail.
NotifyExpiry(h) ==
    /\ pc[h] = "expire"
    /\ expiryRow' \in (IF "db" \in Faults THEN {expiryRow, TRUE} ELSE {TRUE})
    /\ expiryCallbacks' \in
         (IF "queue" \in Faults THEN {expiryCallbacks, expiryCallbacks + 1} ELSE {expiryCallbacks + 1})
    /\ Respond(h)
    /\ UNCHANGED <<rows, vendor, callbacks, recoveredCallbacks, history>>

-----------------------------------------------------------------------------
(* Reconciliation with the vendor                                          *)

\* Mutant: only the plain success flag counts as paid.
SuccessFlagOnly(code, paymentFlag) ==
    CASE code = "4042601" -> "not_paid"
      [] code \notin {"4042601", "2002600"} -> "error"
      [] code = "2002600" -> IF paymentFlag = "00" THEN "settled" ELSE "not_paid"

\* The reading of the vendor's response code and paymentFlagStatus.
ClassifyVendorStatus(code, paymentFlag) ==
    CASE code = "4042601" -> "not_paid"
      [] code \notin {"4042601", "2002600"} -> "error"
      [] code = "2002600" /\ paymentFlag \in {"00", "02"} -> "settled"
      [] code = "2002600" /\ paymentFlag = "03" -> "pending"
      [] code = "2002600" /\ paymentFlag \notin {"00", "02", "03"} -> "not_paid"

\* ListStalePendingTransactions: pending rows whose expired_date has not passed.
\* (A sweep that finds the row younger than the threshold changes nothing.)
ListStale(h) ==
    /\ pc[h] = "stale"
    /\ LET stale == {r \in WithStatus(Pending) : rows[r].date # "past"}
       IN  \/ \E r \in stale : Continue(h, [id |-> r, row |-> rows[r]])
           \/ /\ stale = {}
              /\ Respond(h)
              /\ UNCHANGED vendor
    /\ UNCHANGED <<rows, expiryRow, tasks, history>>

\* gateway.PaymentStatus for the record's inquiryRequestId: the vendor answers
\* what it knows.
VendorAnswers(h) ==
    /\ pc[h] = "vendor"
    /\ LET v == vendor[read[h].row.inq]
           outcome == IF PaidFor(read[h].row.inq) THEN ClassifyVendorStatus("2002600", v.flag)
                      ELSE ClassifyVendorStatus("4042601", "01")
       IN  \/ /\ outcome = "settled"
              /\ Goto(h, "settle")
              /\ UNCHANGED <<req, read>>
           \/ /\ outcome # "settled"
              /\ Respond(h)
    /\ UNCHANGED <<rows, expiryRow, vendor, tasks, history>>

\* SettlePendingFromVendor: UPDATE ... WHERE virtual_account_no = $1 AND
\* status = '03'.
Settle(h) ==
    /\ pc[h] = "settle"
    /\ LET v == vendor[read[h].row.inq]
       IN  rows' = [r \in RowIds |->
                      IF r \in WithStatus(Pending)
                      THEN [rows[r] EXCEPT !.status = Success, !.paid = v.amount, !.preq = v.preq]
                      ELSE rows[r]]
    /\ \/ /\ WithStatus(Pending) # {}
          /\ Goto(h, "recovered")
          /\ recoveries' = recoveries + 1
          /\ UNCHANGED <<req, read>>
       \/ /\ WithStatus(Pending) = {}
          /\ Respond(h)
          /\ UNCHANGED recoveries
    /\ UNCHANGED <<expiryRow, vendor, tasks, accepted, expiries, cycles>>

\* notifyRecovered.
NotifyRecovered(h) ==
    /\ pc[h] = "recovered"
    /\ LET p == vendor[read[h].row.inq].preq
       IN  \/ /\ read[h].row.url
              /\ callbacks' = [callbacks EXCEPT ![p] = @ + 1]
              /\ recoveredCallbacks' = recoveredCallbacks + 1
           \/ /\ ~read[h].row.url \/ "queue" \in Faults
              /\ UNCHANGED <<callbacks, recoveredCallbacks>>
    /\ Respond(h)
    /\ UNCHANGED <<rows, expiryRow, vendor, expiryCallbacks, history>>

-----------------------------------------------------------------------------
(* Failures                                                                *)

\* The process dies, the request is cancelled, or a statement or the vendor call
\* fails: the handler stops, leaving what it wrote.
Stop(h) ==
    /\ "crash" \in Faults
    /\ pc[h] # "idle"
    /\ Respond(h)
    /\ UNCHANGED <<rows, expiryRow, vendor, tasks, history>>

-----------------------------------------------------------------------------
(* Specification                                                           *)

Step(h) ==
    \/ Lookup(h) \/ SaveInquiry(h) \/ CancelVA(h)
    \/ GetInquiry(h) \/ Claim(h)
    \/ CheckExisting(h) \/ SavePayment(h) \/ SaveBillDetails(h) \/ NotifyPayment(h)
    \/ MarkExpired(h) \/ DedupeExpiry(h) \/ NotifyExpiry(h)
    \/ ListStale(h) \/ VendorAnswers(h) \/ Settle(h) \/ NotifyRecovered(h)

Arrivals(h) ==
    \/ CreateArrives(h) \/ InquiryArrives(h) \/ PaymentArrives(h)
    \/ DeleteArrives(h) \/ ReconcileArrives(h) \/ SweepArrives(h)

Next ==
    \/ \E h \in Handlers : Arrivals(h) \/ Step(h) \/ Stop(h)
    \/ \E i \in InqIds, p \in PayReqs, f \in {"00", "02"} : CustomerPays(i, p, f)
    \/ \E r \in RowIds : ExpiredDatePasses(r)

Spec == Init /\ [][Next]_vars

\* A request in progress goes on; the scheduler starts a sweep again and again,
\* and it is not interrupted at the same statement for ever.  Nobody has to call
\* the operator's endpoint.
FairSpec ==
    /\ Spec
    /\ \A h \in Handlers :
         /\ WF_vars(Step(h))
         /\ SF_vars(SweepArrives(h))
         /\ SF_vars(ListStale(h)) /\ SF_vars(VendorAnswers(h)) /\ SF_vars(Settle(h))

-----------------------------------------------------------------------------
(* Properties                                                              *)

Quiescent == \A h \in Handlers : pc[h] = "idle"
Claimed(row) == row # None /\ row.inq # Placeholder

\* A claimed transaction that is paid, expired or deleted is never changed again
\* when requests are served one at a time, though they may stop half way and be
\* repeated (payment: "a payment may only land on a transaction that is still
\* open").
ClosedIsFinal ==
    [][\A r \in RowIds : Claimed(rows[r]) /\ rows[r].status # Pending
          => \/ rows'[r] = rows[r]
             \/ rows'[r] = [rows[r] EXCEPT !.date = "past"]]_vars

\* At most one transaction of the number is pending (create-va: "only a
\* currently PENDING transaction on it blocks a new create-va call").
OnePendingTransaction == Cardinality(WithStatus(Pending)) <= 1

\* What was paid is what was billed, by /payment and by the reconciler alike
\* ("the bill is the source of truth, not the request").
PaidIsBilled == \A r \in WithStatus(Success) : rows[r].paid = rows[r].total

\* An id claimed by an inquiry is never replaced, whatever other inquiries,
\* payments and create-va calls are in progress (ClaimInquiryRequestID: "a row
\* that already carries a real vendor id keeps it").
ClaimedIdIsKept ==
    [][\A r \in RowIds : Claimed(rows[r]) => rows'[r].inq = rows[r].inq]_vars

\* A claimed transaction that was paid stays paid under every interleaving: no
\* late deletion, expiry or create-va reopens it (UpdateVAStatus: "without this
\* scope [it] would also flip the status of already-completed transactions").
PaidStaysPaid ==
    [][\A r \in RowIds : Claimed(rows[r]) /\ rows[r].status = Success
          => rows'[r].status = Success]_vars

\* The reconciler calls the merchant back at most once per settlement it made,
\* however many reconciliations race (SettlePendingFromVendor: "exactly one
\* caller can win").
RecoveredIsToldOnce == recoveredCallbacks <= recoveries

\* At most one va.expired callback per transition to expired.
ExpiryCallbackPerTransition == expiryCallbacks <= expiries

\* A payment the vendor's customer made for the inquiry a pending transaction
\* carries is recovered, also when /payment never comes and the sweep fails any
\* number of times, unless the expired date passes first.
ClaimedPaymentIsRecovered ==
    \A i \in InqIds :
        PaidFor(i) ~> \A r \in WithInq(i) : rows[r].status # Pending \/ rows[r].date = "past"

\* "a paid transaction must never be mutated after the fact" (va_usecase.go).
PaidIsNeverMutated ==
    [][\A r \in RowIds : Claimed(rows[r]) /\ rows[r].status = Success
          => rows'[r].preq = rows[r].preq /\ rows'[r].paid = rows[r].paid]_vars

\* "the money is recorded once, and the merchant is told once"
\* (SettlePendingFromVendor).
ToldOnce == \A p \in PayReqs : callbacks[p] <= 1

\* /payment "triggers an async merchant callback" (README.md): once nobody is
\* being served, a paid transaction with a URL has been called back.
PaidIsCalledBack ==
    Quiescent => \A r \in WithStatus(Success) : rows[r].url => callbacks[rows[r].preq] >= 1

\* A finished transaction leaves the number "free to start a brand new
\* transaction" (create-va): an accepted payment stays on file.
AcceptedStaysOnFile == \A p \in accepted : \E r \in Stored : rows[r].preq = p

\* "Status() and Payment() resolve a transaction by that id" (Inquiry): a payment
\* made for an inquiry that a transaction carries settles that transaction.
PaymentSettlesItsBill ==
    \A i \in InqIds, r \in Stored :
        /\ PaidFor(i) /\ WithInq(i) # {}
        /\ rows[r].preq = vendor[i].preq
        => rows[r].inq = i

\* "the whole point is to recover money nobody knows is missing" (Sweep): every
\* payment a customer made for a presented bill gets on file.
EveryPaymentIsRecovered ==
    \A i \in InqIds, p \in PayReqs :
        (vendor[i] # None /\ vendor[i].preq = p) ~> \E r \in Stored : rows[r].preq = p
=============================================================================
