------------------------------ MODULE NoBillVA ------------------------------
(***************************************************************************)
(* A no-bill virtual account (vaType 01/04): one va_accounts registration  *)
(* that is created, expires, is deactivated and is paid any number of      *)
(* times, every payment being its own settled va_transactions row.         *)
(*                                                                         *)
(* Handlers of /inquiry and /payment run concurrently.  Every action is    *)
(* one statement against PostgreSQL or one dispatch to the callback queue, *)
(* together with the local decisions up to the next one, so that whatever  *)
(* a handler read may be stale when it uses it.                            *)
(***************************************************************************)
EXTENDS Naturals

CONSTANTS
    VANos,      \* virtual account numbers
    PayReqs,    \* paymentRequestIds
    ExtIds,     \* X-EXTERNAL-IDs
    Handlers,   \* slots for requests in progress
    Amounts,    \* paidAmount values a request may carry
    Faults,     \* which failures happen: a subset of FaultKinds
    MaxCycles,  \* bound: create-va calls per VA number
    None        \* "no row"

FaultKinds == {"db", "ack", "queue", "crash"}

ASSUME AmountsAssumption == Amounts \subseteq Nat
ASSUME FaultsAssumption == Faults \subseteq FaultKinds
ASSUME MaxCyclesAssumption == MaxCycles \in Nat

-----------------------------------------------------------------------------
(* Rows and messages                                                       *)

\* SNAP response codes the two endpoints answer with.
CodePaymentSuccess      == "2002500"
CodePaymentInconsistent == "4042518"
CodePaymentExpired      == "4042519"
CodePaymentNotFound     == "4042512"
CodePaymentInvalidAmt   == "4042513"
CodePaymentPaidBill     == "4042514"
CodePaymentInternal     == "5002500"
CodeInquirySuccess      == "2002400"
CodeInquiryExpired      == "4042419"
CodeInquiryNotFound     == "4042412"
CodeInquiryPaidBill     == "4042414"
CodeInquiryInternal     == "5002400"

PaymentCodes ==
    {CodePaymentSuccess, CodePaymentInconsistent, CodePaymentExpired,
     CodePaymentNotFound, CodePaymentInvalidAmt, CodePaymentPaidBill,
     CodePaymentInternal}
InquiryCodes ==
    {CodeInquirySuccess, CodeInquiryExpired, CodeInquiryNotFound,
     CodeInquiryPaidBill, CodeInquiryInternal}

\* A va_accounts row: its status, where its expired_date lies, and whether it
\* carries a notification_url.
AccountStatus == {"ACTIVE", "INACTIVE", "EXPIRED"}
ExpiryDates   == {"never", "future", "past"}
Account       == [status: AccountStatus, expiredDate: ExpiryDates, url: BOOLEAN]

\* A settled va_transactions row, keyed by its payment_request_id (which is
\* also its inquiry_request_id, the UNIQUE column).
Txn == [va: VANos, amount: Amounts, url: BOOLEAN]

\* A va_payment_flags row, keyed by (external_id, payment_request_id).
Flag == [code: PaymentCodes, data: Txn \cup {None}]

Request == [kind: {"pay", "inq"}, va: VANos, preq: PayReqs, ext: ExtIds,
            advise: BOOLEAN, amount: Amounts]

\* What a handler is going to answer.  fromFlag: the answer replays a
\* va_payment_flags row instead of being decided by payment().
Answer == [code: PaymentCodes \cup InquiryCodes, data: Txn \cup {None},
           fromFlag: BOOLEAN]

ASSUME NoneAssumption == None \notin Account \cup Txn \cup Flag \cup Request \cup Answer

VARIABLES
    account,        \* va_accounts, by virtual_account_no
    txn,            \* va_transactions, by payment_request_id
    flag,           \* va_payment_flags, by <<external_id, payment_request_id>>
    expiryRow,      \* VA numbers with a va.expired/auto row in va_notification_deliveries
    paidCallbacks,  \* payment.received tasks put on the queue, per payment
    expiryCallbacks,\* va.expired tasks put on the queue, per VA number
    pc, req, acct, out,   \* a handler's position, request, registration read, answer
    seen,           \* history: the payment was on file when the request arrived
    expiries,       \* history: ACTIVE -> EXPIRED transitions that owe a callback
    cycles          \* create-va calls so far (bounded by MaxCycles)

tables    == <<account, txn, flag, expiryRow>>
callbacks == <<paidCallbacks, expiryCallbacks>>
history   == <<expiries, cycles>>
vars      == <<tables, callbacks, pc, req, acct, out, seen, history>>

PCs == {"idle", "flag", "existing", "account", "lookup", "inquiry", "inqlookup",
        "mark", "dedupe", "expire", "insert", "reget", "notify", "record", "done"}

TypeOK ==
    /\ account \in [VANos -> Account \cup {None}]
    /\ txn \in [PayReqs -> Txn \cup {None}]
    /\ flag \in [ExtIds \X PayReqs -> Flag \cup {None}]
    /\ expiryRow \in SUBSET VANos
    /\ paidCallbacks \in [PayReqs -> Nat]
    /\ expiryCallbacks \in [VANos -> Nat]
    /\ pc \in [Handlers -> PCs]
    /\ req \in [Handlers -> Request \cup {None}]
    /\ acct \in [Handlers -> Account \cup {None}]
    /\ out \in [Handlers -> Answer \cup {None}]
    /\ seen \in [Handlers -> BOOLEAN]
    /\ expiries \in [VANos -> Nat]
    /\ cycles \in [VANos -> 0..MaxCycles]

Init ==
    /\ account = [v \in VANos |-> None]
    /\ txn = [p \in PayReqs |-> None]
    /\ flag = [k \in ExtIds \X PayReqs |-> None]
    /\ expiryRow = {}
    /\ paidCallbacks = [p \in PayReqs |-> 0]
    /\ expiryCallbacks = [v \in VANos |-> 0]
    /\ pc = [h \in Handlers |-> "idle"]
    /\ req = [h \in Handlers |-> None]
    /\ acct = [h \in Handlers |-> None]
    /\ out = [h \in Handlers |-> None]
    /\ seen = [h \in Handlers |-> FALSE]
    /\ expiries = [v \in VANos |-> 0]
    /\ cycles = [v \in VANos |-> 0]

-----------------------------------------------------------------------------
(* Helpers                                                                 *)

Goto(h, l) == pc' = [pc EXCEPT ![h] = l]

\* The answer is fixed; the handler continues at l.
Decide(h, l, code, data) ==
    /\ Goto(h, l)
    /\ out' = [out EXCEPT ![h] = [code |-> code, data |-> data, fromFlag |-> FALSE]]

\* VAAccount.IsExpired: already EXPIRED, or past its expired_date.
IsExpired(a) == a.status = "EXPIRED" \/ a.expiredDate = "past"

\* The settled rows of a VA number.
TxnsOf(v) == {p \in PayReqs : txn[p] # None /\ txn[p].va = v}

\* A payment already on file: an advice request (flagAdvise "Y") is answered
\* with the stored payment, anything else is the double flag, 4042518.
ReplayCode(r) == IF r.advise THEN CodePaymentSuccess ELSE CodePaymentInconsistent

\* Mutant: /inquiry records its refusal as a payment flag too.
AlwaysRecord(h) == "record"

\* Where a handler goes once the expiry of its registration was dealt with.
AfterExpiry(h) == IF req[h].kind = "pay" THEN "record" ELSE "done"

-----------------------------------------------------------------------------
(* The merchant: create-va and delete-va                                   *)

\* SaveVAAccount: INSERT ... ON CONFLICT (virtual_account_no) DO UPDATE; a repeat
\* makes the registration ACTIVE again.
SaveVAAccount(v, date, url) ==
    account' = [account EXCEPT ![v] = [status |-> "ACTIVE", expiredDate |-> date, url |-> url]]

\* /create-va for a no-bill type writes the registration and nothing else.
CreateVA(v, date, url) ==
    /\ cycles[v] < MaxCycles
    /\ SaveVAAccount(v, date, url)
    /\ cycles' = [cycles EXCEPT ![v] = @ + 1]
    /\ UNCHANGED <<txn, flag, expiryRow, callbacks, pc, req, acct, out, seen, expiries>>

\* /delete-va deactivates the registration; it is a no-op unless ACTIVE.  The
\* registration read before it only tells that the VA is no-bill, which never
\* changes.
DeleteVA(v) ==
    /\ account[v] # None
    /\ account[v].status = "ACTIVE"
    /\ account' = [account EXCEPT ![v].status = "INACTIVE"]
    /\ UNCHANGED <<txn, flag, expiryRow, callbacks, pc, req, acct, out, seen, history>>

\* Time reaches a registration's expired_date.
ExpiredDatePasses(v) ==
    /\ account[v] # None
    /\ account[v].expiredDate = "future"
    /\ account' = [account EXCEPT ![v].expiredDate = "past"]
    /\ UNCHANGED <<txn, flag, expiryRow, callbacks, pc, req, acct, out, seen, history>>

-----------------------------------------------------------------------------
(* /payment: the double-flag guard around the decision tree                *)

PaymentArrives(h) ==
    /\ pc[h] \in {"idle", "done"}
    /\ \E v \in VANos, p \in PayReqs, x \in ExtIds, adv \in BOOLEAN, m \in Amounts :
         /\ req' = [req EXCEPT ![h] = [kind |-> "pay", va |-> v, preq |-> p,
                                       ext |-> x, advise |-> adv, amount |-> m]]
         /\ seen' = [seen EXCEPT ![h] = txn[p] # None]
    /\ Goto(h, "flag")
    /\ out' = [out EXCEPT ![h] = None]
    /\ UNCHANGED <<tables, callbacks, acct, history>>

\* Mutant: advice is answered 2002500 whatever the flag on file says.
FindPaymentFlagAlwaysSuccess(h) ==
    /\ pc[h] = "flag"
    /\ LET f == flag[<<req[h].ext, req[h].preq>>]
       IN  \/ /\ f # None
              /\ Goto(h, "done")
              /\ out' = [out EXCEPT ![h] =
                   [code     |-> ReplayCode(req[h]), data |-> f.data, fromFlag |-> TRUE]]
           \/ /\ f = None
              /\ Goto(h, "existing")
              /\ UNCHANGED out
    /\ UNCHANGED <<tables, callbacks, req, acct, seen, history>>

\* findPaymentFlag; a failed lookup counts as "no earlier flag".
FindPaymentFlag(h) ==
    /\ pc[h] = "flag"
    /\ LET f == flag[<<req[h].ext, req[h].preq>>]
       IN  \/ /\ f # None
              /\ Goto(h, "done")
              /\ out' = [out EXCEPT ![h] =
                   [code     |-> IF req[h].advise THEN f.code ELSE CodePaymentInconsistent,
                    data     |-> f.data,
                    fromFlag |-> TRUE]]
           \/ /\ f = None \/ "db" \in Faults
              /\ Goto(h, "existing")
              /\ UNCHANGED out
    /\ UNCHANGED <<tables, callbacks, req, acct, seen, history>>

\* Mutant: the duplicate check is left to the INSERT.
SkipExistingCheck(h) ==
    /\ pc[h] = "existing"
    /\ Goto(h, "account")
    /\ UNCHANGED <<tables, callbacks, req, acct, out, seen, history>>

\* GetPaymentByPaymentRequestID, the duplicate check of payment().
CheckExisting(h) ==
    /\ pc[h] = "existing"
    /\ \/ /\ txn[req[h].preq] # None
          /\ Decide(h, "record", ReplayCode(req[h]), txn[req[h].preq])
       \/ /\ txn[req[h].preq] = None
          /\ Goto(h, "account")
          /\ UNCHANGED out
    /\ UNCHANGED <<tables, callbacks, req, acct, seen, history>>

\* GetVAAccount and the checks of paymentNoBill on the registration read.
ReadAccount(h) ==
    /\ pc[h] = "account"
    /\ LET a == account[req[h].va]
       IN  /\ acct' = [acct EXCEPT ![h] = a]
           /\ \/ /\ a = None
                 /\ Goto(h, "lookup")
                 /\ UNCHANGED out
              \/ /\ a # None
                 /\ IsExpired(a)
                 /\ Decide(h, "mark", CodePaymentExpired, None)
              \/ /\ a # None
                 /\ ~IsExpired(a)
                 /\ a.status # "ACTIVE"
                 /\ Decide(h, "record", CodePaymentNotFound, None)
              \/ /\ a # None
                 /\ ~IsExpired(a)
                 /\ a.status = "ACTIVE"
                 /\ req[h].amount = 0
                 /\ Decide(h, "record", CodePaymentInvalidAmt, None)
              \/ /\ a # None
                 /\ ~IsExpired(a)
                 /\ a.status = "ACTIVE"
                 /\ req[h].amount > 0
                 /\ Goto(h, "insert")
                 /\ UNCHANGED out
    /\ UNCHANGED <<tables, callbacks, req, seen, history>>

\* Without a registration payment() looks for a transaction: none is "not
\* found"; a settled one (the VA was registered and paid since) is a paid bill.
LookupTransaction(h) ==
    /\ pc[h] = "lookup"
    /\ Decide(h, "record",
              IF TxnsOf(req[h].va) = {} THEN CodePaymentNotFound ELSE CodePaymentPaidBill,
              None)
    /\ UNCHANGED <<tables, callbacks, req, acct, seen, history>>

\* Mutant: an upsert like SavePayment's instead of a plain INSERT.
UpsertNoBillPayment(h) ==
    /\ pc[h] = "insert"
    /\ LET p   == req[h].preq
           row == [va |-> req[h].va, amount |-> req[h].amount, url |-> acct[h].url]
       IN  /\ txn' = [txn EXCEPT ![p] = row]
           /\ Decide(h, IF acct[h].url THEN "notify" ELSE "record", CodePaymentSuccess, row)
    /\ UNCHANGED <<account, flag, expiryRow, callbacks, req, acct, seen, history>>

\* SaveNoBillPayment: a plain INSERT whose key is the paymentRequestId.
SaveNoBillPayment(h) ==
    /\ pc[h] = "insert"
    /\ LET p   == req[h].preq
           row == [va |-> req[h].va, amount |-> req[h].amount, url |-> acct[h].url]
       IN  \/ /\ txn[p] = None
              /\ txn' = [txn EXCEPT ![p] = row]
              /\ Decide(h, IF acct[h].url THEN "notify" ELSE "record",
                        CodePaymentSuccess, row)
           \/ /\ txn[p] # None
              /\ Goto(h, "reget")
              /\ UNCHANGED <<txn, out>>
    /\ UNCHANGED <<account, flag, expiryRow, callbacks, req, acct, seen, history>>

\* Mutant: the loser of the race also calls the merchant back.
NotifyDuplicate(h) ==
    /\ pc[h] = "reget"
    /\ txn[req[h].preq] # None
    /\ Decide(h, IF acct[h].url THEN "notify" ELSE "record",
              ReplayCode(req[h]), txn[req[h].preq])
    /\ UNCHANGED <<tables, callbacks, req, acct, seen, history>>

\* The INSERT lost the race: answer from the winner's row, without a callback.
ReplayDuplicate(h) ==
    /\ pc[h] = "reget"
    /\ txn[req[h].preq] # None
    /\ Decide(h, "record", ReplayCode(req[h]), txn[req[h].preq])
    /\ UNCHANGED <<tables, callbacks, req, acct, seen, history>>

\* notifyMerchantForAccount.  Its delivery row is not read by any handler here;
\* the enqueue may fail, and the failure is swallowed.
NotifyPayment(h) ==
    /\ pc[h] = "notify"
    /\ Goto(h, "record")
    /\ \/ paidCallbacks' = [paidCallbacks EXCEPT ![req[h].preq] = @ + 1]
       \/ /\ "queue" \in Faults
          /\ UNCHANGED paidCallbacks
    /\ UNCHANGED <<tables, expiryCallbacks, req, acct, out, seen, history>>

\* Mutant: the flag is upserted.
UpsertPaymentFlag(h) ==
    /\ pc[h] = "record"
    /\ Goto(h, "done")
    /\ flag' = [flag EXCEPT ![<<req[h].ext, req[h].preq>>] =
                  [code |-> out[h].code, data |-> out[h].data]]
    /\ acct' = [acct EXCEPT ![h] = None]
    /\ UNCHANGED <<account, txn, expiryRow, callbacks, req, out, seen, history>>

\* recordPaymentFlag: INSERT ... ON CONFLICT DO NOTHING, failure swallowed.  The
\* response goes out.
RecordPaymentFlag(h) ==
    /\ pc[h] = "record"
    /\ Goto(h, "done")
    /\ LET k == <<req[h].ext, req[h].preq>>
       IN  \/ flag' = [flag EXCEPT ![k] =
                         IF @ = None THEN [code |-> out[h].code, data |-> out[h].data] ELSE @]
           \/ /\ "db" \in Faults
              /\ UNCHANGED flag
    /\ acct' = [acct EXCEPT ![h] = None]
    /\ UNCHANGED <<account, txn, expiryRow, callbacks, req, out, seen, history>>

-----------------------------------------------------------------------------
(* /inquiry                                                                *)

InquiryArrives(h) ==
    /\ pc[h] \in {"idle", "done"}
    /\ \E v \in VANos, p \in PayReqs, x \in ExtIds, m \in Amounts :
         req' = [req EXCEPT ![h] = [kind |-> "inq", va |-> v, preq |-> p, ext |-> x,
                                    advise |-> FALSE, amount |-> m]]
    /\ Goto(h, "inquiry")
    /\ out' = [out EXCEPT ![h] = None]
    /\ seen' = [seen EXCEPT ![h] = FALSE]
    /\ UNCHANGED <<tables, callbacks, acct, history>>

\* GetVAAccount and inquiryNoBill; a live registration is answered from itself
\* and nothing is written.
InquireAccount(h) ==
    /\ pc[h] = "inquiry"
    /\ LET a == account[req[h].va]
       IN  /\ acct' = [acct EXCEPT ![h] = IF a # None /\ IsExpired(a) THEN a ELSE None]
           /\ \/ /\ a = None
                 /\ Goto(h, "inqlookup")
                 /\ UNCHANGED out
              \/ /\ a # None
                 /\ IsExpired(a)
                 /\ Decide(h, "mark", CodeInquiryExpired, None)
              \/ /\ a # None
                 /\ ~IsExpired(a)
                 /\ Decide(h, "done",
                           IF a.status = "ACTIVE" THEN CodeInquirySuccess ELSE CodeInquiryExpired,
                           None)
    /\ UNCHANGED <<tables, callbacks, req, seen, history>>

\* GetInquiry by the request's own id, then GetVAByVirtualAccountNo: the only
\* transactions of a no-bill VA are settled ones.
InquireTransaction(h) ==
    /\ pc[h] = "inqlookup"
    /\ Decide(h, "done",
              IF txn[req[h].preq] = None /\ TxnsOf(req[h].va) = {}
              THEN CodeInquiryNotFound ELSE CodeInquiryPaidBill,
              None)
    /\ UNCHANGED <<tables, callbacks, req, acct, seen, history>>

-----------------------------------------------------------------------------
(* markRegistrationExpiredAndNotify, shared by /inquiry and /payment       *)

\* Mutant: the zero-row result of the guarded UPDATE is ignored.
MarkExpiredIgnoringRows(h) ==
    /\ pc[h] = "mark"
    /\ LET v == req[h].va
       IN  /\ account' = [account EXCEPT ![v].status = IF @ = "ACTIVE" THEN "EXPIRED" ELSE @]
           /\ expiries' = [expiries EXCEPT ![v] =
                             IF acct[h].url /\ account[v].status = "ACTIVE" THEN @ + 1 ELSE @]
    /\ Goto(h, IF acct[h].url THEN "dedupe" ELSE AfterExpiry(h))
    /\ UNCHANGED <<txn, flag, expiryRow, callbacks, req, acct, out, seen, cycles>>

\* UpdateVAAccountStatus ... WHERE status = 'ACTIVE': only the caller that
\* applies the transition goes on to the callback, and only with a URL.
MarkExpired(h) ==
    /\ pc[h] = "mark"
    /\ LET v == req[h].va
       IN  \/ /\ account[v].status = "ACTIVE"
              /\ account' = [account EXCEPT ![v].status = "EXPIRED"]
              /\ Goto(h, IF acct[h].url THEN "dedupe" ELSE AfterExpiry(h))
              /\ expiries' = [expiries EXCEPT ![v] = IF acct[h].url THEN @ + 1 ELSE @]
           \/ /\ account[v].status # "ACTIVE" \/ "db" \in Faults
              /\ Goto(h, AfterExpiry(h))
              /\ UNCHANGED <<account, expiries>>
    /\ UNCHANGED <<txn, flag, expiryRow, callbacks, req, acct, out, seen, cycles>>

\* ExistsByVirtualAccountNoAndEventType; a failed lookup counts as "no row".
DedupeExpiry(h) ==
    /\ pc[h] = "dedupe"
    /\ \/ /\ req[h].va \in expiryRow
          /\ Goto(h, AfterExpiry(h))
       \/ /\ req[h].va \notin expiryRow \/ "db" \in Faults
          /\ Goto(h, "expire")
    /\ UNCHANGED <<tables, callbacks, req, acct, out, seen, history>>

\* dispatchNotification: the delivery row, then the task; either may fail.
NotifyExpiry(h) ==
    /\ pc[h] = "expire"
    /\ Goto(h, AfterExpiry(h))
    /\ \/ expiryRow' = expiryRow \cup {req[h].va}
       \/ /\ "db" \in Faults
          /\ UNCHANGED expiryRow
    /\ \/ expiryCallbacks' = [expiryCallbacks EXCEPT ![req[h].va] = @ + 1]
       \/ /\ "queue" \in Faults
          /\ UNCHANGED expiryCallbacks
    /\ UNCHANGED <<account, txn, flag, paidCallbacks, req, acct, out, seen, history>>

-----------------------------------------------------------------------------
(* Failures                                                                *)

\* A statement fails: the handler answers 5xx, which is never recorded as a
\* payment flag.
DatabaseError(h) ==
    /\ "db" \in Faults
    /\ \/ /\ pc[h] \in {"existing", "account", "lookup", "insert", "reget"}
          /\ Decide(h, "done", CodePaymentInternal, None)
       \/ /\ pc[h] \in {"inquiry", "inqlookup"}
          /\ Decide(h, "done", CodeInquiryInternal, None)
    /\ acct' = [acct EXCEPT ![h] = None]
    /\ UNCHANGED <<tables, callbacks, req, seen, history>>

\* The INSERT commits but its acknowledgement is lost: to the handler it is an
\* error like any other.
LostAcknowledgement(h) ==
    /\ "ack" \in Faults
    /\ pc[h] = "insert"
    /\ txn[req[h].preq] = None
    /\ txn' = [txn EXCEPT ![req[h].preq] =
                 [va |-> req[h].va, amount |-> req[h].amount, url |-> acct[h].url]]
    /\ Decide(h, "done", CodePaymentInternal, None)
    /\ acct' = [acct EXCEPT ![h] = None]
    /\ UNCHANGED <<account, flag, expiryRow, callbacks, req, seen, history>>

\* The process dies (or the request context is cancelled) between two steps.
Crash(h) ==
    /\ "crash" \in Faults
    /\ pc[h] \notin {"idle", "done"}
    /\ Goto(h, "idle")
    /\ req' = [req EXCEPT ![h] = None]
    /\ acct' = [acct EXCEPT ![h] = None]
    /\ out' = [out EXCEPT ![h] = None]
    /\ seen' = [seen EXCEPT ![h] = FALSE]
    /\ UNCHANGED <<tables, callbacks, history>>

-----------------------------------------------------------------------------
(* Specification                                                           *)

\* The steps of a request in progress, other than failures.
Step(h) ==
    \/ FindPaymentFlag(h)
    \/ CheckExisting(h)
    \/ ReadAccount(h)
    \/ LookupTransaction(h)
    \/ SaveNoBillPayment(h)
    \/ ReplayDuplicate(h)
    \/ NotifyPayment(h)
    \/ RecordPaymentFlag(h)
    \/ InquireAccount(h)
    \/ InquireTransaction(h)
    \/ MarkExpired(h)
    \/ DedupeExpiry(h)
    \/ NotifyExpiry(h)

Next ==
    \/ \E h \in Handlers :
         \/ PaymentArrives(h)
         \/ InquiryArrives(h)
         \/ Step(h)
         \/ DatabaseError(h)
         \/ LostAcknowledgement(h)
         \/ Crash(h)
    \/ \E v \in VANos :
         \/ \E date \in {"never", "future"}, url \in BOOLEAN : CreateVA(v, date, url)
         \/ DeleteVA(v)
         \/ ExpiredDatePasses(v)

Spec == Init /\ [][Next]_vars

\* A goroutine serving a request keeps running; nobody has to send a request.
FairSpec == Spec /\ \A h \in Handlers : WF_vars(Step(h))

-----------------------------------------------------------------------------
(* Properties                                                              *)

Paying(h) == req[h] # None /\ req[h].kind = "pay"

\* The merchant is called back at most once for a payment, and only for one
\* that is on file, however many handlers race on its paymentRequestId
\* (paymentNoBill: "without sending a second callback, since we are not the
\* writer").
OneCallbackPerPayment ==
    \A p \in PayReqs : /\ paidCallbacks[p] <= 1
                       /\ paidCallbacks[p] = 1 => txn[p] # None

\* Whoever is told 2002500 for a paymentRequestId - first answer, advice replay,
\* lost race or replayed flag - is told exactly the payment that is on file.
SuccessIsOnFile ==
    \A h \in Handlers :
        pc[h] = "done" /\ Paying(h) /\ out[h].code = CodePaymentSuccess
            => /\ out[h].data # None
               /\ txn[req[h].preq] = out[h].data

\* A va_payment_flags row that records a settlement describes a payment that is
\* on file (recordPaymentFlag runs after payment(), in another statement).
AcceptedFlagIsOnFile ==
    \A k \in ExtIds \X PayReqs :
        flag[k] # None /\ flag[k].code = CodePaymentSuccess
            => flag[k].data # None /\ txn[k[2]] = flag[k].data

\* A payment that was on file before the request arrived is never refused by
\* payment() as expired, unknown, paid or of a wrong amount, whatever happened
\* to the registration since: the duplicate check comes first.
SettledIsNeverRefused ==
    \A h \in Handlers :
        pc[h] = "done" /\ Paying(h) /\ seen[h] /\ ~out[h].fromFlag
            => out[h].code \in {CodePaymentSuccess, CodePaymentInconsistent, CodePaymentInternal}

\* One va.expired callback at most for every ACTIVE -> EXPIRED transition that
\* owes one, though several requests detect the same expiry
\* (UpdateVAAccountStatus: "it is what makes the expiry callback exactly-once").
ExpiryCallbackPerTransition ==
    \A v \in VANos : expiryCallbacks[v] <= expiries[v]

\* The outcome recorded for a (X-EXTERNAL-ID, paymentRequestId) pair is never
\* replaced by a later one of the same pair (RecordPaymentFlag: "preserve what
\* the FIRST request answered").
FlagWrittenOnce ==
    [][\A k \in ExtIds \X PayReqs : flag[k] # None => flag'[k] = flag[k]]_vars

\* The no-bill flow implements the ledger: every payment is credited once, for
\* good, and called back at most once after it ("nothing is settled and nothing
\* is overwritten").
Ledger == INSTANCE PaymentLedger WITH
            Credits <- Txn, ledger <- txn, told <- paidCallbacks
ImplementsLedger == Ledger!Spec

\* With no crash, no lost acknowledgement and a working queue, a settled payment
\* whose registration carried a notification URL is eventually called back,
\* and the call back is never given up by a concurrent duplicate.
SettledIsCalledBack ==
    \A p \in PayReqs : (txn[p] # None /\ txn[p].url) ~> paidCallbacks[p] = 1

\* "flagAdvise Y ... must replay the original outcome as 2002500, not be reported
\* as a collision" (va_usecase.go): advice about a payment on file, whose pair
\* has no rejection on record, is answered 2002500 (or fails internally).
AdviceReplaysSettlement ==
    \A h \in Handlers :
        /\ pc[h] = "done" /\ Paying(h) /\ req[h].advise /\ seen[h]
        /\ LET f == flag[<<req[h].ext, req[h].preq>>]
           IN  f # None => f.code \in {CodePaymentSuccess, CodePaymentInconsistent}
        => out[h].code \in {CodePaymentSuccess, CodePaymentInternal}

\* "if this call is the one that actually applied the transition, enqueues a
\* single va.expired merchant callback" (va_usecase.go): once nobody is
\* handling a request, every transition that owes a callback has had it.
EveryExpiryIsCalledBack ==
    (\A h \in Handlers : pc[h] \in {"idle", "done"})
        => \A v \in VANos : expiryCallbacks[v] = expiries[v]

\* "A registration with no ExpiredDate never expires" (domain/va.go): only a
\* registration whose date has passed is EXPIRED.
ExpiresOnlyWhenDue ==
    \A v \in VANos : account[v] # None /\ account[v].status = "EXPIRED"
                        => account[v].expiredDate = "past"
=============================================================================
