--------------------------- MODULE NoBillVA_proofs ---------------------------
(***************************************************************************)
(* Proofs about NoBillVA for every number of VA numbers, payments,         *)
(* external ids, handlers and amounts, and for every combination of        *)
(* failures.                                                               *)
(***************************************************************************)
EXTENDS NoBillVA, FiniteSetTheorems, TLAPS

-----------------------------------------------------------------------------
(* The inductive invariant                                                 *)

PayPCs    == {"flag", "existing", "account", "lookup", "insert", "reget", "notify", "record"}
InqPCs    == {"inquiry", "inqlookup"}
ExpiryPCs == {"mark", "dedupe", "expire"}

\* What a handler knows at each of its positions: its request, the registration
\* it read, the answer it has decided on.
WellFormed ==
    \A h \in Handlers :
        /\ pc[h] # "idle" => req[h] \in Request
        /\ pc[h] \in PayPCs => req[h].kind = "pay"
        /\ pc[h] \in InqPCs => req[h].kind = "inq"
        /\ pc[h] \in {"insert", "reget", "notify"} \cup ExpiryPCs => acct[h] \in Account
        /\ pc[h] \in {"notify", "record", "done"} \cup ExpiryPCs => out[h] \in Answer
        /\ pc[h] \in {"notify", "record"} => out[h].code \in PaymentCodes
        /\ pc[h] \in ExpiryPCs /\ req[h].kind = "pay" => out[h].code = CodePaymentExpired
        /\ pc[h] = "mark" => account[req[h].va] \in Account

TypeInv == TypeOK /\ WellFormed

-----------------------------------------------------------------------------
(* Types                                                                   *)

\* The fields of a request a handler serves.
LEMMA RequestFields ==
  \A r \in Request : /\ r.kind \in {"pay", "inq"} /\ r.va \in VANos /\ r.preq \in PayReqs
                    /\ r.ext \in ExtIds /\ r.advise \in BOOLEAN /\ r.amount \in Amounts
  BY DEF Request

\* The record a handler fixes as its answer is an Answer.
LEMMA AnswerIn ==
  ASSUME NEW c \in PaymentCodes \cup InquiryCodes, NEW d \in Txn \cup {None}, NEW f \in BOOLEAN
  PROVE  [code |-> c, data |-> d, fromFlag |-> f] \in Answer
  BY DEF Answer

\* The fields of an answer.
LEMMA AnswerFields ==
  \A o \in Answer : /\ o.code \in PaymentCodes \cup InquiryCodes
                   /\ o.data \in Txn \cup {None} /\ o.fromFlag \in BOOLEAN
  BY DEF Answer

\* The fields of a va_payment_flags row.
LEMMA FlagFields == \A f \in Flag : f.code \in PaymentCodes /\ f.data \in Txn \cup {None}
  BY DEF Flag

\* What ReplayCode answers.
LEMMA ReplayCodes == \A r \in Request : ReplayCode(r) \in PaymentCodes
  BY DEF ReplayCode, PaymentCodes

\* No handler runs and the tables are empty at the start.
LEMMA TypeInvInit == Init => TypeInv
  BY MaxCyclesAssumption DEF Init, TypeInv, TypeOK, WellFormed, PCs, PayPCs, InqPCs, ExpiryPCs

\* No statement of a handler, merchant call or failure breaks the types.
LEMMA TypeInvStep == TypeInv /\ [Next]_vars => TypeInv'
<1> SUFFICES ASSUME TypeInv, [Next]_vars PROVE TypeInv'
  OBVIOUS
<1> USE DEF TypeInv, TypeOK, WellFormed, PCs, PayPCs, InqPCs, ExpiryPCs,
            tables, callbacks, history, Goto, Decide
<1>1. ASSUME NEW h \in Handlers, PaymentArrives(h) PROVE TypeInv'
  BY <1>1 DEF PaymentArrives, Request
<1>2. ASSUME NEW h \in Handlers, InquiryArrives(h) PROVE TypeInv'
  BY <1>2 DEF InquiryArrives, Request
<1>3. ASSUME NEW h \in Handlers, FindPaymentFlag(h) PROVE TypeInv'
  <2>1. req[h] \in Request /\ <<req[h].ext, req[h].preq>> \in ExtIds \X PayReqs
    BY <1>3, RequestFields DEF FindPaymentFlag
  <2>2. CASE pc' = [pc EXCEPT ![h] = "existing"] /\ UNCHANGED out
    BY <1>3, <2>1, <2>2 DEF FindPaymentFlag
  <2> DEFINE f == flag[<<req[h].ext, req[h].preq>>]
             o == [code     |-> IF req[h].advise THEN f.code ELSE CodePaymentInconsistent,
                   data     |-> f.data,
                   fromFlag |-> TRUE]
  <2>3. CASE f # None /\ pc' = [pc EXCEPT ![h] = "done"] /\ out' = [out EXCEPT ![h] = o]
    <3>1. f \in Flag
      BY <2>1, <2>3
    <3>2. o \in Answer
      BY <3>1, FlagFields, AnswerIn DEF PaymentCodes
    <3> HIDE DEF f, o
    <3> QED
      BY <1>3, <2>1, <2>3, <3>2 DEF FindPaymentFlag
  <2> QED
    BY <1>3, <2>2, <2>3 DEF FindPaymentFlag
<1>4. ASSUME NEW h \in Handlers, CheckExisting(h) PROVE TypeInv'
  <2>1. req[h] \in Request /\ req[h].preq \in PayReqs
    BY <1>4, RequestFields DEF CheckExisting
  <2>2. CASE pc' = [pc EXCEPT ![h] = "account"] /\ UNCHANGED out
    BY <1>4, <2>1, <2>2 DEF CheckExisting
  <2>3. CASE Decide(h, "record", ReplayCode(req[h]), txn[req[h].preq])
    BY <1>4, <2>1, <2>3, ReplayCodes, AnswerIn DEF CheckExisting
  <2> QED
    BY <1>4, <2>2, <2>3 DEF CheckExisting
<1>5. ASSUME NEW h \in Handlers, ReadAccount(h) PROVE TypeInv'
  <2> DEFINE a == account[req[h].va]
  <2>1. req[h] \in Request /\ a \in Account \cup {None} /\ req[h].kind = "pay"
    BY <1>5, RequestFields DEF ReadAccount
  <2>2. acct' = [acct EXCEPT ![h] = a] /\ UNCHANGED <<tables, callbacks, req, seen, history>>
    BY <1>5 DEF ReadAccount
  <2>3. CASE Goto(h, "lookup") /\ UNCHANGED out
    BY <2>1, <2>2, <2>3
  <2>4. CASE a # None /\ Goto(h, "insert") /\ UNCHANGED out
    BY <2>1, <2>2, <2>4
  <2>5. CASE a # None /\ Decide(h, "mark", CodePaymentExpired, None)
    BY <2>1, <2>2, <2>5, AnswerIn DEF PaymentCodes
  <2>6. ASSUME NEW c \in PaymentCodes, Decide(h, "record", c, None)
        PROVE  TypeInv'
    BY <2>1, <2>2, <2>6, AnswerIn
  <2> QED
    BY <1>5, <2>3, <2>4, <2>5, <2>6 DEF ReadAccount, PaymentCodes
<1>6. ASSUME NEW h \in Handlers, LookupTransaction(h) PROVE TypeInv'
  BY <1>6 DEF LookupTransaction, Request, Answer, PaymentCodes
<1>7. ASSUME NEW h \in Handlers, SaveNoBillPayment(h) PROVE TypeInv'
  <2> DEFINE row == [va |-> req[h].va, amount |-> req[h].amount, url |-> acct[h].url]
  <2>1. req[h] \in Request /\ req[h].preq \in PayReqs /\ acct[h] \in Account /\ row \in Txn
    BY <1>7, RequestFields DEF SaveNoBillPayment, Txn, Account
  <2>2. UNCHANGED <<account, flag, expiryRow, callbacks, req, acct, seen, history>>
    BY <1>7 DEF SaveNoBillPayment
  <2>3. ASSUME NEW l \in {"notify", "record"}, Decide(h, l, CodePaymentSuccess, row),
               txn' = [txn EXCEPT ![req[h].preq] = row]
        PROVE  TypeInv'
    <3> HIDE DEF row
    <3> QED
      <4>1. TypeOK'
        BY <2>1, <2>2, <2>3, AnswerIn DEF PaymentCodes
      <4>2. WellFormed'
        BY <1>7, <2>1, <2>2, <2>3, AnswerIn, ZenonT(30) DEF SaveNoBillPayment, PaymentCodes
      <4> QED
        BY <4>1, <4>2
  <2>4. CASE Goto(h, "reget") /\ UNCHANGED <<txn, out>>
    BY <1>7, <2>1, <2>2, <2>4 DEF SaveNoBillPayment
  <2> QED
    BY <1>7, <2>3, <2>4 DEF SaveNoBillPayment
<1>8. ASSUME NEW h \in Handlers, ReplayDuplicate(h) PROVE TypeInv'
  BY <1>8, RequestFields, ReplayCodes, AnswerIn DEF ReplayDuplicate
<1>9. ASSUME NEW h \in Handlers, NotifyPayment(h) PROVE TypeInv'
  BY <1>9 DEF NotifyPayment, Request
<1>10. ASSUME NEW h \in Handlers, RecordPaymentFlag(h) PROVE TypeInv'
  <2> DEFINE k == <<req[h].ext, req[h].preq>>
             f == [code |-> out[h].code, data |-> out[h].data]
  <2>1. req[h] \in Request /\ k \in ExtIds \X PayReqs /\ out[h] \in Answer
    BY <1>10, RequestFields DEF RecordPaymentFlag
  <2>2. f \in Flag
    BY <1>10, <2>1, AnswerFields DEF RecordPaymentFlag, Flag
  <2>3. flag' \in [ExtIds \X PayReqs -> Flag \cup {None}]
    BY <1>10, <2>1, <2>2 DEF RecordPaymentFlag
  <2> QED
    BY <1>10, <2>1, <2>3 DEF RecordPaymentFlag
<1>11. ASSUME NEW h \in Handlers, InquireAccount(h) PROVE TypeInv'
  <2> DEFINE a == account[req[h].va]
  <2>1. req[h] \in Request /\ a \in Account \cup {None} /\ req[h].kind = "inq"
    BY <1>11, RequestFields DEF InquireAccount
  <2>2. UNCHANGED <<tables, callbacks, req, seen, history>>
    BY <1>11 DEF InquireAccount
  <2>3. CASE acct' = [acct EXCEPT ![h] = None] /\ Goto(h, "inqlookup") /\ UNCHANGED out
    BY <2>1, <2>2, <2>3
  <2>4. CASE acct' = [acct EXCEPT ![h] = a] /\ a # None /\ Decide(h, "mark", CodeInquiryExpired, None)
    BY <2>1, <2>2, <2>4, AnswerIn DEF InquiryCodes
  <2>5. ASSUME NEW c \in InquiryCodes, Decide(h, "done", c, None),
               acct' = [acct EXCEPT ![h] = None]
        PROVE  TypeInv'
    BY <2>1, <2>2, <2>5, AnswerIn
  <2> QED
    BY <1>11, <2>3, <2>4, <2>5 DEF InquireAccount, InquiryCodes
<1>12. ASSUME NEW h \in Handlers, InquireTransaction(h) PROVE TypeInv'
  BY <1>12 DEF InquireTransaction, Request, Answer, InquiryCodes
<1>13. ASSUME NEW h \in Handlers, MarkExpired(h) PROVE TypeInv'
  <2> DEFINE v == req[h].va
  <2>1. req[h] \in Request /\ v \in VANos /\ acct[h] \in Account /\ account[v] \in Account
    BY <1>13, RequestFields DEF MarkExpired
  <2>2. /\ UNCHANGED <<txn, flag, expiryRow, callbacks, req, acct, out, seen, cycles>>
        /\ pc[h] = "mark"
        /\ pc' = [pc EXCEPT ![h] = "dedupe"] \/ pc' = [pc EXCEPT ![h] = AfterExpiry(h)]
    BY <1>13 DEF MarkExpired
  <2>3. account' = [account EXCEPT ![v].status = "EXPIRED"] \/ UNCHANGED account
    BY <1>13 DEF MarkExpired
  <2>4. account' \in [VANos -> Account \cup {None}]
        /\ \A w \in VANos : account[w] \in Account => account'[w] \in Account
    <3>1. [account[v] EXCEPT !.status = "EXPIRED"] \in Account
      BY <2>1 DEF Account, AccountStatus
    <3> QED
      BY <2>1, <2>3, <3>1
  <2>5. expiries' \in [VANos -> Nat]
    BY <1>13, <2>1 DEF MarkExpired
  <2>6. AfterExpiry(h) \in {"record", "done"} /\ (AfterExpiry(h) = "record" => req[h].kind = "pay")
    BY DEF AfterExpiry
  <2> HIDE DEF v
  <2>7. TypeOK'
    BY <2>1, <2>2, <2>4, <2>5, <2>6
  <2>8. WellFormed'
    BY <2>1, <2>2, <2>4, <2>6, RequestFields DEF PaymentCodes
  <2> QED
    BY <2>7, <2>8
<1>14. ASSUME NEW h \in Handlers, DedupeExpiry(h) PROVE TypeInv'
  BY <1>14 DEF DedupeExpiry, AfterExpiry, PaymentCodes
<1>15. ASSUME NEW h \in Handlers, NotifyExpiry(h) PROVE TypeInv'
  BY <1>15 DEF NotifyExpiry, AfterExpiry, Request, PaymentCodes
<1>16. ASSUME NEW h \in Handlers, DatabaseError(h) PROVE TypeInv'
  <2>1. PICK c \in PaymentCodes \cup InquiryCodes : Decide(h, "done", c, None)
    BY <1>16 DEF DatabaseError, PaymentCodes, InquiryCodes
  <2>2. [code |-> c, data |-> None, fromFlag |-> FALSE] \in Answer
    BY AnswerIn
  <2>3. /\ acct' = [acct EXCEPT ![h] = None]
        /\ pc[h] # "idle"
        /\ UNCHANGED <<tables, callbacks, req, seen, history>>
    BY <1>16 DEF DatabaseError
  <2> QED
    BY <2>1, <2>2, <2>3
<1>17. ASSUME NEW h \in Handlers, LostAcknowledgement(h) PROVE TypeInv'
  BY <1>17 DEF LostAcknowledgement, Request, Answer, Txn, Account, PaymentCodes
<1>18. ASSUME NEW h \in Handlers, Crash(h) PROVE TypeInv'
  BY <1>18 DEF Crash
<1>19. ASSUME NEW v \in VANos, NEW date \in {"never", "future"}, NEW url \in BOOLEAN,
              CreateVA(v, date, url)
       PROVE  TypeInv'
  BY <1>19, MaxCyclesAssumption DEF CreateVA, SaveVAAccount, Account, AccountStatus, ExpiryDates
<1>20. ASSUME NEW v \in VANos, DeleteVA(v) PROVE TypeInv'
  BY <1>20 DEF DeleteVA, Account, AccountStatus
<1>21. ASSUME NEW v \in VANos, ExpiredDatePasses(v) PROVE TypeInv'
  BY <1>21 DEF ExpiredDatePasses, Account, ExpiryDates
<1>22. CASE UNCHANGED vars
  BY <1>22 DEF vars
<1> HIDE DEF TypeInv, TypeOK, WellFormed, Goto, Decide
<1> QED
  BY <1>1, <1>2, <1>3, <1>4, <1>5, <1>6, <1>7, <1>8, <1>9, <1>10, <1>11, <1>12, <1>13,
     <1>14, <1>15, <1>16, <1>17, <1>18, <1>19, <1>20, <1>21, <1>22 DEF Next, Step

\* Every reachable state is well typed, for every value of the constants.
THEOREM TypeCorrect == Spec => []TypeOK
<1>1. Spec => []TypeInv
  BY TypeInvInit, TypeInvStep, PTL DEF Spec
<1> QED
  BY <1>1, PTL DEF TypeInv

-----------------------------------------------------------------------------
(* Money and callbacks                                                     *)

\* A step that neither settles a payment nor calls the merchant back.
Quiet ==
    /\ UNCHANGED <<txn, paidCallbacks>>
    /\ \A k \in Handlers : pc'[k] = "notify" => pc[k] = "notify" /\ req'[k] = req[k]

\* A step in which handler h puts a payment on file; only h may go on to call
\* the merchant back.
Settles(h) ==
    /\ req[h].preq \in PayReqs
    /\ txn[req[h].preq] = None
    /\ \E row \in Txn : txn' = [txn EXCEPT ![req[h].preq] = row]
    /\ UNCHANGED <<paidCallbacks, req>>
    /\ \A k \in Handlers : pc'[k] = "notify" => k = h \/ pc[k] = "notify"

\* A step in which handler h calls the merchant back.
Calls(h) ==
    /\ pc[h] = "notify"
    /\ req[h].preq \in PayReqs
    /\ pc' = [pc EXCEPT ![h] = "record"]
    /\ UNCHANGED <<txn, req>>
    /\ paidCallbacks' = [paidCallbacks EXCEPT ![req[h].preq] = @ + 1]

\* What a step does to the payments and their callbacks: nothing, one INSERT by
\* a handler about to call back, or one dispatch by a handler at "notify".
LEMMA StepShape ==
  ASSUME TypeInv, [Next]_vars
  PROVE  Quiet \/ \E h \in Handlers : Settles(h) \/ Calls(h)
<1> USE DEF TypeInv, TypeOK, PCs, tables, callbacks, history, Goto, Decide
<1>1. ASSUME NEW h \in Handlers, PaymentArrives(h) PROVE Quiet
  BY <1>1 DEF PaymentArrives, Quiet
<1>2. ASSUME NEW h \in Handlers, InquiryArrives(h) PROVE Quiet
  BY <1>2 DEF InquiryArrives, Quiet
<1>3. ASSUME NEW h \in Handlers,
             \/ FindPaymentFlag(h) \/ CheckExisting(h) \/ LookupTransaction(h)
             \/ ReplayDuplicate(h) \/ RecordPaymentFlag(h) \/ InquireTransaction(h)
      PROVE  Quiet
  BY <1>3 DEF FindPaymentFlag, CheckExisting, LookupTransaction, ReplayDuplicate,
              RecordPaymentFlag, InquireTransaction, Quiet
<1>4. ASSUME NEW h \in Handlers, ReadAccount(h) \/ InquireAccount(h) PROVE Quiet
  BY <1>4 DEF ReadAccount, InquireAccount, Quiet
<1>5. ASSUME NEW h \in Handlers, MarkExpired(h) \/ DedupeExpiry(h) \/ NotifyExpiry(h) PROVE Quiet
  BY <1>5 DEF MarkExpired, DedupeExpiry, NotifyExpiry, AfterExpiry, Quiet
<1>6. ASSUME NEW h \in Handlers, DatabaseError(h) \/ Crash(h) PROVE Quiet
  BY <1>6 DEF DatabaseError, Crash, Quiet
<1>7. ASSUME NEW h \in Handlers, SaveNoBillPayment(h) PROVE Quiet \/ Settles(h)
  <2> DEFINE row == [va |-> req[h].va, amount |-> req[h].amount, url |-> acct[h].url]
  <2>1. req[h].preq \in PayReqs /\ row \in Txn
    BY <1>7, RequestFields DEF SaveNoBillPayment, WellFormed, PayPCs, ExpiryPCs, Txn, Account
  <2> HIDE DEF row
  <2>2. CASE txn[req[h].preq] = None
    BY <1>7, <2>1, <2>2 DEF SaveNoBillPayment, Settles, row
  <2>3. CASE txn[req[h].preq] # None
    BY <1>7, <2>3 DEF SaveNoBillPayment, Quiet
  <2> QED
    BY <2>2, <2>3
<1>8. ASSUME NEW h \in Handlers, LostAcknowledgement(h) PROVE Settles(h)
  <2> DEFINE row == [va |-> req[h].va, amount |-> req[h].amount, url |-> acct[h].url]
  <2>1. req[h].preq \in PayReqs /\ row \in Txn
    BY <1>8, RequestFields DEF LostAcknowledgement, WellFormed, PayPCs, ExpiryPCs, Txn, Account
  <2> HIDE DEF row
  <2> QED
    BY <1>8, <2>1 DEF LostAcknowledgement, Settles, row
<1>9. ASSUME NEW h \in Handlers, NotifyPayment(h) PROVE Quiet \/ Calls(h)
  BY <1>9, RequestFields DEF NotifyPayment, WellFormed, PayPCs, Quiet, Calls
<1>10. ASSUME NEW v \in VANos,
              \/ \E date \in {"never", "future"}, url \in BOOLEAN : CreateVA(v, date, url)
              \/ DeleteVA(v) \/ ExpiredDatePasses(v)
       PROVE  Quiet
  BY <1>10 DEF CreateVA, SaveVAAccount, DeleteVA, ExpiredDatePasses, Quiet
<1>11. CASE UNCHANGED vars
  BY <1>11 DEF vars, Quiet
<1> HIDE DEF TypeInv, TypeOK, Goto, Decide
<1> QED
  BY <1>1, <1>2, <1>3, <1>4, <1>5, <1>6, <1>7, <1>8, <1>9, <1>10, <1>11 DEF Next, Step

\* Whoever is about to call back has settled its own payment, nobody else is
\* about to call back for it, and no callback went out for it yet.
CallbackInv ==
    /\ OneCallbackPerPayment
    /\ \A h \in Handlers : pc[h] = "notify" =>
         /\ txn[req[h].preq] # None
         /\ paidCallbacks[req[h].preq] = 0
         /\ \A k \in Handlers : pc[k] = "notify" /\ req[k].preq = req[h].preq => k = h

\* No payment and no callback at the start.
LEMMA CallbackInvInit == Init => CallbackInv
  BY DEF Init, CallbackInv, OneCallbackPerPayment

\* Each of the three shapes keeps one callback per payment.
LEMMA CallbackInvStep == TypeInv /\ CallbackInv /\ [Next]_vars => CallbackInv'
<1> SUFFICES ASSUME TypeInv, CallbackInv, [Next]_vars PROVE CallbackInv'
  OBVIOUS
<1>0. /\ txn \in [PayReqs -> Txn \cup {None}]
      /\ paidCallbacks \in [PayReqs -> Nat]
      /\ pc \in [Handlers -> PCs]
      /\ \A k \in Handlers : pc[k] = "notify" => req[k].preq \in PayReqs
  BY RequestFields DEF TypeInv, TypeOK, WellFormed
<1>1. None \notin Txn
  BY NoneAssumption
<1>2. CASE Quiet
  BY <1>0, <1>2 DEF Quiet, CallbackInv, OneCallbackPerPayment
<1>3. ASSUME NEW h \in Handlers, Settles(h) PROVE CallbackInv'
  BY <1>0, <1>1, <1>3 DEF Settles, CallbackInv, OneCallbackPerPayment
<1>4. ASSUME NEW h \in Handlers, Calls(h) PROVE CallbackInv'
  BY <1>0, <1>4 DEF Calls, CallbackInv, OneCallbackPerPayment
<1> QED
  BY <1>2, <1>3, <1>4, StepShape

\* For any number of concurrent handlers, and under any of the failures, the
\* merchant is called back at most once for a payment, and only for one on file.
THEOREM OneCallback == Spec => []OneCallbackPerPayment
<1>1. Spec => [](TypeInv /\ CallbackInv)
  BY TypeInvInit, TypeInvStep, CallbackInvInit, CallbackInvStep, PTL DEF Spec
<1> QED
  BY <1>1, PTL DEF CallbackInv

\* NoBillVA implements PaymentLedger: an INSERT is a Credit, a dispatched
\* callback a Tell, and every other step a stuttering step.
THEOREM Refinement == Spec => ImplementsLedger
<1>1. Init => Ledger!Init
  BY DEF Init, Ledger!Init
<1>2. TypeInv /\ CallbackInv /\ [Next]_vars => [Ledger!Next]_(Ledger!ledgerVars)
  <2> SUFFICES ASSUME TypeInv, CallbackInv, [Next]_vars
               PROVE  [Ledger!Next]_(Ledger!ledgerVars)
    OBVIOUS
  <2>1. CASE Quiet
    BY <2>1 DEF Quiet, Ledger!ledgerVars
  <2>2. ASSUME NEW h \in Handlers, Settles(h) PROVE Ledger!Next
    BY <2>2 DEF Settles, Ledger!Next, Ledger!Credit
  <2>3. ASSUME NEW h \in Handlers, Calls(h) PROVE Ledger!Next
    <3>1. txn[req[h].preq] # None /\ paidCallbacks[req[h].preq] = 0
      BY <2>3 DEF Calls, CallbackInv
    <3>2. Ledger!Tell(req[h].preq)
      BY <2>3, <3>1 DEF Calls, Ledger!Tell, TypeInv, TypeOK
    <3> QED
      BY <2>3, <3>2 DEF Calls, Ledger!Next
  <2> QED
    BY <2>1, <2>2, <2>3, StepShape
<1> QED
  BY <1>1, <1>2, TypeInvInit, TypeInvStep, CallbackInvInit, CallbackInvStep, PTL
  DEF Spec, ImplementsLedger, Ledger!Spec

-----------------------------------------------------------------------------
(* Answers and recorded flags                                              *)

\* A payment on file stays as it is.
LEMMA TxnKept ==
  ASSUME TypeInv, [Next]_vars, NEW p \in PayReqs, txn[p] # None
  PROVE  txn'[p] = txn[p]
  BY StepShape DEF Quiet, Settles, Calls, TypeInv, TypeOK

\* A handler that is going to answer 2002500 holds the payment on file, and so
\* does every accepted flag.
AnswerOnFile(h) ==
    pc[h] \in {"notify", "record", "done"} /\ req[h].kind = "pay" /\ out[h].code = CodePaymentSuccess
        => out[h].data # None /\ txn[req[h].preq] = out[h].data

AnswerInv ==
    /\ \A h \in Handlers : AnswerOnFile(h)
    /\ AcceptedFlagIsOnFile

\* Nothing was answered or flagged at the start.
LEMMA AnswerInvInit == Init => AnswerInv
  BY DEF Init, AnswerInv, AnswerOnFile, AcceptedFlagIsOnFile

\* A step in which no handler but h moves, no flag is written, and h does not
\* come to answer 2002500.
LEMMA OthersOnFile ==
  ASSUME TypeInv, AnswerInv, [Next]_vars, UNCHANGED flag,
         NEW h \in Handlers, AnswerOnFile(h)',
         \A k \in Handlers \ {h} : pc'[k] = pc[k] /\ req'[k] = req[k] /\ out'[k] = out[k]
  PROVE  AnswerInv'
<1>1. \A k \in Handlers : pc[k] # "idle" => req[k].preq \in PayReqs
  BY RequestFields DEF TypeInv, WellFormed
<1>2. ASSUME NEW k \in Handlers PROVE AnswerOnFile(k)'
  BY <1>1, TxnKept DEF AnswerInv, AnswerOnFile
<1>3. AcceptedFlagIsOnFile'
  BY TxnKept DEF AnswerInv, AcceptedFlagIsOnFile
<1> QED
  BY <1>2, <1>3 DEF AnswerInv

\* Every statement keeps the answers and the flags true of the payments on file.
LEMMA AnswerInvStep == TypeInv /\ AnswerInv /\ [Next]_vars => AnswerInv'
<1> SUFFICES ASSUME TypeInv, AnswerInv, [Next]_vars PROVE AnswerInv'
  OBVIOUS
<1>0. /\ pc \in [Handlers -> PCs] /\ req \in [Handlers -> Request \cup {None}]
      /\ out \in [Handlers -> Answer \cup {None}]
      /\ txn \in [PayReqs -> Txn \cup {None}]
      /\ flag \in [ExtIds \X PayReqs -> Flag \cup {None}]
  BY DEF TypeInv, TypeOK
<1> USE DEF tables, callbacks, history, Goto, Decide
<1>1. ASSUME NEW h \in Handlers, PaymentArrives(h) PROVE AnswerInv'
  BY <1>0, <1>1, OthersOnFile DEF PaymentArrives, AnswerOnFile
<1>2. ASSUME NEW h \in Handlers, InquiryArrives(h) PROVE AnswerInv'
  BY <1>0, <1>2, OthersOnFile DEF InquiryArrives, AnswerOnFile
<1>3. ASSUME NEW h \in Handlers, FindPaymentFlag(h) PROVE AnswerInv'
  <2> DEFINE k == <<req[h].ext, req[h].preq>>
  <2>1. req[h] \in Request /\ k \in ExtIds \X PayReqs
    BY <1>3, RequestFields DEF FindPaymentFlag, TypeInv, WellFormed
  <2>2. AnswerOnFile(h)'
    <3>1. CASE pc' = [pc EXCEPT ![h] = "existing"]
      BY <1>0, <3>1 DEF AnswerOnFile
    <3>2. CASE flag[k] # None /\ pc' = [pc EXCEPT ![h] = "done"]
      <4>1. out'[h].data = flag[k].data
            /\ out'[h].code = IF req[h].advise THEN flag[k].code ELSE CodePaymentInconsistent
        BY <1>0, <1>3, <3>2 DEF FindPaymentFlag
      <4>2. flag[k].code = CodePaymentSuccess => flag[k].data # None /\ txn[req[h].preq] = flag[k].data
        BY <2>1, <3>2 DEF AnswerInv, AcceptedFlagIsOnFile
      <4> QED
        BY <1>3, <4>1, <4>2 DEF FindPaymentFlag, AnswerOnFile, CodePaymentInconsistent, CodePaymentSuccess
    <3> QED
      BY <1>3, <3>1, <3>2 DEF FindPaymentFlag
  <2> QED
    BY <1>0, <1>3, <2>2, OthersOnFile DEF FindPaymentFlag
<1>4. ASSUME NEW h \in Handlers, CheckExisting(h) PROVE AnswerInv'
  BY <1>0, <1>4, OthersOnFile DEF CheckExisting, AnswerOnFile
<1>5. ASSUME NEW h \in Handlers, ReadAccount(h) PROVE AnswerInv'
  BY <1>0, <1>5, OthersOnFile
  DEF ReadAccount, AnswerOnFile, CodePaymentSuccess, CodePaymentExpired, CodePaymentNotFound,
      CodePaymentInvalidAmt
<1>6. ASSUME NEW h \in Handlers, LookupTransaction(h) PROVE AnswerInv'
  BY <1>0, <1>6, OthersOnFile
  DEF LookupTransaction, AnswerOnFile, CodePaymentSuccess, CodePaymentNotFound, CodePaymentPaidBill
<1>7. ASSUME NEW h \in Handlers, SaveNoBillPayment(h) PROVE AnswerInv'
  <2> DEFINE row == [va |-> req[h].va, amount |-> req[h].amount, url |-> acct[h].url]
  <2>1. req[h].preq \in PayReqs /\ row # None
    <3>1. row \in Txn /\ req[h].preq \in PayReqs
      BY <1>7, RequestFields
      DEF SaveNoBillPayment, TypeInv, WellFormed, PayPCs, ExpiryPCs, Txn, Account
    <3> QED
      BY <3>1, NoneAssumption
  <2> HIDE DEF row
  <2>2. AnswerOnFile(h)'
    BY <1>0, <1>7, <2>1 DEF SaveNoBillPayment, AnswerOnFile, row
  <2> QED
    BY <1>0, <1>7, <2>2, OthersOnFile DEF SaveNoBillPayment
<1>8. ASSUME NEW h \in Handlers, ReplayDuplicate(h) PROVE AnswerInv'
  BY <1>0, <1>8, OthersOnFile DEF ReplayDuplicate, AnswerOnFile
<1>9. ASSUME NEW h \in Handlers, NotifyPayment(h) PROVE AnswerInv'
  BY <1>0, <1>9, OthersOnFile DEF NotifyPayment, AnswerOnFile, AnswerInv
<1>10. ASSUME NEW h \in Handlers, RecordPaymentFlag(h) PROVE AnswerInv'
  <2> DEFINE k == <<req[h].ext, req[h].preq>>
             f == [code |-> out[h].code, data |-> out[h].data]
  <2>1. k \in ExtIds \X PayReqs /\ k[2] = req[h].preq /\ req[h].kind = "pay" /\ pc[h] = "record"
    BY <1>10, RequestFields DEF RecordPaymentFlag, TypeInv, WellFormed, PayPCs
  <2>2. UNCHANGED <<txn, req, out>> /\ pc' = [pc EXCEPT ![h] = "done"]
    BY <1>10 DEF RecordPaymentFlag
  <2>3. \A j \in Handlers : AnswerOnFile(j)'
    BY <1>0, <2>1, <2>2 DEF AnswerOnFile, AnswerInv
  <2>4. f.code = CodePaymentSuccess => f.data # None /\ txn[k[2]] = f.data
    BY <2>1 DEF AnswerOnFile, AnswerInv
  <2>5. flag' = flag \/ flag' = [flag EXCEPT ![k] = f]
    BY <1>0, <1>10 DEF RecordPaymentFlag
  <2>6. AcceptedFlagIsOnFile'
    <3> HIDE DEF f, k
    <3> QED
      BY <1>0, <2>1, <2>2, <2>4, <2>5 DEF AcceptedFlagIsOnFile, AnswerInv
  <2> QED
    BY <2>3, <2>6 DEF AnswerInv
<1>11. ASSUME NEW h \in Handlers, InquireAccount(h) PROVE AnswerInv'
  BY <1>0, <1>11, OthersOnFile
  DEF InquireAccount, AnswerOnFile, TypeInv, WellFormed, InqPCs
<1>12. ASSUME NEW h \in Handlers, InquireTransaction(h) PROVE AnswerInv'
  BY <1>0, <1>12, OthersOnFile
  DEF InquireTransaction, AnswerOnFile, TypeInv, WellFormed, InqPCs
<1>13. ASSUME NEW h \in Handlers, MarkExpired(h) \/ DedupeExpiry(h) \/ NotifyExpiry(h)
       PROVE  AnswerInv'
  <2>1. pc[h] \in ExpiryPCs /\ UNCHANGED <<req, out, flag>>
    BY <1>13 DEF MarkExpired, DedupeExpiry, NotifyExpiry, ExpiryPCs
  <2>2. AnswerOnFile(h)'
    BY <2>1 DEF TypeInv, WellFormed, AnswerOnFile, CodePaymentSuccess, CodePaymentExpired
  <2> QED
    BY <1>0, <1>13, <2>1, <2>2, OthersOnFile DEF MarkExpired, DedupeExpiry, NotifyExpiry
<1>14. ASSUME NEW h \in Handlers, DatabaseError(h) PROVE AnswerInv'
  BY <1>0, <1>14, OthersOnFile
  DEF DatabaseError, AnswerOnFile, CodePaymentSuccess, CodePaymentInternal, CodeInquiryInternal
<1>15. ASSUME NEW h \in Handlers, LostAcknowledgement(h) PROVE AnswerInv'
  BY <1>0, <1>15, OthersOnFile
  DEF LostAcknowledgement, AnswerOnFile, CodePaymentSuccess, CodePaymentInternal
<1>16. ASSUME NEW h \in Handlers, Crash(h) PROVE AnswerInv'
  BY <1>0, <1>16, OthersOnFile DEF Crash, AnswerOnFile
<1>17. ASSUME NEW v \in VANos,
              \/ \E date \in {"never", "future"}, url \in BOOLEAN : CreateVA(v, date, url)
              \/ DeleteVA(v) \/ ExpiredDatePasses(v)
       PROVE  AnswerInv'
  BY <1>17 DEF CreateVA, SaveVAAccount, DeleteVA, ExpiredDatePasses, AnswerInv, AnswerOnFile, AcceptedFlagIsOnFile
<1>18. CASE UNCHANGED vars
  BY <1>18 DEF vars, AnswerInv, AnswerOnFile, AcceptedFlagIsOnFile
<1> HIDE DEF Goto, Decide
<1> QED
  BY <1>1, <1>2, <1>3, <1>4, <1>5, <1>6, <1>7, <1>8, <1>9, <1>10, <1>11, <1>12, <1>13,
     <1>14, <1>15, <1>16, <1>17, <1>18 DEF Next, Step

\* Whoever is told 2002500 is told the payment on file, and every accepted flag
\* describes the payment on file.
THEOREM AnswersAreOnFile == Spec => [](SuccessIsOnFile /\ AcceptedFlagIsOnFile)
<1>1. Spec => [](TypeInv /\ AnswerInv)
  BY TypeInvInit, TypeInvStep, AnswerInvInit, AnswerInvStep, PTL DEF Spec
<1>2. TypeInv /\ AnswerInv => SuccessIsOnFile /\ AcceptedFlagIsOnFile
  BY DEF AnswerInv, AnswerOnFile, SuccessIsOnFile, Paying
<1> QED
  BY <1>1, <1>2, PTL

\* The first outcome recorded for a (X-EXTERNAL-ID, paymentRequestId) pair is
\* never replaced.
THEOREM FlagsAreWrittenOnce == Spec => FlagWrittenOnce
<1>1. TypeInv /\ [Next]_vars => [\A k \in ExtIds \X PayReqs : flag[k] # None => flag'[k] = flag[k]]_vars
  <2> SUFFICES ASSUME TypeInv, Next,
                      NEW k \in ExtIds \X PayReqs, flag[k] # None
               PROVE  flag'[k] = flag[k]
    OBVIOUS
  <2>1. flag \in [ExtIds \X PayReqs -> Flag \cup {None}]
    BY DEF TypeInv, TypeOK
  <2>2. ASSUME NEW h \in Handlers, RecordPaymentFlag(h) PROVE flag'[k] = flag[k]
    BY <2>1, <2>2 DEF RecordPaymentFlag
  <2>3. CASE flag' = flag
    BY <2>3
  <2> QED
    BY <2>2, <2>3, ZenonT(30)
    DEF Next, Step, PaymentArrives, InquiryArrives, FindPaymentFlag, CheckExisting, ReadAccount,
        LookupTransaction, SaveNoBillPayment, ReplayDuplicate, NotifyPayment, InquireAccount,
        InquireTransaction, MarkExpired, DedupeExpiry, NotifyExpiry, DatabaseError,
        LostAcknowledgement, Crash, CreateVA, SaveVAAccount, DeleteVA, ExpiredDatePasses, tables
<1> QED
  BY <1>1, TypeInvInit, TypeInvStep, PTL DEF Spec, FlagWrittenOnce

-----------------------------------------------------------------------------
(* Duplicates                                                              *)

Undenied == {CodePaymentSuccess, CodePaymentInconsistent, CodePaymentInternal}

\* A request about a payment that was on file when it came never gets past the
\* duplicate check, and is answered by it.
SeenIsReplayed(h) ==
    pc[h] # "idle" /\ req[h].kind = "pay" /\ seen[h] =>
        /\ txn[req[h].preq] # None
        /\ pc[h] \in {"flag", "existing", "record", "done"}
        /\ pc[h] \in {"record", "done"} /\ ~out[h].fromFlag => out[h].code \in Undenied

SeenInv == \A h \in Handlers : SeenIsReplayed(h)

\* The step is handler h's: the others stay where they are.
Alone(h) ==
    \A k \in Handlers \ {h} :
        pc'[k] = pc[k] /\ req'[k] = req[k] /\ out'[k] = out[k] /\ seen'[k] = seen[k]

\* What others do does not disturb it: payments stay on file.
LEMMA StaysReplayed ==
  ASSUME TypeInv, SeenInv, [Next]_vars, NEW k \in Handlers,
         pc'[k] = pc[k] /\ req'[k] = req[k] /\ out'[k] = out[k] /\ seen'[k] = seen[k]
  PROVE  SeenIsReplayed(k)'
<1>1. pc[k] # "idle" => req[k].preq \in PayReqs
  BY RequestFields DEF TypeInv, WellFormed
<1>2. SeenIsReplayed(k)
  BY DEF SeenInv
<1>3. pc[k] # "idle" /\ txn[req[k].preq] # None => txn'[req[k].preq] = txn[req[k].preq]
  BY <1>1, TxnKept
<1> QED
  BY <1>2, <1>3 DEF SeenIsReplayed

\* The duplicate check comes first on every path.
LEMMA SeenInvStep == TypeInv /\ SeenInv /\ [Next]_vars => SeenInv'
<1> SUFFICES ASSUME TypeInv, SeenInv, [Next]_vars PROVE SeenInv'
  OBVIOUS
<1>0. /\ pc \in [Handlers -> PCs] /\ req \in [Handlers -> Request \cup {None}]
      /\ out \in [Handlers -> Answer \cup {None}] /\ seen \in [Handlers -> BOOLEAN]
      /\ txn \in [PayReqs -> Txn \cup {None}]
  BY DEF TypeInv, TypeOK
<1>1. ASSUME NEW h \in Handlers, Alone(h), SeenIsReplayed(h)' PROVE SeenInv'
  <2>1. \A k \in Handlers \ {h} : SeenIsReplayed(k)'
    BY <1>1, StaysReplayed DEF Alone
  <2> QED
    BY <1>1, <2>1 DEF SeenInv
<1>2. ASSUME UNCHANGED <<pc, req, out, seen>> PROVE SeenInv'
  BY <1>2, StaysReplayed DEF SeenInv
<1> USE DEF tables, callbacks, history, Goto, Decide
<1>3. ASSUME NEW h \in Handlers, PaymentArrives(h) PROVE SeenInv'
  <2>1. PICK v \in VANos, p \in PayReqs, x \in ExtIds, adv \in BOOLEAN, m \in Amounts :
            /\ req' = [req EXCEPT ![h] = [kind |-> "pay", va |-> v, preq |-> p,
                                          ext |-> x, advise |-> adv, amount |-> m]]
            /\ seen' = [seen EXCEPT ![h] = txn[p] # None]
    BY <1>3 DEF PaymentArrives
  <2>2. /\ req'[h].preq = p /\ (seen'[h] <=> txn[p] # None) /\ pc'[h] = "flag"
        /\ UNCHANGED txn /\ Alone(h)
    BY <1>0, <1>3, <2>1 DEF PaymentArrives, Alone
  <2>3. SeenIsReplayed(h)'
    BY <2>2 DEF SeenIsReplayed
  <2> QED
    BY <1>1, <2>2, <2>3
<1>4. ASSUME NEW h \in Handlers, InquiryArrives(h) PROVE SeenInv'
  <2>1. req'[h].kind = "inq" /\ Alone(h)
    BY <1>0, <1>4 DEF InquiryArrives, Alone
  <2> QED
    BY <1>1, <2>1 DEF SeenIsReplayed
<1>5. ASSUME NEW h \in Handlers, FindPaymentFlag(h) PROVE SeenInv'
  <2>0. pc[h] = "flag" /\ SeenIsReplayed(h) /\ UNCHANGED <<txn, req, seen>> /\ Alone(h)
    BY <1>0, <1>5 DEF FindPaymentFlag, SeenInv, Alone
  <2>1. pc'[h] = "existing" \/ (pc'[h] = "done" /\ out'[h].fromFlag)
    BY <1>0, <1>5 DEF FindPaymentFlag
  <2> QED
    BY <1>1, <2>0, <2>1 DEF SeenIsReplayed
<1>6. ASSUME NEW h \in Handlers, CheckExisting(h) PROVE SeenInv'
  <2>0. pc[h] = "existing" /\ SeenIsReplayed(h) /\ UNCHANGED <<txn, req, seen>> /\ Alone(h)
    BY <1>0, <1>6 DEF CheckExisting, SeenInv, Alone
  <2>1. CASE txn[req[h].preq] # None
    <3>1. pc'[h] = "record" /\ out'[h].code \in Undenied
      BY <1>0, <1>6, <2>1 DEF CheckExisting, ReplayCode, Undenied
    <3> QED
      BY <1>1, <2>0, <3>1 DEF SeenIsReplayed
  <2>2. CASE txn[req[h].preq] = None
    BY <1>1, <2>0, <2>2 DEF SeenIsReplayed
  <2> QED
    BY <2>1, <2>2
<1>7. ASSUME NEW h \in Handlers, RecordPaymentFlag(h) PROVE SeenInv'
  <2>0. /\ pc[h] = "record" /\ pc'[h] = "done" /\ SeenIsReplayed(h)
        /\ UNCHANGED <<txn, req, seen, out>> /\ Alone(h)
    BY <1>0, <1>7 DEF RecordPaymentFlag, SeenInv, Alone
  <2> QED
    BY <1>1, <2>0 DEF SeenIsReplayed
<1>8. ASSUME NEW h \in Handlers, DatabaseError(h) PROVE SeenInv'
  <2>0. pc[h] \notin {"idle", "record", "done"} /\ SeenIsReplayed(h)
        /\ UNCHANGED <<txn, req, seen>> /\ Alone(h)
    BY <1>0, <1>8 DEF DatabaseError, SeenInv, Alone
  <2>1. pc[h] \in {"flag", "existing"} => pc'[h] = "done" /\ out'[h].code \in Undenied
    BY <1>0, <1>8 DEF DatabaseError, Undenied
  <2> QED
    BY <1>1, <2>0, <2>1 DEF SeenIsReplayed
<1>9. ASSUME NEW h \in Handlers, Crash(h) PROVE SeenInv'
  <2>1. pc'[h] = "idle" /\ Alone(h)
    BY <1>0, <1>9 DEF Crash, Alone
  <2> QED
    BY <1>1, <2>1 DEF SeenIsReplayed
<1>10. ASSUME NEW h \in Handlers,
              \/ ReadAccount(h) \/ LookupTransaction(h) \/ SaveNoBillPayment(h)
              \/ ReplayDuplicate(h) \/ NotifyPayment(h) \/ InquireAccount(h)
              \/ InquireTransaction(h) \/ MarkExpired(h) \/ DedupeExpiry(h) \/ NotifyExpiry(h)
              \/ LostAcknowledgement(h)
       PROVE  SeenInv'
  <2>0. /\ pc[h] \notin {"idle", "flag", "existing", "record", "done"} /\ SeenIsReplayed(h)
        /\ UNCHANGED <<req, seen>>
    BY <1>10 DEF SeenInv, ReadAccount, LookupTransaction, SaveNoBillPayment, ReplayDuplicate,
       NotifyPayment, InquireAccount, InquireTransaction, MarkExpired, DedupeExpiry, NotifyExpiry,
       LostAcknowledgement
  <2>1. \A k \in Handlers \ {h} : pc'[k] = pc[k] /\ out'[k] = out[k]
    BY <1>0, <1>10 DEF ReadAccount, LookupTransaction, SaveNoBillPayment, ReplayDuplicate,
       NotifyPayment, InquireAccount, InquireTransaction, MarkExpired, DedupeExpiry, NotifyExpiry,
       LostAcknowledgement
  <2> QED
    BY <1>1, <2>0, <2>1 DEF SeenIsReplayed, Alone
<1>11. CASE \/ UNCHANGED vars
            \/ \E v \in VANos :
                 \/ \E date \in {"never", "future"}, url \in BOOLEAN : CreateVA(v, date, url)
                 \/ DeleteVA(v) \/ ExpiredDatePasses(v)
  BY <1>2, <1>11 DEF vars, CreateVA, DeleteVA, ExpiredDatePasses
<1> HIDE DEF Goto, Decide
<1> QED
  BY <1>3, <1>4, <1>5, <1>6, <1>7, <1>8, <1>9, <1>10, <1>11 DEF Next, Step

\* A payment that was on file before the request arrived is not refused by
\* payment(), whatever became of the registration and whatever fails.
THEOREM SettledIsReplayed == Spec => []SettledIsNeverRefused
<1>1. Init => SeenInv
  BY DEF Init, SeenInv, SeenIsReplayed
<1>2. SeenInv => SettledIsNeverRefused
  BY DEF SeenInv, SeenIsReplayed, SettledIsNeverRefused, Paying, Undenied
<1> QED
  BY <1>1, <1>2, TypeInvInit, TypeInvStep, SeenInvStep, PTL DEF Spec

-----------------------------------------------------------------------------
(* Expiry callbacks                                                        *)

Owes(h) == pc[h] \in {"dedupe", "expire"}

\* The handlers that made the registration of v EXPIRED and have not called back.
Owing(v) == {h \in Handlers : Owes(h) /\ req[h].va = v}

\* Callbacks sent and callbacks still owed add up to no more than the
\* transitions.
ExpiryInv ==
    \A v \in VANos :
        /\ IsFiniteSet(Owing(v))
        /\ expiryCallbacks[v] + Cardinality(Owing(v)) <= expiries[v]

\* A step that neither expires a registration nor calls back about it.
NoExpiry ==
    /\ UNCHANGED <<expiries, expiryCallbacks>>
    /\ \A k \in Handlers : /\ Owes(k)' <=> Owes(k)
                           /\ Owes(k) => req'[k] = req[k]

\* Handler h applies the transition and goes on to the callback.
Expires(h) ==
    /\ req[h].va \in VANos /\ ~Owes(h) /\ Owes(h)'
    /\ \A k \in Handlers \ {h} : pc'[k] = pc[k]
    /\ UNCHANGED <<req, expiryCallbacks>>
    /\ expiries' = [expiries EXCEPT ![req[h].va] = @ + 1]

\* Handler h is done with the callback, sent or not, or dies before it.
Forgoes(h) ==
    /\ req[h].va \in VANos /\ Owes(h) /\ ~Owes(h)'
    /\ \A k \in Handlers \ {h} : pc'[k] = pc[k] /\ req'[k] = req[k]
    /\ UNCHANGED expiries
    /\ \/ UNCHANGED expiryCallbacks
       \/ expiryCallbacks' = [expiryCallbacks EXCEPT ![req[h].va] = @ + 1]

\* Every step leaves expiries alone, applies one, or ends what one owed.
LEMMA ExpiryShape ==
  ASSUME TypeInv, [Next]_vars
  PROVE  NoExpiry \/ \E h \in Handlers : Expires(h) \/ Forgoes(h)
<1>0. /\ pc \in [Handlers -> PCs] /\ req \in [Handlers -> Request \cup {None}]
      /\ \A h \in Handlers : pc[h] # "idle" => req[h].va \in VANos /\ req[h].kind \in {"pay", "inq"}
      /\ expiries \in [VANos -> Nat]
  BY RequestFields DEF TypeInv, TypeOK, WellFormed
<1> USE DEF tables, callbacks, history, Goto, Decide, Owes
<1>1. ASSUME NEW h \in Handlers, PaymentArrives(h) \/ InquiryArrives(h) PROVE NoExpiry
  BY <1>0, <1>1 DEF PaymentArrives, InquiryArrives, NoExpiry
<1>2. ASSUME NEW h \in Handlers,
             \/ FindPaymentFlag(h) \/ CheckExisting(h) \/ LookupTransaction(h)
             \/ ReplayDuplicate(h) \/ RecordPaymentFlag(h) \/ InquireTransaction(h)
             \/ NotifyPayment(h)
      PROVE  NoExpiry
  BY <1>0, <1>2 DEF FindPaymentFlag, CheckExisting, LookupTransaction, ReplayDuplicate,
     RecordPaymentFlag, InquireTransaction, NotifyPayment, NoExpiry
<1>3. ASSUME NEW h \in Handlers, ReadAccount(h) \/ InquireAccount(h) PROVE NoExpiry
  BY <1>0, <1>3 DEF ReadAccount, InquireAccount, NoExpiry
<1>4. ASSUME NEW h \in Handlers, SaveNoBillPayment(h) \/ LostAcknowledgement(h) \/ DatabaseError(h)
      PROVE  NoExpiry
  BY <1>0, <1>4 DEF SaveNoBillPayment, LostAcknowledgement, DatabaseError, NoExpiry
<1>5. ASSUME NEW h \in Handlers, MarkExpired(h) PROVE NoExpiry \/ Expires(h)
  <2>0. pc[h] = "mark" /\ UNCHANGED <<req, expiryCallbacks>> /\ AfterExpiry(h) \in {"record", "done"}
    BY <1>5 DEF MarkExpired, AfterExpiry
  <2>1. CASE acct[h].url /\ pc'[h] = "dedupe" /\ expiries' = [expiries EXCEPT ![req[h].va] = @ + 1]
    BY <1>0, <1>5, <2>0, <2>1 DEF MarkExpired, Expires
  <2>2. CASE pc' = [pc EXCEPT ![h] = AfterExpiry(h)] /\ UNCHANGED expiries
    BY <1>0, <2>0, <2>2 DEF NoExpiry
  <2>3. CASE acct[h].url
    BY <1>0, <1>5, <2>1, <2>2, <2>3 DEF MarkExpired
  <2>4. CASE ~acct[h].url
    <3>1. pc' = [pc EXCEPT ![h] = AfterExpiry(h)]
      BY <1>5, <2>4 DEF MarkExpired
    <3>2. UNCHANGED expiries
      BY <1>0, <1>5, <2>0, <2>4 DEF MarkExpired
    <3> QED
      BY <2>2, <3>1, <3>2
  <2> QED
    BY <2>3, <2>4
<1>6. ASSUME NEW h \in Handlers, DedupeExpiry(h) PROVE NoExpiry \/ Forgoes(h)
  <2>0. AfterExpiry(h) \in {"record", "done"}
    BY DEF AfterExpiry
  <2>1. CASE pc' = [pc EXCEPT ![h] = AfterExpiry(h)]
    BY <1>0, <1>6, <2>0, <2>1 DEF DedupeExpiry, Forgoes
  <2>2. CASE pc' = [pc EXCEPT ![h] = "expire"]
    BY <1>0, <1>6, <2>2 DEF DedupeExpiry, NoExpiry
  <2> QED
    BY <1>6, <2>1, <2>2 DEF DedupeExpiry
<1>7. ASSUME NEW h \in Handlers, NotifyExpiry(h) PROVE Forgoes(h)
  <2>0. AfterExpiry(h) \in {"record", "done"}
    BY DEF AfterExpiry
  <2> QED
    BY <1>0, <1>7, <2>0 DEF NotifyExpiry, Forgoes
<1>8. ASSUME NEW h \in Handlers, Crash(h) PROVE NoExpiry \/ Forgoes(h)
  <2>1. CASE Owes(h)
    BY <1>0, <1>8, <2>1 DEF Crash, Forgoes
  <2>2. CASE ~Owes(h)
    BY <1>0, <1>8, <2>2 DEF Crash, NoExpiry
  <2> QED
    BY <2>1, <2>2
<1>9. CASE \/ UNCHANGED vars
           \/ \E v \in VANos :
                \/ \E date \in {"never", "future"}, url \in BOOLEAN : CreateVA(v, date, url)
                \/ DeleteVA(v) \/ ExpiredDatePasses(v)
  BY <1>9 DEF vars, CreateVA, DeleteVA, ExpiredDatePasses, NoExpiry
<1> HIDE DEF Goto, Decide, Owes
<1> QED
  BY <1>1, <1>2, <1>3, <1>4, <1>5, <1>6, <1>7, <1>8, <1>9 DEF Next, Step

\* Callbacks stay behind the transitions that owe them.
LEMMA ExpiryInvStep == TypeInv /\ ExpiryInv /\ [Next]_vars => ExpiryInv'
<1> SUFFICES ASSUME TypeInv, ExpiryInv, [Next]_vars, NEW v \in VANos
             PROVE  /\ IsFiniteSet(Owing(v)')
                    /\ expiryCallbacks'[v] + Cardinality(Owing(v)') <= expiries'[v]
  BY DEF ExpiryInv
<1>0. /\ expiries \in [VANos -> Nat] /\ expiryCallbacks \in [VANos -> Nat]
      /\ expiries[v] \in Nat /\ expiryCallbacks[v] \in Nat
      /\ IsFiniteSet(Owing(v)) /\ expiryCallbacks[v] + Cardinality(Owing(v)) <= expiries[v]
      /\ Cardinality(Owing(v)) \in Nat
  BY FS_CardinalityType DEF TypeInv, TypeOK, ExpiryInv
<1>1. CASE NoExpiry
  <2>1. Owing(v)' = Owing(v)
    BY <1>1 DEF NoExpiry, Owing
  <2> QED
    BY <1>0, <1>1, <2>1 DEF NoExpiry
<1>2. ASSUME NEW h \in Handlers, Expires(h)
      PROVE  /\ IsFiniteSet(Owing(v)')
             /\ expiryCallbacks'[v] + Cardinality(Owing(v)') <= expiries'[v]
  <2>1. \A k \in Handlers \ {h} : Owes(k)' <=> Owes(k)
    BY <1>2 DEF Expires, Owes
  <2>2. CASE v = req[h].va
    <3>1. Owing(v)' = Owing(v) \cup {h} /\ h \notin Owing(v)
      BY <1>2, <2>1, <2>2 DEF Expires, Owing
    <3>2. IsFiniteSet(Owing(v)') /\ Cardinality(Owing(v)') = Cardinality(Owing(v)) + 1
      BY <1>0, <3>1, FS_AddElement
    <3>3. expiries'[v] = expiries[v] + 1 /\ expiryCallbacks'[v] = expiryCallbacks[v]
      BY <1>0, <1>2, <2>2 DEF Expires
    <3> QED
      BY <1>0, <3>2, <3>3
  <2>3. CASE v # req[h].va
    <3>1. Owing(v)' = Owing(v)
      BY <1>2, <2>1, <2>3 DEF Expires, Owing
    <3>2. expiries'[v] = expiries[v] /\ expiryCallbacks'[v] = expiryCallbacks[v]
      BY <1>0, <1>2, <2>3 DEF Expires
    <3> QED
      BY <1>0, <3>1, <3>2
  <2> QED
    BY <2>2, <2>3
<1>3. ASSUME NEW h \in Handlers, Forgoes(h)
      PROVE  /\ IsFiniteSet(Owing(v)')
             /\ expiryCallbacks'[v] + Cardinality(Owing(v)') <= expiries'[v]
  <2>1. \A k \in Handlers \ {h} : Owes(k)' <=> Owes(k)
    BY <1>3 DEF Forgoes, Owes
  <2>2. CASE v = req[h].va
    <3>1. Owing(v)' = Owing(v) \ {h} /\ h \in Owing(v)
      BY <1>3, <2>1, <2>2 DEF Forgoes, Owing
    <3>2. IsFiniteSet(Owing(v)') /\ Cardinality(Owing(v)') = Cardinality(Owing(v)) - 1
      BY <1>0, <3>1, FS_RemoveElement
    <3>3. /\ expiries'[v] = expiries[v]
          /\ expiryCallbacks'[v] = expiryCallbacks[v] \/ expiryCallbacks'[v] = expiryCallbacks[v] + 1
      BY <1>0, <1>3, <2>2 DEF Forgoes
    <3> QED
      BY <1>0, <3>2, <3>3
  <2>3. CASE v # req[h].va
    <3>1. Owing(v)' = Owing(v)
      BY <1>3, <2>1, <2>3 DEF Forgoes, Owing
    <3>2. expiries'[v] = expiries[v] /\ expiryCallbacks'[v] = expiryCallbacks[v]
      BY <1>0, <1>3, <2>3 DEF Forgoes
    <3> QED
      BY <1>0, <3>1, <3>2
  <2> QED
    BY <2>2, <2>3
<1> QED
  BY <1>1, <1>2, <1>3, ExpiryShape

\* However many requests detect the same expiry, and whatever fails, no more
\* va.expired callbacks go out than registrations went from ACTIVE to EXPIRED.
THEOREM ExpiryIsCalledBackOnce == Spec => []ExpiryCallbackPerTransition
<1>1. Init => ExpiryInv
  <2> SUFFICES ASSUME Init, NEW v \in VANos
               PROVE  IsFiniteSet(Owing(v)) /\ expiryCallbacks[v] + Cardinality(Owing(v)) <= expiries[v]
    BY DEF ExpiryInv
  <2>1. Owing(v) = {} /\ expiryCallbacks[v] = 0 /\ expiries[v] = 0
    BY DEF Init, Owing, Owes
  <2> QED
    BY <2>1, FS_EmptySet
<1>2. TypeInv /\ ExpiryInv => ExpiryCallbackPerTransition
  <2> SUFFICES ASSUME TypeInv, ExpiryInv, NEW v \in VANos
               PROVE  expiryCallbacks[v] <= expiries[v]
    BY DEF ExpiryCallbackPerTransition
  <2>1. expiries[v] \in Nat /\ expiryCallbacks[v] \in Nat /\ Cardinality(Owing(v)) \in Nat
    BY FS_CardinalityType DEF TypeInv, TypeOK, ExpiryInv
  <2> QED
    BY <2>1 DEF ExpiryInv
<1> QED
  BY <1>1, <1>2, TypeInvInit, TypeInvStep, ExpiryInvStep, PTL DEF Spec
=============================================================================
