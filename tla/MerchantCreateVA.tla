-------------------------- MODULE MerchantCreateVA --------------------------
(***************************************************************************)
(* /create-va, which issues virtual account numbers: the customerNo of a   *)
(* dynamic VA comes from a sequence, that of a static VA from the          *)
(* merchant, checked against the registry.  Both are done under a Redis    *)
(* lock that has no owner, lasts sequenceLockTTL and is given back before  *)
(* the registration is written; the sequence is locked in the database as  *)
(* well.  Several replicas serve calls; every action is one statement or   *)
(* one Redis command.                                                      *)
(*                                                                         *)
(* The life of the transactions is FixedBillVA's and VariableBillVA's; of  *)
(* it there is only whether a VA number has a pending one.                 *)
(***************************************************************************)
EXTENDS SnapValidation, FiniteSets

CONSTANTS
    Callers,   \* slots for calls in progress, at any replica
    Rules,     \* master_va_type: [type, partner, dynamic, billing]
    Reserved,  \* master_partner_service_ids
    Partners,  \* partnerServiceIds as sent: [id, len], len with the padding
    Customers, \* customerNos merchants choose: [no, len]
    OwnVAs,    \* virtualAccountNos merchants choose for dynamic VAs: [partner, cust, len]
    Names,     \* lengths of virtualAccountName
    MaxSeq,    \* the last number of a sequence (10^16 - 1)
    MaxCalls,  \* bound: create-va calls
    Faults,    \* which failures happen: a subset of {"db", "redis", "ttl", "crash"}
    None       \* "nothing"

ASSUME RulesAssumption ==
    /\ \A r \in Rules : r.dynamic \in BOOLEAN /\ r.billing \in {"none", "variable", "fixed"}
    /\ \A r \in Rules : r.type # ""                    \* "the 2-digit code (01-06)"
    /\ \A r, s \in Rules : r.type = s.type => r = s   \* va_type ... UNIQUE NOT NULL
ASSUME SequenceAssumption == MaxSeq \in Nat /\ MaxCalls \in Nat
ASSUME FaultsAssumption == Faults \subseteq {"db", "redis", "ttl", "crash"}

NoType == ""   \* no additionalInfo.vaType
Blank  == [no |-> None, len |-> 0]
BlankVA == [partner |-> None, cust |-> None, len |-> 0]

Types == {r.type : r \in Rules}
DynamicTypes == {r.type : r \in {s \in Rules : s.dynamic}}

\* partnerServiceId + customerNo
Concat(p, c) == [partner |-> p.id, cust |-> c.no, len |-> p.len + c.len]

\* The customerNo generated: the vaType and 16 digits.
CustomerNo(t, n) == [no |-> <<t, n>>, len |-> 2 + 16]

Request ==
    [type: Types \cup {NoType}, partner: Partners, cust: Customers \cup {Blank},
     va: {Concat(p, c) : p \in Partners, c \in Customers} \cup OwnVAs \cup {BlankVA},
     amount: BOOLEAN, name: Names, call: 0 .. MaxCalls]

\* Keys of the Redis locks
LockKeys == {<<"va-seq-lock", t>> : t \in DynamicTypes}
            \cup {<<"va-static-lock", p, c>> : p \in Partners, c \in Customers}

Numbers == Customers \cup {CustomerNo(t, n) : t \in DynamicTypes, n \in 1 .. MaxSeq}
VAs == {Concat(p, c) : p \in Partners, c \in Numbers} \cup OwnVAs
Account == [va: VAs, partner: Partners, cust: Numbers, type: Types]

\* No text stands for nothing, and the length of a text goes with the text.
ASSUME NoneAssumption == None \notin Callers /\ None \notin Request /\ Blank \notin Customers
ASSUME TextAssumption ==
    /\ \A p \in Partners : p.len \in Nat
    /\ \A p, q \in Partners : p.id = q.id /\ p.len = q.len => p = q
    /\ \A c \in Numbers : c.len \in Nat
    /\ \A c, d \in Numbers : c.no = d.no => c = d

VARIABLES
    nextSeq,   \* va_customer_no_sequences
    rowLock,   \* the caller whose transaction has the row of a sequence locked
    locks,     \* Redis locks that are held, by whomever
    accounts,  \* va_accounts
    billed,    \* VA numbers with a transaction
    pending,   \* those whose transaction is pending
    pc, req,   \* a caller's position and request
    cust, seq, \* the customerNo resolved and the sequence number read
    outcome,   \* what was found under the lock: "ok", "duplicate" or "error"
    issued,    \* history: calls answered 2002700
    calls      \* create-va calls so far (bounded by MaxCalls)

registry == <<accounts, billed, pending>>
local    == <<req, cust, seq, outcome>>
vars     == <<nextSeq, rowLock, locks, registry, pc, local, issued, calls>>

PCs == {"idle", "lock", "select", "update", "count", "unlock", "account", "pending", "save", "bills"}

TypeOK ==
    /\ nextSeq \in [DynamicTypes -> 1 .. MaxSeq + 1]
    /\ rowLock \in [DynamicTypes -> Callers \cup {None}]
    /\ locks \subseteq LockKeys
    /\ accounts \subseteq Account
    /\ pending \subseteq billed /\ billed \subseteq VAs
    /\ pc \in [Callers -> PCs]
    /\ req \in [Callers -> Request \cup {None}]
    /\ cust \in [Callers -> Numbers \cup {Blank}]
    /\ \A c \in Callers :
         /\ pc[c] = "idle" <=> req[c] = None
         /\ pc[c] \in {"account", "pending", "save", "bills"} => cust[c] # Blank
    /\ seq \in [Callers -> 0 .. MaxSeq + 1]
    /\ outcome \in [Callers -> {"ok", "duplicate", "error"}]
    /\ calls \in 0 .. MaxCalls

\* However far the sequences have come, and no number of theirs on file yet.
Init ==
    /\ nextSeq \in [DynamicTypes -> 1 .. MaxSeq + 1]
    /\ rowLock = [t \in DynamicTypes |-> None]
    /\ locks = {}
    /\ accounts = {} /\ billed = {} /\ pending = {}
    /\ pc = [c \in Callers |-> "idle"]
    /\ req = [c \in Callers |-> None]
    /\ cust = [c \in Callers |-> Blank]
    /\ seq = [c \in Callers |-> 0]
    /\ outcome = [c \in Callers |-> "ok"]
    /\ issued = {}
    /\ calls = 0

-----------------------------------------------------------------------------
(* The request                                                             *)

\* The rule of a managed request: LookupVATypeRule, which compares unpadded ids.
RulesFor(r) == {rule \in Rules : rule.type = r.type /\ rule.partner = r.partner.id}

Managed(r) == r.type # NoType \/ r.partner.id \in Reserved
Dynamic(r) == \E rule \in RulesFor(r) : rule.dynamic
NoBill(r)  == \E rule \in RulesFor(r) : rule.billing = "none"

\* Mutant: only the VA number is capped, at the limit of the inquiry.
CapsOfInquiry(r) == r.va.len <= MaxInquiryVirtualAccountNo + 1

\* The caps on what is issued.
WithinCaps(r) ==
    /\ r.va.len <= MaxIssuedVirtualAccountNo
    /\ r.cust.len <= MaxIssuedCustomerNo

\* The checks of CreateVA before it reads or writes anything.  trxId,
\* virtualAccountTrxType, billDetails and freeTexts, which nothing below turns
\* on, are in order.
WellFormed(r) ==
    /\ r.name > 0 /\ r.name <= MaxVirtualAccountName
    /\ Managed(r) =>
         /\ RulesFor(r) # {}
         /\ Dynamic(r) <=> r.cust = Blank
         /\ ~Dynamic(r) => r.va # BlankVA
         /\ NoBill(r) <=> ~r.amount
    /\ ~Managed(r) => r.cust # Blank /\ r.va # BlankVA
    /\ WithinCaps(r)
    /\ ~Dynamic(r) => r.va = Concat(r.partner, r.cust)

\* The VA number of caller c.
VA(c) == IF req[c].va # BlankVA THEN req[c].va ELSE Concat(req[c].partner, cust[c])

LockKey(c) ==
    IF Dynamic(req[c]) THEN <<"va-seq-lock", req[c].type>>
    ELSE <<"va-static-lock", req[c].partner, req[c].cust>>

Goto(c, l) == pc' = [pc EXCEPT ![c] = l]

\* The answer goes out.
Respond(c) ==
    /\ Goto(c, "idle")
    /\ req' = [req EXCEPT ![c] = None]
    /\ cust' = [cust EXCEPT ![c] = Blank]
    /\ seq' = [seq EXCEPT ![c] = 0]
    /\ outcome' = [outcome EXCEPT ![c] = "ok"]

\* 2002700
Succeed(c) ==
    /\ Respond(c)
    /\ issued' = issued \cup
         {[type |-> req[c].type, partner |-> req[c].partner, cust |-> cust[c], va |-> VA(c),
           name |-> req[c].name, call |-> req[c].call, answered |-> calls,
           own |-> Dynamic(req[c]) /\ req[c].va # BlankVA, noBill |-> NoBill(req[c])]}

\* A request that is refused outright changes nothing and is left out.  OwnVAs
\* are the numbers merchants ask for with dynamic VAs.
Accepted ==
    {r \in Request : r.call = 0 /\ WellFormed(r) /\ (Dynamic(r) => r.va \in OwnVAs \cup {BlankVA})}

Arrive(c) ==
    /\ pc[c] = "idle"
    /\ calls < MaxCalls
    /\ calls' = calls + 1
    /\ \E r \in Accepted :
         /\ req' = [req EXCEPT ![c] = [r EXCEPT !.call = calls + 1]]
         /\ cust' = [cust EXCEPT ![c] = r.cust]
         /\ Goto(c, IF Dynamic(r) \/ (Managed(r) /\ ~NoBill(r)) THEN "lock"
                    ELSE IF Managed(r) THEN "account" ELSE "pending")
    /\ UNCHANGED <<nextSeq, rowLock, locks, registry, seq, outcome, issued>>

-----------------------------------------------------------------------------
(* Under the Redis lock                                                    *)

\* Mutant: withLock retries for ever.
AcquireForever(c) ==
    /\ pc[c] = "lock"
    /\ LockKey(c) \notin locks
    /\ locks' = locks \cup {LockKey(c)}
    /\ Goto(c, IF Dynamic(req[c]) THEN "select" ELSE "count")
    /\ UNCHANGED <<nextSeq, rowLock, registry, local, issued, calls>>

\* withLock: SetNX, tried again until it succeeds, fails (and may have set the
\* key) or the wait is over.
AcquireLock(c) ==
    /\ pc[c] = "lock"
    /\ \/ /\ LockKey(c) \notin locks
          /\ locks' = locks \cup {LockKey(c)}
          /\ Goto(c, IF Dynamic(req[c]) THEN "select" ELSE "count")
          /\ UNCHANGED local
       \/ /\ LockKey(c) \in locks
          /\ Respond(c)
          /\ UNCHANGED locks
       \/ /\ "redis" \in Faults
          /\ locks' \in {locks, locks \cup {LockKey(c)}}
          /\ Respond(c)
    /\ UNCHANGED <<nextSeq, rowLock, registry, issued, calls>>

Found(c, o) ==
    /\ outcome' = [outcome EXCEPT ![c] = o]
    /\ Goto(c, "unlock")

\* Mutant: SELECT without FOR UPDATE.
SelectUnlocked(c) ==
    /\ pc[c] = "select"
    /\ IF nextSeq[req[c].type] <= MaxSeq
       THEN seq' = [seq EXCEPT ![c] = nextSeq[req[c].type]] /\ Goto(c, "update") /\ UNCHANGED outcome
       ELSE Found(c, "error") /\ UNCHANGED seq
    /\ UNCHANGED <<nextSeq, rowLock, locks, registry, req, cust, issued, calls>>

\* NextCustomerNoSequence: SELECT next_seq ... FOR UPDATE, which waits for the
\* row.  A sequence that is used up is an error.
SelectSequence(c) ==
    /\ pc[c] = "select"
    /\ \/ /\ rowLock[req[c].type] = None
          /\ nextSeq[req[c].type] <= MaxSeq
          /\ rowLock' = [rowLock EXCEPT ![req[c].type] = c]
          /\ seq' = [seq EXCEPT ![c] = nextSeq[req[c].type]]
          /\ Goto(c, "update")
          /\ UNCHANGED outcome
       \/ /\ \/ rowLock[req[c].type] = None /\ nextSeq[req[c].type] > MaxSeq
             \/ "db" \in Faults
          /\ Found(c, "error")
          /\ UNCHANGED <<rowLock, seq>>
    /\ UNCHANGED <<nextSeq, locks, registry, req, cust, issued, calls>>

\* UPDATE ... SET next_seq = next_seq + 1 and COMMIT, after which the length of
\* the number derived is looked at.  A COMMIT may fail with its effect done.
UpdateSequence(c) ==
    /\ pc[c] = "update"
    /\ LET t == req[c].type
           bumped == [nextSeq EXCEPT ![t] = IF @ <= MaxSeq THEN @ + 1 ELSE @]
       IN  /\ rowLock' = [rowLock EXCEPT ![t] = IF @ = c THEN None ELSE @]
           /\ \/ /\ nextSeq' = bumped
                 /\ cust' = [cust EXCEPT ![c] = CustomerNo(t, seq[c])]
                 /\ Found(c, "ok")
              \/ /\ "db" \in Faults
                 /\ nextSeq' \in {nextSeq, bumped}
                 /\ Found(c, "error")
                 /\ UNCHANGED cust
    /\ UNCHANGED <<locks, registry, req, seq, issued, calls>>

\* Mutant: the registration is looked for among the transactions.
CountTransactions(c) ==
    /\ pc[c] = "count"
    /\ Found(c, IF VA(c) \in pending THEN "duplicate" ELSE "ok")
    /\ UNCHANGED <<nextSeq, rowLock, locks, registry, req, cust, seq, issued, calls>>

\* RegisterStaticCustomerNo: SELECT COUNT(*), and nothing written.
CountAccounts(c) ==
    /\ pc[c] = "count"
    /\ \/ Found(c, IF \E a \in accounts : a.partner = req[c].partner /\ a.cust = req[c].cust
                   THEN "duplicate" ELSE "ok")
       \/ "db" \in Faults /\ Found(c, "error")
    /\ UNCHANGED <<nextSeq, rowLock, locks, registry, req, cust, seq, issued, calls>>

\* The lock is deleted, whoever holds it by now, its error dropped; the outcome
\* is then 4092701, 5002702, or the call goes on if the number is not too long.
ReleaseLock(c) ==
    /\ pc[c] = "unlock"
    /\ \/ locks' = locks \ {LockKey(c)}
       \/ "redis" \in Faults /\ UNCHANGED locks
    /\ IF outcome[c] = "ok" /\ VA(c).len <= MaxIssuedVirtualAccountNo
       THEN Goto(c, "account") /\ UNCHANGED local
       ELSE Respond(c)
    /\ UNCHANGED <<nextSeq, rowLock, registry, issued, calls>>

-----------------------------------------------------------------------------
(* The registration and the first transaction                              *)

\* partner_service_id VARCHAR(8): a longer value is an error, not cut off.
StoredPartnerServiceID == 8
Storable(c) == req[c].partner.len <= StoredPartnerServiceID

\* SaveVAAccount: the row of the VA number is updated and keeps its identity and
\* type; a new row must have a (partner, customerNo) of its own.
SaveAccount(c) ==
    /\ pc[c] = "account"
    /\ \/ /\ Storable(c)
          /\ \/ /\ \E a \in accounts : a.va = VA(c)
                /\ UNCHANGED accounts
             \/ /\ ~\E a \in accounts : a.va = VA(c) \/ (a.partner = req[c].partner /\ a.cust = cust[c])
                /\ accounts' = accounts \cup
                     {[va |-> VA(c), partner |-> req[c].partner, cust |-> cust[c], type |-> req[c].type]}
          /\ IF NoBill(req[c]) THEN Succeed(c) ELSE Goto(c, "pending") /\ UNCHANGED <<local, issued>>
       \/ /\ \/ "db" \in Faults \/ ~Storable(c)
             \/ \E a \in accounts : a.va # VA(c) /\ a.partner = req[c].partner /\ a.cust = cust[c]
          /\ Respond(c)
          /\ UNCHANGED <<accounts, issued>>
    /\ UNCHANGED <<nextSeq, rowLock, locks, billed, pending, calls>>

\* GetVAByVirtualAccountNo, its error dropped: a pending transaction is 4092700.
CheckPending(c) ==
    /\ pc[c] = "pending"
    /\ \/ /\ VA(c) \in pending
          /\ Respond(c)
       \/ /\ VA(c) \notin pending \/ "db" \in Faults
          /\ Goto(c, "save")
          /\ UNCHANGED local
    /\ UNCHANGED <<nextSeq, rowLock, locks, registry, issued, calls>>

\* SaveInquiry: the transaction is pending, inserted or opened again.
SaveInquiry(c) ==
    /\ pc[c] = "save"
    /\ \/ /\ Storable(c)
          /\ billed' = billed \cup {VA(c)}
          /\ pending' = pending \cup {VA(c)}
          /\ Goto(c, "bills")
          /\ UNCHANGED local
       \/ /\ "db" \in Faults \/ ~Storable(c)
          /\ Respond(c)
          /\ UNCHANGED <<billed, pending>>
    /\ UNCHANGED <<nextSeq, rowLock, locks, accounts, issued, calls>>

\* SaveBillDetails, if there are any.
SaveBills(c) ==
    /\ pc[c] = "bills"
    /\ \/ Succeed(c)
       \/ "db" \in Faults /\ Respond(c) /\ UNCHANGED issued
    /\ UNCHANGED <<nextSeq, rowLock, locks, registry, calls>>

-----------------------------------------------------------------------------
(* The rest of the system, and failures                                    *)

\* A transaction is paid, expires or is deleted.
Close(v) ==
    /\ v \in pending
    /\ pending' = pending \ {v}
    /\ UNCHANGED <<nextSeq, rowLock, locks, accounts, billed, pc, local, issued, calls>>

\* sequenceLockTTL is over; the one who took the lock may be at work still.
LockExpires(k) ==
    /\ "ttl" \in Faults
    /\ k \in locks
    /\ locks' = locks \ {k}
    /\ UNCHANGED <<nextSeq, rowLock, registry, pc, local, issued, calls>>

\* The replica dies: its transaction is rolled back, its Redis lock stays.
Crash(c) ==
    /\ "crash" \in Faults
    /\ pc[c] # "idle"
    /\ Respond(c)
    /\ rowLock' = [t \in DynamicTypes |-> IF rowLock[t] = c THEN None ELSE rowLock[t]]
    /\ UNCHANGED <<nextSeq, locks, registry, issued, calls>>

-----------------------------------------------------------------------------
(* Specification                                                           *)

Step(c) ==
    \/ AcquireLock(c) \/ SelectSequence(c) \/ UpdateSequence(c) \/ CountAccounts(c)
    \/ ReleaseLock(c) \/ SaveAccount(c) \/ CheckPending(c) \/ SaveInquiry(c) \/ SaveBills(c)

Next ==
    \/ \E c \in Callers : Arrive(c) \/ Step(c) \/ Crash(c)
    \/ \E v \in pending : Close(v)
    \/ \E k \in locks : LockExpires(k)

Spec == Init /\ [][Next]_vars

\* A call in progress goes on.
FairSpec == Spec /\ \A c \in Callers : WF_vars(Step(c))

-----------------------------------------------------------------------------
(* What the bank sends of a number issued                                  *)

\* External: BCA pads partnerServiceId to 8 characters, in the VA number too.
BankPartner(p) == [id |-> p.id, len |-> IF p.len < MaxPartnerServiceID THEN MaxPartnerServiceID ELSE p.len]
BankIdentity(i) ==
    [partner |-> BankPartner(i.partner), cust |-> i.cust,
     va |-> IF i.own THEN i.va ELSE Concat(BankPartner(i.partner), i.cust)]

Paid == [value |-> "cents", currency |-> "IDR"]
NoAmount == [value |-> "absent", currency |-> "blank"]

\* External: BCA's inquiry, payment and status request under the request id of
\* length n; a payment quotes the holder's name and the id of its inquiry.
BankInquiry(i, n) ==
    [id |-> BankIdentity(i), inquiryRequestId |-> n, channelCode |-> "known", amount |-> NoAmount,
     trxDateInit |-> TRUE, texts |-> [f \in DOMAIN InquiryOptional |-> InquiryOptional[f]]]
BankPayment(i, n, amount) ==
    [id |-> BankIdentity(i), paymentRequestId |-> n, paidAmount |-> amount, totalAmount |-> amount,
     cumulativePaymentAmount |-> NoAmount, bills |-> <<amount, NoAmount>>, freeTexts |-> 1,
     freeTextLengths |-> {MaxFreeTextLength}, channelCode |-> "known", flagAdvise |-> "N",
     trxDateTime |-> TRUE,
     texts |-> [f \in DOMAIN PaymentOptional |->
                  IF f = "virtualAccountName" THEN i.name ELSE PaymentOptional[f]]]
BankStatus(i, n) == [id |-> BankIdentity(i), inquiryRequestId |-> n]

-----------------------------------------------------------------------------
(* Properties                                                              *)

\* "No two dynamic VAs ever receive the same customerNo for the same vaType,
\* including under concurrent request load" (FR-005): also when the Redis lock
\* lapses, is lost with its replica or is deleted by a caller it was not given
\* to, since the row of the sequence is locked until the number is used up.
UniqueCustomerNo ==
    \A i, j \in issued : i.type \in DynamicTypes /\ j.type \in DynamicTypes /\ i.cust = j.cust => i = j

\* A number the merchant was given is registered as what it was given, with a
\* transaction unless it is a no-bill VA: an answer 2002700 is never for a call
\* of which a statement failed.  (Dynamic VAs under a number of the merchant's
\* own are another matter: see the README.)
IssuedIsOnFile ==
    \A i \in issued :
        /\ i.type \in Types /\ ~i.own =>
             [va |-> i.va, partner |-> i.partner, cust |-> i.cust, type |-> i.type] \in accounts
        /\ ~i.noBill => i.va \in billed

\* "A VA number issued at the wider limit is inquirable and then unpayable":
\* whatever was issued passes the validation of all three services, strict or
\* not, with the name it was registered under, and fits BCA's own 18 and 26.
IssuedIsPayable ==
    [][\A i \in issued' \ issued : ~i.own =>
        /\ \A strict \in BOOLEAN :
             /\ InquiryAnswer(BankInquiry(i, MaxPaymentRequestID), strict) = Passed
             /\ PaymentAnswer(BankPayment(i, MaxPaymentRequestID, Paid), strict) = Passed
        /\ StatusAnswer(BankStatus(i, MaxPaymentRequestID)) = Passed
        /\ BankIdentity(i).cust.len <= 18 /\ BankIdentity(i).va.len <= 26]_vars

\* "Accepting a 40-character id at inquiry only defers the rejection to the
\* payment that follows it": an id that an inquiry passes with is one its
\* payment and its status request pass with.
InquirableIsPayable ==
    [][\A i \in issued' \ issued, n \in {0, 1, 30, 31, 128} :
        InquiryAnswer(BankInquiry(i, n), TRUE) = Passed =>
            /\ PaymentAnswer(BankPayment(i, n, Paid), TRUE) = Passed
            /\ StatusAnswer(BankStatus(i, n)) = Passed]_vars

\* "Every rejection this service makes on the VALUE of paidAmount ... is reported
\* under one code", a missing one stays 4002502 and a bad currency 4002501, and
\* none but a positive figure with both decimals gets past.
AmountRefusals ==
    [][\A i \in issued' \ issued, a \in Amount : ~i.own =>
        LET answer == PaymentAnswer(BankPayment(i, MaxPaymentRequestID, a), FALSE)
        IN  /\ answer = Passed <=> a.value = "cents" /\ a.currency \in AllowedCurrencies
            /\ a.value \in {"absent", "blank"} => answer = ViolationCode("25", Mandatory("paidAmount"))
            /\ a.value \in {"malformed", "long"} => answer = CodePaymentInvalidAmt
            /\ a.value \in {"whole", "zero"} /\ a.currency \in AllowedCurrencies
               => answer = CodePaymentInvalidAmt
            /\ a.value = "cents" /\ a.currency = "foreign" => answer = ViolationCode("25", BadFormat("paidAmount"))]_vars

StaticBilled(i) == i.type \in Types \ DynamicTypes /\ ~i.noBill
SameNumber(i, j) == i.partner = j.partner /\ i.cust = j.cust

\* A static customerNo of a billed type is given once: a call that comes after
\* the first was answered is refused, whatever became of its transaction.
\* Calls that overlap are another matter: see RegisteredOnce.
RegisteredOnceInTurn ==
    \A i, j \in issued : StaticBilled(i) /\ StaticBilled(j) /\ SameNumber(i, j) => ~(i.answered < j.call)

\* Every call is answered: nobody waits for ever for a lock that a dead replica
\* or a failed release left behind.
EveryCallIsAnswered == \A c \in Callers : pc[c] # "idle" ~> pc[c] = "idle"

-----------------------------------------------------------------------------
(* What the comments and requirements say and the code does not do         *)

\* va_repository.go:1163 "a merchant-supplied customerNo is only ever used once
\* per partnerServiceId"; FR-008 "using the same locking/queuing mechanism to
\* prevent race conditions between concurrent static registrations".
RegisteredOnce ==
    \A i, j \in issued : StaticBilled(i) /\ StaticBilled(j) /\ SameNumber(i, j) => i = j

\* va_type_rule_provider.go:204 "the padding is a transport detail, not part of
\* the identity": a customerNo is registered once per unpadded partnerServiceId.
RegisteredOnceUnpadded ==
    \A a, b \in accounts : a.partner.id = b.partner.id /\ a.cust = b.cust => a = b

\* merchant_va_usecase.go:192 a dynamic VA may "honor the merchant's own value":
\* such a number is registered as what it was issued as, and payable.
OwnIsOnFile ==
    \A i \in issued : i.own =>
        [va |-> i.va, partner |-> i.partner, cust |-> i.cust, type |-> i.type] \in accounts
OwnIsPayable ==
    \A i \in issued : i.own => InquiryAnswer(BankInquiry(i, MaxPaymentRequestID), FALSE) = Passed

\* A call that got 5002700 because a statement after SaveVAAccount failed can be
\* made again: a static number on file was issued or is about to be.
RegisteredIsIssued ==
    \A a \in accounts :
        \/ \E i \in issued : i.va = a.va
        \/ \E c \in Callers : pc[c] # "idle" /\ VA(c) = a.va
=============================================================================
