----------------------- MODULE MerchantCreateVA_proofs -----------------------
(***************************************************************************)
(* Proofs about MerchantCreateVA for every number of replicas and calls in *)
(* progress, every set of rules, partners and customerNos, every length of *)
(* a sequence and every combination of failures.                           *)
(***************************************************************************)
EXTENDS MerchantCreateVA, TLAPS, WellFoundedInduction

-----------------------------------------------------------------------------
(* The inductive invariant                                                 *)

\* A call in progress passed the checks, and what it does is what its type asks
\* for: the sequence is for dynamic VAs, the count for static ones.
RequestInOrder ==
    \A c \in Callers :
        pc[c] # "idle"
        => /\ WellFormed(req[c])
           /\ Dynamic(req[c]) => req[c].va \in OwnVAs \cup {BlankVA}
           /\ ~Dynamic(req[c]) => cust[c] = req[c].cust
           /\ pc[c] = "lock" => Managed(req[c])
           /\ pc[c] \in {"select", "update"} => Dynamic(req[c])
           /\ pc[c] = "count" => ~Dynamic(req[c]) /\ Managed(req[c])
           /\ pc[c] \in {"unlock", "account"} => Managed(req[c])

\* Who is about to update a sequence has its row locked, and has read it.
RowHeld ==
    \A c \in Callers :
        pc[c] = "update"
        => /\ rowLock[req[c].type] = c
           /\ seq[c] = nextSeq[req[c].type] /\ seq[c] \in 1 .. MaxSeq

\* c is past the lock, with what it looked for found in order.
PastLock(c) ==
    \/ pc[c] \in {"account", "pending", "save", "bills"}
    \/ pc[c] = "unlock" /\ outcome[c] = "ok"

HasNumber(c) == PastLock(c) /\ req[c].type \in DynamicTypes

\* A number of the sequence of t that has been used up.
Generated(t, x) == \E n \in 1 .. MaxSeq : n < nextSeq[t] /\ x = CustomerNo(t, n)

\* A caller's number is generated, nobody else's, and not given out before.
NumbersInHand ==
    /\ \A c \in Callers : HasNumber(c) => Generated(req[c].type, cust[c])
    /\ \A c, d \in Callers : HasNumber(c) /\ HasNumber(d) /\ c # d => cust[c] # cust[d]
    /\ \A c \in Callers, i \in issued :
          HasNumber(c) /\ i.type \in DynamicTypes => cust[c] # i.cust

\* So is a number that was given out.
NumbersIssued == \A i \in issued : i.type \in DynamicTypes => Generated(i.type, i.cust)

\* Calls are numbered as they come.
CallsCounted ==
    /\ \A c \in Callers : pc[c] # "idle" => req[c].call <= calls
    /\ \A i \in issued : i.call \in 0 .. calls /\ i.answered \in 0 .. calls

IInv ==
    /\ TypeOK
    /\ RequestInOrder
    /\ RowHeld
    /\ NumbersInHand
    /\ NumbersIssued
    /\ CallsCounted
    /\ UniqueCustomerNo

\* A registration of a number.
OnFile(p, c) == \E a \in accounts : a.partner = p /\ a.cust = c

\* The VA number of a registration is made of its parts, unless the merchant
\* chose it.
AccountsAreConcat == \A a \in accounts : a.va \in OwnVAs \/ a.va = Concat(a.partner, a.cust)

\* A static number that was given, or is about to be, is on file.
StaticOnFile ==
    /\ \A i \in issued : StaticBilled(i) => OnFile(i.partner, i.cust)
    /\ \A c \in Callers :
          pc[c] \in {"pending", "save", "bills"} /\ req[c].type \in Types \ DynamicTypes
          => OnFile(req[c].partner, cust[c])

\* A call that found its static number free came before the number was given.
FreeWhenCounted ==
    \A c \in Callers :
        PastLock(c) /\ req[c].type \in Types \ DynamicTypes /\ ~NoBill(req[c])
        => \A i \in issued :
              StaticBilled(i) /\ i.partner = req[c].partner /\ i.cust = cust[c]
              => ~(i.answered < req[c].call)

StaticInv == AccountsAreConcat /\ StaticOnFile /\ FreeWhenCounted /\ RegisteredOnceInTurn

-----------------------------------------------------------------------------
(* Requests, rules and numbers                                             *)

\* What a request holds.
LEMMA RequestFields ==
  \A r \in Request :
     /\ r # None /\ r.type \in Types \cup {NoType} /\ r.partner \in Partners
     /\ r.cust \in Customers \cup {Blank} /\ r.call \in 0 .. MaxCalls
     /\ r.va \in {Concat(p, c) : p \in Partners, c \in Customers} \cup OwnVAs \cup {BlankVA}
  BY NoneAssumption DEF Request

\* A type is dynamic or static, whatever the partner; a request without a type has
\* no rule.
LEMMA OneRulePerType ==
  ASSUME NEW r \in Request, WellFormed(r)
  PROVE  /\ Dynamic(r) <=> r.type \in DynamicTypes
         /\ Dynamic(r) => Managed(r)
         /\ Managed(r) => r.type \in Types
         /\ ~Managed(r) => r.type \notin Types
         /\ ~Dynamic(r) => r.cust \in Customers /\ r.va = Concat(r.partner, r.cust)
<1>1. NoType \notin Types
  BY RulesAssumption DEF Types, NoType
<1>2. Dynamic(r) => r.type \in DynamicTypes
  BY DEF Dynamic, RulesFor, DynamicTypes
<1>3. Managed(r) => r.type \in Types
  BY DEF WellFormed, RulesFor, Types
<1>4. ~Managed(r) => r.type \notin Types
  BY <1>1 DEF Managed
<1>5. DynamicTypes \subseteq Types
  BY DEF DynamicTypes, Types
<1>6. ASSUME r.type \in DynamicTypes PROVE Dynamic(r)
  <2>1. Managed(r)
    BY <1>4, <1>5, <1>6
  <2>2. PICK rule \in RulesFor(r) : TRUE
    BY <2>1 DEF WellFormed
  <2>3. PICK s \in Rules : s.dynamic /\ s.type = r.type
    BY <1>6 DEF DynamicTypes
  <2>4. rule = s
    BY <2>2, <2>3, RulesAssumption DEF RulesFor
  <2> QED
    BY <2>2, <2>3, <2>4 DEF Dynamic
<1>7. ~Dynamic(r) => r.cust \in Customers /\ r.va = Concat(r.partner, r.cust)
  BY RequestFields DEF WellFormed
<1> QED
  BY <1>2, <1>3, <1>4, <1>5, <1>6, <1>7

\* The count of the call is no part of what is checked.
LEMMA CallIsNotChecked ==
  ASSUME NEW r \in Request, NEW n \in 0 .. MaxCalls
  PROVE  LET q == [r EXCEPT !.call = n]
         IN  /\ q \in Request /\ q.call = n /\ q.type = r.type /\ q.partner = r.partner
             /\ q.cust = r.cust /\ q.va = r.va
             /\ WellFormed(q) <=> WellFormed(r)
             /\ Dynamic(q) <=> Dynamic(r)
             /\ Managed(q) <=> Managed(r)
             /\ NoBill(q) <=> NoBill(r)
<1> DEFINE q == [r EXCEPT !.call = n]
<1>1. /\ q \in Request /\ q.call = n /\ q.type = r.type /\ q.partner = r.partner
      /\ q.cust = r.cust /\ q.va = r.va /\ q.amount = r.amount /\ q.name = r.name
  BY DEF Request
<1> HIDE DEF q
<1>2. RulesFor(q) = RulesFor(r)
  BY <1>1 DEF RulesFor
<1>3. (Dynamic(q) <=> Dynamic(r)) /\ (Managed(q) <=> Managed(r)) /\ (NoBill(q) <=> NoBill(r))
  BY <1>1, <1>2 DEF Dynamic, Managed, NoBill
<1>4. WellFormed(q) <=> WellFormed(r)
  BY <1>1, <1>2, <1>3 DEF WellFormed, WithinCaps
<1> QED
  BY <1>1, <1>3, <1>4 DEF q

\* The numbers of the sequences are told apart.
LEMMA NumbersDiffer ==
  \A t, u, m, n : CustomerNo(t, m) = CustomerNo(u, n) => t = u /\ m = n
<1> SUFFICES ASSUME NEW t, NEW u, NEW m, NEW n, CustomerNo(t, m) = CustomerNo(u, n)
             PROVE  t = u /\ m = n
  OBVIOUS
<1>1. CustomerNo(t, m).no = <<t, m>> /\ CustomerNo(u, n).no = <<u, n>>
  BY DEF CustomerNo
<1> QED
  BY <1>1

\* A number generated is a number.
LEMMA NumbersAreNumbers ==
  ASSUME NEW t \in DynamicTypes, NEW n \in 1 .. MaxSeq
  PROVE  CustomerNo(t, n) \in Numbers /\ CustomerNo(t, n) # Blank
<1>1. CustomerNo(t, n).len = 18 /\ Blank.len = 0
  BY DEF CustomerNo, Blank
<1> QED
  BY <1>1 DEF Numbers

-----------------------------------------------------------------------------
(* What a step of c does to the callers                                    *)

\* The variables of the other callers.
Apart(c) ==
    \A d \in Callers \ {c} :
        /\ pc'[d] = pc[d] /\ req'[d] = req[d] /\ cust'[d] = cust[d]
        /\ seq'[d] = seq[d] /\ outcome'[d] = outcome[d]

\* A step of c is about c.
LEMMA StepIsApart ==
  ASSUME TypeOK, NEW c \in Callers, Arrive(c) \/ Step(c) \/ Crash(c)
  PROVE  Apart(c)
<1> USE DEF TypeOK, Apart, Goto, Respond, Succeed, Found, local
<1>1. CASE Arrive(c)
  BY <1>1 DEF Arrive
<1>2. CASE AcquireLock(c)
  BY <1>2 DEF AcquireLock
<1>3. CASE SelectSequence(c)
  BY <1>3 DEF SelectSequence
<1>4. CASE UpdateSequence(c)
  BY <1>4 DEF UpdateSequence
<1>5. CASE CountAccounts(c)
  BY <1>5 DEF CountAccounts
<1>6. CASE ReleaseLock(c)
  BY <1>6 DEF ReleaseLock
<1>7. CASE SaveAccount(c)
  BY <1>7 DEF SaveAccount
<1>8. CASE CheckPending(c)
  BY <1>8 DEF CheckPending
<1>9. CASE SaveInquiry(c)
  BY <1>9 DEF SaveInquiry
<1>10. CASE SaveBills(c)
  BY <1>10 DEF SaveBills
<1>11. CASE Crash(c)
  BY <1>11 DEF Crash
<1> QED
  BY <1>1, <1>2, <1>3, <1>4, <1>5, <1>6, <1>7, <1>8, <1>9, <1>10, <1>11 DEF Step

\* An answer clears the caller's variables.
LEMMA Answered ==
  ASSUME TypeOK, NEW c \in Callers, Respond(c)
  PROVE  /\ pc' \in [Callers -> PCs] /\ req' \in [Callers -> Request \cup {None}]
         /\ cust' \in [Callers -> Numbers \cup {Blank}] /\ seq' \in [Callers -> 0 .. MaxSeq + 1]
         /\ outcome' \in [Callers -> {"ok", "duplicate", "error"}]
         /\ pc'[c] = "idle" /\ req'[c] = None /\ cust'[c] = Blank /\ Apart(c)
  BY SequenceAssumption DEF TypeOK, Respond, Goto, PCs, Apart

\* The request of a call in progress.
LEMMA InProgress ==
  ASSUME TypeOK, RequestInOrder, NEW c \in Callers, pc[c] # "idle"
  PROVE  /\ req[c] \in Request /\ WellFormed(req[c])
         /\ Dynamic(req[c]) <=> req[c].type \in DynamicTypes
         /\ req[c].partner \in Partners
         /\ Dynamic(req[c]) => Managed(req[c]) /\ req[c].va \in OwnVAs \cup {BlankVA}
         /\ Managed(req[c]) <=> req[c].type \in Types
         /\ ~Dynamic(req[c]) => /\ req[c].cust \in Customers /\ cust[c] = req[c].cust
                                /\ req[c].va = Concat(req[c].partner, req[c].cust)
<1>1. req[c] \in Request /\ WellFormed(req[c])
  BY DEF TypeOK, RequestInOrder
<1> QED
  BY <1>1, OneRulePerType, RequestFields DEF RequestInOrder

\* What is registered and billed are VA numbers.
LEMMA VAIsVA ==
  ASSUME TypeOK, RequestInOrder, NEW c \in Callers, pc[c] # "idle", cust[c] # Blank
  PROVE  /\ VA(c) \in VAs /\ cust[c] \in Numbers
         /\ ~Dynamic(req[c]) => VA(c) = Concat(req[c].partner, cust[c])
         /\ VA(c) \in OwnVAs \/ VA(c) = Concat(req[c].partner, cust[c])
<1>1. cust[c] \in Numbers
  BY DEF TypeOK
<1> QED
  BY <1>1, InProgress DEF VA, VAs

\* The lock of a call is one of the two kinds.
LEMMA LockKeyIsKey ==
  ASSUME TypeOK, RequestInOrder, NEW c \in Callers, pc[c] # "idle"
  PROVE  LockKey(c) \in LockKeys
  BY InProgress DEF LockKey, LockKeys

\* A caller past the lock has a number.
LEMMA NumberInHand ==
  ASSUME IInv, NEW c \in Callers, PastLock(c)
  PROVE  cust[c] # Blank /\ cust[c] \in Numbers
<1>1. TypeOK /\ RequestInOrder /\ pc[c] # "idle"
  BY DEF IInv, PastLock
<1>2. CASE Dynamic(req[c])
  <2>1. req[c].type \in DynamicTypes
    BY <1>1, <1>2, InProgress
  <2>2. PICK n \in 1 .. MaxSeq : cust[c] = CustomerNo(req[c].type, n)
    BY <2>1 DEF IInv, NumbersInHand, HasNumber, Generated
  <2> QED
    BY <2>1, <2>2, NumbersAreNumbers
<1>3. CASE ~Dynamic(req[c])
  BY <1>1, <1>3, InProgress, NoneAssumption DEF Numbers
<1> QED
  BY <1>2, <1>3

\* The types of the callers' variables.
LocalTyped ==
    /\ pc \in [Callers -> PCs]
    /\ req \in [Callers -> Request \cup {None}]
    /\ cust \in [Callers -> Numbers \cup {Blank}]
    /\ \A c \in Callers :
         /\ pc[c] = "idle" <=> req[c] = None
         /\ pc[c] \in {"account", "pending", "save", "bills"} => cust[c] # Blank
    /\ seq \in [Callers -> 0 .. MaxSeq + 1]
    /\ outcome \in [Callers -> {"ok", "duplicate", "error"}]

\* An answer leaves the callers' variables in order.
LEMMA AnsweredInOrder ==
  ASSUME TypeOK, RequestInOrder, NEW c \in Callers, Respond(c)
  PROVE  LocalTyped' /\ RequestInOrder'
<1>1. /\ pc' \in [Callers -> PCs] /\ req' \in [Callers -> Request \cup {None}]
      /\ cust' \in [Callers -> Numbers \cup {Blank}] /\ seq' \in [Callers -> 0 .. MaxSeq + 1]
      /\ outcome' \in [Callers -> {"ok", "duplicate", "error"}]
      /\ pc'[c] = "idle" /\ req'[c] = None /\ cust'[c] = Blank /\ Apart(c)
  BY Answered
<1>2. LocalTyped'
  BY <1>1 DEF LocalTyped, TypeOK, Apart
<1>3. RequestInOrder'
  BY <1>1 DEF RequestInOrder, Apart
<1> QED
  BY <1>2, <1>3

\* So does a step to another position with the same request.
LEMMA MovedInOrder ==
  ASSUME TypeOK, RequestInOrder, NEW c \in Callers, pc[c] # "idle", NEW l \in PCs, l # "idle",
         Goto(c, l), UNCHANGED req, cust' \in [Callers -> Numbers \cup {Blank}],
         seq' \in [Callers -> 0 .. MaxSeq + 1],
         outcome' \in [Callers -> {"ok", "duplicate", "error"}], Apart(c),
         l \in {"account", "pending", "save", "bills"} => cust'[c] # Blank,
         cust'[c] = cust[c] \/ Dynamic(req[c]),
         l \in {"select", "update"} => Dynamic(req[c]),
         l = "count" => ~Dynamic(req[c]),
         l \in {"lock", "count", "unlock", "account"} => Managed(req[c])
  PROVE  LocalTyped' /\ RequestInOrder'
<1>1. pc' \in [Callers -> PCs] /\ pc'[c] = l
  BY DEF TypeOK, Goto
<1>2. LocalTyped'
  BY <1>1 DEF LocalTyped, TypeOK, Apart
<1>3. RequestInOrder'
  <2> SUFFICES ASSUME NEW d \in Callers, pc'[d] # "idle"
               PROVE  /\ WellFormed(req[d])
                      /\ Dynamic(req[d]) => req[d].va \in OwnVAs \cup {BlankVA}
                      /\ ~Dynamic(req[d]) => cust'[d] = req[d].cust
                      /\ pc'[d] = "lock" => Managed(req[d])
                      /\ pc'[d] \in {"select", "update"} => Dynamic(req[d])
                      /\ pc'[d] = "count" => ~Dynamic(req[d]) /\ Managed(req[d])
                      /\ pc'[d] \in {"unlock", "account"} => Managed(req[d])
    BY DEF RequestInOrder
  <2>1. CASE d = c
    BY <1>1, <2>1 DEF RequestInOrder
  <2>2. CASE d # c
    BY <2>2 DEF RequestInOrder, Apart
  <2> QED
    BY <2>1, <2>2
<1> QED
  BY <1>2, <1>3

\* The sequence of t goes up by one, or stays; the row of t is unlocked.
LEMMA BumpEffect ==
  ASSUME TypeOK, NEW c \in Callers, req[c].type \in DynamicTypes, UpdateSequence(c)
  PROVE  /\ nextSeq' \in [DynamicTypes -> 1 .. MaxSeq + 1]
         /\ rowLock' \in [DynamicTypes -> Callers \cup {None}]
         /\ \A u \in DynamicTypes :
              /\ u # req[c].type => nextSeq'[u] = nextSeq[u] /\ rowLock'[u] = rowLock[u]
              /\ nextSeq'[u] >= nextSeq[u]
         /\ rowLock[req[c].type] # c => rowLock'[req[c].type] = rowLock[req[c].type]
         /\ outcome'[c] = "ok" /\ nextSeq[req[c].type] <= MaxSeq
            => nextSeq'[req[c].type] = nextSeq[req[c].type] + 1
<1> DEFINE t == req[c].type
           b == IF nextSeq[t] <= MaxSeq THEN nextSeq[t] + 1 ELSE nextSeq[t]
<1>1. nextSeq \in [DynamicTypes -> 1 .. MaxSeq + 1] /\ nextSeq[t] \in 1 .. MaxSeq + 1
  BY DEF TypeOK
<1>2. b \in 1 .. MaxSeq + 1 /\ b >= nextSeq[t]
  BY <1>1, SequenceAssumption
<1>3. /\ nextSeq' = [nextSeq EXCEPT ![t] = b] \/ nextSeq' = nextSeq
      /\ outcome'[c] = "ok" => nextSeq' = [nextSeq EXCEPT ![t] = b]
  BY DEF UpdateSequence, Found, TypeOK
<1>4. /\ rowLock' = [rowLock EXCEPT ![t] = IF @ = c THEN None ELSE @]
      /\ rowLock \in [DynamicTypes -> Callers \cup {None}]
  BY DEF UpdateSequence, TypeOK
<1>5. /\ rowLock' \in [DynamicTypes -> Callers \cup {None}]
      /\ \A u \in DynamicTypes : u # t => rowLock'[u] = rowLock[u]
      /\ rowLock[t] # c => rowLock'[t] = rowLock[t]
  BY <1>4
<1>6. /\ nextSeq' \in [DynamicTypes -> 1 .. MaxSeq + 1]
      /\ \A u \in DynamicTypes : (u # t => nextSeq'[u] = nextSeq[u]) /\ nextSeq'[u] >= nextSeq[u]
  <2> HIDE DEF b
  <2> QED
    BY <1>1, <1>2, <1>3, SequenceAssumption
<1>7. outcome'[c] = "ok" /\ nextSeq[t] <= MaxSeq => nextSeq'[t] = nextSeq[t] + 1
  BY <1>1, <1>3
<1> QED
  BY <1>5, <1>6, <1>7

\* The types of the rest.
SharedTyped ==
    /\ nextSeq \in [DynamicTypes -> 1 .. MaxSeq + 1]
    /\ rowLock \in [DynamicTypes -> Callers \cup {None}]
    /\ locks \subseteq LockKeys
    /\ accounts \subseteq Account
    /\ pending \subseteq billed /\ billed \subseteq VAs
    /\ calls \in 0 .. MaxCalls

\* Every step keeps the types, and the requests in order.
LEMMA OrderStep == IInv /\ [Next]_vars => TypeOK' /\ RequestInOrder'
<1> SUFFICES ASSUME IInv, [Next]_vars PROVE SharedTyped' /\ LocalTyped' /\ RequestInOrder'
  BY DEF TypeOK, SharedTyped, LocalTyped
<1>t. TypeOK /\ RequestInOrder /\ SharedTyped
  BY DEF IInv, TypeOK, SharedTyped
<1> DEFINE Good == SharedTyped' /\ LocalTyped' /\ RequestInOrder'
<1>1. ASSUME NEW c \in Callers, Arrive(c) PROVE Good
  <2>1. SharedTyped'
    BY <1>t, <1>1, SequenceAssumption DEF Arrive, SharedTyped, registry
  <2>2. PICK r \in Accepted :
         /\ req' = [req EXCEPT ![c] = [r EXCEPT !.call = calls + 1]]
         /\ cust' = [cust EXCEPT ![c] = r.cust]
         /\ Goto(c, IF Dynamic(r) \/ (Managed(r) /\ ~NoBill(r)) THEN "lock"
                    ELSE IF Managed(r) THEN "account" ELSE "pending")
    BY <1>1 DEF Arrive
  <2> DEFINE q == [r EXCEPT !.call = calls + 1]
             l == IF Dynamic(r) \/ (Managed(r) /\ ~NoBill(r)) THEN "lock"
                  ELSE IF Managed(r) THEN "account" ELSE "pending"
  <2>3. /\ r \in Request /\ WellFormed(r) /\ (Dynamic(r) => r.va \in OwnVAs \cup {BlankVA})
        /\ calls + 1 \in 0 .. MaxCalls
    BY <1>t, <1>1, SequenceAssumption DEF Accepted, Arrive, SharedTyped
  <2>4. /\ q \in Request /\ q.va = r.va /\ q.cust = r.cust /\ WellFormed(q)
        /\ (Dynamic(q) <=> Dynamic(r)) /\ (Managed(q) <=> Managed(r))
    BY <2>3, CallIsNotChecked
  <2>5. /\ r.cust \in Numbers \cup {Blank} /\ q # None
        /\ ~Dynamic(r) => r.cust # Blank
        /\ Dynamic(r) => Managed(r)
    BY <2>3, <2>4, RequestFields, OneRulePerType, NoneAssumption DEF Numbers
  <2>6. l \in PCs /\ l # "idle" /\ l \notin {"select", "update", "count", "unlock"}
        /\ (l = "lock" => Managed(r)) /\ (l = "account" => Managed(r))
        /\ (l \in {"account", "pending"} => ~Dynamic(r))
        /\ l \notin {"save", "bills"}
    BY <2>5 DEF PCs
  <2>7. req' = [req EXCEPT ![c] = q] /\ pc' = [pc EXCEPT ![c] = l] /\ UNCHANGED <<seq, outcome>>
    BY <1>1, <2>2 DEF Goto, Arrive
  <2> HIDE DEF q, l
  <2>8. LocalTyped'
    BY <1>t, <2>2, <2>4, <2>5, <2>6, <2>7 DEF LocalTyped, TypeOK
  <2>9. RequestInOrder'
    BY <1>t, <2>2, <2>3, <2>4, <2>5, <2>6, <2>7 DEF RequestInOrder, TypeOK
  <2> QED
    BY <2>1, <2>8, <2>9
<1>2. ASSUME NEW c \in Callers, AcquireLock(c) PROVE Good
  <2>1. SharedTyped'
    BY <1>t, <1>2, LockKeyIsKey DEF AcquireLock, SharedTyped, registry
  <2>2. CASE Respond(c)
    BY <1>t, <2>1, <2>2, AnsweredInOrder
  <2>3. CASE Goto(c, IF Dynamic(req[c]) THEN "select" ELSE "count") /\ UNCHANGED local
    <3> DEFINE l == IF Dynamic(req[c]) THEN "select" ELSE "count"
    <3>1. /\ pc[c] = "lock" /\ l \in PCs /\ l # "idle" /\ Managed(req[c])
          /\ (l = "select" => Dynamic(req[c])) /\ (l = "count" => ~Dynamic(req[c]))
          /\ l \in {"select", "count"}
      BY <1>t, <1>2 DEF AcquireLock, RequestInOrder, PCs
    <3>2. Apart(c) /\ UNCHANGED <<req, cust, seq, outcome>> /\ Goto(c, l)
      BY <1>t, <1>2, <2>3, StepIsApart DEF Step, local
    <3> HIDE DEF l
    <3> QED
      BY <1>t, <2>1, <3>1, <3>2, MovedInOrder DEF TypeOK
  <2> QED
    BY <1>2, <2>2, <2>3 DEF AcquireLock
<1>3. ASSUME NEW c \in Callers, SelectSequence(c) PROVE Good
  <2>1. pc[c] = "select" /\ Dynamic(req[c]) /\ req[c].type \in DynamicTypes /\ Managed(req[c])
    BY <1>t, <1>3, InProgress DEF SelectSequence, RequestInOrder
  <2>2. SharedTyped' /\ UNCHANGED <<req, cust>> /\ Apart(c)
    BY <1>t, <1>3, <2>1, StepIsApart DEF SelectSequence, SharedTyped, registry, Step
  <2>3. seq' \in [Callers -> 0 .. MaxSeq + 1] /\ outcome' \in [Callers -> {"ok", "duplicate", "error"}]
    <3>1. nextSeq[req[c].type] \in 0 .. MaxSeq + 1
      BY <1>t, <2>1, SequenceAssumption DEF TypeOK
    <3> QED
      BY <1>t, <1>3, <3>1 DEF SelectSequence, TypeOK, Found
  <2>4. CASE Goto(c, "update")
    BY <1>t, <2>1, <2>2, <2>3, <2>4, MovedInOrder DEF TypeOK, PCs
  <2>5. CASE Goto(c, "unlock")
    BY <1>t, <2>1, <2>2, <2>3, <2>5, MovedInOrder DEF TypeOK, PCs
  <2> QED
    BY <1>3, <2>4, <2>5 DEF SelectSequence, Found
<1>4. ASSUME NEW c \in Callers, UpdateSequence(c) PROVE Good
  <2>1. pc[c] = "update" /\ Dynamic(req[c]) /\ req[c].type \in DynamicTypes /\ Managed(req[c])
    BY <1>t, <1>4, InProgress DEF UpdateSequence, RequestInOrder
  <2>2. SharedTyped' /\ UNCHANGED <<req, seq>> /\ Apart(c)
    BY <1>t, <1>4, <2>1, StepIsApart, BumpEffect DEF UpdateSequence, SharedTyped, registry, Step
  <2>3. /\ cust' \in [Callers -> Numbers \cup {Blank}]
        /\ outcome' \in [Callers -> {"ok", "duplicate", "error"}] /\ Goto(c, "unlock")
    <3>1. CustomerNo(req[c].type, seq[c]) \in Numbers
      BY <2>1, NumbersAreNumbers DEF IInv, RowHeld
    <3> QED
      BY <1>t, <1>4, <3>1 DEF UpdateSequence, TypeOK, Found
  <2> QED
    BY <1>t, <2>1, <2>2, <2>3, MovedInOrder DEF TypeOK, PCs
<1>5. ASSUME NEW c \in Callers, CountAccounts(c) PROVE Good
  <2>1. pc[c] = "count" /\ Managed(req[c])
    BY <1>t, <1>5 DEF CountAccounts, RequestInOrder
  <2>2. SharedTyped' /\ UNCHANGED <<req, cust, seq>> /\ Apart(c)
    BY <1>t, <1>5, StepIsApart DEF CountAccounts, SharedTyped, registry, Step
  <2>3. outcome' \in [Callers -> {"ok", "duplicate", "error"}] /\ Goto(c, "unlock")
    BY <1>t, <1>5 DEF CountAccounts, TypeOK, Found
  <2> QED
    BY <1>t, <2>1, <2>2, <2>3, MovedInOrder DEF TypeOK, PCs
<1>6. ASSUME NEW c \in Callers, ReleaseLock(c) PROVE Good
  <2>1. pc[c] = "unlock" /\ Managed(req[c])
    BY <1>t, <1>6 DEF ReleaseLock, RequestInOrder
  <2>2. SharedTyped' /\ Apart(c)
    BY <1>t, <1>6, StepIsApart DEF ReleaseLock, SharedTyped, registry, Step
  <2>3. CASE Respond(c)
    BY <1>t, <2>2, <2>3, AnsweredInOrder
  <2>4. CASE outcome[c] = "ok" /\ Goto(c, "account") /\ UNCHANGED local
    <3>1. cust[c] # Blank
      BY <2>1, <2>4, NumberInHand DEF PastLock
    <3> QED
      BY <1>t, <2>1, <2>2, <2>4, <3>1, MovedInOrder DEF TypeOK, PCs, local
  <2> QED
    BY <1>6, <2>3, <2>4 DEF ReleaseLock
<1>7. ASSUME NEW c \in Callers, SaveAccount(c) PROVE Good
  <2>1. /\ pc[c] = "account" /\ Managed(req[c]) /\ cust[c] # Blank
        /\ req[c].type \in Types /\ req[c].partner \in Partners
    BY <1>t, <1>7, InProgress DEF SaveAccount, RequestInOrder, TypeOK
  <2>2. VA(c) \in VAs /\ cust[c] \in Numbers
    BY <1>t, <2>1, VAIsVA
  <2>3. [va |-> VA(c), partner |-> req[c].partner, cust |-> cust[c], type |-> req[c].type] \in Account
    BY <2>1, <2>2 DEF Account
  <2>4. SharedTyped' /\ Apart(c)
    BY <1>t, <1>7, <2>3, StepIsApart DEF SaveAccount, SharedTyped, Step
  <2>5. CASE Respond(c)
    BY <1>t, <2>4, <2>5, AnsweredInOrder
  <2>6. CASE Goto(c, "pending") /\ UNCHANGED local
    BY <1>t, <2>1, <2>4, <2>6, MovedInOrder DEF TypeOK, PCs, local
  <2> QED
    BY <1>7, <2>5, <2>6 DEF SaveAccount, Succeed
<1>8. ASSUME NEW c \in Callers, CheckPending(c) PROVE Good
  <2>1. pc[c] = "pending" /\ cust[c] # Blank
    BY <1>t, <1>8 DEF CheckPending, TypeOK
  <2>2. SharedTyped' /\ Apart(c)
    BY <1>t, <1>8, StepIsApart DEF CheckPending, SharedTyped, registry, Step
  <2>3. CASE Respond(c)
    BY <1>t, <2>2, <2>3, AnsweredInOrder
  <2>4. CASE Goto(c, "save") /\ UNCHANGED local
    BY <1>t, <2>1, <2>2, <2>4, MovedInOrder DEF TypeOK, PCs, local
  <2> QED
    BY <1>8, <2>3, <2>4 DEF CheckPending
<1>9. ASSUME NEW c \in Callers, SaveInquiry(c) PROVE Good
  <2>1. pc[c] = "save" /\ cust[c] # Blank
    BY <1>t, <1>9 DEF SaveInquiry, TypeOK
  <2>2. VA(c) \in VAs
    BY <1>t, <2>1, VAIsVA
  <2>3. SharedTyped' /\ Apart(c)
    BY <1>t, <1>9, <2>2, StepIsApart DEF SaveInquiry, SharedTyped, Step
  <2>4. CASE Respond(c)
    BY <1>t, <2>3, <2>4, AnsweredInOrder
  <2>5. CASE Goto(c, "bills") /\ UNCHANGED local
    BY <1>t, <2>1, <2>3, <2>5, MovedInOrder DEF TypeOK, PCs, local
  <2> QED
    BY <1>9, <2>4, <2>5 DEF SaveInquiry
<1>10. ASSUME NEW c \in Callers, SaveBills(c) \/ Crash(c) PROVE Good
  <2>1. SharedTyped'
    BY <1>t, <1>10 DEF SaveBills, Crash, SharedTyped, registry
  <2> QED
    BY <1>t, <1>10, <2>1, AnsweredInOrder DEF SaveBills, Crash, Succeed
<1>11. ASSUME UNCHANGED <<pc, local>>, SharedTyped' PROVE Good
  BY <1>t, <1>11 DEF TypeOK, LocalTyped, RequestInOrder, local
<1>12. ASSUME NEW v \in pending, Close(v) PROVE Good
  BY <1>t, <1>11, <1>12 DEF Close, SharedTyped
<1>13. ASSUME NEW k \in locks, LockExpires(k) PROVE Good
  BY <1>t, <1>11, <1>13 DEF LockExpires, SharedTyped, registry
<1>14. CASE UNCHANGED vars
  BY <1>t, <1>11, <1>14 DEF vars, SharedTyped, registry
<1> QED
  BY <1>1, <1>2, <1>3, <1>4, <1>5, <1>6, <1>7, <1>8, <1>9, <1>10, <1>12, <1>13, <1>14
     DEF Next, Step

-----------------------------------------------------------------------------
(* The numbers of the sequences                                            *)

NumberInv == RowHeld /\ NumbersInHand /\ NumbersIssued /\ UniqueCustomerNo

\* A step in which no number is read, used up or given out.
LEMMA NumbersKept ==
  ASSUME IInv, NEW c \in Callers, Apart(c), UNCHANGED <<nextSeq, issued>>, pc'[c] # "update",
         \A t \in DynamicTypes : rowLock[t] # c => rowLock'[t] = rowLock[t],
         HasNumber(c)' => HasNumber(c) /\ cust'[c] = cust[c] /\ req'[c].type = req[c].type
  PROVE  NumberInv'
<1>t. TypeOK /\ RequestInOrder
  BY DEF IInv
<1>1. \A d \in Callers : HasNumber(d)' => HasNumber(d) /\ cust'[d] = cust[d] /\ req'[d].type = req[d].type
  BY DEF Apart, HasNumber, PastLock
<1>2. RowHeld'
  <2> SUFFICES ASSUME NEW d \in Callers, pc'[d] = "update"
               PROVE  /\ rowLock'[req'[d].type] = d
                      /\ seq'[d] = nextSeq'[req'[d].type] /\ seq'[d] \in 1 .. MaxSeq
    BY DEF RowHeld
  <2>1. d # c /\ pc[d] = "update" /\ req'[d] = req[d] /\ seq'[d] = seq[d]
    BY DEF Apart
  <2>2. req[d].type \in DynamicTypes
    BY <1>t, <2>1, InProgress DEF RequestInOrder
  <2> QED
    BY <2>1, <2>2 DEF IInv, RowHeld
<1>3. NumbersInHand'
  BY <1>1 DEF IInv, NumbersInHand, Generated
<1>4. NumbersIssued' /\ UniqueCustomerNo'
  BY DEF IInv, NumbersIssued, UniqueCustomerNo, Generated
<1> QED
  BY <1>2, <1>3, <1>4 DEF NumberInv

\* A number is given out: by the one who has it, who is done with it.
LEMMA NumberIssued ==
  ASSUME IInv, NEW c \in Callers, Apart(c), PastLock(c), Succeed(c), UNCHANGED <<nextSeq, rowLock>>
  PROVE  NumberInv'
<1>t. TypeOK /\ RequestInOrder
  BY DEF IInv
<1>1. pc'[c] = "idle"
  BY <1>t DEF Succeed, Respond, Goto, TypeOK
<1>2. PICK new : /\ issued' = issued \cup {new} /\ new.type = req[c].type /\ new.cust = cust[c]
  <2> DEFINE new == [type |-> req[c].type, partner |-> req[c].partner, cust |-> cust[c], va |-> VA(c),
           name |-> req[c].name, call |-> req[c].call, answered |-> calls,
           own |-> Dynamic(req[c]) /\ req[c].va # BlankVA, noBill |-> NoBill(req[c])]
  <2>1. issued' = issued \cup {new} /\ new.type = req[c].type /\ new.cust = cust[c]
    BY DEF Succeed
  <2> QED
    BY <2>1
<1>3. \A d \in Callers : HasNumber(d)' => d # c /\ HasNumber(d) /\ cust'[d] = cust[d] /\ req'[d].type = req[d].type
  BY <1>1 DEF Apart, HasNumber, PastLock
<1>4. new.type \in DynamicTypes =>
        /\ HasNumber(c) /\ Generated(new.type, new.cust)
        /\ \A i \in issued : i.type \in DynamicTypes => i.cust # new.cust
        /\ \A d \in Callers : HasNumber(d) /\ d # c => cust[d] # new.cust
  BY <1>2 DEF IInv, NumbersInHand, HasNumber
<1>5. RowHeld'
  BY <1>1 DEF IInv, RowHeld, Apart
<1>6. NumbersInHand'
  <2>1. \A d \in Callers : HasNumber(d)' => Generated(req[d].type, cust[d])'
    BY <1>3 DEF IInv, NumbersInHand, Generated
  <2>2. \A d, e \in Callers : HasNumber(d)' /\ HasNumber(e)' /\ d # e => cust'[d] # cust'[e]
    BY <1>3 DEF IInv, NumbersInHand
  <2>3. \A d \in Callers, i \in issued' : HasNumber(d)' /\ i.type \in DynamicTypes => cust'[d] # i.cust
    BY <1>2, <1>3, <1>4 DEF IInv, NumbersInHand
  <2> QED
    BY <2>1, <2>2, <2>3 DEF NumbersInHand
<1>7. NumbersIssued'
  BY <1>2, <1>4 DEF IInv, NumbersIssued, Generated
<1>8. UniqueCustomerNo'
  BY <1>2, <1>4 DEF IInv, UniqueCustomerNo
<1> QED
  BY <1>5, <1>6, <1>7, <1>8 DEF NumberInv

\* A number is read, under the lock of its row.
LEMMA NumberRead ==
  ASSUME IInv, NEW c \in Callers, SelectSequence(c)
  PROVE  NumberInv'
<1>t. TypeOK /\ RequestInOrder /\ Apart(c)
  BY StepIsApart DEF IInv, Step
<1>1. /\ pc[c] = "select" /\ req[c].type \in DynamicTypes /\ UNCHANGED <<nextSeq, issued, req, cust>>
  BY <1>t, InProgress DEF SelectSequence, RequestInOrder
<1>2. CASE Found(c, "error") /\ UNCHANGED <<rowLock, seq>>
  <2>1. pc'[c] = "unlock" /\ outcome'[c] = "error"
    BY <1>t, <1>2 DEF Found, Goto, TypeOK
  <2> QED
    BY <1>t, <1>1, <1>2, <2>1, NumbersKept DEF HasNumber, PastLock
<1>3. CASE /\ rowLock[req[c].type] = None
           /\ nextSeq[req[c].type] <= MaxSeq
           /\ rowLock' = [rowLock EXCEPT ![req[c].type] = c]
           /\ seq' = [seq EXCEPT ![c] = nextSeq[req[c].type]]
           /\ Goto(c, "update")
           /\ UNCHANGED outcome
  <2>1. /\ pc'[c] = "update" /\ seq'[c] = nextSeq[req[c].type] /\ rowLock'[req[c].type] = c
        /\ \A t \in DynamicTypes : t # req[c].type => rowLock'[t] = rowLock[t]
    BY <1>t, <1>1, <1>3 DEF Goto, TypeOK
  <2>2. seq'[c] \in 1 .. MaxSeq
    BY <1>t, <1>1, <1>3, <2>1, SequenceAssumption DEF TypeOK
  <2>3. \A d \in Callers : HasNumber(d)' => HasNumber(d) /\ cust'[d] = cust[d] /\ req'[d].type = req[d].type
    BY <1>t, <1>1, <2>1 DEF Apart, HasNumber, PastLock
  <2>4. RowHeld'
    <3> SUFFICES ASSUME NEW d \in Callers, pc'[d] = "update"
                 PROVE  /\ rowLock'[req[d].type] = d
                        /\ seq'[d] = nextSeq[req[d].type] /\ seq'[d] \in 1 .. MaxSeq
      BY <1>1 DEF RowHeld
    <3>1. CASE d = c
      BY <2>1, <2>2, <3>1
    <3>2. CASE d # c
      <4>1. pc[d] = "update" /\ seq'[d] = seq[d]
        BY <1>t, <3>2 DEF Apart
      <4>2. rowLock[req[d].type] = d /\ req[d].type \in DynamicTypes
        BY <1>t, <4>1, InProgress DEF IInv, RowHeld, RequestInOrder
      <4>3. req[d].type # req[c].type
        BY <1>3, <4>2, NoneAssumption
      <4> QED
        BY <2>1, <4>1, <4>2, <4>3 DEF IInv, RowHeld
    <3> QED
      BY <3>1, <3>2
  <2>5. NumbersInHand'
    BY <1>1, <2>3 DEF IInv, NumbersInHand, Generated
  <2>6. NumbersIssued' /\ UniqueCustomerNo'
    BY <1>1 DEF IInv, NumbersIssued, UniqueCustomerNo, Generated
  <2> QED
    BY <2>4, <2>5, <2>6 DEF NumberInv
<1> QED
  BY <1>2, <1>3 DEF SelectSequence

\* A number is used up.  Nobody else has the row, so nobody else has the number.
LEMMA NumberUsedUp ==
  ASSUME IInv, NEW c \in Callers, UpdateSequence(c)
  PROVE  NumberInv'
<1> DEFINE t == req[c].type
<1>t. TypeOK /\ RequestInOrder /\ Apart(c)
  BY StepIsApart DEF IInv, Step
<1>1. /\ pc[c] = "update" /\ t \in DynamicTypes /\ UNCHANGED <<issued, req, seq>>
  BY <1>t, InProgress DEF UpdateSequence, RequestInOrder
<1>2. rowLock[t] = c /\ seq[c] = nextSeq[t] /\ seq[c] \in 1 .. MaxSeq
  BY <1>1 DEF IInv, RowHeld
<1>3. /\ \A u \in DynamicTypes :
           /\ u # t => nextSeq'[u] = nextSeq[u] /\ rowLock'[u] = rowLock[u]
           /\ nextSeq'[u] >= nextSeq[u]
           /\ nextSeq[u] \in Nat /\ nextSeq'[u] \in Nat
      /\ outcome'[c] = "ok" /\ nextSeq[t] <= MaxSeq => nextSeq'[t] = nextSeq[t] + 1
  <2>1. nextSeq \in [DynamicTypes -> 1 .. MaxSeq + 1]
    BY <1>t DEF TypeOK
  <2> QED
    BY <1>t, <1>1, <2>1, BumpEffect, SequenceAssumption
<1>4. pc'[c] = "unlock" /\ (outcome'[c] = "ok" => cust'[c] = CustomerNo(t, seq[c]))
  BY <1>t DEF UpdateSequence, Found, Goto, TypeOK
<1> HIDE DEF t
<1>5. nextSeq[t] \in Nat /\ nextSeq[t] <= MaxSeq
  BY <1>1, <1>2, <1>3, SequenceAssumption
<1>6. \A d \in Callers \ {c} :
         HasNumber(d)' => HasNumber(d) /\ cust'[d] = cust[d] /\ req'[d].type = req[d].type
  BY <1>t DEF Apart, HasNumber, PastLock
<1>7. \A u \in DynamicTypes : \A x : Generated(u, x) => Generated(u, x)'
  <2> SUFFICES ASSUME NEW u \in DynamicTypes, NEW x,
                      NEW n \in 1 .. MaxSeq, n < nextSeq[u], x = CustomerNo(u, n)
               PROVE  n < nextSeq'[u]
    BY DEF Generated
  <2> QED
    BY <1>3
<1>8. \A u \in DynamicTypes : \A x : Generated(u, x) => x # CustomerNo(t, seq[c])
  <2> SUFFICES ASSUME NEW u \in DynamicTypes, NEW n \in 1 .. MaxSeq, n < nextSeq[u]
               PROVE  CustomerNo(u, n) # CustomerNo(t, seq[c])
    BY DEF Generated
  <2>1. CASE u = t
    BY <1>2, <1>5, <2>1, NumbersDiffer
  <2>2. CASE u # t
    BY <2>2, NumbersDiffer
  <2> QED
    BY <2>1, <2>2
<1>9. HasNumber(c)' => /\ cust'[c] = CustomerNo(t, seq[c])
                       /\ Generated(t, cust[c])'
  <2> SUFFICES ASSUME HasNumber(c)' PROVE cust'[c] = CustomerNo(t, seq[c]) /\ Generated(t, cust[c])'
    OBVIOUS
  <2>1. outcome'[c] = "ok" /\ cust'[c] = CustomerNo(t, seq[c])
    BY <1>4 DEF HasNumber, PastLock
  <2>2. seq[c] < nextSeq'[t]
    BY <1>2, <1>3, <1>5, <2>1
  <2>3. t' = t
    BY <1>1 DEF t
  <2> QED
    BY <1>2, <2>1, <2>2, <2>3 DEF Generated
<1>10. \A d \in Callers \ {c} : HasNumber(d) => req[d].type \in DynamicTypes /\ Generated(req[d].type, cust[d])
  BY DEF IInv, NumbersInHand, HasNumber
<1>11. RowHeld'
  <2> SUFFICES ASSUME NEW d \in Callers, pc'[d] = "update"
               PROVE  /\ rowLock'[req[d].type] = d
                      /\ seq[d] = nextSeq'[req[d].type] /\ seq[d] \in 1 .. MaxSeq
    BY <1>1 DEF RowHeld
  <2>1. d # c /\ pc[d] = "update"
    BY <1>t, <1>4 DEF Apart
  <2>2. /\ rowLock[req[d].type] = d /\ req[d].type \in DynamicTypes
        /\ seq[d] = nextSeq[req[d].type] /\ seq[d] \in 1 .. MaxSeq
    BY <1>t, <2>1, InProgress DEF IInv, RowHeld, RequestInOrder
  <2>3. req[d].type # t
    BY <1>2, <2>1, <2>2
  <2> QED
    BY <1>3, <2>2, <2>3
<1>12. NumbersInHand'
  <2>1. \A d \in Callers : HasNumber(d)' => Generated(req[d].type, cust[d])'
    <3> SUFFICES ASSUME NEW d \in Callers, HasNumber(d)' PROVE Generated(req[d].type, cust[d])'
      OBVIOUS
    <3>1. CASE d = c
      BY <1>9, <3>1 DEF t
    <3>2. CASE d # c
      <4>1. Generated(req[d].type, cust[d]) /\ req[d].type \in DynamicTypes /\ cust'[d] = cust[d]
        BY <1>6, <1>10, <3>2
      <4>2. Generated(req[d].type, cust[d])'
        BY <1>1, <1>7, <4>1
      <4> QED
        BY <4>2
    <3> QED
      BY <3>1, <3>2
  <2>2. \A d, e \in Callers : HasNumber(d)' /\ HasNumber(e)' /\ d # e => cust'[d] # cust'[e]
    <3> SUFFICES ASSUME NEW d \in Callers, NEW e \in Callers, HasNumber(d)', HasNumber(e)', d # e
                 PROVE  cust'[d] # cust'[e]
      OBVIOUS
    <3>1. CASE d = c
      BY <1>6, <1>8, <1>9, <1>10, <3>1
    <3>2. CASE e = c
      BY <1>6, <1>8, <1>9, <1>10, <3>2
    <3>3. CASE d # c /\ e # c
      BY <1>6, <3>3 DEF IInv, NumbersInHand
    <3> QED
      BY <3>1, <3>2, <3>3
  <2>3. \A d \in Callers, i \in issued : HasNumber(d)' /\ i.type \in DynamicTypes => cust'[d] # i.cust
    <3> SUFFICES ASSUME NEW d \in Callers, NEW i \in issued, HasNumber(d)', i.type \in DynamicTypes
                 PROVE  cust'[d] # i.cust
      OBVIOUS
    <3>1. CASE d = c
      BY <1>8, <1>9, <3>1 DEF IInv, NumbersIssued
    <3>2. CASE d # c
      BY <1>6, <3>2 DEF IInv, NumbersInHand
    <3> QED
      BY <3>1, <3>2
  <2> QED
    BY <1>1, <2>1, <2>2, <2>3 DEF NumbersInHand
<1>13. NumbersIssued'
  BY <1>1, <1>7 DEF IInv, NumbersIssued
<1>14. UniqueCustomerNo'
  BY <1>1 DEF IInv, UniqueCustomerNo
<1> QED
  BY <1>11, <1>12, <1>13, <1>14 DEF NumberInv

\* Every step keeps the numbers apart.
LEMMA NumberStep == IInv /\ [Next]_vars => NumberInv'
<1> SUFFICES ASSUME IInv, [Next]_vars PROVE NumberInv'
  OBVIOUS
<1>t. TypeOK /\ RequestInOrder
  BY DEF IInv
<1>q. ASSUME NEW c \in Callers, Respond(c), Apart(c), UNCHANGED <<nextSeq, issued>>,
             \A t \in DynamicTypes : rowLock[t] # c => rowLock'[t] = rowLock[t]
      PROVE  NumberInv'
  <2>1. pc'[c] = "idle"
    BY <1>t, <1>q, Answered
  <2> QED
    BY <1>q, <2>1, NumbersKept DEF HasNumber, PastLock
<1>m. ASSUME NEW c \in Callers, NEW l, Goto(c, l), Apart(c), UNCHANGED <<nextSeq, issued, rowLock, local>>,
             l # "update", l \in {"account", "pending", "save", "bills"} => PastLock(c), l # "unlock"
      PROVE  NumberInv'
  <2>1. pc'[c] = l
    BY <1>t, <1>m DEF Goto, TypeOK
  <2> QED
    BY <1>m, <2>1, NumbersKept DEF HasNumber, PastLock, local
<1>1. ASSUME NEW c \in Callers, Arrive(c) PROVE NumberInv'
  <2>1. PICK r \in Accepted :
         /\ req' = [req EXCEPT ![c] = [r EXCEPT !.call = calls + 1]]
         /\ Goto(c, IF Dynamic(r) \/ (Managed(r) /\ ~NoBill(r)) THEN "lock"
                    ELSE IF Managed(r) THEN "account" ELSE "pending")
    BY <1>1 DEF Arrive
  <2>2. /\ r \in Request /\ WellFormed(r) /\ calls + 1 \in 0 .. MaxCalls
        /\ pc'[c] \in {"lock", "account", "pending"}
        /\ pc'[c] # "lock" => ~Dynamic(r)
    BY <1>t, <1>1, <2>1, SequenceAssumption DEF Accepted, Arrive, TypeOK, Goto
  <2>3. req'[c].type = r.type
    BY <1>t, <2>1, <2>2, CallIsNotChecked DEF TypeOK
  <2>4. ~HasNumber(c)'
    BY <2>2, <2>3, OneRulePerType DEF HasNumber, PastLock
  <2> QED
    BY <1>t, <1>1, <2>2, <2>4, NumbersKept, StepIsApart DEF Arrive
<1>2. ASSUME NEW c \in Callers, AcquireLock(c) PROVE NumberInv'
  <2>1. Apart(c) /\ UNCHANGED <<nextSeq, issued, rowLock>>
    BY <1>t, <1>2, StepIsApart DEF AcquireLock, Step
  <2> QED
    BY <1>2, <1>q, <1>m, <2>1 DEF AcquireLock
<1>3. ASSUME NEW c \in Callers, CountAccounts(c) PROVE NumberInv'
  <2>1. /\ pc[c] = "count" /\ pc'[c] = "unlock" /\ req'[c] = req[c]
        /\ UNCHANGED <<nextSeq, issued, rowLock>> /\ Apart(c)
    BY <1>t, <1>3, StepIsApart DEF CountAccounts, Found, Goto, TypeOK, Step
  <2>2. ~HasNumber(c)'
    BY <1>t, <2>1, InProgress DEF HasNumber, RequestInOrder
  <2> QED
    BY <2>1, <2>2, NumbersKept
<1>4. ASSUME NEW c \in Callers, ReleaseLock(c) PROVE NumberInv'
  <2>1. Apart(c) /\ UNCHANGED <<nextSeq, issued, rowLock>>
    BY <1>t, <1>4, StepIsApart DEF ReleaseLock, Step
  <2> QED
    BY <1>4, <1>q, <1>m, <2>1 DEF ReleaseLock, PastLock
<1>5. ASSUME NEW c \in Callers, SaveAccount(c) PROVE NumberInv'
  <2>1. Apart(c) /\ UNCHANGED <<nextSeq, rowLock>> /\ PastLock(c)
    BY <1>t, <1>5, StepIsApart DEF SaveAccount, Step, PastLock
  <2>2. CASE Succeed(c)
    BY <2>1, <2>2, NumberIssued
  <2>3. CASE Goto(c, "pending") /\ UNCHANGED <<local, issued>>
    BY <1>m, <2>1, <2>3
  <2>4. CASE Respond(c) /\ UNCHANGED issued
    BY <1>q, <2>1, <2>4
  <2> QED
    BY <1>5, <2>2, <2>3, <2>4 DEF SaveAccount
<1>6. ASSUME NEW c \in Callers, CheckPending(c) \/ SaveInquiry(c) PROVE NumberInv'
  <2>1. Apart(c) /\ UNCHANGED <<nextSeq, issued, rowLock>> /\ PastLock(c)
    BY <1>t, <1>6, StepIsApart DEF CheckPending, SaveInquiry, Step, PastLock
  <2> QED
    BY <1>6, <1>q, <1>m, <2>1 DEF CheckPending, SaveInquiry
<1>7. ASSUME NEW c \in Callers, SaveBills(c) PROVE NumberInv'
  <2>1. Apart(c) /\ UNCHANGED <<nextSeq, rowLock>> /\ PastLock(c)
    BY <1>t, <1>7, StepIsApart DEF SaveBills, Step, PastLock
  <2> QED
    BY <1>7, <1>q, <2>1, NumberIssued DEF SaveBills
<1>8. ASSUME NEW c \in Callers, Crash(c) PROVE NumberInv'
  <2>1. Apart(c) /\ UNCHANGED <<nextSeq, issued>> /\ Respond(c)
    BY <1>t, <1>8, StepIsApart DEF Crash
  <2>2. \A t \in DynamicTypes : rowLock[t] # c => rowLock'[t] = rowLock[t]
    BY <1>8 DEF Crash
  <2> QED
    BY <1>q, <2>1, <2>2
<1>9. ASSUME UNCHANGED <<nextSeq, rowLock, pc, local, issued>> PROVE NumberInv'
  BY <1>9 DEF IInv, NumberInv, RowHeld, NumbersInHand, NumbersIssued, UniqueCustomerNo, HasNumber,
              PastLock, Generated, local
<1>10. CASE (\E v \in pending : Close(v)) \/ (\E k \in locks : LockExpires(k))
  BY <1>9, <1>10 DEF Close, LockExpires
<1>11. CASE UNCHANGED vars
  BY <1>9, <1>11 DEF vars
<1> QED
  BY <1>1, <1>2, <1>3, <1>4, <1>5, <1>6, <1>7, <1>8, <1>10, <1>11, NumberRead, NumberUsedUp
     DEF Next, Step

\* Calls are counted as they arrive; a call is answered after it arrived.
LEMMA CallsStep == IInv /\ [Next]_vars => CallsCounted'
<1> SUFFICES ASSUME IInv, [Next]_vars PROVE CallsCounted'
  OBVIOUS
<1>t. TypeOK /\ CallsCounted /\ calls \in Nat
  BY DEF IInv, TypeOK
<1>a. \A c \in Callers : pc[c] # "idle" => req[c].call \in 0 .. calls
  BY <1>t, RequestFields DEF TypeOK, CallsCounted
<1>m. ASSUME NEW c \in Callers, Apart(c), pc'[c] = "idle" \/ (req'[c] = req[c] /\ pc[c] # "idle"),
             UNCHANGED calls, UNCHANGED issued \/ (Succeed(c) /\ pc[c] # "idle")
      PROVE  CallsCounted'
  <2>1. \A d \in Callers : pc'[d] # "idle" => pc[d] # "idle" /\ req'[d] = req[d]
    BY <1>m DEF Apart
  <2>2. \A i \in issued' : i.call \in 0 .. calls /\ i.answered \in 0 .. calls
    <3>1. CASE UNCHANGED issued
      BY <1>t, <3>1 DEF CallsCounted
    <3>2. CASE Succeed(c) /\ pc[c] # "idle"
      BY <1>t, <1>a, <3>2 DEF CallsCounted, Succeed
    <3> QED
      BY <1>m, <3>1, <3>2
  <2> QED
    BY <1>t, <1>m, <2>1, <2>2 DEF CallsCounted
<1>1. ASSUME NEW c \in Callers, Arrive(c) PROVE CallsCounted'
  <2>1. PICK r \in Accepted : req' = [req EXCEPT ![c] = [r EXCEPT !.call = calls + 1]]
    BY <1>1 DEF Arrive
  <2>2. r \in Request /\ calls + 1 \in 0 .. MaxCalls /\ calls' = calls + 1 /\ UNCHANGED issued
    BY <1>t, <1>1, SequenceAssumption DEF Accepted, Arrive, TypeOK
  <2>3. req'[c].call = calls + 1
    BY <1>t, <2>1, <2>2, CallIsNotChecked DEF TypeOK
  <2>4. \A d \in Callers : pc'[d] # "idle" => req'[d].call \in 0 .. calls + 1
    BY <1>t, <1>a, <1>1, <2>2, <2>3, StepIsApart DEF Apart
  <2> QED
    BY <1>t, <2>2, <2>4 DEF CallsCounted
<1>2. ASSUME NEW c \in Callers, Step(c) \/ Crash(c) PROVE CallsCounted'
  <2>1. Apart(c) /\ UNCHANGED calls /\ pc[c] # "idle"
    BY <1>t, <1>2, StepIsApart
       DEF Step, AcquireLock, SelectSequence, UpdateSequence, CountAccounts, ReleaseLock,
           SaveAccount, CheckPending, SaveInquiry, SaveBills, Crash
  <2>2. pc'[c] = "idle" \/ req' = req
    BY <1>t, <1>2
       DEF Step, AcquireLock, SelectSequence, UpdateSequence, CountAccounts, ReleaseLock,
           SaveAccount, CheckPending, SaveInquiry, SaveBills, Crash, Succeed, Respond, Goto,
           local, TypeOK
  <2>3. UNCHANGED issued \/ Succeed(c)
    BY <1>2
       DEF Step, AcquireLock, SelectSequence, UpdateSequence, CountAccounts, ReleaseLock,
           SaveAccount, CheckPending, SaveInquiry, SaveBills, Crash
  <2> QED
    BY <1>m, <2>1, <2>2, <2>3
<1>3. CASE (\E v \in pending : Close(v)) \/ (\E k \in locks : LockExpires(k)) \/ UNCHANGED vars
  BY <1>t, <1>3 DEF Close, LockExpires, vars, local, CallsCounted
<1> QED
  BY <1>1, <1>2, <1>3 DEF Next

\* Nothing is locked, registered or given out at the start.
LEMMA IInvInit == Init => IInv
<1> SUFFICES ASSUME Init PROVE IInv
  OBVIOUS
<1>1. TypeOK
  BY SequenceAssumption DEF Init, TypeOK, PCs
<1>2. RequestInOrder /\ RowHeld /\ CallsCounted /\ UniqueCustomerNo /\ NumbersIssued
  BY DEF Init, RequestInOrder, RowHeld, CallsCounted, UniqueCustomerNo, NumbersIssued
<1>3. NumbersInHand
  BY DEF Init, NumbersInHand, HasNumber, PastLock
<1> QED
  BY <1>1, <1>2, <1>3 DEF IInv

\* The invariant is inductive.
LEMMA IInvStep == IInv /\ [Next]_vars => IInv'
  BY OrderStep, NumberStep, CallsStep DEF IInv, NumberInv

\* The invariant holds throughout.
LEMMA Inductive == Spec => []IInv
  BY IInvInit, IInvStep, PTL DEF Spec

\* Sequences, locks, registrations and callers stay within their types.
THEOREM TypeCorrect == Spec => []TypeOK
  BY Inductive, PTL DEF IInv

\* FR-005: however many replicas and calls, and whichever Redis lock lapses, is
\* deleted by another or left behind, no customerNo of a sequence is given twice.
THEOREM CustomerNoGivenOnce == Spec => []UniqueCustomerNo
  BY Inductive, PTL DEF IInv

-----------------------------------------------------------------------------
(* The numbers merchants choose                                            *)

\* No merchant asks for a dynamic VA under a number that is a partner's and a
\* customerNo put together.
OwnVAsApart == \A v \in OwnVAs, p \in Partners, c \in Numbers : v # Concat(p, c)

\* A VA number tells its parts.
LEMMA ConcatTells ==
  ASSUME NEW p \in Partners, NEW q \in Partners, NEW c \in Numbers, NEW d \in Numbers,
         Concat(p, c) = Concat(q, d)
  PROVE  p = q /\ c = d
<1>1. p.id = q.id /\ c.no = d.no /\ p.len + c.len = q.len + d.len
  BY DEF Concat
<1>2. c = d
  BY <1>1, TextAssumption
<1>3. p.len = q.len
  BY <1>1, <1>2, TextAssumption
<1> QED
  BY <1>1, <1>2, <1>3, TextAssumption

\* A step in which c is not issued anything and comes no nearer to it.
LEMMA StaticKept ==
  ASSUME IInv, StaticInv, NEW c \in Callers, Apart(c), UNCHANGED <<accounts, issued>>,
         PastLock(c)' => \/ PastLock(c) /\ req'[c] = req[c] /\ cust'[c] = cust[c]
                         \/ req'[c].type \notin Types \ DynamicTypes
                         \/ NoBill(req'[c]) /\ pc'[c] = "account",
         pc'[c] \in {"pending", "save", "bills"} =>
            \/ pc[c] \in {"pending", "save", "bills"} /\ req'[c] = req[c] /\ cust'[c] = cust[c]
            \/ req'[c].type \notin Types \ DynamicTypes
  PROVE  StaticInv'
<1>1. AccountsAreConcat' /\ RegisteredOnceInTurn'
  BY DEF StaticInv, AccountsAreConcat, RegisteredOnceInTurn, StaticBilled, SameNumber
<1>2. StaticOnFile'
  <2>1. \A i \in issued' : StaticBilled(i) => OnFile(i.partner, i.cust)'
    BY DEF StaticInv, StaticOnFile, OnFile
  <2>2. ASSUME NEW d \in Callers, pc'[d] \in {"pending", "save", "bills"},
               req'[d].type \in Types \ DynamicTypes
        PROVE  OnFile(req[d].partner, cust[d])'
    BY <2>2 DEF StaticInv, StaticOnFile, OnFile, Apart
  <2> QED
    BY <2>1, <2>2 DEF StaticOnFile
<1>3. FreeWhenCounted'
  <2> SUFFICES ASSUME NEW d \in Callers, PastLock(d)', req'[d].type \in Types \ DynamicTypes,
                      ~NoBill(req'[d]), NEW i \in issued, StaticBilled(i),
                      i.partner = req'[d].partner, i.cust = cust'[d]
               PROVE  ~(i.answered < req'[d].call)
    BY DEF FreeWhenCounted
  <2>1. PastLock(d) /\ req'[d] = req[d] /\ cust'[d] = cust[d]
    BY DEF Apart, PastLock
  <2> QED
    BY <2>1 DEF StaticInv, FreeWhenCounted
<1> QED
  BY <1>1, <1>2, <1>3 DEF StaticInv

\* A number is given out: it is on file, and was free when the call came.
LEMMA StaticIssued ==
  ASSUME IInv, StaticInv, NEW c \in Callers, Apart(c), Succeed(c), PastLock(c),
         accounts \subseteq accounts', AccountsAreConcat', UNCHANGED calls,
         pc[c] = "bills" \/ NoBill(req[c])
  PROVE  StaticInv'
<1>t. TypeOK /\ RequestInOrder /\ CallsCounted /\ calls \in Nat
  BY DEF IInv, TypeOK
<1>1. pc'[c] = "idle"
  BY <1>t, Answered DEF Succeed
<1>2. PICK new : /\ issued' = issued \cup {new} /\ new.type = req[c].type /\ new.cust = cust[c]
                 /\ new.partner = req[c].partner /\ new.call = req[c].call /\ new.answered = calls
                 /\ new.noBill = NoBill(req[c])
  <2> DEFINE new == [type |-> req[c].type, partner |-> req[c].partner, cust |-> cust[c], va |-> VA(c),
           name |-> req[c].name, call |-> req[c].call, answered |-> calls,
           own |-> Dynamic(req[c]) /\ req[c].va # BlankVA, noBill |-> NoBill(req[c])]
  <2>1. /\ issued' = issued \cup {new} /\ new.type = req[c].type /\ new.cust = cust[c]
        /\ new.partner = req[c].partner /\ new.call = req[c].call /\ new.answered = calls
        /\ new.noBill = NoBill(req[c])
    BY DEF Succeed
  <2> QED
    BY <2>1
<1>3. req[c].call \in Nat /\ req[c].call <= calls
  BY <1>t, RequestFields DEF PastLock, CallsCounted, TypeOK
<1>4. \A p, x : OnFile(p, x) => OnFile(p, x)'
  BY DEF OnFile
<1>5. StaticBilled(new) => OnFile(new.partner, new.cust)
  BY <1>2 DEF StaticBilled, StaticInv, StaticOnFile
<1>6. StaticOnFile'
  <2>1. \A i \in issued' : StaticBilled(i) => OnFile(i.partner, i.cust)'
    BY <1>2, <1>4, <1>5 DEF StaticInv, StaticOnFile
  <2>2. ASSUME NEW d \in Callers, pc'[d] \in {"pending", "save", "bills"},
               req'[d].type \in Types \ DynamicTypes
        PROVE  OnFile(req[d].partner, cust[d])'
    <3>1. OnFile(req[d].partner, cust[d]) /\ req'[d] = req[d] /\ cust'[d] = cust[d]
      BY <1>1, <2>2 DEF StaticInv, StaticOnFile, Apart
    <3> QED
      BY <3>1 DEF OnFile
  <2> QED
    BY <2>1, <2>2 DEF StaticOnFile
<1>7. FreeWhenCounted'
  <2> SUFFICES ASSUME NEW d \in Callers, PastLock(d)', req'[d].type \in Types \ DynamicTypes,
                      ~NoBill(req'[d]), NEW i \in issued', StaticBilled(i),
                      i.partner = req'[d].partner, i.cust = cust'[d]
               PROVE  ~(i.answered < req'[d].call)
    BY DEF FreeWhenCounted
  <2>1. PastLock(d) /\ req'[d] = req[d] /\ cust'[d] = cust[d]
    BY <1>1 DEF Apart, PastLock
  <2>2. req[d].call \in Nat /\ req[d].call <= calls
    BY <1>t, <2>1, RequestFields DEF PastLock, CallsCounted, TypeOK
  <2> QED
    BY <1>t, <1>2, <2>1, <2>2 DEF StaticInv, FreeWhenCounted
<1>8. RegisteredOnceInTurn'
  <2> SUFFICES ASSUME NEW i \in issued', NEW j \in issued', StaticBilled(i), StaticBilled(j), SameNumber(i, j)
               PROVE  ~(i.answered < j.call)
    BY DEF RegisteredOnceInTurn, StaticBilled, SameNumber
  <2>1. CASE i \in issued /\ j \in issued
    BY <2>1 DEF StaticInv, RegisteredOnceInTurn
  <2>2. CASE i = new
    <3>1. j.call \in Nat /\ j.call <= calls
      BY <1>t, <1>2, <1>3 DEF CallsCounted
    <3> QED
      BY <1>t, <1>2, <2>2, <3>1
  <2>3. CASE i \in issued /\ j = new
    BY <1>2, <2>3 DEF StaticInv, FreeWhenCounted, StaticBilled, SameNumber
  <2> QED
    BY <1>2, <2>1, <2>2, <2>3
<1> QED
  BY <1>6, <1>7, <1>8 DEF StaticInv

\* A registration: whoever goes on is on file with his own number.
LEMMA StaticSaved ==
  ASSUME OwnVAsApart, IInv, StaticInv, NEW c \in Callers, SaveAccount(c)
  PROVE  StaticInv'
<1>t. TypeOK /\ RequestInOrder /\ Apart(c) /\ UNCHANGED calls
  BY StepIsApart DEF IInv, Step, SaveAccount
<1>1. pc[c] = "account" /\ PastLock(c) /\ cust[c] # Blank
  BY <1>t DEF SaveAccount, PastLock, TypeOK
<1>2. /\ cust[c] \in Numbers /\ req[c].partner \in Partners
      /\ ~Dynamic(req[c]) => VA(c) = Concat(req[c].partner, cust[c])
      /\ VA(c) \in OwnVAs \/ VA(c) = Concat(req[c].partner, cust[c])
      /\ req[c].type \notin DynamicTypes => ~Dynamic(req[c])
  BY <1>t, <1>1, VAIsVA, InProgress
<1>3. accounts \subseteq accounts' /\ AccountsAreConcat'
  <2>1. CASE UNCHANGED accounts
    BY <2>1 DEF StaticInv, AccountsAreConcat
  <2>2. CASE accounts' = accounts \cup {[va |-> VA(c), partner |-> req[c].partner, cust |-> cust[c],
                                         type |-> req[c].type]}
    BY <1>2, <2>2 DEF StaticInv, AccountsAreConcat
  <2> QED
    BY <2>1, <2>2 DEF SaveAccount
<1>4. CASE Succeed(c) /\ NoBill(req[c])
  BY <1>t, <1>1, <1>3, <1>4, StaticIssued
<1>5. CASE Respond(c) /\ UNCHANGED <<accounts, issued>>
  <2>1. pc'[c] = "idle"
    BY <1>t, <1>5, Answered
  <2> QED
    BY <1>t, <1>5, <2>1, StaticKept DEF PastLock
<1>6. CASE /\ Goto(c, "pending") /\ UNCHANGED <<local, issued>>
           /\ \/ (\E a \in accounts : a.va = VA(c)) /\ UNCHANGED accounts
              \/ accounts' = accounts \cup {[va |-> VA(c), partner |-> req[c].partner, cust |-> cust[c],
                                             type |-> req[c].type]}
  <2>1. pc'[c] = "pending" /\ UNCHANGED <<req, cust, seq, outcome>>
    BY <1>t, <1>6 DEF Goto, TypeOK, local
  <2>2. req[c].type \in Types \ DynamicTypes => OnFile(req[c].partner, cust[c])'
    <3> SUFFICES ASSUME req[c].type \in Types \ DynamicTypes
                 PROVE  \E a \in accounts' : a.partner = req[c].partner /\ a.cust = cust[c]
      BY <2>1 DEF OnFile
    <3>1. ASSUME NEW a \in accounts, a.va = VA(c)
          PROVE  a.partner = req[c].partner /\ a.cust = cust[c]
      <4>1. a.partner \in Partners /\ a.cust \in Numbers
        BY <1>t DEF TypeOK, Account
      <4>2. VA(c) = Concat(req[c].partner, cust[c])
        BY <1>2
      <4>3. a.va = Concat(a.partner, a.cust)
        BY <1>2, <3>1, <4>2 DEF StaticInv, AccountsAreConcat, OwnVAsApart
      <4> QED
        BY <1>2, <3>1, <4>1, <4>2, <4>3, ConcatTells
    <3>2. CASE (\E a \in accounts : a.va = VA(c)) /\ UNCHANGED accounts
      BY <3>1, <3>2
    <3>3. CASE accounts' = accounts \cup {[va |-> VA(c), partner |-> req[c].partner,
                                          cust |-> cust[c], type |-> req[c].type]}
      <4> DEFINE new == [va |-> VA(c), partner |-> req[c].partner, cust |-> cust[c],
                         type |-> req[c].type]
      <4>1. new.partner = req[c].partner /\ new.cust = cust[c]
        OBVIOUS
      <4>2. new \in accounts'
        BY <3>3
      <4> HIDE DEF new
      <4> QED
        BY <4>1, <4>2
    <3> QED
      BY <1>6, <3>2, <3>3
  <2>3. StaticOnFile'
    <3>1. \A i \in issued' : StaticBilled(i) => OnFile(i.partner, i.cust)'
      BY <1>3, <1>6 DEF StaticInv, StaticOnFile, OnFile
    <3>2. ASSUME NEW d \in Callers, pc'[d] \in {"pending", "save", "bills"},
                 req'[d].type \in Types \ DynamicTypes
          PROVE  OnFile(req[d].partner, cust[d])'
      <4>1. CASE d = c
        BY <2>1, <2>2, <3>2, <4>1
      <4>2. CASE d # c
        <5>1. OnFile(req[d].partner, cust[d])
          BY <1>t, <2>1, <3>2, <4>2 DEF Apart, StaticInv, StaticOnFile
        <5> QED
          BY <1>3, <2>1, <5>1 DEF OnFile
      <4> QED
        BY <4>1, <4>2
    <3> QED
      BY <3>1, <3>2 DEF StaticOnFile
  <2>4. FreeWhenCounted'
    <3>1. \A d \in Callers : PastLock(d)' => PastLock(d)
      BY <1>t, <1>1 DEF PastLock, Apart
    <3> QED
      BY <1>6, <2>1, <3>1 DEF StaticInv, FreeWhenCounted
  <2>5. RegisteredOnceInTurn'
    BY <1>6 DEF StaticInv, RegisteredOnceInTurn
  <2> QED
    BY <1>3, <2>3, <2>4, <2>5 DEF StaticInv
<1> QED
  BY <1>4, <1>5, <1>6 DEF SaveAccount

\* The count: a number that was given is found on file.
LEMMA StaticCounted ==
  ASSUME IInv, StaticInv, NEW c \in Callers, CountAccounts(c)
  PROVE  StaticInv'
<1>t. TypeOK /\ RequestInOrder /\ Apart(c)
  BY StepIsApart DEF IInv, Step
<1>1. pc[c] = "count" /\ pc'[c] = "unlock" /\ UNCHANGED <<req, cust, accounts, issued>>
  BY <1>t DEF CountAccounts, Found, Goto, TypeOK, registry
<1>2. cust[c] = req[c].cust
  BY <1>t, <1>1 DEF RequestInOrder
<1>3. outcome'[c] = "ok" => ~OnFile(req[c].partner, cust[c])
  BY <1>t, <1>2 DEF CountAccounts, Found, TypeOK, OnFile
<1>4. AccountsAreConcat' /\ RegisteredOnceInTurn'
  BY <1>1 DEF StaticInv, AccountsAreConcat, RegisteredOnceInTurn
<1>5. StaticOnFile'
  <2>1. \A d \in Callers : pc'[d] \in {"pending", "save", "bills"} => pc[d] = pc'[d]
    BY <1>t, <1>1 DEF Apart
  <2> QED
    BY <1>1, <2>1 DEF StaticInv, StaticOnFile, OnFile
<1>6. FreeWhenCounted'
  <2> SUFFICES ASSUME NEW d \in Callers, PastLock(d)', req[d].type \in Types \ DynamicTypes,
                      ~NoBill(req[d]), NEW i \in issued, StaticBilled(i),
                      i.partner = req[d].partner, i.cust = cust[d]
               PROVE  ~(i.answered < req[d].call)
    BY <1>1 DEF FreeWhenCounted
  <2>1. CASE d = c
    <3>1. outcome'[c] = "ok"
      BY <1>1, <2>1 DEF PastLock
    <3> QED
      BY <1>3, <2>1, <3>1 DEF StaticInv, StaticOnFile
  <2>2. CASE d # c
    BY <1>t, <2>2 DEF Apart, PastLock, StaticInv, FreeWhenCounted
  <2> QED
    BY <2>1, <2>2
<1> QED
  BY <1>4, <1>5, <1>6 DEF StaticInv

\* Every step.
LEMMA StaticStep ==
  ASSUME OwnVAsApart
  PROVE  IInv /\ StaticInv /\ [Next]_vars => StaticInv'
<1> SUFFICES ASSUME IInv, StaticInv, [Next]_vars PROVE StaticInv'
  OBVIOUS
<1>t. TypeOK /\ RequestInOrder
  BY DEF IInv
<1>q. ASSUME NEW c \in Callers, Respond(c), Apart(c), UNCHANGED <<accounts, issued>>
      PROVE  StaticInv'
  <2>1. pc'[c] = "idle"
    BY <1>t, <1>q, Answered
  <2> QED
    BY <1>q, <2>1, StaticKept DEF PastLock
<1>1. ASSUME NEW c \in Callers, Arrive(c) PROVE StaticInv'
  <2>1. PICK r \in Accepted :
         /\ req' = [req EXCEPT ![c] = [r EXCEPT !.call = calls + 1]]
         /\ Goto(c, IF Dynamic(r) \/ (Managed(r) /\ ~NoBill(r)) THEN "lock"
                    ELSE IF Managed(r) THEN "account" ELSE "pending")
    BY <1>1 DEF Arrive
  <2>2. /\ r \in Request /\ WellFormed(r) /\ calls + 1 \in 0 .. MaxCalls
        /\ pc'[c] \in {"lock", "account", "pending"}
        /\ pc'[c] = "account" => NoBill(r)
        /\ pc'[c] = "pending" => ~Managed(r)
    BY <1>t, <1>1, <2>1, SequenceAssumption DEF Accepted, Arrive, TypeOK, Goto
  <2>3. req'[c].type = r.type /\ (NoBill(req'[c]) <=> NoBill(r))
    BY <1>t, <2>1, <2>2, CallIsNotChecked DEF TypeOK
  <2>4. pc'[c] = "pending" => req'[c].type \notin Types
    BY <2>2, <2>3, OneRulePerType
  <2> QED
    BY <1>t, <1>1, <2>2, <2>3, <2>4, StaticKept, StepIsApart DEF Arrive, registry, PastLock
<1>2. ASSUME NEW c \in Callers, AcquireLock(c) \/ SelectSequence(c) PROVE StaticInv'
  <2>1. Apart(c) /\ UNCHANGED <<accounts, issued>>
    BY <1>t, <1>2, StepIsApart DEF AcquireLock, SelectSequence, Step, registry
  <2>2. \/ Respond(c)
        \/ pc'[c] \in {"select", "count", "update"}
        \/ pc'[c] = "unlock" /\ outcome'[c] = "error"
    BY <1>t, <1>2 DEF AcquireLock, SelectSequence, Found, Goto, TypeOK
  <2> QED
    BY <1>q, <2>1, <2>2, StaticKept DEF PastLock
<1>3. ASSUME NEW c \in Callers, UpdateSequence(c) PROVE StaticInv'
  <2>1. /\ Apart(c) /\ UNCHANGED <<accounts, issued, req>> /\ pc[c] = "update" /\ pc'[c] = "unlock"
    BY <1>t, <1>3, StepIsApart DEF UpdateSequence, Found, Goto, TypeOK, Step, registry
  <2>2. req'[c].type \in DynamicTypes
    BY <1>t, <2>1, InProgress DEF RequestInOrder
  <2> QED
    BY <2>1, <2>2, StaticKept
<1>4. ASSUME NEW c \in Callers, ReleaseLock(c) PROVE StaticInv'
  <2>1. Apart(c) /\ UNCHANGED <<accounts, issued>> /\ pc[c] = "unlock"
    BY <1>t, <1>4, StepIsApart DEF ReleaseLock, Step, registry
  <2>2. Respond(c) \/ (outcome[c] = "ok" /\ UNCHANGED local /\ pc'[c] = "account")
    BY <1>t, <1>4 DEF ReleaseLock, Goto, TypeOK
  <2> QED
    BY <1>q, <2>1, <2>2, StaticKept DEF PastLock, local
<1>5. ASSUME NEW c \in Callers, CheckPending(c) \/ SaveInquiry(c) PROVE StaticInv'
  <2>1. Apart(c) /\ UNCHANGED <<accounts, issued>> /\ pc[c] \in {"pending", "save"}
    BY <1>t, <1>5, StepIsApart DEF CheckPending, SaveInquiry, Step, registry
  <2>2. Respond(c) \/ (UNCHANGED local /\ pc'[c] \in {"save", "bills"})
    BY <1>t, <1>5 DEF CheckPending, SaveInquiry, Goto, TypeOK
  <2> QED
    BY <1>q, <2>1, <2>2, StaticKept DEF PastLock, local
<1>6. ASSUME NEW c \in Callers, SaveBills(c) \/ Crash(c) PROVE StaticInv'
  <2>1. Apart(c) /\ UNCHANGED <<accounts, calls>>
    BY <1>t, <1>6, StepIsApart DEF SaveBills, Crash, Step, registry
  <2>2. CASE Succeed(c) /\ pc[c] = "bills"
    BY <2>1, <2>2, StaticIssued DEF PastLock, StaticInv, AccountsAreConcat
  <2>3. CASE Respond(c) /\ UNCHANGED issued
    BY <1>q, <2>1, <2>3
  <2> QED
    BY <1>6, <2>2, <2>3 DEF SaveBills, Crash
<1>7. ASSUME UNCHANGED <<accounts, pc, local, issued>> PROVE StaticInv'
  BY <1>7 DEF StaticInv, AccountsAreConcat, StaticOnFile, FreeWhenCounted, RegisteredOnceInTurn,
              PastLock, OnFile, local
<1>8. CASE (\E v \in pending : Close(v)) \/ (\E k \in locks : LockExpires(k)) \/ UNCHANGED vars
  BY <1>7, <1>8 DEF Close, LockExpires, vars, registry
<1> QED
  BY <1>1, <1>2, <1>3, <1>4, <1>5, <1>6, <1>8, StaticSaved, StaticCounted DEF Next, Step

\* FR-008, for calls one after the other: once a static customerNo of a billed type
\* was answered, no later call is given it, whatever failed and whatever became of
\* its transaction, provided that nobody asked for a dynamic VA under the number.
THEOREM StaticGivenOnceInTurn ==
  ASSUME OwnVAsApart
  PROVE  Spec => []RegisteredOnceInTurn
<1>1. Init => StaticInv
  BY DEF Init, StaticInv, AccountsAreConcat, StaticOnFile, FreeWhenCounted, RegisteredOnceInTurn, PastLock
<1>2. IInv /\ StaticInv /\ [Next]_vars => StaticInv'
  BY StaticStep
<1>3. StaticInv => RegisteredOnceInTurn
  BY DEF StaticInv
<1> QED
  BY <1>1, <1>2, <1>3, Inductive, PTL DEF Spec

-----------------------------------------------------------------------------
(* What the bank may do with a number issued: SnapValidation               *)

\* When no check of a validator fails there is no violation.
LEMMA NoneFails ==
    ASSUME NEW checks, \A k \in DOMAIN checks : ~checks[k].bad
    PROVE  FirstViolation(checks) = NoViolation
BY DEF FirstViolation

\* Two lists of checks pass together if each does.
LEMMA BothPass ==
    ASSUME NEW S, NEW s \in Seq(S), NEW t \in Seq(S),
           \A k \in DOMAIN s : ~s[k].bad, \A k \in DOMAIN t : ~t[k].bad
    PROVE  \A k \in DOMAIN (s \o t) : ~(s \o t)[k].bad
<1>1. Len(s) \in Nat /\ Len(t) \in Nat /\ DOMAIN s = 1 .. Len(s) /\ DOMAIN t = 1 .. Len(t)
  OBVIOUS
<1>2. DOMAIN (s \o t) = 1 .. Len(s) + Len(t)
  OBVIOUS
<1>3. SUFFICES ASSUME NEW k \in 1 .. Len(s) + Len(t) PROVE ~(s \o t)[k].bad
  BY <1>2
<1>4. CASE k <= Len(s)
  <2>1. k \in DOMAIN s /\ (s \o t)[k] = s[k]
    BY <1>1, <1>4
  <2> QED
    BY <2>1
<1>5. CASE k > Len(s)
  <2>1. k - Len(s) \in DOMAIN t /\ (s \o t)[k] = t[k - Len(s)]
    BY <1>1, <1>5
  <2> QED
    BY <2>1
<1> QED
  BY <1>1, <1>4, <1>5

\* A check that does not fail.
LEMMA PassedCheck == \A b, v : ~b => ~Check(b, v).bad
BY DEF Check

\* A validator that finds nothing, called inside another one.
LEMMA PassedNested == \A v : v = NoViolation => ~Nested(v).bad
BY DEF Nested, Check

\* An identity within the limits whose VA number is made of its parts passes.
LEMMA IdentityPasses ==
    ASSUME NEW id, NEW maxCust \in Nat, NEW maxVA \in Nat,
           id.partner.len \in 1 .. MaxPartnerServiceID, id.cust.len \in 1 .. maxCust,
           id.va.len \in 1 .. maxVA, id.va.cust = id.cust.no, id.va.partner = id.partner.id
    PROVE  RequireVAIdentity(id, maxCust, maxVA) = NoViolation
<1> DEFINE checks == <<
        Check(id.partner.len = 0, Mandatory("partnerServiceId")),
        Check(id.partner.len > MaxPartnerServiceID, BadFormat("partnerServiceId")),
        Check(id.cust.len = 0, Mandatory("customerNo")),
        Check(id.cust.len > maxCust, BadFormat("customerNo")),
        Check(id.va.len = 0, Mandatory("virtualAccountNo")),
        Check(id.va.len > maxVA, BadFormat("virtualAccountNo")),
        Check(id.va.cust # id.cust.no, BadFormat("virtualAccountNo")),
        Check(id.va.partner # id.partner.id, BadFormat("virtualAccountNo"))>>
<1>1. ~ (id.partner.len = 0) /\ ~ (id.partner.len > MaxPartnerServiceID)
  BY DEF MaxPartnerServiceID
<1>2. ~ (id.cust.len = 0) /\ ~ (id.cust.len > maxCust) /\ ~ (id.va.len = 0) /\ ~ (id.va.len > maxVA)
  OBVIOUS
<1>3. ~ (id.va.cust # id.cust.no) /\ ~ (id.va.partner # id.partner.id)
  OBVIOUS
<1>4. DOMAIN checks = 1 .. 8
  OBVIOUS
<1>5. ~checks[1].bad /\ ~checks[2].bad
  BY <1>1, PassedCheck
<1>6. ~checks[3].bad /\ ~checks[4].bad /\ ~checks[5].bad /\ ~checks[6].bad
  BY <1>2, PassedCheck
<1>7. ~checks[7].bad /\ ~checks[8].bad
  BY <1>3, PassedCheck
<1>8. RequireVAIdentity(id, maxCust, maxVA) = FirstViolation(checks)
  BY DEF RequireVAIdentity
<1> HIDE DEF checks
<1>9. \A k \in 1 .. 8 : ~checks[k].bad
  BY <1>5, <1>6, <1>7
<1> QED
  BY <1>4, <1>8, <1>9, NoneFails

\* The bank's identity of what is issued passes, and so does the name it is issued to.
Identified(i) ==
    RequireVAIdentity(BankIdentity(i), MaxPaymentCustomerNo, MaxPaymentVirtualAccountNo) = NoViolation
Named(i) == i.name \in 1 .. MaxVirtualAccountName

\* What is issued without a VA number of the merchant's own, within the limits.
Fits(i) ==
    /\ i.partner.len \in 0 .. MaxPartnerServiceID
    /\ i.cust.len \in 1 .. MaxIssuedCustomerNo
    /\ ~i.own

\* The bank's identity of it passes, and is within BCA's own limits.
LEMMA BankIdentityPasses ==
    ASSUME NEW i, Fits(i)
    PROVE  Identified(i) /\ BankIdentity(i).cust.len <= 18 /\ BankIdentity(i).va.len <= 26
<1> DEFINE id == BankIdentity(i)
<1>1. /\ id.partner = BankPartner(i.partner) /\ id.cust = i.cust
      /\ id.va = Concat(BankPartner(i.partner), i.cust)
  BY DEF BankIdentity, Fits
<1>2. BankPartner(i.partner).len = 8
  BY DEF BankPartner, Fits, MaxPartnerServiceID
<1> HIDE DEF id
<1>3. /\ id.partner.len \in 1 .. MaxPartnerServiceID /\ id.cust.len \in 1 .. 18
      /\ id.va.len \in 1 .. 26 /\ id.va.cust = id.cust.no /\ id.va.partner = id.partner.id
  BY <1>1, <1>2 DEF Concat, Fits, MaxPartnerServiceID, MaxIssuedCustomerNo
<1>4. RequireVAIdentity(id, 20, 28) = NoViolation
  <2>1. id.cust.len \in 1 .. 20 /\ id.va.len \in 1 .. 28
    BY <1>3
  <2> QED
    BY <1>3, <2>1, IdentityPasses
<1> QED
  BY <1>3, <1>4 DEF id, Identified, MaxPaymentCustomerNo, MaxPaymentVirtualAccountNo

\* The bank's inquiry, with an id within 30 characters, passes.
LEMMA InquiryPasses ==
    ASSUME NEW i, Identified(i), NEW n \in 1 .. MaxPaymentRequestID, NEW strict \in BOOLEAN
    PROVE  InquiryAnswer(BankInquiry(i, n), strict) = Passed
<1> DEFINE r == BankInquiry(i, n)
           checks == <<
        Nested(RequireVAIdentity(r.id, MaxInquiryCustomerNo, MaxInquiryVirtualAccountNo)),
        Check(r.inquiryRequestId = 0, Mandatory("inquiryRequestId")),
        Check(r.inquiryRequestId > MaxInquiryRequestID, BadFormat("inquiryRequestId")),
        Check(r.channelCode = "unknown", BadFormat("channelCode")),
        Nested(ValidateOptionalAmount(r.amount, "amount")),
        Check(strict /\ ~r.trxDateInit, Mandatory("trxDateInit")),
        Check(strict /\ r.channelCode = "absent", Mandatory("channelCode")),
        Check(OverLong(r.texts, InquiryOptional), BadFormat("optional"))>>
<1>1. /\ r.id = BankIdentity(i) /\ r.inquiryRequestId = n /\ r.channelCode = "known"
      /\ r.amount = NoAmount /\ r.trxDateInit = TRUE
      /\ r.texts = [f \in DOMAIN InquiryOptional |-> InquiryOptional[f]]
  BY DEF BankInquiry
<1>2. ~OverLong(r.texts, InquiryOptional)
  <2>1. \A f \in DOMAIN InquiryOptional : InquiryOptional[f] \in Nat
    BY DEF InquiryOptional
  <2> QED
    BY <1>1, <2>1 DEF OverLong
<1>3. ValidateOptionalAmount(r.amount, "amount") = NoViolation
  BY <1>1 DEF ValidateOptionalAmount, NoAmount
<1>4. RequireVAIdentity(r.id, MaxInquiryCustomerNo, MaxInquiryVirtualAccountNo) = NoViolation
  BY <1>1 DEF Identified, MaxInquiryCustomerNo, MaxInquiryVirtualAccountNo, MaxPaymentCustomerNo,
     MaxPaymentVirtualAccountNo
<1>9. InquiryAnswer(r, strict) = IF FirstViolation(checks) = NoViolation THEN Passed
                                 ELSE ViolationCode("24", FirstViolation(checks))
  BY DEF InquiryAnswer, ValidateInquiryRequest
<1> HIDE DEF r
<1>5. DOMAIN checks = 1 .. 8
  OBVIOUS
<1>6. ~checks[2].bad /\ ~checks[3].bad /\ ~checks[4].bad
  <2>1. ~(r.inquiryRequestId = 0) /\ ~(r.inquiryRequestId > MaxInquiryRequestID) /\ ~(r.channelCode = "unknown")
    BY <1>1 DEF MaxInquiryRequestID, MaxPaymentRequestID
  <2> QED
    BY <2>1, PassedCheck
<1>7. ~checks[6].bad /\ ~checks[7].bad
  <2>1. ~(strict /\ ~r.trxDateInit) /\ ~(strict /\ r.channelCode = "absent")
    BY <1>1
  <2> QED
    BY <2>1, PassedCheck
<1>8. ~checks[1].bad /\ ~checks[5].bad /\ ~checks[8].bad
  BY <1>2, <1>3, <1>4, PassedNested, PassedCheck
<1> HIDE DEF checks
<1>10. \A k \in DOMAIN checks : ~checks[k].bad
  BY <1>5, <1>6, <1>7, <1>8
<1> QED
  BY <1>9, <1>10, NoneFails DEF r

\* So does its status request.
LEMMA StatusPasses ==
    ASSUME NEW i, Identified(i), NEW n \in 1 .. MaxPaymentRequestID
    PROVE  StatusAnswer(BankStatus(i, n)) = Passed
<1> DEFINE r == BankStatus(i, n)
           checks == <<
        Nested(RequireVAIdentity(r.id, MaxPaymentCustomerNo, MaxPaymentVirtualAccountNo)),
        Check(r.inquiryRequestId = 0, Mandatory("inquiryRequestId")),
        Check(r.inquiryRequestId > MaxPaymentRequestID, BadFormat("inquiryRequestId"))>>
<1>1. r.id = BankIdentity(i) /\ r.inquiryRequestId = n
  BY DEF BankStatus
<1>2. StatusAnswer(r) = IF FirstViolation(checks) = NoViolation THEN Passed
                        ELSE ViolationCode("26", FirstViolation(checks))
  BY DEF StatusAnswer, ValidateStatusRequest
<1> HIDE DEF r
<1>3. ~checks[1].bad
  BY <1>1, PassedNested DEF Identified
<1>4. ~checks[2].bad /\ ~checks[3].bad
  <2>1. ~(r.inquiryRequestId = 0) /\ ~(r.inquiryRequestId > MaxPaymentRequestID)
    BY <1>1 DEF MaxPaymentRequestID
  <2> QED
    BY <2>1, PassedCheck
<1>5. DOMAIN checks = 1 .. 3
  OBVIOUS
<1> HIDE DEF checks
<1>6. \A k \in DOMAIN checks : ~checks[k].bad
  BY <1>3, <1>4, <1>5
<1> QED
  BY <1>2, <1>6, NoneFails DEF r

\* A positive figure with both decimals, in a currency that BCA takes.
Proper(a) == a.value = "cents" /\ a.currency \in AllowedCurrencies

\* Such an amount passes, where it must be there and where it need not.
LEMMA ProperPasses ==
    ASSUME NEW a, Proper(a), NEW field
    PROVE  ValidateAmount(a, field) = NoViolation /\ ValidateOptionalAmount(a, field) = NoViolation
<1> DEFINE checks == <<
        Check(a.value = "blank", Mandatory(field \o ".value")),
        Check(a.value \in {"malformed", "long"}, BadFormat(field \o ".value")),
        Check(a.currency = "blank", Mandatory(field \o ".currency")),
        Check(a.currency \notin AllowedCurrencies, BadFormat(field \o ".currency"))>>
<1>1. /\ ~(a.value = "blank") /\ ~(a.value \in {"malformed", "long"})
      /\ ~(a.currency = "blank") /\ ~(a.currency \notin AllowedCurrencies)
  BY DEF Proper, AllowedCurrencies
<1>2. ValidateAmount(a, field) = FirstViolation(checks)
  BY DEF ValidateAmount
<1>3. DOMAIN checks = 1 .. 4
  OBVIOUS
<1>4. ~checks[1].bad /\ ~checks[2].bad /\ ~checks[3].bad /\ ~checks[4].bad
  BY <1>1, PassedCheck
<1> HIDE DEF checks
<1>5. \A k \in DOMAIN checks : ~checks[k].bad
  BY <1>3, <1>4
<1> QED
  BY <1>2, <1>5, NoneFails DEF ValidateOptionalAmount

\* A payment passes what is checked of its texts, whatever is paid ...
LEMMA PaymentTextsPass ==
    ASSUME NEW i, Named(i), NEW n, NEW a
    PROVE  ValidatePaymentOptionalLengths(BankPayment(i, n, a)) = NoViolation
<1> DEFINE r == BankPayment(i, n, a)
           checks == <<
        Check(OverLong(r.texts, PaymentOptional), BadFormat("optional")),
        Check(r.flagAdvise = "other", BadFormat("flagAdvise")),
        Check(r.channelCode = "unknown", BadFormat("channelCode"))>>
<1>1. /\ r.flagAdvise = "N" /\ r.channelCode = "known"
      /\ r.texts = [f \in DOMAIN PaymentOptional |->
                      IF f = "virtualAccountName" THEN i.name ELSE PaymentOptional[f]]
  BY DEF BankPayment
<1>2. ValidatePaymentOptionalLengths(r) = FirstViolation(checks)
  BY DEF ValidatePaymentOptionalLengths
<1> HIDE DEF r
<1>3. ~OverLong(r.texts, PaymentOptional)
  <2>1. /\ \A f \in DOMAIN PaymentOptional : PaymentOptional[f] \in Nat
        /\ PaymentOptional["virtualAccountName"] = MaxVirtualAccountName
    BY DEF PaymentOptional, MaxVirtualAccountName
  <2>2. i.name \in Nat /\ i.name <= MaxVirtualAccountName
    BY DEF Named, MaxVirtualAccountName
  <2> SUFFICES ASSUME NEW f \in DOMAIN PaymentOptional PROVE ~(r.texts[f] > PaymentOptional[f])
    BY DEF OverLong
  <2>3. CASE f = "virtualAccountName"
    BY <1>1, <2>1, <2>2, <2>3 DEF MaxVirtualAccountName
  <2>4. CASE f # "virtualAccountName"
    BY <1>1, <2>1, <2>4
  <2> QED
    BY <2>3, <2>4
<1>4. ~checks[1].bad /\ ~checks[2].bad /\ ~checks[3].bad
  <2>1. ~(r.flagAdvise = "other") /\ ~(r.channelCode = "unknown")
    BY <1>1
  <2> QED
    BY <1>3, <2>1, PassedCheck
<1>5. DOMAIN checks = 1 .. 3
  OBVIOUS
<1> HIDE DEF checks
<1>6. \A k \in DOMAIN checks : ~checks[k].bad
  BY <1>4, <1>5
<1> QED
  BY <1>2, <1>6, NoneFails DEF r

\* ... of its amounts and bills, if what is paid is in order ...
LEMMA PaymentBillsPass ==
    ASSUME NEW i, NEW n, NEW a, Proper(a)
    PROVE  ValidatePaymentAmountsAndBills(BankPayment(i, n, a)) = NoViolation
<1> DEFINE r == BankPayment(i, n, a)
           head == <<
        Nested(ValidateOptionalAmount(r.totalAmount, "totalAmount")),
        Check(r.totalAmount.value # "absent" /\ r.totalAmount.currency # r.paidAmount.currency,
              BadFormat("totalAmount.currency")),
        Nested(ValidateOptionalAmount(r.cumulativePaymentAmount, "cumulativePaymentAmount")),
        Check(Len(r.bills) > MaxPaymentBillDetails, BadFormat("billDetails")),
        Check(r.freeTexts > MaxFreeTexts, BadFormat("freeTexts")),
        Nested(ValidateFreeTextLengths(r.freeTextLengths))>>
           billChecks(b) == <<
                       Nested(ValidateAmount(r.bills[b], "billDetails.billAmount")),
                       Check(r.bills[b].currency # r.paidAmount.currency,
                             BadFormat("billDetails.billAmount.currency"))>>
           tail == [b \in DOMAIN r.bills |->
              IF r.bills[b].value = "absent" THEN Check(FALSE, NoViolation)
              ELSE Nested(FirstViolation(billChecks(b)))]
<1>1. /\ r.paidAmount = a /\ r.totalAmount = a /\ r.cumulativePaymentAmount = NoAmount
      /\ r.bills = <<a, NoAmount>> /\ r.freeTexts = 1 /\ r.freeTextLengths = {MaxFreeTextLength}
  BY DEF BankPayment
<1>2. ValidatePaymentAmountsAndBills(r) = FirstViolation(head \o tail)
  BY DEF ValidatePaymentAmountsAndBills
<1> HIDE DEF r
<1>3. DOMAIN r.bills = 1 .. 2 /\ r.bills[1] = a /\ r.bills[2] = NoAmount /\ Len(r.bills) = 2
  BY <1>1
<1>4. ~head[1].bad /\ ~head[3].bad
  <2>1. ValidateOptionalAmount(r.cumulativePaymentAmount, "cumulativePaymentAmount") = NoViolation
    BY <1>1 DEF ValidateOptionalAmount, NoAmount
  <2>2. ValidateOptionalAmount(r.totalAmount, "totalAmount") = NoViolation
    BY <1>1, ProperPasses
  <2> QED
    BY <2>1, <2>2, PassedNested
<1>5. ~head[2].bad /\ ~head[4].bad /\ ~head[5].bad
  <2>1. /\ ~(r.totalAmount.value # "absent" /\ r.totalAmount.currency # r.paidAmount.currency)
        /\ ~(Len(r.bills) > MaxPaymentBillDetails) /\ ~(r.freeTexts > MaxFreeTexts)
    BY <1>1, <1>3 DEF MaxPaymentBillDetails, MaxFreeTexts
  <2> QED
    BY <2>1, PassedCheck
<1>6. ~head[6].bad
  <2> DEFINE long == \E l \in r.freeTextLengths : l > MaxFreeTextLength
             lengths == <<Check(long, BadFormat("freeTexts"))>>
  <2>1. ~long
    BY <1>1 DEF MaxFreeTextLength
  <2>3. ValidateFreeTextLengths(r.freeTextLengths) = FirstViolation(lengths)
    BY DEF ValidateFreeTextLengths
  <2> HIDE DEF long
  <2>2. DOMAIN lengths = 1 .. 1 /\ ~lengths[1].bad
    BY <2>1, PassedCheck
  <2> HIDE DEF lengths
  <2>4. \A k \in DOMAIN lengths : ~lengths[k].bad
    BY <2>2
  <2>5. ValidateFreeTextLengths(r.freeTextLengths) = NoViolation
    BY <2>3, <2>4, NoneFails
  <2> QED
    BY <2>5, PassedNested
<1>7. ~tail[1].bad
  <2>1. FirstViolation(billChecks(1)) = NoViolation
    <3>1. ~(r.bills[1].currency # r.paidAmount.currency) /\ ValidateAmount(r.bills[1], "billDetails.billAmount") = NoViolation
      BY <1>1, <1>3, ProperPasses
    <3>2. DOMAIN billChecks(1) = 1 .. 2
      OBVIOUS
    <3>4. ~billChecks(1)[1].bad
      BY <3>1, PassedNested
    <3>5. ~billChecks(1)[2].bad
      BY <3>1, PassedCheck
    <3> HIDE DEF billChecks
    <3>3. \A k \in DOMAIN billChecks(1) : ~billChecks(1)[k].bad
      BY <3>2, <3>4, <3>5
    <3> QED
      BY <3>3, NoneFails
  <2> HIDE DEF billChecks
  <2>2. r.bills[1].value # "absent" /\ 1 \in DOMAIN r.bills
    BY <1>3 DEF Proper
  <2>3. tail[1] = Nested(FirstViolation(billChecks(1)))
    BY <2>2
  <2> QED
    BY <2>1, <2>3, PassedNested
<1>8. ~tail[2].bad
  <2> HIDE DEF billChecks
  <2>1. r.bills[2].value = "absent" /\ 2 \in DOMAIN r.bills
    BY <1>3 DEF NoAmount
  <2>2. tail[2] = Check(FALSE, NoViolation)
    BY <2>1
  <2> QED
    BY <2>2 DEF Check
<1>9. head \in Seq({head[1], head[2], head[3], head[4], head[5], head[6]}) /\ Len(head) = 6
  OBVIOUS
<1>10. tail \in Seq({tail[1], tail[2]}) /\ Len(tail) = 2
  <2> HIDE DEF billChecks
  <2>1. DOMAIN tail = 1 .. 2 /\ tail = [b \in 1 .. 2 |-> tail[b]]
    BY <1>3
  <2> HIDE DEF tail
  <2>2. \A b \in 1 .. 2 : tail[b] \in {tail[1], tail[2]}
    OBVIOUS
  <2> QED
    BY <2>1, <2>2
<1> HIDE DEF head, tail
<1>11. \A k \in DOMAIN head : ~head[k].bad
  <2>1. DOMAIN head = 1 .. 6
    BY <1>9
  <2> QED
    BY <1>4, <1>5, <1>6, <2>1
<1>12. \A k \in DOMAIN tail : ~tail[k].bad
  <2>1. DOMAIN tail = 1 .. 2
    BY <1>10
  <2> QED
    BY <1>7, <1>8, <2>1
<1>13. \A k \in DOMAIN (head \o tail) : ~(head \o tail)[k].bad
  <2> DEFINE S == {head[1], head[2], head[3], head[4], head[5], head[6]} \cup {tail[1], tail[2]}
  <2>1. head \in Seq(S) /\ tail \in Seq(S)
    BY <1>9, <1>10
  <2> HIDE DEF S
  <2> QED
    BY <1>11, <1>12, <2>1, BothPass
<1> QED
  BY <1>2, <1>13, NoneFails DEF r

\* ... and of what is mandatory with a vendor that is strict.
LEMMA PaymentMandatoryPasses ==
    ASSUME NEW i, Named(i), NEW n, NEW a, a.value # "absent"
    PROVE  ValidatePaymentStrictMandatory(BankPayment(i, n, a)) = NoViolation
<1> DEFINE r == BankPayment(i, n, a)
           checks == <<
        Check(r.texts.virtualAccountName = 0, Mandatory("virtualAccountName")),
        Check(r.channelCode = "absent", Mandatory("channelCode")),
        Check(r.totalAmount.value = "absent", Mandatory("totalAmount")),
        Check(~r.trxDateTime, Mandatory("trxDateTime")),
        Check(r.flagAdvise = "absent", Mandatory("flagAdvise"))>>
<1>1. /\ r.channelCode = "known" /\ r.flagAdvise = "N" /\ r.totalAmount = a /\ r.trxDateTime = TRUE
      /\ r.texts = [f \in DOMAIN PaymentOptional |->
                      IF f = "virtualAccountName" THEN i.name ELSE PaymentOptional[f]]
  BY DEF BankPayment
<1>2. ValidatePaymentStrictMandatory(r) = FirstViolation(checks)
  BY DEF ValidatePaymentStrictMandatory
<1> HIDE DEF r
<1>3. ~(r.texts.virtualAccountName = 0)
  <2>1. "virtualAccountName" \in DOMAIN PaymentOptional
    BY DEF PaymentOptional
  <2>2. r.texts["virtualAccountName"] = i.name
    BY <1>1, <2>1
  <2>3. i.name # 0
    BY DEF Named, MaxVirtualAccountName
  <2> QED
    BY <2>2, <2>3
<1>4. ~checks[1].bad /\ ~checks[2].bad /\ ~checks[3].bad /\ ~checks[4].bad /\ ~checks[5].bad
  <2>1. /\ ~(r.channelCode = "absent") /\ ~(r.totalAmount.value = "absent") /\ ~(~r.trxDateTime)
        /\ ~(r.flagAdvise = "absent")
    BY <1>1
  <2> QED
    BY <1>3, <2>1, PassedCheck
<1>5. DOMAIN checks = 1 .. 5
  OBVIOUS
<1> HIDE DEF checks
<1>6. \A k \in DOMAIN checks : ~checks[k].bad
  BY <1>4, <1>5
<1> QED
  BY <1>2, <1>6, NoneFails DEF r

\* The first check that fails decides.
LEMMA FirstFails ==
    ASSUME NEW checks, DOMAIN checks \subseteq Nat, NEW k \in DOMAIN checks, checks[k].bad,
           \A j \in DOMAIN checks : j < k => ~checks[j].bad
    PROVE  FirstViolation(checks) = checks[k].violation
<1> DEFINE failed == {j \in DOMAIN checks : checks[j].bad}
<1>1. k \in failed /\ \A j \in failed : j \in Nat /\ k <= j
  OBVIOUS
<1>2. FirstViolation(checks) = IF failed = {} THEN NoViolation ELSE checks[Min(failed)].violation
  BY DEF FirstViolation
<1> HIDE DEF failed
<1>3. Min(failed) = k
  BY <1>1 DEF Min
<1> QED
  BY <1>1, <1>2, <1>3

\* A set of natural numbers has a least one.
LEMMA LeastIsThere ==
    ASSUME NEW S, S \subseteq Nat, S # {}
    PROVE  \E x \in S : \A y \in S : x <= y
<1>1. PICK x \in S : \A y \in S : ~(<<y, x>> \in OpToRel(<, Nat))
  BY NatLessThanWellFounded, WFMin
<1>2. ASSUME NEW y \in S PROVE x <= y
  <2>1. y \in Nat /\ x \in Nat /\ ~(<<y, x>> \in OpToRel(<, Nat))
    BY <1>1
  <2>2. ~(y < x)
    BY <2>1 DEF OpToRel
  <2>3. y \in Nat /\ x \in Nat
    OBVIOUS
  <2> QED
    BY <2>2, <2>3
<1> QED
  BY <1>2

\* No violation means that no check failed.
LEMMA NoneFailed ==
    ASSUME NEW checks, DOMAIN checks \subseteq Nat, FirstViolation(checks) = NoViolation,
           \A k \in DOMAIN checks : checks[k].bad => checks[k].violation # NoViolation
    PROVE  \A k \in DOMAIN checks : ~checks[k].bad
<1> DEFINE failed == {j \in DOMAIN checks : checks[j].bad}
<1> SUFFICES ASSUME failed # {} PROVE FALSE
  OBVIOUS
<1>1. PICK k \in failed : \A j \in failed : k <= j
  BY LeastIsThere
<1>2. FirstViolation(checks) = checks[k].violation
  <2>1. k \in DOMAIN checks /\ checks[k].bad
    OBVIOUS
  <2>2. \A j \in DOMAIN checks : j < k => ~checks[j].bad
    <3> SUFFICES ASSUME NEW j \in DOMAIN checks, j < k, checks[j].bad PROVE FALSE
      OBVIOUS
    <3>1. j \in failed /\ j \in Nat /\ k \in Nat
      OBVIOUS
    <3> QED
      BY <1>1, <3>1
  <2> QED
    BY <2>1, <2>2, FirstFails
<1> QED
  BY <1>2

\* A check that fails.
LEMMA FailedCheck == \A b, v : b => Check(b, v).bad
BY DEF Check

\* What a check says.
LEMMA SaidByCheck == \A b, v : Check(b, v).violation = v
BY DEF Check

\* A validator that finds something, called inside another one.
LEMMA FailedNested == \A v : Nested(v).violation = v /\ (v # NoViolation => Nested(v).bad)
BY DEF Nested, Check

\* What is found wrong with an amount.
LEMMA AmountVerdict ==
    ASSUME NEW a \in Amount, NEW field
    PROVE  /\ a.value = "blank" => ValidateAmount(a, field) = Mandatory(field \o ".value")
           /\ a.value \in {"malformed", "long"} => ValidateAmount(a, field) = BadFormat(field \o ".value")
           /\ a.value \notin {"blank", "malformed", "long"} =>
                /\ a.currency = "blank" => ValidateAmount(a, field) = Mandatory(field \o ".currency")
                /\ a.currency = "foreign" => ValidateAmount(a, field) = BadFormat(field \o ".currency")
                /\ a.currency \in AllowedCurrencies => ValidateAmount(a, field) = NoViolation
<1> DEFINE ill == a.value \in {"malformed", "long"}
           checks == <<
        Check(a.value = "blank", Mandatory(field \o ".value")),
        Check(ill, BadFormat(field \o ".value")),
        Check(a.currency = "blank", Mandatory(field \o ".currency")),
        Check(a.currency \notin AllowedCurrencies, BadFormat(field \o ".currency"))>>
<1>1. ValidateAmount(a, field) = FirstViolation(checks)
  BY DEF ValidateAmount
<1>2. DOMAIN checks = 1 .. 4
  OBVIOUS
<1>3. /\ checks[1].violation = Mandatory(field \o ".value") /\ checks[2].violation = BadFormat(field \o ".value")
      /\ checks[3].violation = Mandatory(field \o ".currency") /\ checks[4].violation = BadFormat(field \o ".currency")
  BY SaidByCheck
<1>4. (checks[1].bad <=> a.value = "blank") /\ (checks[2].bad <=> a.value \in {"malformed", "long"})
  <2>1. checks[1].bad <=> a.value = "blank"
    BY FailedCheck, PassedCheck
  <2>2. checks[2] = Check(ill, BadFormat(field \o ".value"))
    OBVIOUS
  <2>3. ~ill => ~checks[2].bad
    BY <2>2, PassedCheck
  <2>4. ill => checks[2].bad
    BY <2>2, FailedCheck
  <2> QED
    BY <2>1, <2>3, <2>4
<1>5. (checks[3].bad <=> a.currency = "blank") /\ (checks[4].bad <=> a.currency \notin AllowedCurrencies)
  BY FailedCheck, PassedCheck
<1> HIDE DEF checks
<1>6. CASE a.value = "blank"
  <2>1. FirstViolation(checks) = checks[1].violation
    BY <1>2, <1>4, <1>6, FirstFails
  <2> QED
    BY <1>1, <1>3, <1>6, <2>1
<1>7. CASE a.value \in {"malformed", "long"}
  <2>1. \A j \in DOMAIN checks : j < 2 => ~checks[j].bad
    BY <1>2, <1>4, <1>7
  <2>2. FirstViolation(checks) = checks[2].violation
    BY <1>2, <1>4, <1>7, <2>1, FirstFails
  <2> QED
    BY <1>1, <1>3, <1>7, <2>2
<1>8. CASE a.value \notin {"blank", "malformed", "long"}
  <2>1. CASE a.currency = "blank"
    <3>1. \A j \in DOMAIN checks : j < 3 => ~checks[j].bad
      BY <1>2, <1>4, <1>8
    <3>2. FirstViolation(checks) = checks[3].violation
      BY <1>2, <1>5, <2>1, <3>1, FirstFails
    <3> QED
      BY <1>1, <1>3, <1>8, <2>1, <3>2 DEF AllowedCurrencies
  <2>2. CASE a.currency = "foreign"
    <3>1. \A j \in DOMAIN checks : j < 4 => ~checks[j].bad
      BY <1>2, <1>4, <1>5, <1>8, <2>2
    <3>2. FirstViolation(checks) = checks[4].violation
      BY <1>2, <1>5, <2>2, <3>1, FirstFails DEF AllowedCurrencies
    <3> QED
      BY <1>1, <1>3, <1>8, <2>2, <3>2 DEF AllowedCurrencies
  <2>3. CASE a.currency \in AllowedCurrencies
    <3>1. \A j \in DOMAIN checks : ~checks[j].bad
      BY <1>2, <1>4, <1>5, <1>8, <2>3 DEF AllowedCurrencies
    <3> QED
      BY <1>1, <1>8, <2>3, <3>1, NoneFails DEF AllowedCurrencies
  <2> QED
    BY <1>8, <2>1, <2>2, <2>3 DEF Amount, Currencies, AllowedCurrencies
<1> QED
  BY <1>6, <1>7, <1>8

\* What is found wrong with the figure paid.
LEMMA FigureVerdict ==
    ASSUME NEW a
    PROVE  /\ a.value = "cents" => ValidatePaidAmountValue(a) = NoViolation
           /\ a.value # "cents" => ValidatePaidAmountValue(a) = BadFormat("paidAmount.value")
<1> DEFINE odd == a.value # "cents"
           figure == <<Check(odd, BadFormat("paidAmount.value"))>>
<1>1. ValidatePaidAmountValue(a) = FirstViolation(figure)
  BY DEF ValidatePaidAmountValue
<1>2. DOMAIN figure = 1 .. 1 /\ figure[1] = Check(odd, BadFormat("paidAmount.value"))
  OBVIOUS
<1> HIDE DEF figure
<1>3. CASE ~odd
  <2>1. ~figure[1].bad
    BY <1>2, <1>3, PassedCheck
  <2>2. \A k \in DOMAIN figure : ~figure[k].bad
    BY <1>2, <2>1
  <2> QED
    BY <1>1, <1>3, <2>2, NoneFails
<1>4. CASE odd
  <2>1. figure[1].bad /\ figure[1].violation = BadFormat("paidAmount.value")
    <3>1. figure[1].bad
      BY <1>2, <1>4, FailedCheck
    <3>2. figure[1].violation = BadFormat("paidAmount.value")
      BY <1>2, SaidByCheck
    <3> QED
      BY <3>1, <3>2
  <2>2. FirstViolation(figure) = figure[1].violation
    BY <1>2, <2>1, FirstFails
  <2> QED
    BY <1>1, <1>4, <2>1, <2>2
<1> QED
  BY <1>3, <1>4

\* What is found wrong with the bank's payment: the first thing wrong with what is
\* paid, if anything is.
LEMMA PaymentVerdict ==
    ASSUME NEW i, Identified(i), Named(i), NEW n \in 1 .. MaxPaymentRequestID, NEW a \in Amount,
           NEW strict \in BOOLEAN
    PROVE  LET found == ValidatePaymentRequest(BankPayment(i, n, a), strict)
               shape == ValidateAmount(a, "paidAmount")
           IN  /\ a.value = "absent" => found = Mandatory("paidAmount")
               /\ a.value # "absent" /\ shape # NoViolation => found = shape
               /\ a.value \notin {"absent", "cents"} /\ shape = NoViolation
                  => found = BadFormat("paidAmount.value")
               /\ Proper(a) => found = NoViolation
<1> DEFINE r == BankPayment(i, n, a)
           shape == ValidateAmount(a, "paidAmount")
           checks == <<
        Nested(RequireVAIdentity(r.id, MaxPaymentCustomerNo, MaxPaymentVirtualAccountNo)),
        Check(r.paymentRequestId = 0, Mandatory("paymentRequestId")),
        Check(r.paymentRequestId > MaxPaymentRequestID, BadFormat("paymentRequestId")),
        Check(r.paidAmount.value = "absent", Mandatory("paidAmount")),
        Nested(ValidateAmount(r.paidAmount, "paidAmount")),
        Nested(ValidatePaidAmountValue(r.paidAmount)),
        Nested(ValidatePaymentOptionalLengths(r)),
        Nested(ValidatePaymentAmountsAndBills(r)),
        Nested(IF strict THEN ValidatePaymentStrictMandatory(r) ELSE NoViolation)>>
<1>1. r.id = BankIdentity(i) /\ r.paymentRequestId = n /\ r.paidAmount = a
  BY DEF BankPayment
<1>2. ValidatePaymentRequest(r, strict) = FirstViolation(checks)
  BY DEF ValidatePaymentRequest
<1>3. ASSUME Proper(a)
      PROVE  /\ ValidatePaymentOptionalLengths(r) = NoViolation
             /\ ValidatePaymentAmountsAndBills(r) = NoViolation
             /\ (IF strict THEN ValidatePaymentStrictMandatory(r) ELSE NoViolation) = NoViolation
  BY <1>3, PaymentTextsPass, PaymentBillsPass, PaymentMandatoryPasses DEF Proper
<1> HIDE DEF r
<1>4. DOMAIN checks = 1 .. 9
  OBVIOUS
<1>5. ~checks[1].bad
  BY <1>1, PassedNested DEF Identified
<1>6. ~checks[2].bad /\ ~checks[3].bad
  <2>1. ~(r.paymentRequestId = 0) /\ ~(r.paymentRequestId > MaxPaymentRequestID)
    BY <1>1 DEF MaxPaymentRequestID
  <2> QED
    BY <2>1, PassedCheck
<1>7. /\ checks[4] = Check(a.value = "absent", Mandatory("paidAmount")) /\ checks[5] = Nested(shape)
      /\ checks[6] = Nested(ValidatePaidAmountValue(a))
  BY <1>1
<1>8. ASSUME Proper(a) PROVE ~checks[7].bad /\ ~checks[8].bad /\ ~checks[9].bad
  BY <1>3, <1>8, PassedNested
<1> HIDE DEF checks, shape
<1>9. CASE a.value = "absent"
  <2>1. checks[4].bad /\ checks[4].violation = Mandatory("paidAmount")
    <3>1. checks[4].bad
      BY <1>7, <1>9, FailedCheck
    <3>2. checks[4].violation = Mandatory("paidAmount")
      BY <1>7, SaidByCheck
    <3> QED
      BY <3>1, <3>2
  <2>2. \A j \in DOMAIN checks : j < 4 => ~checks[j].bad
    BY <1>4, <1>5, <1>6
  <2>3. FirstViolation(checks) = checks[4].violation
    BY <1>4, <2>1, <2>2, FirstFails
  <2> QED
    BY <1>2, <1>9, <2>1, <2>3 DEF r, shape, Proper
<1>10. CASE a.value # "absent" /\ shape # NoViolation
  <2>1. ~checks[4].bad
    BY <1>7, <1>10, PassedCheck
  <2>2. checks[5].bad /\ checks[5].violation = shape
    BY <1>7, <1>10, FailedNested
  <2>3. \A j \in DOMAIN checks : j < 5 => ~checks[j].bad
    BY <1>4, <1>5, <1>6, <2>1
  <2>4. FirstViolation(checks) = checks[5].violation
    BY <1>4, <2>2, <2>3, FirstFails
  <2>5. ~Proper(a)
    BY <1>10, ProperPasses DEF shape
  <2> QED
    BY <1>2, <1>10, <2>2, <2>4, <2>5 DEF r, shape
<1>11. CASE a.value # "absent" /\ shape = NoViolation
  <2>1. ~checks[4].bad
    BY <1>7, <1>11, PassedCheck
  <2>2. ~checks[5].bad
    BY <1>7, <1>11, PassedNested
  <2>3. \A j \in DOMAIN checks : j < 6 => ~checks[j].bad
    BY <1>4, <1>5, <1>6, <2>1, <2>2
  <2>4. CASE a.value # "cents"
    <3>1. ValidatePaidAmountValue(a) = BadFormat("paidAmount.value")
      BY <2>4, FigureVerdict
    <3>2. BadFormat("paidAmount.value") # NoViolation
      BY DEF BadFormat, NoViolation
    <3>3. checks[6].bad /\ checks[6].violation = BadFormat("paidAmount.value")
      BY <1>7, <3>1, <3>2, FailedNested
    <3>4. FirstViolation(checks) = checks[6].violation
      BY <1>4, <2>3, <3>3, FirstFails
    <3> QED
      BY <1>2, <1>11, <2>4, <3>3, <3>4 DEF r, shape, Proper
  <2>5. CASE Proper(a)
    <3>1. ~checks[6].bad
      BY <1>7, <2>5, FigureVerdict, PassedNested DEF Proper
    <3>2. \A j \in DOMAIN checks : ~checks[j].bad
      BY <1>4, <1>5, <1>6, <1>8, <2>1, <2>2, <2>5, <3>1
    <3> QED
      BY <1>2, <1>11, <2>5, <3>2, NoneFails DEF r, shape, Proper
  <2>6. CASE a.value = "cents" /\ ~Proper(a)
    BY <1>11, <2>6 DEF shape
  <2> QED
    BY <2>4, <2>5, <2>6
<1> QED
  BY <1>9, <1>10, <1>11

\* The texts merchants send: a customerNo is not empty, and a name has a length.
TextsFit ==
    /\ \A x \in Customers : x.len > 0
    /\ Names \subseteq Nat

\* A name that is answered for is one that payments may quote.
LEMMA AnsweredNamed ==
    ASSUME Names \subseteq Nat, IInv, NEW c \in Callers, PastLock(c), Succeed(c), NEW i \in issued' \ issued
    PROVE  Named(i)
<1>1. i.name = req[c].name
  BY DEF Succeed
<1>2. req[c] \in Request /\ WellFormed(req[c])
  BY InProgress DEF IInv, PastLock
<1>3. req[c].name \in Names
  BY <1>2 DEF Request
<1>4. req[c].name \in Nat
  BY <1>3
<1>5. req[c].name > 0 /\ req[c].name <= MaxVirtualAccountName
  BY <1>2 DEF WellFormed
<1> QED
  BY <1>1, <1>4, <1>5 DEF Named, MaxVirtualAccountName

\* What a call is answered with fits BCA's requests.
LEMMA AnsweredFits ==
    ASSUME TextsFit, IInv, NEW c \in Callers, PastLock(c), Succeed(c), Storable(c),
           NEW i \in issued' \ issued, ~i.own
    PROVE  Fits(i)
<1>1. TypeOK /\ RequestInOrder /\ pc[c] # "idle"
  BY DEF IInv, PastLock
<1>2. i.partner = req[c].partner /\ i.cust = cust[c]
  BY DEF Succeed
<1>3. WellFormed(req[c]) /\ req[c].partner \in Partners
  BY <1>1, InProgress
<1>4. i.partner.len \in 0 .. MaxPartnerServiceID
  BY <1>2, <1>3, TextAssumption DEF Storable, StoredPartnerServiceID, MaxPartnerServiceID
<1>5. i.cust.len \in 1 .. MaxIssuedCustomerNo
  <2>1. CASE Dynamic(req[c])
    <3>1. req[c].type \in DynamicTypes
      BY <1>1, <2>1, InProgress
    <3>2. PICK n \in 1 .. MaxSeq : cust[c] = CustomerNo(req[c].type, n)
      BY <3>1 DEF IInv, NumbersInHand, HasNumber, Generated
    <3> QED
      BY <1>2, <3>2 DEF CustomerNo, MaxIssuedCustomerNo
  <2>2. CASE ~Dynamic(req[c])
    <3>1. req[c].cust \in Customers /\ cust[c] = req[c].cust
      BY <1>1, <2>2, InProgress
    <3>2. req[c].cust.len \in Nat /\ req[c].cust.len > 0
      BY <3>1, TextAssumption DEF Numbers, TextsFit
    <3>3. req[c].cust.len <= MaxIssuedCustomerNo
      BY <1>3 DEF WellFormed, WithinCaps
    <3> QED
      BY <1>2, <3>1, <3>2, <3>3 DEF MaxIssuedCustomerNo
  <2> QED
    BY <2>1, <2>2
<1> QED
  BY <1>4, <1>5 DEF Fits

\* A call whose transaction is on file had a partnerServiceId that could be stored.
SavedIsStorable == \A c \in Callers : pc[c] = "bills" => Storable(c)

\* It does not change while the call is in progress.
LEMMA StoredIsStorable == Spec => []SavedIsStorable
<1>1. Init => SavedIsStorable
  BY DEF Init, SavedIsStorable
<1>2. ASSUME TypeOK, SavedIsStorable, [Next]_vars PROVE SavedIsStorable'
  <2>1. ASSUME NEW c \in Callers, SaveInquiry(c), pc'[c] = "bills" PROVE Storable(c)'
    BY <1>2, <2>1 DEF SaveInquiry, Respond, Goto, TypeOK, Storable, local
  <2>2. ASSUME NEW c \in Callers, Arrive(c) \/ (Step(c) /\ ~SaveInquiry(c)) \/ Crash(c)
        PROVE  pc'[c] # "bills"
    BY <1>2, <2>2
       DEF TypeOK, Arrive, Step, Crash, AcquireLock, SelectSequence, UpdateSequence, CountAccounts,
           ReleaseLock, SaveAccount, CheckPending, SaveBills, Succeed, Respond, Found, Goto
  <2>3. ASSUME NEW c \in Callers, Arrive(c) \/ Step(c) \/ Crash(c) PROVE SavedIsStorable'
    <3>1. \A d \in Callers \ {c} : pc'[d] = "bills" => Storable(d)'
      BY <1>2, <2>3, StepIsApart DEF Apart, SavedIsStorable, Storable
    <3>2. pc'[c] = "bills" => Storable(c)'
      BY <2>1, <2>2, <2>3
    <3> QED
      BY <3>1, <3>2 DEF SavedIsStorable
  <2>4. CASE (\E v \in pending : Close(v)) \/ (\E k \in locks : LockExpires(k)) \/ UNCHANGED vars
    BY <1>2, <2>4 DEF Close, LockExpires, vars, local, SavedIsStorable, Storable
  <2> QED
    BY <1>2, <2>3, <2>4 DEF Next
<1> QED
  BY <1>1, <1>2, Inductive, PTL DEF Spec, IInv

\* Nothing is issued but by an answer to a call past the lock, whose partnerServiceId
\* was stored.
LEMMA IssuedByAnswer ==
    ASSUME IInv, SavedIsStorable, [Next]_vars, NEW i \in issued' \ issued
    PROVE  \E c \in Callers : PastLock(c) /\ Succeed(c) /\ Storable(c)
<1>1. ASSUME NEW c \in Callers, SaveAccount(c) PROVE PastLock(c) /\ Succeed(c) /\ Storable(c)
  <2>1. PastLock(c)
    BY <1>1 DEF SaveAccount, PastLock
  <2>2. (Succeed(c) /\ Storable(c)) \/ UNCHANGED issued
    BY <1>1 DEF SaveAccount
  <2> QED
    BY <2>1, <2>2
<1>2. ASSUME NEW c \in Callers, SaveBills(c) PROVE PastLock(c) /\ Succeed(c) /\ Storable(c)
  BY <1>2 DEF SaveBills, PastLock, SavedIsStorable
<1>3. ASSUME NEW c \in Callers,
             \/ Arrive(c) \/ Crash(c) \/ AcquireLock(c) \/ SelectSequence(c) \/ UpdateSequence(c)
             \/ CountAccounts(c) \/ ReleaseLock(c) \/ CheckPending(c) \/ SaveInquiry(c)
      PROVE  UNCHANGED issued
  BY <1>3 DEF Arrive, Crash, AcquireLock, SelectSequence, UpdateSequence, CountAccounts, ReleaseLock,
     CheckPending, SaveInquiry
<1>4. CASE (\E v \in pending : Close(v)) \/ (\E k \in locks : LockExpires(k)) \/ UNCHANGED vars
  BY <1>4 DEF Close, LockExpires, vars
<1> QED
  BY <1>1, <1>2, <1>3, <1>4 DEF Next, Step

\* Whatever create-va issues, to whichever merchant and after whatever failed, the
\* bank can inquire, have paid and ask the status of, strict or not, and it is within
\* BCA's own 18 and 26: what create-va does not check of a partnerServiceId, the
\* column it is stored in does.
THEOREM IssuedPassesEveryService ==
    ASSUME TextsFit
    PROVE  Spec => IssuedIsPayable
<1>1. ASSUME IInv, SavedIsStorable, [Next]_vars, NEW i \in issued' \ issued, ~i.own
      PROVE  /\ \A strict \in BOOLEAN :
                 /\ InquiryAnswer(BankInquiry(i, MaxPaymentRequestID), strict) = Passed
                 /\ PaymentAnswer(BankPayment(i, MaxPaymentRequestID, Paid), strict) = Passed
             /\ StatusAnswer(BankStatus(i, MaxPaymentRequestID)) = Passed
             /\ BankIdentity(i).cust.len <= 18 /\ BankIdentity(i).va.len <= 26
  <2>1. PICK c \in Callers : PastLock(c) /\ Succeed(c) /\ Storable(c)
    BY <1>1, IssuedByAnswer
  <2>2. Fits(i) /\ Named(i)
    BY <1>1, <2>1, AnsweredFits, AnsweredNamed DEF TextsFit
  <2>3. Identified(i) /\ BankIdentity(i).cust.len <= 18 /\ BankIdentity(i).va.len <= 26
    BY <2>2, BankIdentityPasses
  <2>4. MaxPaymentRequestID \in 1 .. MaxPaymentRequestID
    BY DEF MaxPaymentRequestID
  <2>5. Proper(Paid) /\ Paid \in Amount
    BY DEF Proper, Paid, AllowedCurrencies, Amount, Values, Currencies
  <2>6. ASSUME NEW strict \in BOOLEAN
        PROVE  PaymentAnswer(BankPayment(i, MaxPaymentRequestID, Paid), strict) = Passed
    <3>1. ValidatePaymentRequest(BankPayment(i, MaxPaymentRequestID, Paid), strict) = NoViolation
      BY <2>2, <2>3, <2>4, <2>5, PaymentVerdict
    <3> QED
      BY <3>1 DEF PaymentAnswer
  <2> QED
    BY <2>3, <2>4, <2>6, InquiryPasses, StatusPasses
<1>2. IInv /\ SavedIsStorable /\ [Next]_vars =>
        [\A i \in issued' \ issued : ~i.own =>
            /\ \A strict \in BOOLEAN :
                 /\ InquiryAnswer(BankInquiry(i, MaxPaymentRequestID), strict) = Passed
                 /\ PaymentAnswer(BankPayment(i, MaxPaymentRequestID, Paid), strict) = Passed
            /\ StatusAnswer(BankStatus(i, MaxPaymentRequestID)) = Passed
            /\ BankIdentity(i).cust.len <= 18 /\ BankIdentity(i).va.len <= 26]_vars
  BY <1>1
<1> QED
  BY <1>2, Inductive, StoredIsStorable, PTL DEF Spec, IssuedIsPayable

\* An answer that is Passed is one without a violation.
LEMMA PassedIsNoViolation ==
    ASSUME NEW service, NEW v
    PROVE  ViolationCode(service, v) # Passed /\ CodePaymentInvalidAmt # Passed
<1>1. ViolationCode(service, v)[1] = "400" /\ CodePaymentInvalidAmt[1] = "404" /\ Passed[1] = "200"
  BY DEF ViolationCode, CodePaymentInvalidAmt, Passed
<1> QED
  BY <1>1

\* A violation is never taken for none.
LEMMA ViolationsTell == \A f : Mandatory(f) # NoViolation /\ BadFormat(f) # NoViolation
<1> SUFFICES ASSUME NEW f PROVE Mandatory(f) # NoViolation /\ BadFormat(f) # NoViolation
  OBVIOUS
<1>1. Mandatory(f).kind = "mandatory" /\ BadFormat(f).kind = "format" /\ NoViolation.kind = "none"
  BY DEF Mandatory, BadFormat, NoViolation
<1> QED
  BY <1>1

\* What an inquiry that passes shows.
LEMMA InquiryShows ==
    ASSUME NEW i, NEW n \in Nat, InquiryAnswer(BankInquiry(i, n), TRUE) = Passed
    PROVE  Identified(i) /\ n \in 1 .. MaxPaymentRequestID
<1> DEFINE r == BankInquiry(i, n)
           identity == RequireVAIdentity(r.id, MaxInquiryCustomerNo, MaxInquiryVirtualAccountNo)
           amount == ValidateOptionalAmount(r.amount, "amount")
           checks == <<
        Nested(identity),
        Check(r.inquiryRequestId = 0, Mandatory("inquiryRequestId")),
        Check(r.inquiryRequestId > MaxInquiryRequestID, BadFormat("inquiryRequestId")),
        Check(r.channelCode = "unknown", BadFormat("channelCode")),
        Nested(amount),
        Check(TRUE /\ ~r.trxDateInit, Mandatory("trxDateInit")),
        Check(TRUE /\ r.channelCode = "absent", Mandatory("channelCode")),
        Check(OverLong(r.texts, InquiryOptional), BadFormat("optional"))>>
<1>1. r.id = BankIdentity(i) /\ r.inquiryRequestId = n
  BY DEF BankInquiry
<1>2. ValidateInquiryRequest(r, TRUE) = FirstViolation(checks)
  BY DEF ValidateInquiryRequest
<1>3. FirstViolation(checks) = NoViolation
  BY <1>2, PassedIsNoViolation DEF InquiryAnswer
<1> HIDE DEF r, identity, amount
<1>4. DOMAIN checks = 1 .. 8
  OBVIOUS
<1>5. checks[1].bad => checks[1].violation # NoViolation
  BY PassedNested, FailedNested
<1>6. checks[5].bad => checks[5].violation # NoViolation
  BY PassedNested, FailedNested
<1>7. /\ checks[2].violation # NoViolation /\ checks[3].violation # NoViolation
      /\ checks[4].violation # NoViolation /\ checks[6].violation # NoViolation
      /\ checks[7].violation # NoViolation /\ checks[8].violation # NoViolation
  BY SaidByCheck, ViolationsTell
<1>8. checks[1] = Nested(identity) /\ checks[2] = Check(r.inquiryRequestId = 0, Mandatory("inquiryRequestId"))
      /\ checks[3] = Check(r.inquiryRequestId > MaxInquiryRequestID, BadFormat("inquiryRequestId"))
  OBVIOUS
<1> HIDE DEF checks
<1>9. \A k \in DOMAIN checks : ~checks[k].bad
  <2>1. \A k \in DOMAIN checks : checks[k].bad => checks[k].violation # NoViolation
    BY <1>4, <1>5, <1>6, <1>7
  <2>2. DOMAIN checks \subseteq Nat
    BY <1>4
  <2> QED
    BY <1>3, <2>1, <2>2, NoneFailed
<1>10. ~checks[1].bad /\ ~checks[2].bad /\ ~checks[3].bad
  BY <1>4, <1>9
<1>11. identity = NoViolation
  BY <1>8, <1>10, FailedNested
<1>12. ~(r.inquiryRequestId = 0) /\ ~(r.inquiryRequestId > MaxInquiryRequestID)
  <2>1. ~(r.inquiryRequestId = 0)
    <3>1. r.inquiryRequestId = 0 => Check(r.inquiryRequestId = 0, Mandatory("inquiryRequestId")).bad
      BY FailedCheck
    <3> QED
      BY <1>8, <1>10, <3>1
  <2>2. ~(r.inquiryRequestId > MaxInquiryRequestID)
    BY <1>8, <1>10, FailedCheck
  <2> QED
    BY <2>1, <2>2
<1>13. Identified(i)
  BY <1>1, <1>11 DEF identity, Identified, MaxInquiryCustomerNo, MaxInquiryVirtualAccountNo,
     MaxPaymentCustomerNo, MaxPaymentVirtualAccountNo
<1> QED
  BY <1>1, <1>12, <1>13 DEF MaxInquiryRequestID, MaxPaymentRequestID

\* The three services agree on identities and request ids, whatever was issued, a VA
\* number of the merchant's own included: no inquiry passes whose payment or status
\* request is refused.
THEOREM InquiredCanBePaid ==
    ASSUME Names \subseteq Nat
    PROVE  Spec => InquirableIsPayable
<1> DEFINE Follows(i) ==
        \A n \in {0, 1, 30, 31, 128} :
            InquiryAnswer(BankInquiry(i, n), TRUE) = Passed =>
                /\ PaymentAnswer(BankPayment(i, n, Paid), TRUE) = Passed
                /\ StatusAnswer(BankStatus(i, n)) = Passed
<1>1. ASSUME IInv, SavedIsStorable, [Next]_vars, NEW i \in issued' \ issued PROVE Follows(i)
  <2>1. PICK c \in Callers : PastLock(c) /\ Succeed(c) /\ Storable(c)
    BY <1>1, IssuedByAnswer
  <2>2. Named(i)
    BY <1>1, <2>1, AnsweredNamed
  <2> SUFFICES ASSUME NEW n \in {0, 1, 30, 31, 128}, InquiryAnswer(BankInquiry(i, n), TRUE) = Passed
               PROVE  /\ PaymentAnswer(BankPayment(i, n, Paid), TRUE) = Passed
                      /\ StatusAnswer(BankStatus(i, n)) = Passed
    OBVIOUS
  <2>3. Identified(i) /\ n \in 1 .. MaxPaymentRequestID
    <3>1. n \in Nat
      OBVIOUS
    <3> QED
      BY <3>1, InquiryShows
  <2>4. Proper(Paid) /\ Paid \in Amount
    BY DEF Proper, Paid, AllowedCurrencies, Amount, Values, Currencies
  <2>5. ValidatePaymentRequest(BankPayment(i, n, Paid), TRUE) = NoViolation
    BY <2>2, <2>3, <2>4, PaymentVerdict
  <2> QED
    BY <2>3, <2>5, StatusPasses DEF PaymentAnswer
<1>2. IInv /\ SavedIsStorable /\ [Next]_vars => [\A i \in issued' \ issued : Follows(i)]_vars
  BY <1>1
<1>3. [\A i \in issued' \ issued : Follows(i)]_vars =>
        [\A i \in issued' \ issued, n \in {0, 1, 30, 31, 128} :
            InquiryAnswer(BankInquiry(i, n), TRUE) = Passed =>
                /\ PaymentAnswer(BankPayment(i, n, Paid), TRUE) = Passed
                /\ StatusAnswer(BankStatus(i, n)) = Passed]_vars
  OBVIOUS
<1> QED
  BY <1>2, <1>3, Inductive, StoredIsStorable, PTL DEF Spec, InquirableIsPayable

\* Each way in which what is paid can be wrong has its one answer, and nothing gets
\* past but a positive figure with both decimals in a currency that BCA takes.
THEOREM AmountsAreToldApart ==
    ASSUME TextsFit
    PROVE  Spec => AmountRefusals
<1> DEFINE Answer(i, a) == PaymentAnswer(BankPayment(i, MaxPaymentRequestID, a), FALSE)
           Told(i, a) ==
            /\ Answer(i, a) = Passed <=> a.value = "cents" /\ a.currency \in AllowedCurrencies
            /\ a.value \in {"absent", "blank"} => Answer(i, a) = ViolationCode("25", Mandatory("paidAmount"))
            /\ a.value \in {"malformed", "long"} => Answer(i, a) = CodePaymentInvalidAmt
            /\ a.value \in {"whole", "zero"} /\ a.currency \in AllowedCurrencies
               => Answer(i, a) = CodePaymentInvalidAmt
            /\ a.value = "cents" /\ a.currency = "foreign" => Answer(i, a) = ViolationCode("25", BadFormat("paidAmount"))
<1>1. ASSUME IInv, SavedIsStorable, [Next]_vars, NEW i \in issued' \ issued, ~i.own, NEW a \in Amount
      PROVE  Told(i, a)
  <2> DEFINE found == ValidatePaymentRequest(BankPayment(i, MaxPaymentRequestID, a), FALSE)
             shape == ValidateAmount(a, "paidAmount")
  <2>1. PICK c \in Callers : PastLock(c) /\ Succeed(c) /\ Storable(c)
    BY <1>1, IssuedByAnswer
  <2>2. Fits(i) /\ Named(i)
    BY <1>1, <2>1, AnsweredFits, AnsweredNamed DEF TextsFit
  <2>3. /\ a.value = "absent" => found = Mandatory("paidAmount")
        /\ a.value # "absent" /\ shape # NoViolation => found = shape
        /\ a.value \notin {"absent", "cents"} /\ shape = NoViolation => found = BadFormat("paidAmount.value")
        /\ Proper(a) => found = NoViolation
    <3>1. Identified(i) /\ MaxPaymentRequestID \in 1 .. MaxPaymentRequestID
      BY <2>2, BankIdentityPasses DEF MaxPaymentRequestID
    <3> QED
      BY <1>1, <2>2, <3>1, PaymentVerdict
  <2>4. /\ a.value = "blank" => shape = Mandatory("paidAmount.value")
        /\ a.value \in {"malformed", "long"} => shape = BadFormat("paidAmount.value")
        /\ a.value \notin {"blank", "malformed", "long"} =>
             /\ a.currency = "blank" => shape = Mandatory("paidAmount" \o ".currency")
             /\ a.currency = "foreign" => shape = BadFormat("paidAmount" \o ".currency")
             /\ a.currency \in AllowedCurrencies => shape = NoViolation
    BY <1>1, AmountVerdict, FieldNamesAssumption
  <2>5. /\ found = NoViolation => Answer(i, a) = Passed
        /\ found # NoViolation /\ found = BadFormat("paidAmount.value") => Answer(i, a) = CodePaymentInvalidAmt
        /\ found # NoViolation /\ found # BadFormat("paidAmount.value") => Answer(i, a) = ViolationCode("25", found)
    BY DEF PaymentAnswer, PaidAmountViolationIsInvalidAmount
  <2> HIDE DEF found, shape, Answer
  <2>6. a.value \in Values /\ a.currency \in Currencies
    BY <1>1 DEF Amount
  <2>7. /\ \A f : Mandatory(f) # BadFormat("paidAmount.value")
        /\ \A f, g : ViolationCode("25", Mandatory(f)) = ViolationCode("25", Mandatory(g))
        /\ \A f, g : ViolationCode("25", BadFormat(f)) = ViolationCode("25", BadFormat(g))
        /\ BadFormat("paidAmount" \o ".currency") # BadFormat("paidAmount.value")
    BY FieldNamesAssumption DEF Mandatory, BadFormat, ViolationCode
  <2>8. /\ \A v : ViolationCode("25", v) # Passed
        /\ CodePaymentInvalidAmt # Passed
    BY PassedIsNoViolation
  <2>9. CASE a.value \in {"absent", "blank"}
    <3>1. found = Mandatory("paidAmount") \/ found = Mandatory("paidAmount.value")
      BY <2>3, <2>4, <2>9, ViolationsTell
    <3>2. Answer(i, a) = ViolationCode("25", Mandatory("paidAmount"))
      BY <2>5, <2>7, <3>1, ViolationsTell
    <3> QED
      BY <2>8, <2>9, <3>2
  <2>10. CASE a.value \in {"malformed", "long"}
    <3>1. found = BadFormat("paidAmount.value")
      BY <2>3, <2>4, <2>10, ViolationsTell
    <3>2. Answer(i, a) = CodePaymentInvalidAmt
      BY <2>5, <3>1, ViolationsTell
    <3> QED
      BY <2>8, <2>10, <3>2
  <2>11. CASE a.value \in {"whole", "zero"}
    <3>1. found # NoViolation
      BY <2>3, <2>11, ViolationsTell
    <3>2. a.currency \in AllowedCurrencies => found = BadFormat("paidAmount.value")
      BY <2>3, <2>4, <2>11
    <3>3. Answer(i, a) # Passed
      BY <2>5, <2>8, <3>1
    <3> QED
      BY <2>5, <2>11, <3>1, <3>2, <3>3
  <2>12. CASE a.value = "cents"
    <3>1. CASE a.currency \in AllowedCurrencies
      <4>1. Answer(i, a) = Passed
        BY <2>3, <2>5, <2>12, <3>1 DEF Proper
      <4> QED
        BY <2>12, <3>1, <4>1 DEF AllowedCurrencies
    <3>2. CASE a.currency = "foreign"
      <4>1. found = BadFormat("paidAmount" \o ".currency")
        BY <2>3, <2>4, <2>12, <3>2, ViolationsTell
      <4>2. Answer(i, a) = ViolationCode("25", BadFormat("paidAmount"))
        BY <2>5, <2>7, <4>1, ViolationsTell
      <4> QED
        BY <2>8, <2>12, <3>2, <4>2 DEF AllowedCurrencies
    <3>3. CASE a.currency = "blank"
      <4>1. found = Mandatory("paidAmount" \o ".currency")
        BY <2>3, <2>4, <2>12, <3>3, ViolationsTell
      <4>2. Answer(i, a) # Passed
        BY <2>5, <2>7, <2>8, <4>1, ViolationsTell
      <4> QED
        BY <2>12, <3>3, <4>2 DEF AllowedCurrencies
    <3> QED
      BY <2>6, <3>1, <3>2, <3>3 DEF Currencies, AllowedCurrencies
  <2> QED
    BY <2>6, <2>9, <2>10, <2>11, <2>12 DEF Values
<1>2. IInv /\ SavedIsStorable /\ [Next]_vars =>
        [\A i \in issued' \ issued, a \in Amount : ~i.own => Told(i, a)]_vars
  BY <1>1
<1>3. [\A i \in issued' \ issued, a \in Amount : ~i.own => Told(i, a)]_vars =>
        [\A i \in issued' \ issued, a \in Amount : ~i.own =>
            LET answer == PaymentAnswer(BankPayment(i, MaxPaymentRequestID, a), FALSE)
            IN  /\ answer = Passed <=> a.value = "cents" /\ a.currency \in AllowedCurrencies
                /\ a.value \in {"absent", "blank"} => answer = ViolationCode("25", Mandatory("paidAmount"))
                /\ a.value \in {"malformed", "long"} => answer = CodePaymentInvalidAmt
                /\ a.value \in {"whole", "zero"} /\ a.currency \in AllowedCurrencies
                   => answer = CodePaymentInvalidAmt
                /\ a.value = "cents" /\ a.currency = "foreign"
                   => answer = ViolationCode("25", BadFormat("paidAmount"))]_vars
  OBVIOUS
<1> QED
  BY <1>2, <1>3, Inductive, StoredIsStorable, PTL DEF Spec, AmountRefusals

-----------------------------------------------------------------------------
(* The lists create-va looks its rules up in: TypeRules                    *)

CONSTANTS Replicas, Tickers, Lookups, At, Tables, MaxVersion, Empty, MaxFailures
VARIABLES db, redis, snap, at, list, read, writes, since, warm, published, raced, failures

\* RulesFor reads the lists as they are; how they get there is TypeRules', of which
\* the rest of this module is about.  The lookups are TypeRules' Requests, and a
\* goroutine is at its pc.
Cache == INSTANCE TypeRules WITH Requests <- Lookups, pc <- at

\* What TypeRules assumes of its constants.
MastersKnown == Cache!AtAssumption /\ Cache!BoundsAssumption /\ Cache!NoneAssumption

\* Where a refresh and a lookup are at work.
Refreshing == {"listTypes", "listPartners", "install", "setTypes", "setPartners"}
LookingUp == {"get", "adopt", "refill", "adoptFresh", "set", "fallback", "direct", "answer"}

\* What a list without rows is kept as.
LEMMA NilIsCached ==
    ASSUME NEW v \in Cache!Cached
    PROVE  Cache!Nil(v) \in {v, None} /\ Cache!Nil(v) \in Cache!Cached
BY DEF Cache!Nil, Cache!Cached

\* What a goroutine may do to its own record: those of the others stay.
Local(p) ==
    \A q \in Cache!Procs \ {p} :
        /\ at'[q] = at[q] /\ list'[q] = list[q] /\ read'[q] = read[q]
        /\ writes'[q] = writes[q] /\ since'[q] = since[q] /\ warm'[q] = warm[q]

\* The variables of a goroutine, typed.
LocalTypes ==
    /\ at \in [Cache!Procs -> Cache!PCs]
    /\ list \in [Cache!Procs -> Cache!Lists]
    /\ read \in [Cache!Procs -> [Cache!Lists -> Cache!Cached]]
    /\ writes \in [Cache!Procs -> Cache!Lists \cup {None}]
    /\ since \in [Cache!Procs -> Cache!Versions]
    /\ warm \in [Cache!Procs -> BOOLEAN]

\* A goroutine reads a list.
LEMMA ListRead ==
    ASSUME LocalTypes, NEW p \in Cache!Procs, NEW l \in Cache!Lists, NEW v \in Cache!Cached,
           Cache!Reads(p, l, v)
    PROVE  /\ read' \in [Cache!Procs -> [Cache!Lists -> Cache!Cached]]
           /\ read'[p][l] = v
           /\ \A m \in Cache!Lists \ {l} : read'[p][m] = read[p][m]
           /\ \A q \in Cache!Procs \ {p} : read'[q] = read[q]
<1> DEFINE new == [read[p] EXCEPT ![l] = v]
<1>1. read' = [read EXCEPT ![p] = new]
  BY DEF Cache!Reads
<1>2. new \in [Cache!Lists -> Cache!Cached] /\ new[l] = v
      /\ \A m \in Cache!Lists \ {l} : new[m] = read[p][m]
  BY DEF LocalTypes
<1> HIDE DEF new
<1> QED
  BY <1>1, <1>2 DEF LocalTypes

\* A goroutine moves on.
LEMMA Moves ==
    ASSUME LocalTypes, NEW p \in Cache!Procs, NEW l \in Cache!PCs, Cache!Goto(p, l)
    PROVE  /\ at' \in [Cache!Procs -> Cache!PCs] /\ at'[p] = l
           /\ \A q \in Cache!Procs \ {p} : at'[q] = at[q]
BY DEF Cache!Goto, LocalTypes

\* A goroutine is done.
LEMMA Finishes ==
    ASSUME LocalTypes, MastersKnown, NEW p \in Cache!Procs, Cache!Done(p)
    PROVE  /\ LocalTypes' /\ Local(p) /\ at'[p] = "idle" /\ writes'[p] = None
<1>1. 1 \in Cache!Versions
  BY DEF MastersKnown, Cache!BoundsAssumption, Cache!Versions
<1>2. "idle" \in Cache!PCs /\ "vaTypes" \in Cache!Lists
  BY DEF Cache!PCs, Cache!Lists
<1>3. [l \in Cache!Lists |-> None] \in [Cache!Lists -> Cache!Cached]
  BY DEF Cache!Cached
<1> DEFINE none == [l \in Cache!Lists |-> None]
<1>4. read' = [read EXCEPT ![p] = none] /\ none \in [Cache!Lists -> Cache!Cached]
  BY <1>3 DEF Cache!Done
<1> HIDE DEF none
<1>5. at' \in [Cache!Procs -> Cache!PCs] /\ at'[p] = "idle"
      /\ \A q \in Cache!Procs \ {p} : at'[q] = at[q]
  BY <1>2, Moves DEF Cache!Done
<1>6. /\ list' \in [Cache!Procs -> Cache!Lists] /\ writes' \in [Cache!Procs -> Cache!Lists \cup {None}]
      /\ since' \in [Cache!Procs -> Cache!Versions] /\ warm' \in [Cache!Procs -> BOOLEAN]
      /\ read' \in [Cache!Procs -> [Cache!Lists -> Cache!Cached]] /\ writes'[p] = None
      /\ \A q \in Cache!Procs \ {p} :
            /\ list'[q] = list[q] /\ read'[q] = read[q]
            /\ writes'[q] = writes[q] /\ since'[q] = since[q] /\ warm'[q] = warm[q]
  BY <1>1, <1>2, <1>4 DEF Cache!Done, LocalTypes
<1> QED
  BY <1>5, <1>6 DEF LocalTypes, Local

\* The variables that are shared, typed.
SharedTypes ==
    /\ db \in [Cache!Lists -> Cache!Versions]
    /\ redis \in [Cache!Lists -> Cache!Cached]
    /\ snap \in [Replicas -> [Cache!Lists -> Cache!Cached]]
    /\ published \in [Cache!Lists -> Cache!Versions]
    /\ raced \in BOOLEAN /\ failures \in 0 .. MaxFailures

\* What a goroutine in the middle of something has.
HasLists(p) ==
    /\ at[p] \in {"install", "setTypes", "setPartners"} => \A l \in Cache!Lists : read[p][l] # None
    /\ at[p] = "listPartners" => read[p]["vaTypes"] # None
    /\ at[p] \in {"adopt", "adoptFresh", "set"} => read[p][list[p]] # None

\* No statement has failed, and nothing was in progress together with a write.
Undisturbed == failures = 0 /\ ~raced

\* Redis has the lists of the last write that returned, or later ones.
FreshLists ==
    \A l \in Cache!Lists :
        published[l] <= db[l] /\ (redis[l] # None => redis[l] >= published[l])

\* A write is alone.
WritesAlone ==
    \A p \in Cache!Procs : writes[p] # None => \A q \in Cache!Procs \ {p} : at[q] = "idle"

\* A goroutine's lists are those of the last write that returned, or later ones;
\* and those of a write are in Redis before it returns.
Fresh(p) ==
    /\ at[p] \notin {"fallback", "direct"}
    /\ at[p] \in LookingUp => since[p] <= published[list[p]]
    /\ at[p] \in {"adopt", "adoptFresh", "set", "answer"} =>
           read[p][list[p]] # None /\ read[p][list[p]] >= published[list[p]]
    /\ at[p] = "listPartners" => read[p]["vaTypes"] \in published["vaTypes"] .. db["vaTypes"]
    /\ at[p] \in {"install", "setTypes", "setPartners"} =>
           \A l \in Cache!Lists : read[p][l] \in published[l] .. db[l]
    /\ writes[p] # None => at[p] \in Refreshing
    /\ writes[p] # None /\ at[p] = "setPartners" /\ redis["vaTypes"] # None =>
           redis["vaTypes"] >= read[p]["vaTypes"]

\* A replica that had a list when the lookup began has one.
KeepsList(p) ==
    /\ warm[p] /\ at[p] \in LookingUp => snap[At[p]][list[p]] # None
    /\ at[p] = "direct" => ~warm[p]
    /\ at[p] = "answer" /\ read[p][list[p]] = None => ~warm[p]

\* The inductive invariant.  What it says of fresh lists holds while nothing has
\* disturbed a write, what it says of lists kept where no table is emptied.
CacheInv ==
    /\ SharedTypes /\ LocalTypes /\ \A p \in Cache!Procs : HasLists(p)
    /\ Undisturbed => FreshLists /\ WritesAlone /\ \A p \in Cache!Procs : Fresh(p)
    /\ Empty = {} => \A p \in Cache!Procs : KeepsList(p)

\* No snapshot is lost.
SnapKept ==
    Empty = {} => \A r \in Replicas, l \in Cache!Lists : snap[r][l] # None => snap'[r][l] # None

\* What is left to show of what goroutine p does.
LEMMA OneMoves ==
    ASSUME CacheInv, MastersKnown, NEW p \in Cache!Procs,
           SharedTypes', LocalTypes', Local(p), HasLists(p)', SnapKept,
           Empty = {} => KeepsList(p)',
           Undisturbed' => Undisturbed,
           Undisturbed' => FreshLists' /\ Fresh(p)',
           \A l \in Cache!Lists : db[l] <= db'[l],
           Undisturbed' => \A q \in Cache!Procs \ {p} : writes[q] = None,
           Undisturbed' => published' = published \/ \A q \in Cache!Procs \ {p} : at[q] = "idle",
           Undisturbed' /\ writes'[p] # None => \A q \in Cache!Procs \ {p} : at[q] = "idle"
    PROVE  CacheInv'
<1>1. \A q \in Cache!Procs : HasLists(q)'
  BY DEF CacheInv, HasLists, Local
<1>2. ASSUME Undisturbed' PROVE WritesAlone'
  BY <1>2 DEF WritesAlone, Local
<1>3. ASSUME Undisturbed', NEW q \in Cache!Procs \ {p} PROVE Fresh(q)'
  <2>1. Fresh(q) /\ writes[q] = None /\ writes'[q] = None
    BY <1>3 DEF CacheInv, Local
  <2>2. CASE at[q] = "idle"
    BY <2>1, <2>2 DEF Fresh, Local, LookingUp
  <2>3. CASE published' = published
    <3>1. db \in [Cache!Lists -> Cache!Versions] /\ db' \in [Cache!Lists -> Cache!Versions]
          /\ published \in [Cache!Lists -> Cache!Versions] /\ Cache!Versions \subseteq Nat
          /\ "vaTypes" \in Cache!Lists
          /\ read[q] \in [Cache!Lists -> Cache!Cached]
      BY DEF CacheInv, SharedTypes, LocalTypes, Cache!Versions, Cache!Lists
    <3>2. ASSUME NEW l \in Cache!Lists, NEW v \in published[l] .. db[l]
          PROVE  v \in published'[l] .. db'[l]
      <4>1. published[l] \in Nat /\ db[l] \in Nat /\ db'[l] \in Nat /\ db[l] <= db'[l]
        BY <3>1
      <4> QED
        BY <2>3, <4>1
    <3>3. at'[q] = at[q] /\ list'[q] = list[q] /\ read'[q] = read[q] /\ since'[q] = since[q]
      BY DEF Local
    <3>4. at[q] = "listPartners" => read[q]["vaTypes"] \in published'["vaTypes"] .. db'["vaTypes"]
      BY <2>1, <3>1, <3>2 DEF Fresh
    <3>5. at[q] \in {"install", "setTypes", "setPartners"} =>
              \A l \in Cache!Lists : read[q][l] \in published'[l] .. db'[l]
      BY <2>1, <3>2 DEF Fresh
    <3> QED
      BY <2>1, <2>3, <3>3, <3>4, <3>5 DEF Fresh
  <2> QED
    BY <1>3, <2>2, <2>3
<1>4. ASSUME Empty = {}, NEW q \in Cache!Procs \ {p} PROVE KeepsList(q)'
  <2>1. KeepsList(q)
    BY <1>4 DEF CacheInv
  <2>2. At[q] \in Replicas /\ list[q] \in Cache!Lists
    BY DEF MastersKnown, Cache!AtAssumption, CacheInv, LocalTypes
  <2>3. snap[At[q]][list[q]] # None => snap'[At[q]][list[q]] # None
    BY <1>4, <2>2 DEF SnapKept
  <2> QED
    BY <2>1, <2>3 DEF KeepsList, Local
<1> QED
  BY <1>1, <1>2, <1>3, <1>4 DEF CacheInv

\* A goroutine in the middle of something takes a step.
LEMMA OneGoesOn ==
    ASSUME CacheInv, MastersKnown, NEW p \in Cache!Procs, at[p] # "idle",
           SharedTypes', LocalTypes', Local(p), HasLists(p)', SnapKept,
           Empty = {} => KeepsList(p)',
           UNCHANGED <<db, raced>>, failures' = 0 => failures = 0,
           Undisturbed' => FreshLists' /\ Fresh(p)',
           writes'[p] \in {writes[p], None}, published' = published \/ writes[p] # None
    PROVE  CacheInv'
<1>1. Undisturbed' => Undisturbed
  BY DEF Undisturbed
<1>2. ASSUME Undisturbed' PROVE \A q \in Cache!Procs \ {p} : writes[q] = None
  BY <1>1, <1>2 DEF CacheInv, WritesAlone
<1>3. ASSUME Undisturbed', writes[p] # None PROVE \A q \in Cache!Procs \ {p} : at[q] = "idle"
  BY <1>1, <1>3 DEF CacheInv, WritesAlone
<1>4. \A l \in Cache!Lists : db[l] <= db'[l]
  BY DEF CacheInv, SharedTypes, Cache!Versions
<1>5. Undisturbed' => published' = published \/ \A q \in Cache!Procs \ {p} : at[q] = "idle"
  BY <1>3
<1>6. Undisturbed' /\ writes'[p] # None => \A q \in Cache!Procs \ {p} : at[q] = "idle"
  BY <1>3
<1> QED
  BY <1>1, <1>2, <1>4, <1>5, <1>6, OneMoves

\* A goroutine is done, and has nothing left in hand.
LEMMA OneFinishes ==
    ASSUME CacheInv, MastersKnown, NEW p \in Cache!Procs, at[p] # "idle", Cache!Done(p),
           SharedTypes', UNCHANGED <<db, snap, raced>>, failures' = 0 => failures = 0,
           Undisturbed' => FreshLists', published' = published \/ writes[p] # None
    PROVE  CacheInv'
<1>1. LocalTypes' /\ Local(p) /\ at'[p] = "idle" /\ writes'[p] = None
  BY Finishes DEF CacheInv
<1>2. HasLists(p)' /\ Fresh(p)' /\ KeepsList(p)'
  BY <1>1 DEF HasLists, Fresh, KeepsList, LookingUp
<1>3. SnapKept
  BY DEF SnapKept
<1> QED
  BY <1>1, <1>2, <1>3, OneGoesOn

\* A goroutine moves on; what else it is doing stays.
LEMMA OneMovesOn ==
    ASSUME CacheInv, MastersKnown, NEW p \in Cache!Procs, at[p] # "idle",
           NEW l \in Cache!PCs, Cache!Goto(p, l), UNCHANGED <<list, writes, since, warm>>,
           read' \in [Cache!Procs -> [Cache!Lists -> Cache!Cached]],
           \A q \in Cache!Procs \ {p} : read'[q] = read[q],
           SharedTypes', SnapKept, UNCHANGED <<db, published, raced>>, failures' = 0 => failures = 0,
           HasLists(p)', Empty = {} => KeepsList(p)', Undisturbed' => FreshLists' /\ Fresh(p)'
    PROVE  CacheInv'
<1>1. /\ at' \in [Cache!Procs -> Cache!PCs] /\ at'[p] = l
      /\ \A q \in Cache!Procs \ {p} : at'[q] = at[q]
  BY Moves DEF CacheInv
<1>2. LocalTypes' /\ Local(p)
  BY <1>1 DEF CacheInv, LocalTypes, Local
<1> QED
  BY <1>2, OneGoesOn

\* A statement fails.
LEMMA Failed ==
    ASSUME MastersKnown, failures \in 0 .. MaxFailures, Cache!Fails
    PROVE  failures' \in 0 .. MaxFailures /\ failures' # 0
BY DEF MastersKnown, Cache!BoundsAssumption, Cache!Fails

\* The steps of a refresh.
LEMMA RefreshStep ==
    ASSUME CacheInv, MastersKnown, NEW p \in Cache!Procs,
           \/ Cache!ListVATypes(p) \/ Cache!ListPartnerServiceIDs(p) \/ Cache!Install(p)
           \/ Cache!SetVATypes(p) \/ Cache!SetPartnerServiceIDs(p)
    PROVE  CacheInv'
<1>0. /\ SharedTypes /\ LocalTypes /\ HasLists(p) /\ (Empty = {} => KeepsList(p))
      /\ Undisturbed => FreshLists /\ WritesAlone /\ Fresh(p)
  BY DEF CacheInv
<1>1. /\ Cache!Lists = {"vaTypes", "partnerIDs"}
      /\ {"listPartners", "install", "setTypes", "setPartners"} \subseteq Cache!PCs
      /\ At[p] \in Replicas /\ Cache!Versions \subseteq Nat /\ Cache!Versions \subseteq Cache!Cached
      /\ None \notin Nat
  BY DEF Cache!Lists, Cache!PCs, MastersKnown, Cache!AtAssumption, Cache!NoneAssumption, Cache!Versions, Cache!Cached
<1>2. ASSUME NEW l \in Cache!Lists
      PROVE  db[l] \in Cache!Versions /\ db[l] # None /\ published[l] \in Cache!Versions
             /\ (Undisturbed => db[l] \in published[l] .. db[l])
  <2>1. db[l] \in Nat /\ published[l] \in Nat /\ db[l] \in Cache!Versions /\ published[l] \in Cache!Versions
    BY <1>0, <1>1 DEF SharedTypes
  <2> QED
    BY <1>0, <1>1, <2>1 DEF FreshLists
<1>3. CASE Cache!ListVATypes(p)
  <2>1. CASE Cache!Fails /\ Cache!Done(p)
    <3>1. failures' \in 0 .. MaxFailures /\ failures' # 0
      BY <1>0, <2>1, Failed DEF SharedTypes
    <3> QED
      BY <1>0, <1>3, <2>1, <3>1, OneFinishes DEF Cache!ListVATypes, SharedTypes, Undisturbed
  <2>2. CASE Cache!Reads(p, "vaTypes", db["vaTypes"]) /\ Cache!Goto(p, "listPartners")
             /\ UNCHANGED <<list, writes, since, warm, failures>>
    <3>1. UNCHANGED <<db, redis, snap, published, raced>> /\ at[p] = "listTypes"
      BY <1>3 DEF Cache!ListVATypes
    <3>2. /\ read' \in [Cache!Procs -> [Cache!Lists -> Cache!Cached]]
          /\ read'[p]["vaTypes"] = db["vaTypes"]
          /\ \A q \in Cache!Procs \ {p} : read'[q] = read[q]
      <4>1. "vaTypes" \in Cache!Lists /\ db["vaTypes"] \in Cache!Cached /\ Cache!Reads(p, "vaTypes", db["vaTypes"])
        BY <1>1, <1>2, <2>2
      <4> QED
        BY <1>0, <4>1, ListRead
    <3>3. at'[p] = "listPartners"
      BY <1>0, <1>1, <2>2, Moves
    <3>4. HasLists(p)' /\ KeepsList(p)' /\ SnapKept
      BY <1>1, <1>2, <3>1, <3>2, <3>3 DEF HasLists, KeepsList, LookingUp, SnapKept
    <3>5. SharedTypes'
      BY <1>0, <2>2, <3>1 DEF SharedTypes
    <3>6. ASSUME Undisturbed' PROVE FreshLists' /\ Fresh(p)'
      <4>1. Undisturbed
        BY <2>2, <3>1, <3>6 DEF Undisturbed
      <4>2. FreshLists'
        BY <1>0, <3>1, <4>1 DEF FreshLists
      <4>3. read'[p]["vaTypes"] \in published'["vaTypes"] .. db'["vaTypes"]
        BY <1>1, <1>2, <3>1, <3>2, <4>1
      <4> QED
        BY <3>3, <4>2, <4>3 DEF Fresh, LookingUp, Refreshing
    <3> QED
      BY <1>1, <2>2, <3>1, <3>2, <3>4, <3>5, <3>6, OneMovesOn
  <2> QED
    BY <1>3, <2>1, <2>2 DEF Cache!ListVATypes
<1>4. CASE Cache!ListPartnerServiceIDs(p)
  <2>1. CASE Cache!Fails /\ Cache!Done(p)
    <3>1. failures' \in 0 .. MaxFailures /\ failures' # 0
      BY <1>0, <2>1, Failed DEF SharedTypes
    <3> QED
      BY <1>0, <1>4, <2>1, <3>1, OneFinishes DEF Cache!ListPartnerServiceIDs, SharedTypes, Undisturbed
  <2>2. CASE Cache!Reads(p, "partnerIDs", db["partnerIDs"]) /\ Cache!Goto(p, "install")
             /\ UNCHANGED <<list, writes, since, warm, failures>>
    <3>1. UNCHANGED <<db, redis, snap, published, raced>> /\ at[p] = "listPartners"
      BY <1>4 DEF Cache!ListPartnerServiceIDs
    <3>2. /\ read' \in [Cache!Procs -> [Cache!Lists -> Cache!Cached]]
          /\ read'[p]["partnerIDs"] = db["partnerIDs"]
          /\ read'[p]["vaTypes"] = read[p]["vaTypes"]
          /\ \A q \in Cache!Procs \ {p} : read'[q] = read[q]
      <4>1. "partnerIDs" \in Cache!Lists /\ db["partnerIDs"] \in Cache!Cached /\ Cache!Reads(p, "partnerIDs", db["partnerIDs"])
        BY <1>1, <1>2, <2>2
      <4>2. "vaTypes" \in Cache!Lists \ {"partnerIDs"}
        BY <1>1
      <4> QED
        BY <1>0, <4>1, <4>2, ListRead
    <3>3. at'[p] = "install"
      BY <1>0, <1>1, <2>2, Moves
    <3>4. HasLists(p)' /\ KeepsList(p)' /\ SnapKept
      BY <1>0, <1>1, <1>2, <3>1, <3>2, <3>3 DEF HasLists, KeepsList, LookingUp, SnapKept
    <3>5. SharedTypes'
      BY <1>0, <2>2, <3>1 DEF SharedTypes
    <3>6. ASSUME Undisturbed' PROVE FreshLists' /\ Fresh(p)'
      <4>1. Undisturbed
        BY <2>2, <3>1, <3>6 DEF Undisturbed
      <4>2. FreshLists'
        BY <1>0, <3>1, <4>1 DEF FreshLists
      <4>3. \A l \in Cache!Lists : read'[p][l] \in published'[l] .. db'[l]
        BY <1>0, <1>1, <1>2, <3>1, <3>2, <4>1 DEF Fresh
      <4> QED
        BY <3>3, <4>2, <4>3 DEF Fresh, LookingUp, Refreshing
    <3> QED
      BY <1>1, <2>2, <3>1, <3>2, <3>4, <3>5, <3>6, OneMovesOn
  <2> QED
    BY <1>4, <2>1, <2>2 DEF Cache!ListPartnerServiceIDs
<1>5. CASE Cache!Install(p)
  <2> DEFINE new == [l \in Cache!Lists |-> Cache!Nil(read[p][l])]
  <2>1. /\ UNCHANGED <<db, redis, list, read, writes, since, warm, published, raced, failures>>
        /\ at[p] = "install" /\ Cache!Goto(p, "setTypes") /\ snap' = [snap EXCEPT ![At[p]] = new]
    BY <1>5 DEF Cache!Install, Cache!history
  <2>2. new \in [Cache!Lists -> Cache!Cached] /\ (Empty = {} => \A l \in Cache!Lists : new[l] # None)
    BY <1>0, <2>1, NilIsCached DEF LocalTypes, HasLists, Cache!Nil
  <2> HIDE DEF new
  <2>3. SharedTypes' /\ SnapKept
    BY <1>0, <1>1, <2>1, <2>2 DEF SharedTypes, SnapKept
  <2>4. at'[p] = "setTypes"
    BY <1>0, <1>1, <2>1, Moves
  <2>5. HasLists(p)' /\ KeepsList(p)'
    BY <1>0, <2>1, <2>4 DEF HasLists, KeepsList, LookingUp
  <2>6. ASSUME Undisturbed' PROVE FreshLists' /\ Fresh(p)'
    BY <1>0, <2>1, <2>4, <2>6 DEF Undisturbed, FreshLists, Fresh, LookingUp, Refreshing
  <2> QED
    BY <1>0, <1>1, <2>1, <2>3, <2>5, <2>6, OneMovesOn DEF LocalTypes
<1>6. CASE Cache!SetVATypes(p)
  <2>1. /\ UNCHANGED <<db, snap, list, read, writes, since, warm, published, raced>>
        /\ at[p] = "setTypes" /\ Cache!Goto(p, "setPartners")
        /\ \/ redis' = [redis EXCEPT !["vaTypes"] = Cache!Nil(read[p]["vaTypes"])] /\ UNCHANGED failures
           \/ Cache!Fails /\ UNCHANGED redis
    BY <1>6 DEF Cache!SetVATypes, Cache!history
  <2>2. Cache!Nil(read[p]["vaTypes"]) \in {read[p]["vaTypes"], None} \cap Cache!Cached
    <3>1. read[p]["vaTypes"] \in Cache!Cached
      BY <1>0, <1>1 DEF LocalTypes
    <3> QED
      BY <3>1, NilIsCached
  <2>3. /\ failures' \in 0 .. MaxFailures /\ (failures' = 0 => failures = 0)
        /\ failures' = 0 => redis' = [redis EXCEPT !["vaTypes"] = Cache!Nil(read[p]["vaTypes"])]
    BY <1>0, <2>1, Failed DEF SharedTypes
  <2>4. SharedTypes' /\ SnapKept
    BY <1>0, <1>1, <2>1, <2>2, <2>3 DEF SharedTypes, SnapKept
  <2>5. at'[p] = "setPartners"
    BY <1>0, <1>1, <2>1, Moves
  <2>6. HasLists(p)' /\ KeepsList(p)'
    BY <1>0, <2>1, <2>5 DEF HasLists, KeepsList, LookingUp
  <2>7. ASSUME Undisturbed' PROVE FreshLists' /\ Fresh(p)'
    <3>1. Undisturbed /\ redis' = [redis EXCEPT !["vaTypes"] = Cache!Nil(read[p]["vaTypes"])]
      BY <2>1, <2>3, <2>7 DEF Undisturbed
    <3>2. /\ redis'["vaTypes"] \in {read[p]["vaTypes"], None}
          /\ \A l \in Cache!Lists \ {"vaTypes"} : redis'[l] = redis[l]
      BY <1>0, <1>1, <2>2, <3>1 DEF SharedTypes
    <3>3. \A l \in Cache!Lists : read[p][l] \in published[l] .. db[l]
      BY <1>0, <2>1, <3>1 DEF Fresh
    <3>4. read[p]["vaTypes"] \in Nat /\ read[p]["vaTypes"] >= published["vaTypes"]
      <4>1. read[p]["vaTypes"] \in published["vaTypes"] .. db["vaTypes"]
            /\ published["vaTypes"] \in Nat /\ db["vaTypes"] \in Nat
        BY <1>1, <1>2, <3>3
      <4> QED
        BY <4>1
    <3>5. FreshLists'
      BY <1>0, <2>1, <3>1, <3>2, <3>4 DEF FreshLists
    <3>6. Fresh(p)'
      BY <1>0, <2>1, <2>5, <3>1, <3>2, <3>3, <3>4 DEF Fresh, LookingUp, Refreshing
    <3> QED
      BY <3>5, <3>6
  <2> QED
    BY <1>0, <1>1, <2>1, <2>3, <2>4, <2>6, <2>7, OneMovesOn DEF LocalTypes
<1>7. CASE Cache!SetPartnerServiceIDs(p)
  <2>1. /\ UNCHANGED <<db, snap, raced>> /\ at[p] = "setPartners" /\ Cache!Done(p)
        /\ \/ redis' = [redis EXCEPT !["partnerIDs"] = Cache!Nil(read[p]["partnerIDs"])] /\ UNCHANGED failures
           \/ Cache!Fails /\ UNCHANGED redis
    BY <1>7 DEF Cache!SetPartnerServiceIDs
  <2>2. \/ writes[p] = None /\ UNCHANGED published
        \/ /\ writes[p] \in Cache!Lists /\ writes[p] # None
           /\ published' = [published EXCEPT ![writes[p]] =
                 IF read[p][writes[p]] > published[writes[p]] THEN read[p][writes[p]] ELSE published[writes[p]]]
    BY <1>0, <1>7 DEF Cache!SetPartnerServiceIDs, LocalTypes
  <2>3. Cache!Nil(read[p]["partnerIDs"]) \in {read[p]["partnerIDs"], None} \cap Cache!Cached
    <3>1. read[p]["partnerIDs"] \in Cache!Cached
      BY <1>0, <1>1 DEF LocalTypes
    <3> QED
      BY <3>1, NilIsCached
  <2>4. /\ failures' \in 0 .. MaxFailures /\ (failures' = 0 => failures = 0)
        /\ failures' = 0 => redis' = [redis EXCEPT !["partnerIDs"] = Cache!Nil(read[p]["partnerIDs"])]
    BY <1>0, <2>1, Failed DEF SharedTypes
  <2>5. \A l \in Cache!Lists : read[p][l] \in Cache!Versions
    BY <1>0, <2>1 DEF LocalTypes, HasLists, Cache!Cached
  <2>6. published' \in [Cache!Lists -> Cache!Versions]
    BY <1>0, <2>2, <2>5 DEF SharedTypes
  <2>7. SharedTypes'
    BY <1>0, <1>1, <2>1, <2>3, <2>4, <2>6 DEF SharedTypes
  <2>8. ASSUME Undisturbed' PROVE FreshLists'
    <3>1. Undisturbed /\ redis' = [redis EXCEPT !["partnerIDs"] = Cache!Nil(read[p]["partnerIDs"])]
      BY <2>1, <2>4, <2>8 DEF Undisturbed
    <3>2. /\ redis'["partnerIDs"] \in {read[p]["partnerIDs"], None}
          /\ redis'["vaTypes"] = redis["vaTypes"]
      BY <1>0, <1>1, <2>3, <3>1 DEF SharedTypes
    <3>3. \A l \in Cache!Lists : /\ read[p][l] \in published[l] .. db[l] /\ read[p][l] \in Nat
                                 /\ published[l] \in Nat /\ db[l] \in Nat
      BY <1>0, <1>1, <1>2, <2>1, <2>5, <3>1 DEF Fresh
    <3>4. \A l \in Cache!Lists : /\ published'[l] \in {published[l], read[p][l]}
                                 /\ writes[p] = None => published'[l] = published[l]
      <4>1. CASE writes[p] = None /\ UNCHANGED published
        BY <4>1
      <4>2. CASE writes[p] \in Cache!Lists /\ writes[p] # None
        <5> DEFINE t == writes[p]
                   new == IF read[p][t] > published[t] THEN read[p][t] ELSE published[t]
        <5>1. published' = [published EXCEPT ![t] = new] /\ new \in {published[t], read[p][t]}
          BY <2>2, <4>2
        <5> HIDE DEF new
        <5> QED
          BY <1>0, <4>2, <5>1 DEF SharedTypes
      <4> QED
        BY <2>2, <4>1, <4>2
    <3>5. \A l \in Cache!Lists : published'[l] <= db'[l]
      BY <2>1, <3>3, <3>4
    <3>6. redis'["partnerIDs"] # None => redis'["partnerIDs"] >= published'["partnerIDs"]
      BY <1>1, <3>2, <3>3, <3>4
    <3>7. redis'["vaTypes"] # None => redis'["vaTypes"] >= published'["vaTypes"]
      <4>1. redis["vaTypes"] # None => redis["vaTypes"] >= published["vaTypes"]
        BY <1>0, <1>1, <3>1 DEF FreshLists
      <4>2. writes[p] # None /\ redis["vaTypes"] # None => redis["vaTypes"] >= read[p]["vaTypes"]
        BY <1>0, <2>1, <3>1 DEF Fresh
      <4> QED
        BY <1>1, <3>2, <3>4, <4>1, <4>2
    <3> QED
      BY <1>1, <3>5, <3>6, <3>7 DEF FreshLists
  <2>9. published' = published \/ writes[p] # None
    BY <2>2
  <2> QED
    BY <2>1, <2>4, <2>7, <2>8, <2>9, OneFinishes
<1> QED
  BY <1>3, <1>4, <1>5, <1>6, <1>7

\* The steps of a lookup that read.
LEMMA LookupReads ==
    ASSUME CacheInv, MastersKnown, NEW p \in Cache!Procs,
           Cache!Get(p) \/ Cache!Refill(p) \/ Cache!Fallback(p) \/ Cache!Direct(p)
    PROVE  CacheInv'
<1> DEFINE l == list[p]
<1>0. /\ SharedTypes /\ LocalTypes /\ HasLists(p) /\ (Empty = {} => KeepsList(p))
      /\ Undisturbed => FreshLists /\ WritesAlone /\ Fresh(p)
  BY DEF CacheInv
<1>1. /\ {"adopt", "refill", "fallback", "adoptFresh", "direct", "answer"} \subseteq Cache!PCs
      /\ At[p] \in Replicas /\ Cache!Versions \subseteq Nat /\ Cache!Versions \subseteq Cache!Cached
      /\ None \notin Nat
  BY DEF Cache!PCs, MastersKnown, Cache!AtAssumption, Cache!NoneAssumption, Cache!Versions,
     Cache!Cached
<1>2. /\ l \in Cache!Lists /\ redis[l] \in Cache!Cached /\ snap[At[p]][l] \in Cache!Cached
      /\ db[l] \in Cache!Versions /\ db[l] # None
  <2>1. l \in Cache!Lists
    BY <1>0 DEF LocalTypes
  <2>2. redis[l] \in Cache!Cached /\ snap[At[p]][l] \in Cache!Cached /\ db[l] \in Cache!Versions
    BY <1>0, <1>1, <2>1 DEF SharedTypes
  <2> QED
    BY <1>1, <2>1, <2>2
<1>3. /\ UNCHANGED <<db, redis, snap, list, writes, since, warm, published, raced>>
      /\ at[p] \in {"get", "refill", "fallback", "direct"}
  BY DEF Cache!Get, Cache!Refill, Cache!Fallback, Cache!Direct, Cache!history
\* The list that is read, if one is, the place it is read from, and where the lookup goes on.
<1>4. PICK v \in Cache!Cached, to \in {"adopt", "refill", "fallback", "adoptFresh", "direct", "answer"} :
        /\ \/ Cache!Reads(p, l, v)
           \/ UNCHANGED read /\ v = read[p][l]
        /\ Cache!Goto(p, to)
        /\ UNCHANGED failures \/ Cache!Fails
        /\ to \in {"adopt", "adoptFresh"} => v # None
        /\ to = "direct" => snap[At[p]][l] = None
        /\ to = "answer" /\ v = None => at[p] = "direct"
        /\ UNCHANGED failures => \/ at[p] \in {"fallback", "direct"}
                                 \/ to = "refill" \/ (v = db[l] /\ to = "adoptFresh")
                                 \/ (v = redis[l] /\ to = "adopt")
  <2>0. read[p][l] \in Cache!Cached
    BY <1>0, <1>2 DEF LocalTypes
  <2>1. CASE Cache!Get(p)
    <3>1. CASE redis[l] # None /\ Cache!Reads(p, l, redis[l]) /\ Cache!Goto(p, "adopt")
               /\ UNCHANGED failures
      BY <1>2, <3>1
    <3>2. CASE Cache!Goto(p, "refill") /\ UNCHANGED <<read, failures>>
      BY <2>0, <3>2
    <3>3. CASE Cache!Fails /\ Cache!Goto(p, "fallback") /\ UNCHANGED read
      <4>1. failures' # failures
        BY <1>0, <3>3 DEF Cache!Fails, SharedTypes
      <4> QED
        BY <2>0, <3>3, <4>1
    <3> QED
      BY <2>1, <3>1, <3>2, <3>3 DEF Cache!Get
  <2>2. CASE Cache!Refill(p)
    <3>1. CASE Cache!Reads(p, l, db[l]) /\ Cache!Goto(p, "adoptFresh") /\ UNCHANGED failures
      BY <1>1, <1>2, <3>1
    <3>2. CASE Cache!Fails /\ Cache!Goto(p, "fallback") /\ UNCHANGED read
      <4>1. failures' # failures
        BY <1>0, <3>2 DEF Cache!Fails, SharedTypes
      <4> QED
        BY <2>0, <3>2, <4>1
    <3> QED
      BY <2>2, <3>1, <3>2 DEF Cache!Refill
  <2>3. CASE Cache!Fallback(p)
    <3>1. CASE snap[At[p]][l] # None
      BY <1>2, <2>3, <3>1 DEF Cache!Fallback
    <3>2. CASE snap[At[p]][l] = None
      BY <2>0, <2>3, <3>2 DEF Cache!Fallback
    <3> QED
      BY <3>1, <3>2
  <2>4. CASE Cache!Direct(p)
    <3>1. CASE Cache!Reads(p, l, db[l]) /\ UNCHANGED failures
      BY <1>1, <1>2, <2>4, <3>1 DEF Cache!Direct
    <3>2. CASE Cache!Fails /\ UNCHANGED read
      BY <2>0, <2>4, <3>2 DEF Cache!Direct
    <3> QED
      BY <2>4, <3>1, <3>2 DEF Cache!Direct
  <2> QED
    BY <2>1, <2>2, <2>3, <2>4
<1>5. /\ read' \in [Cache!Procs -> [Cache!Lists -> Cache!Cached]]
      /\ read'[p][l] = v
      /\ \A q \in Cache!Procs \ {p} : read'[q] = read[q]
  <2>1. CASE Cache!Reads(p, l, v)
    BY <1>0, <1>2, <2>1, ListRead
  <2>2. CASE UNCHANGED read /\ v = read[p][l]
    BY <1>0, <2>2 DEF LocalTypes
  <2> QED
    BY <1>4, <2>1, <2>2
<1>6. at'[p] = to
  BY <1>0, <1>1, <1>4, Moves
<1>7. failures' \in 0 .. MaxFailures /\ (failures' = 0 => UNCHANGED failures)
  BY <1>0, <1>4, Failed DEF SharedTypes
<1>8. SharedTypes' /\ SnapKept
  BY <1>0, <1>3, <1>7 DEF SharedTypes, SnapKept
<1>9. HasLists(p)'
  BY <1>3, <1>4, <1>5, <1>6 DEF HasLists
<1>10. ASSUME Empty = {} PROVE KeepsList(p)'
  <2>1. warm[p] => snap[At[p]][l] # None
    BY <1>0, <1>3, <1>10 DEF KeepsList, LookingUp
  <2>2. at[p] = "direct" => ~warm[p]
    BY <1>0, <1>10 DEF KeepsList
  <2> QED
    BY <1>3, <1>4, <1>5, <1>6, <2>1, <2>2 DEF KeepsList
<1>11. ASSUME Undisturbed' PROVE FreshLists' /\ Fresh(p)'
  <2>1. Undisturbed /\ UNCHANGED failures
    BY <1>3, <1>7, <1>11 DEF Undisturbed
  <2>2. FreshLists' /\ FreshLists /\ Fresh(p)
    BY <1>0, <1>3, <2>1 DEF FreshLists
  <2>3. /\ at[p] \notin {"fallback", "direct"} /\ since[p] <= published[l] /\ writes[p] = None
    BY <1>3, <2>2 DEF Fresh, LookingUp, Refreshing
  <2>4. to = "refill" \/ (v = db[l] /\ to = "adoptFresh") \/ (v = redis[l] /\ to = "adopt")
    BY <1>4, <2>1, <2>3
  <2>5. to \in {"adopt", "adoptFresh"} => v # None /\ v >= published[l]
    <3>1. published[l] <= db[l] /\ (redis[l] # None => redis[l] >= published[l])
      BY <1>2, <2>2 DEF FreshLists
    <3>2. published[l] \in Nat /\ db[l] \in Nat
      BY <1>0, <1>1, <1>2 DEF SharedTypes
    <3> QED
      BY <1>4, <2>4, <3>1, <3>2
  <2>6. Fresh(p)'
    BY <1>3, <1>5, <1>6, <2>3, <2>4, <2>5 DEF Fresh
  <2> QED
    BY <2>2, <2>6
<1>12. to \in Cache!PCs /\ at[p] # "idle" /\ (failures' = 0 => failures = 0)
  BY <1>1, <1>3, <1>7
<1> QED
  BY <1>3, <1>4, <1>5, <1>8, <1>9, <1>10, <1>11, <1>12, OneMovesOn

\* The steps of a lookup that install what was read, and its answer.
LEMMA LookupInstalls ==
    ASSUME CacheInv, MastersKnown, NEW p \in Cache!Procs,
           Cache!Adopt(p) \/ Cache!AdoptFresh(p) \/ Cache!SetFresh(p) \/ Cache!Answer(p)
    PROVE  CacheInv'
<1> DEFINE l == list[p]
<1>0. /\ SharedTypes /\ LocalTypes /\ HasLists(p) /\ (Empty = {} => KeepsList(p))
      /\ Undisturbed => FreshLists /\ WritesAlone /\ Fresh(p)
  BY DEF CacheInv
<1>1. /\ {"set", "answer"} \subseteq Cache!PCs /\ At[p] \in Replicas /\ l \in Cache!Lists
      /\ read[p][l] \in Cache!Cached
  BY <1>0 DEF Cache!PCs, MastersKnown, Cache!AtAssumption, LocalTypes
<1>2. /\ Cache!Nil(read[p][l]) \in {read[p][l], None} \cap Cache!Cached
      /\ Empty = {} => Cache!Nil(read[p][l]) = read[p][l]
  BY <1>1, NilIsCached DEF Cache!Nil
<1>3. CASE Cache!Answer(p)
  BY <1>0, <1>3, OneFinishes DEF Cache!Answer, SharedTypes, Undisturbed, FreshLists
<1>4. CASE Cache!Adopt(p) \/ Cache!AdoptFresh(p)
  <2>1. PICK v \in Cache!Cached, to \in {"set", "answer"} :
          /\ snap' = [snap EXCEPT ![At[p]][l] = v] /\ Cache!Goto(p, to)
          /\ Empty = {} => v = read[p][l]
    <3>1. CASE Cache!Adopt(p)
      BY <1>1, <3>1 DEF Cache!Adopt
    <3>2. CASE Cache!AdoptFresh(p)
      BY <1>2, <3>2 DEF Cache!AdoptFresh
    <3> QED
      BY <1>4, <3>1, <3>2
  <2>2. /\ UNCHANGED <<db, redis, list, read, writes, since, warm, published, raced, failures>>
        /\ at[p] \in {"adopt", "adoptFresh"}
    BY <1>4 DEF Cache!Adopt, Cache!AdoptFresh, Cache!history
  <2>3. snap' \in [Replicas -> [Cache!Lists -> Cache!Cached]] /\ snap'[At[p]][l] = v
        /\ \A r \in Replicas, m \in Cache!Lists : snap'[r][m] = snap[r][m] \/ snap'[r][m] = v
    <3> DEFINE new == [snap[At[p]] EXCEPT ![l] = v]
    <3>1. new \in [Cache!Lists -> Cache!Cached] /\ new[l] = v
          /\ \A m \in Cache!Lists : new[m] = snap[At[p]][m] \/ new[m] = v
      BY <1>0, <1>1 DEF SharedTypes
    <3>2. snap' = [snap EXCEPT ![At[p]] = new]
      BY <2>1
    <3> HIDE DEF new
    <3> QED
      BY <1>0, <1>1, <3>1, <3>2 DEF SharedTypes
  <2>4. read[p][l] # None
    BY <1>0, <2>2 DEF HasLists
  <2>5. SharedTypes' /\ SnapKept
    BY <1>0, <2>1, <2>2, <2>3, <2>4 DEF SharedTypes, SnapKept
  <2>6. at'[p] = to
    BY <1>0, <1>1, <2>1, Moves
  <2>7. HasLists(p)' /\ (Empty = {} => KeepsList(p)')
    BY <2>1, <2>2, <2>3, <2>4, <2>6 DEF HasLists, KeepsList
  <2>8. ASSUME Undisturbed' PROVE FreshLists' /\ Fresh(p)'
    BY <1>0, <2>2, <2>6, <2>8 DEF Undisturbed, FreshLists, Fresh, LookingUp, Refreshing
  <2> QED
    BY <1>0, <1>1, <2>1, <2>2, <2>5, <2>7, <2>8, OneMovesOn DEF LocalTypes
<1>5. CASE Cache!SetFresh(p)
  <2>1. /\ UNCHANGED <<db, snap, list, read, writes, since, warm, published, raced>>
        /\ at[p] = "set" /\ Cache!Goto(p, "answer")
        /\ \/ redis' = [redis EXCEPT ![l] = Cache!Nil(read[p][l])] /\ UNCHANGED failures
           \/ Cache!Fails /\ UNCHANGED redis
    BY <1>5 DEF Cache!SetFresh, Cache!history
  <2>2. /\ failures' \in 0 .. MaxFailures /\ (failures' = 0 => failures = 0)
        /\ failures' = 0 => redis' = [redis EXCEPT ![l] = Cache!Nil(read[p][l])]
    BY <1>0, <2>1, Failed DEF SharedTypes
  <2>3. SharedTypes' /\ SnapKept
    BY <1>0, <1>1, <1>2, <2>1, <2>2 DEF SharedTypes, SnapKept
  <2>4. at'[p] = "answer"
    BY <1>0, <1>1, <2>1, Moves
  <2>5. HasLists(p)' /\ (Empty = {} => KeepsList(p)')
    BY <1>0, <2>1, <2>4 DEF HasLists, KeepsList, LookingUp
  <2>6. ASSUME Undisturbed' PROVE FreshLists' /\ Fresh(p)'
    <3>1. Undisturbed /\ redis' = [redis EXCEPT ![l] = Cache!Nil(read[p][l])]
      BY <2>1, <2>2, <2>6 DEF Undisturbed
    <3>2. read[p][l] >= published[l] /\ FreshLists
      BY <1>0, <2>1, <3>1 DEF Fresh
    <3>3. FreshLists'
      BY <1>0, <1>1, <1>2, <2>1, <3>1, <3>2 DEF FreshLists, SharedTypes
    <3>4. Fresh(p)'
      BY <1>0, <2>1, <2>4, <3>1 DEF Fresh, LookingUp, Refreshing
    <3> QED
      BY <3>3, <3>4
  <2> QED
    BY <1>0, <1>1, <2>1, <2>2, <2>3, <2>5, <2>6, OneMovesOn DEF LocalTypes
<1> QED
  BY <1>3, <1>4, <1>5

\* A ticker fires, or a lookup or a write begins.
LEMMA Beginning ==
    ASSUME CacheInv, MastersKnown, NEW p \in Cache!Procs,
           Cache!Tick(p) \/ Cache!Lookup(p) \/ Cache!Write(p)
    PROVE  CacheInv'
<1>0. /\ SharedTypes /\ LocalTypes /\ HasLists(p) /\ (Empty = {} => KeepsList(p))
      /\ Undisturbed => FreshLists /\ WritesAlone /\ Fresh(p)
  BY DEF CacheInv
<1>1. /\ {"listTypes", "get"} \subseteq Cache!PCs /\ Tables \subseteq Cache!Lists
      /\ At[p] \in Replicas /\ Cache!Versions \subseteq Nat
  BY DEF Cache!PCs, MastersKnown, Cache!AtAssumption, Cache!Versions
<1>2. /\ UNCHANGED <<redis, snap, read, published, failures>> /\ at[p] = "idle"
      /\ raced' \in BOOLEAN /\ (~raced' => ~raced)
  BY DEF Cache!Tick, Cache!Lookup, Cache!Write, Cache!Begins
<1>3. SnapKept /\ (Undisturbed' => Undisturbed)
  BY <1>2 DEF SnapKept, Undisturbed
<1>4. Undisturbed => writes[p] = None
  BY <1>0, <1>2 DEF Fresh, Refreshing
<1>5. CASE Cache!Tick(p)
  <2>1. UNCHANGED <<db, list, writes, since, warm>> /\ Cache!Goto(p, "listTypes")
        /\ (~raced' => \A q \in Cache!Procs : writes[q] = None)
    BY <1>5 DEF Cache!Tick, Cache!Begins
  <2>2. /\ at' \in [Cache!Procs -> Cache!PCs] /\ at'[p] = "listTypes"
        /\ \A q \in Cache!Procs \ {p} : at'[q] = at[q]
    BY <1>0, <1>1, <2>1, Moves
  <2>3. LocalTypes' /\ Local(p) /\ SharedTypes'
    BY <1>0, <1>2, <2>1, <2>2 DEF LocalTypes, Local, SharedTypes
  <2>4. HasLists(p)' /\ KeepsList(p)' /\ (Undisturbed' => Fresh(p)')
    BY <2>1, <2>2 DEF HasLists, KeepsList, Fresh, LookingUp, Refreshing, Undisturbed
  <2>5. Undisturbed' => FreshLists'
    BY <1>0, <1>2, <1>3, <2>1 DEF FreshLists
  <2>6. \A m \in Cache!Lists : db[m] <= db'[m]
    BY <1>0, <2>1 DEF SharedTypes, Cache!Versions
  <2>7. Undisturbed' => writes'[p] = None /\ \A q \in Cache!Procs \ {p} : writes[q] = None
    BY <2>1 DEF Undisturbed
  <2> QED
    BY <1>2, <1>3, <2>3, <2>4, <2>5, <2>6, <2>7, OneMoves
<1>6. CASE Cache!Lookup(p)
  <2>1. PICK l \in Cache!Lists :
          /\ list' = [list EXCEPT ![p] = l] /\ since' = [since EXCEPT ![p] = published[l]]
          /\ warm' = [warm EXCEPT ![p] = snap[At[p]][l] # None]
    BY <1>1, <1>6 DEF Cache!Lookup
  <2>2. UNCHANGED <<db, writes>> /\ Cache!Goto(p, "get")
        /\ (~raced' => \A q \in Cache!Procs : writes[q] = None)
    BY <1>6 DEF Cache!Lookup, Cache!Begins
  <2>3. /\ at' \in [Cache!Procs -> Cache!PCs] /\ at'[p] = "get"
        /\ \A q \in Cache!Procs \ {p} : at'[q] = at[q]
    BY <1>0, <1>1, <2>2, Moves
  <2>4. published[l] \in Cache!Versions /\ (snap[At[p]][l] # None) \in BOOLEAN
    BY <1>0 DEF SharedTypes
  <2>5. /\ list' \in [Cache!Procs -> Cache!Lists] /\ since' \in [Cache!Procs -> Cache!Versions]
        /\ warm' \in [Cache!Procs -> BOOLEAN] /\ list'[p] = l /\ since'[p] = published[l]
        /\ warm'[p] => snap[At[p]][l] # None
        /\ \A q \in Cache!Procs \ {p} : list'[q] = list[q] /\ since'[q] = since[q] /\ warm'[q] = warm[q]
    BY <1>0, <2>1, <2>4 DEF LocalTypes
  <2>6. LocalTypes' /\ Local(p) /\ SharedTypes'
    BY <1>0, <1>2, <2>2, <2>3, <2>5 DEF LocalTypes, Local, SharedTypes
  <2>7. HasLists(p)' /\ KeepsList(p)'
    BY <1>2, <2>3, <2>5 DEF HasLists, KeepsList
  <2>8. Undisturbed' => FreshLists' /\ Fresh(p)'
    <3>1. published'[l] >= since'[p]
      BY <1>2, <2>4, <2>5 DEF Cache!Versions
    <3>2. Undisturbed' => FreshLists'
      BY <1>0, <1>2, <1>3, <2>2 DEF FreshLists
    <3> QED
      BY <2>2, <2>3, <2>5, <3>1, <3>2 DEF Fresh, Undisturbed
  <2>9. \A m \in Cache!Lists : db[m] <= db'[m]
    BY <1>0, <2>2 DEF SharedTypes, Cache!Versions
  <2>10. Undisturbed' => writes'[p] = None /\ \A q \in Cache!Procs \ {p} : writes[q] = None
    BY <2>2 DEF Undisturbed
  <2> QED
    BY <1>2, <1>3, <2>6, <2>7, <2>8, <2>9, <2>10, OneMoves
<1>7. CASE Cache!Write(p)
  <2>1. PICK l \in Cache!Lists : /\ db[l] < MaxVersion /\ db' = [db EXCEPT ![l] = db[l] + 1]
                                 /\ writes' = [writes EXCEPT ![p] = l]
    BY <1>1, <1>7 DEF Cache!Write
  <2>2. UNCHANGED <<list, since, warm>> /\ Cache!Goto(p, "listTypes")
        /\ (~raced' => \A q \in Cache!Procs : at[q] = "idle")
    BY <1>7 DEF Cache!Write
  <2>3. /\ at' \in [Cache!Procs -> Cache!PCs] /\ at'[p] = "listTypes"
        /\ \A q \in Cache!Procs \ {p} : at'[q] = at[q]
    BY <1>0, <1>1, <2>2, Moves
  <2>4. db' \in [Cache!Lists -> Cache!Versions] /\ \A m \in Cache!Lists : db[m] <= db'[m]
    BY <1>0, <2>1 DEF SharedTypes, Cache!Versions, MastersKnown, Cache!BoundsAssumption
  <2>5. LocalTypes' /\ Local(p) /\ SharedTypes'
    BY <1>0, <1>2, <2>1, <2>2, <2>3, <2>4 DEF LocalTypes, Local, SharedTypes
  <2>6. HasLists(p)' /\ KeepsList(p)' /\ Fresh(p)'
    BY <2>3 DEF HasLists, KeepsList, Fresh, LookingUp, Refreshing
  <2>7. ASSUME Undisturbed' PROVE FreshLists'
    <3>1. FreshLists
      BY <1>0, <1>3, <2>7
    <3>2. \A m \in Cache!Lists : published[m] \in Nat /\ db[m] \in Nat /\ db'[m] \in Nat
      BY <1>0, <1>1, <2>4 DEF SharedTypes
    <3> QED
      BY <1>2, <2>4, <3>1, <3>2 DEF FreshLists
  <2>8. ASSUME Undisturbed' PROVE \A q \in Cache!Procs \ {p} : at[q] = "idle" /\ writes[q] = None
    <3>1. \A q \in Cache!Procs : at[q] = "idle" /\ Fresh(q)
      BY <1>3, <2>2, <2>8 DEF CacheInv, Undisturbed
    <3> QED
      BY <3>1 DEF Fresh, Refreshing
  <2> QED
    BY <1>2, <1>3, <2>4, <2>5, <2>6, <2>7, <2>8, OneMoves
<1> QED
  BY <1>5, <1>6, <1>7

\* A table is changed behind the service's back, or a key of Redis expires.
LEMMA OutsideStep ==
    ASSUME CacheInv, MastersKnown, NEW l \in Tables, Cache!DirectWrite(l) \/ Cache!KeyExpires(l)
    PROVE  CacheInv'
<1>0. SharedTypes /\ LocalTypes /\ l \in Cache!Lists
  BY DEF CacheInv, MastersKnown, Cache!AtAssumption
<1>1. UNCHANGED <<snap, at, list, read, writes, since, warm, published, raced, failures>>
  BY DEF Cache!DirectWrite, Cache!KeyExpires, Cache!history
<1>2. /\ db' \in [Cache!Lists -> Cache!Versions] /\ redis' \in [Cache!Lists -> Cache!Cached]
      /\ \A m \in Cache!Lists : db[m] <= db'[m] /\ redis'[m] \in {redis[m], None}
  <2>1. CASE Cache!DirectWrite(l)
    BY <1>0, <2>1 DEF Cache!DirectWrite, SharedTypes, Cache!Versions, MastersKnown,
       Cache!BoundsAssumption
  <2>2. CASE Cache!KeyExpires(l)
    BY <1>0, <2>2 DEF Cache!KeyExpires, SharedTypes, Cache!Versions, Cache!Cached
  <2> QED
    BY <2>1, <2>2
<1>3. SharedTypes' /\ LocalTypes'
  BY <1>0, <1>1, <1>2 DEF SharedTypes, LocalTypes
<1>4. \A p \in Cache!Procs : HasLists(p)' /\ (Empty = {} => KeepsList(p)')
  BY <1>1 DEF CacheInv, HasLists, KeepsList
<1>5. ASSUME Undisturbed'
      PROVE  FreshLists' /\ WritesAlone' /\ \A p \in Cache!Procs : Fresh(p)'
  <2>1. FreshLists /\ WritesAlone /\ \A p \in Cache!Procs : Fresh(p)
    BY <1>1, <1>5 DEF CacheInv, Undisturbed
  <2>2. \A m \in Cache!Lists : published[m] \in Nat /\ db[m] \in Nat /\ db'[m] \in Nat
    BY <1>0, <1>2 DEF SharedTypes, Cache!Versions
  <2>3. FreshLists'
    BY <1>1, <1>2, <2>1, <2>2 DEF FreshLists
  <2>4. ASSUME NEW m \in Cache!Lists, NEW v \in published[m] .. db[m]
        PROVE  v \in published'[m] .. db'[m]
    BY <1>1, <1>2, <2>2, <2>4
  <2>5. ASSUME NEW p \in Cache!Procs PROVE Fresh(p)'
    <3>1. "vaTypes" \in Cache!Lists
      BY DEF Cache!Lists
    <3>2. at[p] = "listPartners" => read[p]["vaTypes"] \in published'["vaTypes"] .. db'["vaTypes"]
      BY <2>1, <2>4, <3>1 DEF Fresh
    <3>3. at[p] \in {"install", "setTypes", "setPartners"} =>
              \A m \in Cache!Lists : read[p][m] \in published'[m] .. db'[m]
      BY <2>1, <2>4 DEF Fresh
    <3> QED
      BY <1>1, <1>2, <2>1, <3>1, <3>2, <3>3 DEF Fresh
  <2>6. WritesAlone'
    BY <1>1, <2>1 DEF WritesAlone
  <2> QED
    BY <2>3, <2>5, <2>6
<1> QED
  BY <1>3, <1>4, <1>5 DEF CacheInv

\* The invariant holds to begin with.
LEMMA CacheInit == ASSUME MastersKnown PROVE Cache!Init => CacheInv
<1> SUFFICES ASSUME Cache!Init PROVE CacheInv
  OBVIOUS
<1>1. /\ Cache!Lists = {"vaTypes", "partnerIDs"} /\ "idle" \in Cache!PCs
      /\ 1 \in Cache!Versions /\ Cache!Cached = Cache!Versions \cup {None}
  BY DEF Cache!Lists, Cache!PCs, Cache!Versions, Cache!Cached, MastersKnown, Cache!BoundsAssumption
<1>2. LocalTypes
  <2>1. [l \in Cache!Lists |-> None] \in [Cache!Lists -> Cache!Cached]
    BY <1>1
  <2>2. read \in [Cache!Procs -> [Cache!Lists -> Cache!Cached]]
    BY <2>1 DEF Cache!Init
  <2> QED
    BY <1>1, <2>2 DEF LocalTypes, Cache!Init
<1>3. SharedTypes
  <2>1. [l \in Cache!Lists |-> None] \in [Cache!Lists -> Cache!Cached]
        /\ [l \in Cache!Lists |-> 1] \in [Cache!Lists -> Cache!Cached]
    BY <1>1
  <2>2. snap \in [Replicas -> [Cache!Lists -> Cache!Cached]]
    BY <2>1 DEF Cache!Init
  <2>3. redis \in [Cache!Lists -> Cache!Cached]
    BY <1>1 DEF Cache!Init
  <2>4. 0 \in 0 .. MaxFailures
    BY DEF MastersKnown, Cache!BoundsAssumption
  <2> QED
    BY <1>1, <2>2, <2>3, <2>4 DEF SharedTypes, Cache!Init
<1>4. \A p \in Cache!Procs : at[p] = "idle" /\ writes[p] = None
  BY DEF Cache!Init
<1>5. FreshLists
  BY DEF FreshLists, Cache!Init
<1>6. WritesAlone
  BY <1>4 DEF WritesAlone
<1>7. \A p \in Cache!Procs : HasLists(p) /\ Fresh(p) /\ KeepsList(p)
  BY <1>4 DEF HasLists, Fresh, KeepsList, LookingUp
<1> QED
  BY <1>2, <1>3, <1>5, <1>6, <1>7 DEF CacheInv

\* Every step keeps it.
LEMMA CacheStep == ASSUME MastersKnown PROVE CacheInv /\ [Cache!Next]_(Cache!vars) => CacheInv'
<1> SUFFICES ASSUME CacheInv, [Cache!Next]_(Cache!vars) PROVE CacheInv'
  OBVIOUS
<1>1. Tickers \subseteq Cache!Procs /\ Lookups \subseteq Cache!Procs
  BY DEF Cache!Procs
<1>2. CASE UNCHANGED Cache!vars
  BY <1>2 DEF Cache!vars, Cache!history, CacheInv, SharedTypes, LocalTypes, HasLists, Undisturbed,
     FreshLists, WritesAlone, Fresh, KeepsList
<1>3. CASE \E p \in Tickers : Cache!Tick(p)
  BY <1>1, <1>3, Beginning
<1>4. CASE \E p \in Lookups : Cache!Lookup(p) \/ Cache!Write(p)
  BY <1>1, <1>4, Beginning
<1>5. CASE \E p \in Cache!Procs : Cache!Step(p)
  BY <1>5, RefreshStep, LookupReads, LookupInstalls DEF Cache!Step
<1>6. CASE \E l \in Tables : Cache!DirectWrite(l) \/ Cache!KeyExpires(l)
  BY <1>6, OutsideStep
<1> QED
  BY <1>2, <1>3, <1>4, <1>5, <1>6 DEF Cache!Next

\* The lists and what the goroutines hold of them keep their types.
THEOREM ListsTypeCorrect ==
    ASSUME Cache!AtAssumption, Cache!BoundsAssumption, Cache!NoneAssumption
    PROVE  Cache!Spec => []Cache!TypeOK
<1>1. MastersKnown
  BY DEF MastersKnown
<1>2. CacheInv => Cache!TypeOK
  BY DEF CacheInv, SharedTypes, LocalTypes, HasLists, Cache!TypeOK
<1>3. Cache!Init => CacheInv
  BY <1>1, CacheInit
<1>4. CacheInv /\ [Cache!Next]_(Cache!vars) => CacheInv'
  BY <1>1, CacheStep
<1> QED
  BY <1>2, <1>3, <1>4, PTL DEF Cache!Spec

\* FR-017 for any number of replicas, tickers and requests: a lookup that begins
\* after a write has returned has the rows written, at whichever replica, unless a
\* statement failed or something was in progress together with a write.
THEOREM WrittenIsVisible ==
    ASSUME Cache!AtAssumption, Cache!BoundsAssumption, Cache!NoneAssumption
    PROVE  Cache!Spec => []Cache!WriteIsVisible
<1>1. MastersKnown
  BY DEF MastersKnown
<1>2. CacheInv => Cache!WriteIsVisible
  <2> SUFFICES ASSUME CacheInv, NEW p \in Lookups, at[p] = "answer", Undisturbed
               PROVE  read[p][list[p]] >= since[p]
    BY DEF Cache!WriteIsVisible, Undisturbed
  <2>1. p \in Cache!Procs
    BY DEF Cache!Procs
  <2>2. /\ since[p] <= published[list[p]] /\ read[p][list[p]] # None
        /\ read[p][list[p]] >= published[list[p]]
    BY <2>1 DEF CacheInv, Fresh, LookingUp
  <2>3. since[p] \in Nat /\ published[list[p]] \in Nat /\ read[p][list[p]] \in Nat
    BY <2>1, <2>2 DEF CacheInv, SharedTypes, LocalTypes, Cache!Versions, Cache!Cached
  <2> QED
    BY <2>2, <2>3
<1>3. Cache!Init => CacheInv
  BY <1>1, CacheInit
<1>4. CacheInv /\ [Cache!Next]_(Cache!vars) => CacheInv'
  BY <1>1, CacheStep
<1> QED
  BY <1>2, <1>3, <1>4, PTL DEF Cache!Spec

\* FR-018 where no table is emptied: a lookup fails only at a replica that had no
\* list when it began, however many statements fail and whoever refreshes.
THEOREM LastKnownGoodIsServed ==
    ASSUME Cache!AtAssumption, Cache!BoundsAssumption, Cache!NoneAssumption, Empty = {}
    PROVE  Cache!Spec => []Cache!ServesLastKnownGood
<1>1. MastersKnown
  BY DEF MastersKnown
<1>2. CacheInv => Cache!ServesLastKnownGood
  BY DEF CacheInv, KeepsList, Cache!ServesLastKnownGood, Cache!Procs
<1>3. Cache!Init => CacheInv
  BY <1>1, CacheInit
<1>4. CacheInv /\ [Cache!Next]_(Cache!vars) => CacheInv'
  BY <1>1, CacheStep
<1> QED
  BY <1>2, <1>3, <1>4, PTL DEF Cache!Spec

=============================================================================
