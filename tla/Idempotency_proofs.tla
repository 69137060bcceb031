------------------------- MODULE Idempotency_proofs -------------------------
(***************************************************************************)
(* Proofs about Idempotency for every set of keys, paymentRequestIds and   *)
(* handlers, every number of days and failures, and every combination of   *)
(* failures.                                                               *)
(***************************************************************************)
EXTENDS Idempotency, FiniteSetTheorems, TLAPS

-----------------------------------------------------------------------------
(* The inductive invariant                                                 *)

\* A lock lapses no more often than failures happen.
LapsesCount == \A s \in Slots : lapses[s] <= faults

\* A request that is about to be recorded has been answered.
AnsweredBeforeStore ==
    \A h \in Handlers :
        pc[h] = "store" => answers[<<req[h].key, req[h].day>>][req[h].preq] > 0

\* Nobody else holds a lock: it was left behind, or a request is past it.
LockHasReason == \A s \in locks : s \in orphans \/ InFlight(s) # {}

\* One request is past a lock that is set, none past one that is not, and one
\* more for each lock that lapsed.
LockBoundsOverlap ==
    \A s \in Slots :
        /\ IsFiniteSet(InFlight(s))
        /\ Cardinality(InFlight(s)) <= lapses[s] + (IF s \in locks THEN 1 ELSE 0)

IInv ==
    /\ TypeOK
    /\ LapsesCount
    /\ AnsweredBeforeStore
    /\ RecordedWasAnswered
    /\ LockHasReason
    /\ LockBoundsOverlap

-----------------------------------------------------------------------------
(* Requests in flight                                                      *)

\* The fields of a request and the slot it belongs to.
LEMMA RequestFields ==
  \A r \in Request : /\ r.key \in Keys /\ r.day \in Days /\ r.preq \in PayIds
                    /\ IdempotencyKey(r) \in Slots
  BY DEF Request, Slots, IdempotencyKey

\* A handler that is not idle serves a request.
LEMMA Serving ==
  ASSUME TypeOK, NEW h \in Handlers, pc[h] # "idle"
  PROVE  req[h] \in Request /\ Slot(h) \in Slots /\ Slot(h) = <<req[h].key, req[h].day>>
  BY RequestFields DEF TypeOK, Slot, IdempotencyKey

\* Counting one more answer, up to 2, keeps the counts and takes none away.
LEMMA OneMore ==
  ASSUME NEW a \in [Slots -> [PayIds -> 0 .. 2]], NEW t \in Slots, NEW p \in PayIds,
         NEW b, b = [a EXCEPT ![t][p] = IF @ < 2 THEN @ + 1 ELSE @]
  PROVE  /\ b \in [Slots -> [PayIds -> 0 .. 2]]
         /\ b[t][p] > 0
         /\ \A s \in Slots, q \in PayIds : a[s][q] > 0 => b[s][q] > 0
<1> DEFINE c == IF a[t][p] < 2 THEN a[t][p] + 1 ELSE a[t][p]
           u == [a[t] EXCEPT ![p] = c]
<1>1. b = [a EXCEPT ![t] = u]
  OBVIOUS
<1>2. a[t] \in [PayIds -> 0 .. 2] /\ a[t][p] \in 0 .. 2
  OBVIOUS
<1>3. c \in 1 .. 2 /\ c \in 0 .. 2
  BY <1>2
<1>4. /\ u \in [PayIds -> 0 .. 2] /\ u[p] > 0
      /\ \A q \in PayIds : a[t][q] > 0 => u[q] > 0
  <2> HIDE DEF c
  <2> QED
    BY <1>2, <1>3
<1> HIDE DEF u
<1> QED
  BY <1>1, <1>4

\* What the handler's answer does to the counts.
LEMMA AnswerCounted ==
  ASSUME TypeOK, NEW h \in Handlers, NextHandler(h)
  PROVE  /\ answers' \in [Slots -> [PayIds -> 0 .. 2]]
         /\ \A s \in Slots, q \in PayIds : answers[s][q] > 0 => answers'[s][q] > 0
         /\ pc'[h] = "store" => answers'[<<req[h].key, req[h].day>>][req[h].preq] > 0
<1>1. req[h] \in Request /\ <<req[h].key, req[h].day>> \in Slots /\ req[h].preq \in PayIds
  BY Serving, RequestFields DEF NextHandler
<1>2. /\ answers \in [Slots -> [PayIds -> 0 .. 2]]
      /\ pc \in [Handlers -> {"idle", "check", "lock", "next", "store", "release"}]
  BY DEF TypeOK
<1>3. CASE answers' = [answers EXCEPT ![<<req[h].key, req[h].day>>][req[h].preq] =
                          IF @ < 2 THEN @ + 1 ELSE @]
  <2> DEFINE t == <<req[h].key, req[h].day>>
             p == req[h].preq
  <2> HIDE DEF t, p
  <2>1. answers' = [answers EXCEPT ![t][p] = IF @ < 2 THEN @ + 1 ELSE @] /\ t \in Slots /\ p \in PayIds
    BY <1>1, <1>3 DEF t, p
  <2>2. /\ answers' \in [Slots -> [PayIds -> 0 .. 2]]
        /\ answers'[t][p] > 0
        /\ \A s \in Slots, q \in PayIds : answers[s][q] > 0 => answers'[s][q] > 0
    BY <1>2, <2>1, OneMore
  <2> QED
    BY <2>2 DEF t, p
<1>4. CASE Goto(h, "release") /\ UNCHANGED answers
  BY <1>2, <1>4 DEF Goto
<1> QED
  BY <1>3, <1>4 DEF NextHandler

\* The positions past the lock.
Past == {"next", "store", "release"}

\* A step of h that neither enters nor leaves the section past the lock leaves
\* everybody's section as it is.
LEMMA FlightKept ==
  ASSUME TypeOK, NEW h \in Handlers,
         \E l : pc' = [pc EXCEPT ![h] = l] /\ (l \in Past <=> pc[h] \in Past),
         \/ UNCHANGED req
         \/ pc[h] \notin Past /\ \E r : req' = [req EXCEPT ![h] = r],
         NEW s
  PROVE  InFlight(s)' = InFlight(s)
  BY DEF TypeOK, InFlight, Past

\* A step of h that leaves the section past the lock takes h out of it.
LEMMA FlightLeft ==
  ASSUME TypeOK, NEW h \in Handlers, Respond(h), NEW s
  PROVE  InFlight(s)' = InFlight(s) \ {h}
  BY DEF TypeOK, InFlight, Respond, Goto

\* The section of another slot is not touched by h.
LEMMA FlightOther ==
  ASSUME TypeOK, NEW h \in Handlers, pc[h] # "idle", NEW s, s # Slot(h)
  PROVE  h \notin InFlight(s)
  BY Serving DEF InFlight

-----------------------------------------------------------------------------
(* The invariant is inductive                                              *)

\* Nothing is cached, locked or in progress at the start.
LEMMA IInvInit == Init => IInv
<1> SUFFICES ASSUME Init PROVE IInv
  OBVIOUS
<1> USE DEF Init
<1>1. TypeOK
  BY DayAssumption DEF TypeOK, Days
<1>2. LapsesCount /\ AnsweredBeforeStore /\ RecordedWasAnswered /\ LockHasReason
  BY DEF LapsesCount, AnsweredBeforeStore, RecordedWasAnswered, LockHasReason
<1>3. LockBoundsOverlap
  <2>1. \A s \in Slots : InFlight(s) = {}
    BY DEF InFlight
  <2> QED
    BY <2>1, FS_EmptySet DEF LockBoundsOverlap
<1> QED
  BY <1>1, <1>2, <1>3 DEF IInv

\* Every step keeps the types and the count of lapses.
LEMMA TypeStep == TypeOK /\ LapsesCount /\ [Next]_vars => TypeOK' /\ LapsesCount'
<1> SUFFICES ASSUME TypeOK, LapsesCount, [Next]_vars PROVE TypeOK' /\ LapsesCount'
  OBVIOUS
<1> USE DayAssumption DEF TypeOK, LapsesCount, Goto, Respond, Well, Fault
<1>1. CASE Midnight
  BY <1>1 DEF Midnight, Days
<1>2. ASSUME NEW h \in Handlers, Arrive(h) PROVE TypeOK' /\ LapsesCount'
  BY <1>2, NoRequestAssumption DEF Arrive, Request
<1>3. ASSUME NEW h \in Handlers, CheckCache(h) PROVE TypeOK' /\ LapsesCount'
  BY <1>3 DEF CheckCache
<1>4. ASSUME NEW h \in Handlers, AcquireLock(h) PROVE TypeOK' /\ LapsesCount'
  <2>1. Slot(h) \in Slots
    BY <1>4, Serving DEF AcquireLock
  <2> QED
    BY <1>4, <2>1 DEF AcquireLock
<1>5. ASSUME NEW h \in Handlers, NextHandler(h) PROVE TypeOK' /\ LapsesCount'
  <2>1. answers' \in [Slots -> [PayIds -> 0 .. 2]]
    BY <1>5, AnswerCounted
  <2> QED
    BY <1>5, <2>1 DEF NextHandler
<1>6. ASSUME NEW h \in Handlers, StoreAnswer(h) PROVE TypeOK' /\ LapsesCount'
  <2>1. req[h] \in Request /\ Slot(h) \in Slots /\ req[h].preq \in PayIds
    BY <1>6, Serving, RequestFields DEF StoreAnswer
  <2> QED
    BY <1>6, <2>1 DEF StoreAnswer
<1>7. ASSUME NEW h \in Handlers, ReleaseLock(h) PROVE TypeOK' /\ LapsesCount'
  BY <1>7 DEF ReleaseLock
<1>8. ASSUME NEW h \in Handlers, Abandon(h) PROVE TypeOK' /\ LapsesCount'
  BY <1>8 DEF Abandon
<1>9. ASSUME NEW s \in Slots, LockExpires(s) PROVE TypeOK' /\ LapsesCount'
  BY <1>9 DEF LockExpires
<1>10. CASE UNCHANGED vars
  BY <1>10 DEF vars
<1> QED
  BY <1>1, <1>2, <1>3, <1>4, <1>5, <1>6, <1>7, <1>8, <1>9, <1>10 DEF Next, Step

\* Only what was answered is recorded: answers are never taken back.
LEMMA AnsweredStep ==
  IInv /\ [Next]_vars => AnsweredBeforeStore' /\ RecordedWasAnswered'
<1> SUFFICES ASSUME IInv, [Next]_vars PROVE AnsweredBeforeStore' /\ RecordedWasAnswered'
  OBVIOUS
<1> USE DEF IInv, TypeOK, AnsweredBeforeStore, RecordedWasAnswered, Goto, Respond
<1>1. CASE Midnight
  BY <1>1 DEF Midnight
<1>2. ASSUME NEW h \in Handlers, Arrive(h) PROVE AnsweredBeforeStore' /\ RecordedWasAnswered'
  BY <1>2 DEF Arrive
<1>3. ASSUME NEW h \in Handlers, CheckCache(h) PROVE AnsweredBeforeStore' /\ RecordedWasAnswered'
  BY <1>3 DEF CheckCache
<1>4. ASSUME NEW h \in Handlers, AcquireLock(h) PROVE AnsweredBeforeStore' /\ RecordedWasAnswered'
  BY <1>4 DEF AcquireLock
<1>5. ASSUME NEW h \in Handlers, NextHandler(h) PROVE AnsweredBeforeStore' /\ RecordedWasAnswered'
  <2>2. \A s \in Slots, p \in PayIds : answers[s][p] > 0 => answers'[s][p] > 0
    BY <1>5, AnswerCounted
  <2>3. \A g \in Handlers : pc[g] # "idle" => req[g] \in Request /\ req[g].preq \in PayIds
                                              /\ <<req[g].key, req[g].day>> \in Slots
    BY Serving, RequestFields
  <2>4. AnsweredBeforeStore'
    <3> SUFFICES ASSUME NEW g \in Handlers, pc'[g] = "store"
                 PROVE  answers'[<<req[g].key, req[g].day>>][req[g].preq] > 0
      BY <1>5 DEF NextHandler
    <3>1. CASE g # h
      BY <1>5, <2>2, <2>3, <3>1 DEF NextHandler
    <3>2. CASE g = h
      BY <1>5, <3>2, AnswerCounted
    <3> QED
      BY <3>1, <3>2
  <2>5. RecordedWasAnswered'
    BY <1>5, <2>2 DEF NextHandler
  <2> QED
    BY <2>4, <2>5
<1>6. ASSUME NEW h \in Handlers, StoreAnswer(h) PROVE AnsweredBeforeStore' /\ RecordedWasAnswered'
  <2>1. Slot(h) \in Slots /\ Slot(h) = <<req[h].key, req[h].day>>
    BY <1>6, Serving DEF StoreAnswer
  <2> QED
    BY <1>6, <2>1 DEF StoreAnswer
<1>7. ASSUME NEW h \in Handlers, ReleaseLock(h) PROVE AnsweredBeforeStore' /\ RecordedWasAnswered'
  BY <1>7 DEF ReleaseLock
<1>8. ASSUME NEW h \in Handlers, Abandon(h) PROVE AnsweredBeforeStore' /\ RecordedWasAnswered'
  BY <1>8 DEF Abandon
<1>9. ASSUME NEW s \in Slots, LockExpires(s) PROVE AnsweredBeforeStore' /\ RecordedWasAnswered'
  BY <1>9 DEF LockExpires
<1>10. CASE UNCHANGED vars
  BY <1>10 DEF vars
<1> QED
  BY <1>1, <1>2, <1>3, <1>4, <1>5, <1>6, <1>7, <1>8, <1>9, <1>10 DEF Next, Step

\* A lock loses its reason only with the lock itself: who leaves without giving
\* it back leaves an orphan.
LEMMA ReasonStep == IInv /\ [Next]_vars => LockHasReason'
<1> SUFFICES ASSUME IInv, [Next]_vars, NEW s \in locks'
             PROVE  s \in orphans' \/ InFlight(s)' # {}
  BY DEF LockHasReason
<1>t. TypeOK /\ (s \in locks => s \in orphans \/ InFlight(s) # {})
  BY DEF IInv, LockHasReason
<1>1. CASE Midnight
  BY <1>t, <1>1 DEF Midnight, InFlight
<1>2. ASSUME NEW h \in Handlers, Arrive(h) PROVE s \in orphans' \/ InFlight(s)' # {}
  <2>1. InFlight(s)' = InFlight(s)
    BY <1>t, <1>2 DEF Arrive, Goto, InFlight, TypeOK
  <2> QED
    BY <1>t, <1>2, <2>1 DEF Arrive
<1>3. ASSUME NEW h \in Handlers, CheckCache(h) PROVE s \in orphans' \/ InFlight(s)' # {}
  <2>1. InFlight(s)' = InFlight(s)
    BY <1>t, <1>3, FlightKept DEF CheckCache, Respond, Goto, Past
  <2> QED
    BY <1>t, <1>3, <2>1 DEF CheckCache
<1>4. ASSUME NEW h \in Handlers, AcquireLock(h) PROVE s \in orphans' \/ InFlight(s)' # {}
  <2>1. CASE Respond(h)
    <3>1. InFlight(s)' = InFlight(s)
      BY <1>t, <1>4, <2>1, FlightKept, ZenonT(30) DEF AcquireLock, Respond, Goto, Past
    <3> QED
      BY <1>t, <1>4, <2>1, <3>1 DEF AcquireLock, Respond, Goto, TypeOK
  <2>2. CASE ~Respond(h)
    <3>1. Goto(h, "next") /\ UNCHANGED <<req, orphans>> /\ locks' = locks \cup {Slot(h)}
      BY <1>4, <2>2 DEF AcquireLock
    <3>2. pc[h] = "lock" /\ Slot(h) = <<req[h].key, req[h].day>>
      BY <1>t, <1>4, Serving DEF AcquireLock
    <3>3. InFlight(s) \subseteq InFlight(s)' /\ h \in InFlight(Slot(h))'
      BY <1>t, <3>1, <3>2 DEF InFlight, Goto, TypeOK, Slot, IdempotencyKey
    <3>4. CASE s \in locks
      BY <1>t, <3>1, <3>3, <3>4
    <3>5. CASE s = Slot(h)
      <4>1. h \in InFlight(s)'
        BY <1>t, <3>1, <3>2, <3>5 DEF InFlight, Goto, TypeOK
      <4> QED
        BY <4>1
    <3> QED
      BY <3>1, <3>4, <3>5
  <2> QED
    BY <2>1, <2>2
<1>5. ASSUME NEW h \in Handlers, NextHandler(h) \/ StoreAnswer(h)
      PROVE  s \in orphans' \/ InFlight(s)' # {}
  <2>1. InFlight(s)' = InFlight(s)
    BY <1>t, <1>5, FlightKept DEF NextHandler, StoreAnswer, Goto, Past
  <2> QED
    BY <1>t, <1>5, <2>1 DEF NextHandler, StoreAnswer
<1>6. ASSUME NEW h \in Handlers, ReleaseLock(h) PROVE s \in orphans' \/ InFlight(s)' # {}
  <2>1. InFlight(s)' = InFlight(s) \ {h} /\ pc[h] = "release"
    BY <1>t, <1>6, FlightLeft DEF ReleaseLock
  <2>2. s # Slot(h) => InFlight(s)' = InFlight(s)
    BY <1>t, <2>1, FlightOther
  <2> QED
    BY <1>t, <1>6, <2>2 DEF ReleaseLock
<1>7. ASSUME NEW h \in Handlers, Abandon(h) PROVE s \in orphans' \/ InFlight(s)' # {}
  <2>1. InFlight(s)' = InFlight(s) \ {h} /\ pc[h] # "idle" /\ locks' = locks
    BY <1>t, <1>7, FlightLeft DEF Abandon
  <2>2. s # Slot(h) => InFlight(s)' = InFlight(s)
    BY <1>t, <2>1, FlightOther
  <2> QED
    BY <1>t, <1>7, <2>1, <2>2 DEF Abandon
<1>8. ASSUME NEW t \in Slots, LockExpires(t) PROVE s \in orphans' \/ InFlight(s)' # {}
  BY <1>t, <1>8 DEF LockExpires, InFlight
<1>9. CASE UNCHANGED vars
  BY <1>t, <1>9 DEF vars, InFlight
<1> QED
  BY <1>1, <1>2, <1>3, <1>4, <1>5, <1>6, <1>7, <1>8, <1>9 DEF Next, Step

\* Past the lock of s there are at most as many requests as locks that lapsed,
\* and one while it is set.
Bounded(s) ==
    /\ IsFiniteSet(InFlight(s))
    /\ Cardinality(InFlight(s)) <= lapses[s] + (IF s \in locks THEN 1 ELSE 0)

\* The bound survives when the section shrinks by a handler that was in it, even
\* if the lock goes with it.
LEMMA LeaveBound ==
  ASSUME NEW S, IsFiniteSet(S), NEW h \in S, NEW n \in Nat, Cardinality(S) <= n + 1
  PROVE  IsFiniteSet(S \ {h}) /\ Cardinality(S \ {h}) <= n
<1>1. Cardinality(S) \in Nat
  BY FS_CardinalityType
<1>2. IsFiniteSet(S \ {h}) /\ Cardinality(S \ {h}) = Cardinality(S) - 1
  BY FS_RemoveElement
<1> QED
  BY <1>1, <1>2

\* Every step keeps the bound.
LEMMA OverlapStep == IInv /\ [Next]_vars => LockBoundsOverlap'
<1> SUFFICES ASSUME IInv, [Next]_vars, NEW s \in Slots PROVE Bounded(s)'
  BY DEF LockBoundsOverlap, Bounded
<1>t. TypeOK /\ Bounded(s) /\ lapses[s] \in Nat
  BY DEF IInv, LockBoundsOverlap, Bounded, TypeOK
<1>k. ASSUME InFlight(s)' = InFlight(s), UNCHANGED lapses, s \in locks => s \in locks'
      PROVE  Bounded(s)'
  <2>1. Cardinality(InFlight(s)) \in Nat
    BY <1>t, FS_CardinalityType DEF Bounded
  <2> QED
    BY <1>t, <1>k, <2>1 DEF Bounded
<1>l. ASSUME NEW h \in Handlers, Respond(h), UNCHANGED lapses, pc[h] \in Past,
             s \in locks /\ s \notin locks' => s = Slot(h)
      PROVE  Bounded(s)'
  <2>1. InFlight(s)' = InFlight(s) \ {h}
    BY <1>t, <1>l, FlightLeft
  <2>2. CASE s = Slot(h)
    <3>1. h \in InFlight(s)
      BY <1>t, <1>l, <2>2, Serving DEF InFlight, Past
    <3>2. IsFiniteSet(InFlight(s)) /\ Cardinality(InFlight(s)) <= lapses[s] + 1
      BY <1>t, FS_CardinalityType DEF Bounded
    <3>3. IsFiniteSet(InFlight(s)') /\ Cardinality(InFlight(s)') <= lapses[s]
      BY <1>t, <2>1, <3>1, <3>2, LeaveBound
    <3>4. Cardinality(InFlight(s)') \in Nat
      BY <3>3, FS_CardinalityType
    <3> QED
      BY <1>t, <1>l, <3>3, <3>4 DEF Bounded
  <2>3. CASE s # Slot(h)
    BY <1>t, <1>l, <1>k, <2>1, <2>3, FlightOther DEF Past
  <2> QED
    BY <2>2, <2>3
<1>1. CASE Midnight
  BY <1>k, <1>1 DEF Midnight, InFlight
<1>2. ASSUME NEW h \in Handlers, Arrive(h) PROVE Bounded(s)'
  <2>1. InFlight(s)' = InFlight(s)
    BY <1>t, <1>2 DEF Arrive, Goto, InFlight, TypeOK
  <2> QED
    BY <1>k, <1>2, <2>1 DEF Arrive
<1>3. ASSUME NEW h \in Handlers, CheckCache(h) PROVE Bounded(s)'
  <2>1. InFlight(s)' = InFlight(s)
    BY <1>t, <1>3, FlightKept DEF CheckCache, Respond, Goto, Past
  <2> QED
    BY <1>k, <1>3, <2>1 DEF CheckCache
<1>4. ASSUME NEW h \in Handlers, AcquireLock(h) PROVE Bounded(s)'
  <2>1. CASE Respond(h)
    <3>1. InFlight(s)' = InFlight(s)
      BY <1>t, <1>4, <2>1, FlightKept, ZenonT(30) DEF AcquireLock, Respond, Goto, Past
    <3> QED
      BY <1>k, <1>4, <3>1 DEF AcquireLock
  <2>2. CASE ~Respond(h)
    <3>1. /\ Goto(h, "next") /\ UNCHANGED <<req, orphans, lapses>>
          /\ locks' = locks \cup {Slot(h)} /\ Slot(h) \notin locks /\ pc[h] = "lock"
      BY <1>4, <2>2 DEF AcquireLock
    <3>2. Slot(h) = <<req[h].key, req[h].day>>
      BY <1>t, <3>1, Serving
    <3>3. CASE s = Slot(h)
      <4>1. InFlight(s)' = InFlight(s) \cup {h} /\ h \notin InFlight(s)
        BY <1>t, <3>1, <3>2, <3>3 DEF InFlight, Goto, TypeOK
      <4>2. IsFiniteSet(InFlight(s)) /\ Cardinality(InFlight(s)) <= lapses[s]
        BY <1>t, <3>1, <3>3, FS_CardinalityType DEF Bounded
      <4>3. /\ IsFiniteSet(InFlight(s) \cup {h})
            /\ Cardinality(InFlight(s) \cup {h}) = Cardinality(InFlight(s)) + 1
        BY <4>1, <4>2, FS_AddElement
      <4>4. s \in locks' /\ lapses' = lapses /\ Cardinality(InFlight(s)) \in Nat
        BY <3>1, <3>3, <4>2, FS_CardinalityType
      <4> QED
        BY <1>t, <4>1, <4>2, <4>3, <4>4 DEF Bounded
    <3>4. CASE s # Slot(h)
      <4>1. InFlight(s)' = InFlight(s)
        BY <1>t, <3>1, <3>2, <3>4 DEF InFlight, Goto, TypeOK
      <4> QED
        BY <1>k, <3>1, <4>1
    <3> QED
      BY <3>3, <3>4
  <2> QED
    BY <2>1, <2>2
<1>5. ASSUME NEW h \in Handlers, NextHandler(h) \/ StoreAnswer(h) PROVE Bounded(s)'
  <2>1. InFlight(s)' = InFlight(s)
    BY <1>t, <1>5, FlightKept DEF NextHandler, StoreAnswer, Goto, Past
  <2> QED
    BY <1>k, <1>5, <2>1 DEF NextHandler, StoreAnswer
<1>6. ASSUME NEW h \in Handlers, ReleaseLock(h) PROVE Bounded(s)'
  BY <1>l, <1>6 DEF ReleaseLock, Past
<1>7. ASSUME NEW h \in Handlers, Abandon(h) PROVE Bounded(s)'
  <2>1. CASE pc[h] \in Past
    BY <1>l, <1>7, <2>1 DEF Abandon
  <2>2. CASE pc[h] \notin Past
    <3>1. InFlight(s)' = InFlight(s)
      BY <1>t, <1>7, <2>2 DEF Abandon, Respond, Goto, Past, InFlight, TypeOK
    <3> QED
      BY <1>k, <1>7, <3>1 DEF Abandon
  <2> QED
    BY <2>1, <2>2
<1>8. ASSUME NEW t \in Slots, LockExpires(t) PROVE Bounded(s)'
  <2>1. InFlight(s)' = InFlight(s)
    BY <1>8 DEF LockExpires, InFlight
  <2>2. Cardinality(InFlight(s)) \in Nat
    BY <1>t, FS_CardinalityType DEF Bounded
  <2> QED
    BY <1>t, <1>8, <2>1, <2>2 DEF LockExpires, Bounded, TypeOK
<1>9. CASE UNCHANGED vars
  BY <1>k, <1>9 DEF vars, InFlight
<1> QED
  BY <1>1, <1>2, <1>3, <1>4, <1>5, <1>6, <1>7, <1>8, <1>9 DEF Next, Step

\* The invariant is inductive.
LEMMA IInvStep == IInv /\ [Next]_vars => IInv'
  BY TypeStep, AnsweredStep, ReasonStep, OverlapStep DEF IInv

\* The invariant holds throughout.
LEMMA Inductive == Spec => []IInv
  BY IInvInit, IInvStep, PTL DEF Spec

-----------------------------------------------------------------------------
(* What follows from it                                                    *)

\* The middleware stays within its types, whatever fails.
THEOREM TypeCorrect == Spec => []TypeOK
  BY Inductive, PTL DEF IInv

\* However many handlers, keys, days and failures: past the lock of a key and day
\* there is one request, and one more for each lock of it that lapsed.  Deleting
\* the lock of a successor does not let a third request in without a lapse.
THEOREM BoundedOverlap == Spec => []OverlapIsBounded
<1>1. IInv => OverlapIsBounded
  <2> SUFFICES ASSUME IInv, NEW s \in Slots PROVE Cardinality(InFlight(s)) <= 1 + lapses[s]
    BY DEF OverlapIsBounded
  <2>1. lapses[s] \in Nat /\ Cardinality(InFlight(s)) \in Nat
    BY FS_CardinalityType DEF IInv, TypeOK, LockBoundsOverlap
  <2> QED
    BY <2>1 DEF IInv, LockBoundsOverlap
<1> QED
  BY <1>1, Inductive, PTL

\* What the cache says was answered was answered, under the id it names.
THEOREM RecordedIsTrue == Spec => []RecordedWasAnswered
  BY Inductive, PTL DEF IInv

\* A 409 has a reason: the key was answered on that day, another request of it is
\* in progress, a lock was left behind, or this very step failed.
THEOREM RefusedForAReason == Spec => ConflictIsDeserved
<1> DEFINE Deserved(h) ==
      \/ \E p \in PayIds : answers[<<req[h].key, req[h].day>>][p] > 0
      \/ \E g \in Handlers \ {h} : pc[g] # "idle" /\ Same(g, h)
      \/ <<req[h].key, req[h].day>> \in orphans
      \/ faults' > faults
<1>1. ASSUME IInv, [Next]_vars, NEW h \in Handlers, pc[h] \in {"check", "lock"}, pc'[h] = "idle"
      PROVE  Deserved(h)
  <2>t. TypeOK
    BY <1>1 DEF IInv
  <2>s. req[h] \in Request /\ Slot(h) \in Slots /\ Slot(h) = <<req[h].key, req[h].day>>
    BY <1>1, <2>t, Serving
  <2>1. CASE CheckCache(h)
    <3>1. cache[Slot(h)] # None
      BY <1>1, <2>1, <2>t DEF CheckCache, Goto, TypeOK
    <3>2. cache[Slot(h)] \in PayIds /\ answers[Slot(h)][cache[Slot(h)]] > 0
      BY <1>1, <2>t, <2>s, <3>1 DEF IInv, RecordedWasAnswered, TypeOK
    <3> QED
      BY <2>s, <3>2
  <2>2. CASE AcquireLock(h)
    <3>1. CASE Fault("redis")
      BY <2>t, <3>1, DayAssumption DEF Fault, TypeOK
    <3>2. CASE ~Fault("redis")
      <4>1. Slot(h) \in locks
        BY <1>1, <2>2, <2>t, <3>2 DEF AcquireLock, Goto, TypeOK
      <4>2. CASE Slot(h) \in orphans
        BY <2>s, <4>2
      <4>3. CASE InFlight(Slot(h)) # {}
        <5>1. PICK g \in Handlers : pc[g] \in {"next", "store", "release"}
                                   /\ <<req[g].key, req[g].day>> = Slot(h)
          BY <4>3 DEF InFlight
        <5>2. g # h /\ pc[g] # "idle" /\ Same(g, h)
          BY <1>1, <2>s, <5>1 DEF Same
        <5> QED
          BY <5>2
      <4> QED
        BY <1>1, <4>1, <4>2, <4>3 DEF IInv, LockHasReason
    <3> QED
      BY <3>1, <3>2
  <2>3. ASSUME NEW g \in Handlers, g # h, Arrive(g) \/ Step(g) PROVE FALSE
    BY <1>1, <2>t, <2>3
       DEF Arrive, Step, CheckCache, AcquireLock, NextHandler, StoreAnswer, ReleaseLock,
           Respond, Goto, TypeOK
  <2>4. ASSUME NEW g \in Handlers, Abandon(g) PROVE Deserved(h)
    BY <2>t, <2>4, DayAssumption DEF Abandon, Fault, TypeOK
  <2>5. CASE Arrive(h) \/ NextHandler(h) \/ StoreAnswer(h) \/ ReleaseLock(h)
    BY <1>1, <2>5 DEF Arrive, NextHandler, StoreAnswer, ReleaseLock
  <2>6. CASE Midnight \/ \E s \in Slots : LockExpires(s)
    BY <1>1, <2>6 DEF Midnight, LockExpires
  <2>7. CASE UNCHANGED vars
    BY <1>1, <2>7 DEF vars
  <2> QED
    BY <1>1, <2>1, <2>2, <2>3, <2>4, <2>5, <2>6, <2>7 DEF Next, Step
<1>2. IInv /\ [Next]_vars =>
        [\A h \in Handlers : pc[h] \in {"check", "lock"} /\ pc'[h] = "idle" => Deserved(h)]_vars
  BY <1>1
<1> QED
  BY <1>2, Inductive, PTL DEF Spec, ConflictIsDeserved
=============================================================================
