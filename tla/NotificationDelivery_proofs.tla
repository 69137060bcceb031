--------------------- MODULE NotificationDelivery_proofs ---------------------
(***************************************************************************)
(* Proofs about NotificationDelivery for every number of deliveries, set   *)
(* of events, cap on a bulk resend, number of retries and combination of   *)
(* failures.                                                               *)
(***************************************************************************)
EXTENDS NotificationDelivery, FiniteSetTheorems, TLAPS

-----------------------------------------------------------------------------
(* The inductive invariant                                                 *)

\* A delivery id that was not generated names nothing.
UnusedIsBlank ==
    \A d \in Deliveries \ used :
        rows[d] = None /\ tasks[d] = None /\ calls[d] = None /\ d \notin lost

\* A call in progress has put nothing into the queue yet, and its row is as it
\* was inserted, unless it got an error because the reply was lost.
CallComesFirst ==
    \A d \in Deliveries :
        calls[d] # None
        => /\ rows[d] # None => rows[d].event = calls[d].event
           /\ d \in lost => calls[d].error # "none"
           /\ d \notin lost => /\ tasks[d] = None
                               /\ rows[d] # None => rows[d].status = "queued"

\* A uniqueness lock names a task of its payload.
LockNamesTask ==
    \A e \in Events : locks[e] # None => tasks[locks[e]] # None /\ tasks[locks[e]].event = e

\* A call that was refused as a duplicate has its event in the queue.
RefusedHasOriginal ==
    \A d \in Deliveries :
        calls[d] # None /\ calls[d].error = "duplicate"
        => \E o \in Deliveries : /\ tasks[o] # None /\ tasks[o].event = calls[d].event
                                 /\ o = d => d \in lost

\* The handler returns without an error only if the merchant answered.
OkMeansReached ==
    \A d \in Deliveries : tasks[d] # None /\ tasks[d].ok => d \in reached

\* What is still to be resent are rows.
TodoAreRows == \A d \in todo : rows[d] # None

Core ==
    /\ TypeOK
    /\ UnusedIsBlank
    /\ CallComesFirst
    /\ LockNamesTask
    /\ RefusedHasOriginal
    /\ OkMeansReached
    /\ TodoAreRows
    /\ SuccessMeansReached
    /\ DuplicateHasOriginal
    /\ FailedIsFinal

IInv == Core /\ AllOrNothing

\* What SuccessSticks says of a step.
Sticks ==
    \A d \in Deliveries : rows[d] # None /\ rows[d].status = "success" => rows'[d] = rows[d]

-----------------------------------------------------------------------------
(* What the building blocks do                                             *)

\* The sets of records that the tables hold, and None is none of them.
LEMMA Fields ==
  /\ \A r \in Row : r # None /\ r.event \in Events /\ r.trigger \in Triggers /\ r.status \in Statuses
  /\ \A t \in Task : /\ t # None /\ t.event \in Events /\ t.retried \in Nat /\ t.ok \in BOOLEAN
                     /\ t.state \in {"waiting", "active", "ended", "recorded", "completed", "archived"}
  /\ \A c \in Call : /\ c # None /\ c.event \in Events /\ c.trigger \in Triggers
                     /\ c.error \in {"none", "failed", "duplicate"}
  BY NoneAssumption DEF Row, Task, Call

\* A row changes its status only, and only if it is not "success".
LEMMA UpdateEffect ==
  ASSUME TypeOK, NEW d \in Deliveries, NEW status \in Statuses, UpdateDeliveryResult(d, status)
  PROVE  /\ rows' \in [Deliveries -> Row \cup {None}]
         /\ \A x \in Deliveries : x # d => rows'[x] = rows[x]
         /\ rows[d] = None => rows'[d] = None
         /\ rows[d] # None /\ rows[d].status = "success" => rows'[d] = rows[d]
         /\ rows[d] # None /\ rows[d].status # "success"
            => /\ rows'[d] # None /\ rows'[d].event = rows[d].event
               /\ rows'[d].trigger = rows[d].trigger /\ rows'[d].status = status
<1>1. rows \in [Deliveries -> Row \cup {None}]
  BY DEF TypeOK
<1>2. CASE rows[d] = None \/ rows[d].status = "success"
  BY <1>1, <1>2 DEF UpdateDeliveryResult
<1>3. CASE rows[d] # None /\ rows[d].status # "success"
  <2>1. rows' = [rows EXCEPT ![d] = [rows[d] EXCEPT !.status = status]]
    BY <1>3 DEF UpdateDeliveryResult
  <2>2. rows[d] \in Row
    BY <1>1, <1>3
  <2>3. /\ [rows[d] EXCEPT !.status = status] \in Row
        /\ [rows[d] EXCEPT !.status = status].event = rows[d].event
        /\ [rows[d] EXCEPT !.status = status].trigger = rows[d].trigger
        /\ [rows[d] EXCEPT !.status = status].status = status
    BY <2>2 DEF Row
  <2> QED
    BY <1>1, <1>3, <2>1, <2>3, Fields
<1> QED
  BY <1>2, <1>3

\* A new delivery: its id is fresh, and nothing else changes.
LEMMA CreateEffect ==
  ASSUME TypeOK, NEW d \in Deliveries, NEW e \in Events, NEW trigger \in Triggers,
         Create(d, e, trigger)
  PROVE  /\ d \notin used /\ used' = used \cup {d}
         /\ rows' \in [Deliveries -> Row \cup {None}] /\ calls' \in [Deliveries -> Call \cup {None}]
         /\ \A x \in Deliveries : x # d => rows'[x] = rows[x] /\ calls'[x] = calls[x]
         /\ \/ rows'[d] = rows[d]
            \/ rows'[d] # None /\ rows'[d].event = e /\ rows'[d].trigger = trigger
               /\ rows'[d].status = "queued"
         /\ calls'[d] # None /\ calls'[d].event = e /\ calls'[d].error = "none"
         /\ UNCHANGED <<tasks, locks, reached, lost, limits>>
         /\ hurt' \in SUBSET Deliveries /\ faults' \in Nat
<1>1. /\ rows \in [Deliveries -> Row \cup {None}] /\ calls \in [Deliveries -> Call \cup {None}]
      /\ hurt \in SUBSET Deliveries /\ faults \in Nat
  BY DEF TypeOK
<1>2. d \notin used /\ used' = used \cup {d}
  BY DEF Create, Deliveries
<1>3. /\ [event |-> e, trigger |-> trigger, status |-> "queued"] \in Row
      /\ [event |-> e, trigger |-> trigger, error |-> "none"] \in Call
  BY DEF Row, Call, Statuses
<1>4. /\ calls' \in [Deliveries -> Call \cup {None}]
      /\ \A x \in Deliveries : x # d => calls'[x] = calls[x]
      /\ calls'[d] # None /\ calls'[d].event = e /\ calls'[d].error = "none"
  BY <1>1, <1>3, Fields DEF Create
<1>5. /\ UNCHANGED <<tasks, locks, reached, lost, limits>>
      /\ hurt' \in SUBSET Deliveries /\ faults' \in Nat
  BY <1>1 DEF Create, Fault, Well
<1>6. /\ rows' \in [Deliveries -> Row \cup {None}]
      /\ \A x \in Deliveries : x # d => rows'[x] = rows[x]
      /\ \/ rows'[d] = rows[d]
         \/ rows'[d] # None /\ rows'[d].event = e /\ rows'[d].trigger = trigger
            /\ rows'[d].status = "queued"
  BY <1>1, <1>3, Fields DEF Create
<1> QED
  BY <1>2, <1>4, <1>5, <1>6

\* asynq's retry changes the state of one task; a task that has been retried
\* limits.retries times does not wait again.
LEMMA RetriedEffect ==
  ASSUME TypeOK, NEW d \in Deliveries, tasks[d] # None, tasks' = Retried(d), UNCHANGED limits
  PROVE  /\ tasks' \in [Deliveries -> Task \cup {None}]
         /\ \A x \in Deliveries : x # d => tasks'[x] = tasks[x]
         /\ tasks'[d] # None /\ tasks'[d].event = tasks[d].event /\ ~tasks'[d].ok
         /\ tasks'[d].retried \in tasks[d].retried .. limits.retries
         /\ tasks[d].retried = limits.retries => tasks'[d].state # "waiting"
<1>1. /\ tasks \in [Deliveries -> Task \cup {None}] /\ tasks[d] \in Task
      /\ tasks[d].retried <= limits.retries /\ limits.retries \in Nat
  BY BoundAssumption DEF TypeOK
<1>2. tasks[d].retried \in Nat
  BY <1>1, Fields
<1>3. CASE tasks[d].retried < limits.retries
  <2> DEFINE n == tasks[d].retried + 1
             t == [tasks[d] EXCEPT !.state = "waiting", !.retried = n, !.ok = FALSE]
  <2>1. tasks' = [tasks EXCEPT ![d] = t]
    BY <1>3 DEF Retried
  <2>2. t \in Task /\ t.event = tasks[d].event /\ ~t.ok /\ t.retried = tasks[d].retried + 1
    <3>1. n \in Nat /\ n = tasks[d].retried + 1
      BY <1>2
    <3> HIDE DEF n
    <3> QED
      BY <1>1, <3>1 DEF Task
  <2> HIDE DEF t
  <2> QED
    BY <1>1, <1>2, <1>3, <2>1, <2>2, Fields
<1>4. CASE ~(tasks[d].retried < limits.retries)
  <2> DEFINE t == [tasks[d] EXCEPT !.state = "archived", !.ok = FALSE]
  <2>1. tasks' = [tasks EXCEPT ![d] = t]
    BY <1>4 DEF Retried
  <2>2. t \in Task /\ t.event = tasks[d].event /\ ~t.ok /\ t.retried = tasks[d].retried /\ t.state = "archived"
    BY <1>1, <1>2 DEF Task
  <2> HIDE DEF t
  <2> QED
    BY <1>1, <1>2, <1>4, <2>1, <2>2, Fields
<1> QED
  BY <1>3, <1>4

\* An attempt, up to its acknowledgement, moves one task on.
LEMMA WorkEffect ==
  ASSUME TypeOK, NEW d \in Deliveries,
         StartAttempt(d) \/ Deliver(d) \/ RecordResult(d) \/ (Acknowledge(d) /\ tasks[d].ok)
  PROVE  /\ tasks[d] # None
         /\ tasks' \in [Deliveries -> Task \cup {None}]
         /\ \A x \in Deliveries : x # d => tasks'[x] = tasks[x]
         /\ tasks'[d] # None /\ tasks'[d].event = tasks[d].event
         /\ tasks'[d].retried = tasks[d].retried /\ tasks'[d].state # "waiting"
         /\ reached \subseteq reached'
         /\ tasks'[d].ok => tasks[d].ok \/ d \in reached'
<1>1. tasks \in [Deliveries -> Task \cup {None}] /\ tasks[d] \in Task /\ tasks[d] # None
  BY DEF TypeOK, StartAttempt, Deliver, RecordResult, Acknowledge
<1>2. PICK t \in Task :
         /\ tasks' = [tasks EXCEPT ![d] = t]
         /\ t.event = tasks[d].event /\ t.retried = tasks[d].retried /\ t.state # "waiting"
         /\ reached \subseteq reached'
         /\ t.ok => tasks[d].ok \/ d \in reached'
  <2>1. ASSUME NEW l \in {"active", "recorded", "completed"}
        PROVE  /\ [tasks[d] EXCEPT !.state = l] \in Task
               /\ [tasks[d] EXCEPT !.state = l].event = tasks[d].event
               /\ [tasks[d] EXCEPT !.state = l].retried = tasks[d].retried
               /\ [tasks[d] EXCEPT !.state = l].state # "waiting"
               /\ [tasks[d] EXCEPT !.state = l].ok = tasks[d].ok
    BY <1>1 DEF Task
  <2>2. CASE StartAttempt(d)
    BY <2>1, <2>2 DEF StartAttempt
  <2>3. CASE RecordResult(d)
    BY <2>1, <2>3 DEF RecordResult
  <2>4. CASE Acknowledge(d) /\ tasks[d].ok
    BY <2>1, <2>4 DEF Acknowledge
  <2>5. CASE Deliver(d)
    <3>1. PICK answered, ok \in BOOLEAN :
             /\ ok => answered
             /\ tasks' = [tasks EXCEPT ![d].state = "ended", ![d].ok = ok]
             /\ reached' = IF answered THEN reached \cup {d} ELSE reached
      BY <2>5 DEF Deliver
    <3> DEFINE t == [tasks[d] EXCEPT !.state = "ended", !.ok = ok]
    <3>2. tasks' = [tasks EXCEPT ![d] = t]
      BY <1>1, <3>1
    <3>3. /\ t \in Task /\ t.event = tasks[d].event /\ t.retried = tasks[d].retried
          /\ t.state # "waiting" /\ t.ok = ok
      BY <1>1 DEF Task
    <3>4. reached \subseteq reached' /\ (ok => d \in reached')
      BY <3>1
    <3> HIDE DEF t
    <3> QED
      BY <3>2, <3>3, <3>4
  <2> QED
    BY <2>2, <2>3, <2>4, <2>5
<1> QED
  BY <1>1, <1>2, Fields

-----------------------------------------------------------------------------
(* Every action keeps the invariant                                        *)

\* The resender's variables keep their types and todo only shrinks.
ResenderTyped ==
    /\ todo' \subseteq todo /\ current' \in Deliveries \cup {None}
    /\ matched' \in Nat /\ items' \in Nat /\ resends' \in Nat

\* A new delivery, of whichever origin.
LEMMA CreateStep ==
  ASSUME Core, NEW d \in Deliveries, NEW e \in Events, NEW trigger \in Triggers,
         Create(d, e, trigger), ResenderTyped
  PROVE  Core' /\ Sticks
<1>1. /\ d \notin used /\ used' = used \cup {d}
      /\ rows' \in [Deliveries -> Row \cup {None}] /\ calls' \in [Deliveries -> Call \cup {None}]
      /\ \A x \in Deliveries : x # d => rows'[x] = rows[x] /\ calls'[x] = calls[x]
      /\ \/ rows'[d] = rows[d]
         \/ rows'[d] # None /\ rows'[d].event = e /\ rows'[d].trigger = trigger
            /\ rows'[d].status = "queued"
      /\ calls'[d] # None /\ calls'[d].event = e /\ calls'[d].error = "none"
      /\ UNCHANGED <<tasks, locks, reached, lost, limits>>
      /\ hurt' \in SUBSET Deliveries /\ faults' \in Nat
  BY CreateEffect DEF Core
<1>2. rows[d] = None /\ tasks[d] = None /\ calls[d] = None /\ d \notin lost
  BY <1>1 DEF Core, UnusedIsBlank
<1>3. TypeOK'
  BY <1>1 DEF Core, TypeOK, ResenderTyped
<1>4. UnusedIsBlank' /\ CallComesFirst'
  BY <1>1, <1>2 DEF Core, UnusedIsBlank, CallComesFirst
<1>5. LockNamesTask' /\ OkMeansReached'
  BY <1>1 DEF Core, LockNamesTask, OkMeansReached
<1>6. RefusedHasOriginal' /\ DuplicateHasOriginal'
  BY <1>1, <1>2 DEF Core, RefusedHasOriginal, DuplicateHasOriginal
<1>7. TodoAreRows'
  BY <1>1, <1>2 DEF Core, TodoAreRows, ResenderTyped, TypeOK
<1>8. SuccessMeansReached' /\ FailedIsFinal' /\ Sticks
  BY <1>1, <1>2 DEF Core, SuccessMeansReached, FailedIsFinal, Sticks
<1> QED
  BY <1>3, <1>4, <1>5, <1>6, <1>7, <1>8 DEF Core

\* The enqueue: a task, the error, or both.
LEMMA EnqueueStep ==
  ASSUME Core, NEW d \in Deliveries, Enqueue(d)
  PROVE  Core' /\ Sticks
<1> DEFINE e == calls[d].event
<1>1. /\ TypeOK /\ UNCHANGED <<rows, resender, used, reached>>
      /\ calls[d] # None /\ calls[d] \in Call /\ e \in Events /\ d \in used
      /\ d \notin lost /\ tasks[d] = None
      /\ rows[d] # None => rows[d].event = e /\ rows[d].status = "queued"
  BY Fields DEF Core, Enqueue, TypeOK, UnusedIsBlank, CallComesFirst
<1>2. UNCHANGED limits /\ hurt' \in SUBSET Deliveries /\ faults' \in Nat
  BY <1>1 DEF Enqueue, Fault, Well, TypeOK
<1>a. ASSUME NEW err \in {"failed", "duplicate"}, calls' = [calls EXCEPT ![d].error = err]
      PROVE  /\ calls' \in [Deliveries -> Call \cup {None}] /\ calls'[d] # None
             /\ calls'[d].event = e /\ calls'[d].error = err
             /\ \A x \in Deliveries : x # d => calls'[x] = calls[x]
  <2>1. /\ [calls[d] EXCEPT !.error = err] \in Call
        /\ [calls[d] EXCEPT !.error = err].event = e
        /\ [calls[d] EXCEPT !.error = err].error = err
    BY <1>1 DEF Call
  <2> QED
    BY <1>1, <1>a, <2>1, Fields DEF TypeOK
<1>3. CASE /\ tasks' = [tasks EXCEPT ![d] = [event |-> e, state |-> "waiting",
                                            retried |-> 0, ok |-> FALSE]]
           /\ locks' = locks \/ locks' = [locks EXCEPT ![e] = d]
           /\ \/ calls' = [calls EXCEPT ![d] = None] /\ lost' = lost
              \/ /\ lost' = lost \cup {d}
                 /\ \E err \in {"failed", "duplicate"} : calls' = [calls EXCEPT ![d].error = err]
  <2>1. /\ tasks' \in [Deliveries -> Task \cup {None}] /\ tasks'[d] # None
        /\ \A x \in Deliveries : x # d => tasks'[x] = tasks[x]
        /\ tasks'[d].event = e /\ tasks'[d].retried = 0 /\ ~tasks'[d].ok
    <3>1. [event |-> e, state |-> "waiting", retried |-> 0, ok |-> FALSE] \in Task
      BY <1>1 DEF Task
    <3> QED
      BY <1>1, <1>3, <3>1, Fields DEF TypeOK
  <2>2. /\ calls' \in [Deliveries -> Call \cup {None}]
        /\ \A x \in Deliveries : x # d => calls'[x] = calls[x]
        /\ \/ calls'[d] = None /\ lost' = lost
           \/ /\ lost' = lost \cup {d}
              /\ calls'[d] # None /\ calls'[d].event = e
              /\ calls'[d].error \in {"failed", "duplicate"}
    <3>1. CASE calls' = [calls EXCEPT ![d] = None] /\ lost' = lost
      BY <1>1, <3>1 DEF TypeOK
    <3>2. CASE /\ lost' = lost \cup {d}
               /\ \E err \in {"failed", "duplicate"} : calls' = [calls EXCEPT ![d].error = err]
      BY <1>a, <3>2
    <3> QED
      BY <1>3, <3>1, <3>2
  <2>3. /\ locks' \in [Events -> Deliveries \cup {None}]
        /\ \A f \in Events : locks'[f] = locks[f] \/ (f = e /\ locks'[f] = d)
    BY <1>1, <1>3 DEF TypeOK
  <2> HIDE DEF e
  <2>4. TypeOK'
    <3>1. lost' \in SUBSET Deliveries
      BY <1>1, <2>2 DEF TypeOK
    <3> QED
      BY <1>1, <1>2, <2>1, <2>2, <2>3, <3>1, BoundAssumption DEF TypeOK, resender
  <2>5. UnusedIsBlank' /\ CallComesFirst'
    BY <1>1, <2>1, <2>2 DEF Core, UnusedIsBlank, CallComesFirst
  <2>6. LockNamesTask'
    BY <1>1, <2>1, <2>3 DEF Core, LockNamesTask, TypeOK
  <2>7. RefusedHasOriginal' /\ DuplicateHasOriginal'
    BY <1>1, <2>1, <2>2 DEF Core, RefusedHasOriginal, DuplicateHasOriginal
  <2>8. OkMeansReached' /\ SuccessMeansReached' /\ TodoAreRows' /\ Sticks
    BY <1>1, <2>1 DEF Core, OkMeansReached, SuccessMeansReached, TodoAreRows, Sticks, resender
  <2>9. FailedIsFinal'
    BY <1>1, <1>2, <2>1, <2>2 DEF Core, FailedIsFinal
  <2> QED
    BY <2>4, <2>5, <2>6, <2>7, <2>8, <2>9 DEF Core
<1>4. CASE \E err \in {"failed", "duplicate"} :
              /\ calls' = [calls EXCEPT ![d].error = err]
              /\ err = "duplicate" => locks[e] # None
              /\ UNCHANGED <<locks, tasks, lost>>
  <2>1. PICK err \in {"failed", "duplicate"} :
              /\ calls' = [calls EXCEPT ![d].error = err]
              /\ err = "duplicate" => locks[e] # None
              /\ UNCHANGED <<locks, tasks, lost>>
    BY <1>4
  <2>2. /\ calls' \in [Deliveries -> Call \cup {None}] /\ calls'[d] # None
        /\ calls'[d].event = e /\ calls'[d].error = err
        /\ \A x \in Deliveries : x # d => calls'[x] = calls[x]
    BY <1>a, <2>1
  <2>3. err = "duplicate" => \E o \in Deliveries \ {d} : tasks[o] # None /\ tasks[o].event = e
    BY <1>1, <2>1 DEF Core, LockNamesTask, TypeOK
  <2> HIDE DEF e
  <2>4. TypeOK'
    BY <1>1, <1>2, <2>1, <2>2 DEF TypeOK, resender
  <2>5. UnusedIsBlank' /\ CallComesFirst'
    BY <1>1, <2>1, <2>2 DEF Core, UnusedIsBlank, CallComesFirst
  <2>6. LockNamesTask' /\ OkMeansReached' /\ SuccessMeansReached' /\ TodoAreRows' /\ Sticks
    BY <1>1, <2>1
       DEF Core, LockNamesTask, OkMeansReached, SuccessMeansReached, TodoAreRows, Sticks, resender
  <2>7. RefusedHasOriginal' /\ DuplicateHasOriginal'
    BY <1>1, <2>1, <2>2, <2>3 DEF Core, RefusedHasOriginal, DuplicateHasOriginal
  <2>8. FailedIsFinal'
    BY <1>1, <1>2, <2>1 DEF Core, FailedIsFinal
  <2> QED
    BY <2>4, <2>5, <2>6, <2>7, <2>8 DEF Core
<1> QED
  BY <1>3, <1>4 DEF Enqueue

\* The error of the enqueue reaches the row, or does not.
LEMMA SettleStep ==
  ASSUME Core, NEW d \in Deliveries, SettleDispatch(d)
  PROVE  Core' /\ Sticks
<1>1. /\ TypeOK /\ UNCHANGED <<tasks, locks, resender, used, reached, lost, limits>>
      /\ calls[d] # None /\ calls[d] \in Call /\ calls[d].error \in {"failed", "duplicate"}
      /\ d \in used /\ (d \notin lost => tasks[d] = None)
      /\ hurt' \in SUBSET Deliveries /\ faults' \in Nat
  BY Fields DEF Core, SettleDispatch, TypeOK, UnusedIsBlank, CallComesFirst, Fault, Hurts, Well
<1>2. /\ calls' \in [Deliveries -> Call \cup {None}] /\ calls'[d] = None
      /\ \A x \in Deliveries : x # d => calls'[x] = calls[x]
  BY <1>1 DEF SettleDispatch, TypeOK
<1>3. /\ rows' \in [Deliveries -> Row \cup {None}]
      /\ \A x \in Deliveries : x # d => rows'[x] = rows[x]
      /\ \/ rows'[d] = rows[d]
         \/ /\ rows[d] # None /\ rows'[d] # None /\ rows[d].status # "success"
            /\ rows'[d].event = rows[d].event /\ rows'[d].status = calls[d].error
  <2>1. calls[d].error \in Statuses
    BY <1>1 DEF Statuses
  <2>2. CASE UpdateDeliveryResult(d, calls[d].error)
    BY <1>1, <2>1, <2>2, UpdateEffect
  <2>3. CASE UNCHANGED rows
    BY <1>1, <2>3 DEF TypeOK
  <2> QED
    BY <2>2, <2>3 DEF SettleDispatch
<1>4. rows[d] # None => rows[d].event = calls[d].event
  BY <1>1 DEF Core, CallComesFirst
<1>5. TypeOK'
  BY <1>1, <1>2, <1>3 DEF TypeOK, resender
<1>6. UnusedIsBlank' /\ CallComesFirst'
  BY <1>1, <1>2, <1>3 DEF Core, UnusedIsBlank, CallComesFirst
<1>7. LockNamesTask' /\ OkMeansReached'
  BY <1>1 DEF Core, LockNamesTask, OkMeansReached
<1>8. RefusedHasOriginal'
  BY <1>1, <1>2 DEF Core, RefusedHasOriginal
<1>9. DuplicateHasOriginal'
  BY <1>1, <1>3, <1>4 DEF Core, RefusedHasOriginal, DuplicateHasOriginal
<1>10. TodoAreRows'
  BY <1>1, <1>3 DEF Core, TodoAreRows, TypeOK, resender
<1>11. SuccessMeansReached' /\ Sticks
  BY <1>1, <1>3 DEF Core, SuccessMeansReached, Sticks
<1>12. FailedIsFinal'
  BY <1>1, <1>3 DEF Core, FailedIsFinal
<1> QED
  BY <1>5, <1>6, <1>7, <1>8, <1>9, <1>10, <1>11, <1>12 DEF Core

\* The dispatcher dies: the call is forgotten.
LEMMA DispatcherDiesStep ==
  ASSUME Core, NEW d \in Deliveries, DispatcherDies(d)
  PROVE  Core' /\ Sticks
<1>1. /\ TypeOK /\ UNCHANGED <<rows, tasks, locks, resends, used, reached, lost, limits>>
      /\ todo' \subseteq todo /\ current' \in Deliveries \cup {None}
      /\ matched' \in Nat /\ items' \in Nat
      /\ hurt' \in SUBSET Deliveries /\ faults' \in Nat
  BY DEF Core, DispatcherDies, Fault, Hurts, TypeOK
<1>2. /\ calls' \in [Deliveries -> Call \cup {None}] /\ calls'[d] = None
      /\ \A x \in Deliveries : x # d => calls'[x] = calls[x]
  BY <1>1 DEF DispatcherDies, TypeOK
<1>3. TypeOK'
  BY <1>1, <1>2 DEF TypeOK
<1>4. UnusedIsBlank' /\ CallComesFirst' /\ RefusedHasOriginal'
  BY <1>1, <1>2 DEF Core, UnusedIsBlank, CallComesFirst, RefusedHasOriginal
<1>5. LockNamesTask' /\ OkMeansReached' /\ TodoAreRows' /\ SuccessMeansReached'
  BY <1>1 DEF Core, LockNamesTask, OkMeansReached, TodoAreRows, SuccessMeansReached
<1>6. DuplicateHasOriginal' /\ FailedIsFinal' /\ Sticks
  BY <1>1 DEF Core, DuplicateHasOriginal, FailedIsFinal, Sticks
<1> QED
  BY <1>3, <1>4, <1>5, <1>6 DEF Core

\* The worker's steps up to the acknowledgement of a success.
LEMMA WorkStep ==
  ASSUME Core, NEW d \in Deliveries,
         StartAttempt(d) \/ Deliver(d) \/ RecordResult(d) \/ (Acknowledge(d) /\ tasks[d].ok)
  PROVE  Core' /\ Sticks
<1>1. /\ TypeOK /\ tasks[d] # None
      /\ tasks' \in [Deliveries -> Task \cup {None}]
      /\ \A x \in Deliveries : x # d => tasks'[x] = tasks[x]
      /\ tasks'[d] # None /\ tasks'[d].event = tasks[d].event
      /\ tasks'[d].retried = tasks[d].retried /\ tasks'[d].state # "waiting"
      /\ reached \subseteq reached'
      /\ tasks'[d].ok => tasks[d].ok \/ d \in reached'
  BY WorkEffect DEF Core
<1>2. /\ UNCHANGED <<calls, resender, used, lost, limits>>
      /\ reached' \in SUBSET Deliveries /\ hurt' \in SUBSET Deliveries /\ faults' \in Nat
  BY <1>1 DEF TypeOK, StartAttempt, Deliver, RecordResult, Acknowledge, Fault, Hurts, Well
<1>3. /\ locks' \in [Events -> Deliveries \cup {None}]
      /\ \A e \in Events : locks'[e] = locks[e] \/ locks'[e] = None
  BY <1>1 DEF TypeOK, StartAttempt, Deliver, RecordResult, Acknowledge
<1>4. tasks[d] \in Task /\ tasks[d].retried <= limits.retries /\ limits.retries \in Nat
      /\ tasks[d].retried \in Nat /\ tasks[d].ok \in BOOLEAN
  BY <1>1, BoundAssumption, Fields DEF TypeOK
<1>5. /\ rows' \in [Deliveries -> Row \cup {None}]
      /\ \A x \in Deliveries : x # d => rows'[x] = rows[x]
      /\ \/ rows'[d] = rows[d]
         \/ /\ rows[d] # None /\ rows'[d] # None /\ rows[d].status # "success"
            /\ rows'[d].event = rows[d].event
            /\ rows'[d].status = AttemptStatus(tasks[d].ok, tasks[d].retried)
  <2>1. AttemptStatus(tasks[d].ok, tasks[d].retried) \in Statuses
    BY DEF AttemptStatus, Statuses
  <2>2. CASE UpdateDeliveryResult(d, AttemptStatus(tasks[d].ok, tasks[d].retried))
    BY <1>1, <2>1, <2>2, UpdateEffect
  <2>3. CASE UNCHANGED rows
    BY <1>1, <2>3 DEF TypeOK
  <2> QED
    BY <2>2, <2>3 DEF StartAttempt, Deliver, RecordResult, Acknowledge
<1>6. /\ AttemptStatus(tasks[d].ok, tasks[d].retried) = "success" => d \in reached
      /\ AttemptStatus(tasks[d].ok, tasks[d].retried) = "failed" => tasks[d].retried = limits.retries
      /\ AttemptStatus(tasks[d].ok, tasks[d].retried) # "duplicate"
  BY <1>1, <1>4 DEF AttemptStatus, Core, OkMeansReached
<1>7. TypeOK'
  BY <1>1, <1>2, <1>3, <1>4, <1>5 DEF TypeOK, resender
<1>8. UnusedIsBlank' /\ CallComesFirst'
  <2>1. d \in used /\ (calls[d] # None => d \in lost)
    BY <1>1 DEF Core, UnusedIsBlank, CallComesFirst
  <2> QED
    BY <1>1, <1>2, <1>5, <2>1 DEF Core, UnusedIsBlank, CallComesFirst
<1>9. LockNamesTask'
  BY <1>1, <1>3 DEF Core, LockNamesTask, TypeOK
<1>10. RefusedHasOriginal'
  BY <1>1, <1>2 DEF Core, RefusedHasOriginal
<1>11. DuplicateHasOriginal'
  <2> SUFFICES ASSUME NEW x \in Deliveries, rows'[x] # None, rows'[x].status = "duplicate"
               PROVE  \E o \in Deliveries : /\ tasks'[o] # None /\ tasks'[o].event = rows'[x].event
                                            /\ o = x => x \in lost'
    BY DEF DuplicateHasOriginal
  <2>1. rows[x] # None /\ rows[x].status = "duplicate" /\ rows'[x].event = rows[x].event
    BY <1>5, <1>6
  <2>2. PICK o \in Deliveries : /\ tasks[o] # None /\ tasks[o].event = rows[x].event
                                /\ o = x => x \in lost
    BY <2>1 DEF Core, DuplicateHasOriginal
  <2> QED
    BY <1>1, <1>2, <2>1, <2>2
<1>12. OkMeansReached'
  BY <1>1 DEF Core, OkMeansReached
<1>13. TodoAreRows'
  BY <1>1, <1>2, <1>5 DEF Core, TodoAreRows, TypeOK, resender
<1>14. SuccessMeansReached' /\ Sticks
  BY <1>1, <1>5, <1>6 DEF Core, SuccessMeansReached, Sticks
<1>15. FailedIsFinal'
  BY <1>1, <1>2, <1>5, <1>6 DEF Core, FailedIsFinal
<1> QED
  BY <1>7, <1>8, <1>9, <1>10, <1>11, <1>12, <1>13, <1>14, <1>15 DEF Core

\* asynq retries or archives a task that failed or lost its worker.
LEMMA RetryStep ==
  ASSUME Core, NEW d \in Deliveries, tasks[d] # None, tasks' = Retried(d),
         UNCHANGED <<rows, locks, calls, resender, used, reached, lost, limits>>,
         hurt' \in SUBSET Deliveries, faults' \in Nat
  PROVE  Core' /\ Sticks
<1>1. /\ TypeOK /\ tasks' \in [Deliveries -> Task \cup {None}]
      /\ \A x \in Deliveries : x # d => tasks'[x] = tasks[x]
      /\ tasks'[d] # None /\ tasks'[d].event = tasks[d].event /\ ~tasks'[d].ok
      /\ tasks'[d].retried \in tasks[d].retried .. limits.retries
      /\ tasks[d].retried = limits.retries => tasks'[d].state # "waiting"
  BY RetriedEffect DEF Core
<1>2. /\ tasks'[d].retried <= limits.retries
      /\ tasks[d].retried = limits.retries => tasks'[d].retried = limits.retries
  <2>1. limits.retries \in Nat
    BY <1>1, BoundAssumption DEF TypeOK
  <2>2. tasks[d].retried \in Nat
    BY <1>1, Fields DEF TypeOK
  <2> QED
    BY <1>1, <2>1, <2>2
<1>3. TypeOK'
  BY <1>1, <1>2 DEF TypeOK, resender
<1>4. UnusedIsBlank' /\ CallComesFirst'
  BY <1>1 DEF Core, UnusedIsBlank, CallComesFirst
<1>5. LockNamesTask'
  BY <1>1 DEF Core, LockNamesTask, TypeOK
<1>6. RefusedHasOriginal' /\ DuplicateHasOriginal'
  BY <1>1 DEF Core, RefusedHasOriginal, DuplicateHasOriginal
<1>7. OkMeansReached' /\ SuccessMeansReached' /\ TodoAreRows' /\ Sticks
  BY <1>1 DEF Core, OkMeansReached, SuccessMeansReached, TodoAreRows, Sticks, resender
<1>8. FailedIsFinal'
  BY <1>1, <1>2 DEF Core, FailedIsFinal
<1> QED
  BY <1>3, <1>4, <1>5, <1>6, <1>7, <1>8 DEF Core

\* A lock ends, or a range is picked: rows, tasks and calls stay.
LEMMA QuietStep ==
  ASSUME Core, UNCHANGED <<rows, tasks, calls, used, reached, hurt, lost, faults, limits>>,
         locks' \in [Events -> Deliveries \cup {None}],
         \A e \in Events : locks'[e] = locks[e] \/ locks'[e] = None,
         todo' \in SUBSET Deliveries, \A d \in todo' : rows[d] # None,
         current' \in Deliveries \cup {None}, matched' \in Nat, items' \in Nat, resends' \in Nat
  PROVE  Core' /\ Sticks
<1>1. TypeOK' /\ TodoAreRows' /\ LockNamesTask'
  BY DEF Core, TypeOK, TodoAreRows, LockNamesTask
<1>2. UnusedIsBlank' /\ CallComesFirst' /\ RefusedHasOriginal' /\ OkMeansReached'
  BY DEF Core, UnusedIsBlank, CallComesFirst, RefusedHasOriginal, OkMeansReached
<1>3. SuccessMeansReached' /\ DuplicateHasOriginal' /\ FailedIsFinal' /\ Sticks
  BY DEF Core, SuccessMeansReached, DuplicateHasOriginal, FailedIsFinal, Sticks
<1> QED
  BY <1>1, <1>2, <1>3 DEF Core

-----------------------------------------------------------------------------
(* The bulk resend is all or nothing                                       *)

\* Sets of deliveries are finite.
LEMMA DeliveriesFinite ==
  \A S \in SUBSET Deliveries : IsFiniteSet(S) /\ Cardinality(S) \in Nat
<1>1. IsFiniteSet(Deliveries)
  BY BoundAssumption, FS_Interval DEF Deliveries
<1> QED
  BY <1>1, FS_Subset, FS_CardinalityType

\* A query with LIMIT MaxBulkResend + 1 that returns no more than MaxBulkResend
\* rows has returned every row that matches.
LEMMA WithinCapIsAll ==
  ASSUME NEW S \in SUBSET Deliveries, NEW r \in Limited(S, MaxBulk + 1), Cardinality(r) <= MaxBulk
  PROVE  r \in SUBSET S /\ Cardinality(r) = Cardinality(S)
<1>1. Cardinality(S) \in Nat
  BY DeliveriesFinite
<1> QED
  BY <1>1, BoundAssumption DEF Limited

\* The call is refused, or goes through all it matched; a process that dies takes
\* the whole call with it.
LEMMA AllOrNothingStep == IInv /\ [Next]_vars => AllOrNothing'
<1> SUFFICES ASSUME IInv, [Next]_vars PROVE AllOrNothing'
  OBVIOUS
<1>t. TypeOK /\ AllOrNothing
  BY DEF IInv, Core
<1>1. CASE UNCHANGED <<todo, items, matched>>
  BY <1>t, <1>1 DEF AllOrNothing
<1>2. ASSUME NEW d \in Deliveries, DispatcherDies(d) PROVE AllOrNothing'
  <2>1. CASE d = current
    BY <1>2, <2>1, FS_EmptySet DEF DispatcherDies, AllOrNothing
  <2>2. CASE d # current
    BY <1>1, <1>2, <2>2 DEF DispatcherDies
  <2> QED
    BY <2>1, <2>2
<1>3. ASSUME NEW matching \in SUBSET {d \in Deliveries : rows[d] # None}, ResendRange(matching)
      PROVE  AllOrNothing'
  <2>1. matching \cap Originals \in SUBSET Deliveries
    BY DEF Originals
  <2>2. PICK r \in Limited(matching \cap Originals, MaxBulk + 1) : Cardinality(r) <= MaxBulk /\ todo' = r
    BY <1>3 DEF ResendRange, ListForResend
  <2>3. Cardinality(todo') = Cardinality(matching \cap Originals)
    BY <2>1, <2>2, WithinCapIsAll
  <2>4. Cardinality(matching \cap Originals) \in Nat
    BY <2>1, DeliveriesFinite
  <2> QED
    BY <1>3, <2>3, <2>4 DEF ResendRange, AllOrNothing
<1>4. ASSUME NEW o \in Deliveries, \/ \E d \in Deliveries : DispatchResend(o, d)
                                  \/ SkipResend(o)
      PROVE  AllOrNothing'
  <2>1. IsFiniteSet(todo) /\ Cardinality(todo) \in Nat /\ o \in todo /\ todo' = todo \ {o}
    BY <1>t, <1>4, DeliveriesFinite DEF TypeOK, DispatchResend, SkipResend
  <2>2. Cardinality(todo') = Cardinality(todo) - 1
    BY <2>1, FS_RemoveElement
  <2> QED
    BY <1>t, <1>4, <2>1, <2>2 DEF DispatchResend, SkipResend, AllOrNothing, TypeOK
<1>5. ASSUME NEW d \in Deliveries, Dispatch(d) \/ Work(d) \/ WorkerDies(d)
      PROVE  UNCHANGED <<todo, items, matched>>
  BY <1>5 DEF Dispatch, Work, Enqueue, SettleDispatch, StartAttempt, Deliver, RecordResult,
              Acknowledge, WorkerDies, resender
<1>6. ASSUME NEW d \in Deliveries, NEW e \in Events, DispatchAuto(d, e)
      PROVE  UNCHANGED <<todo, items, matched>>
  BY <1>6 DEF DispatchAuto, resender
<1>7. ASSUME NEW e \in Events, LockExpires(e) PROVE UNCHANGED <<todo, items, matched>>
  BY <1>7 DEF LockExpires, resender
<1>8. ASSUME NEW o \in Deliveries, NEW d \in Deliveries, Resend(o, d)
      PROVE  UNCHANGED <<todo, items, matched>>
  BY <1>8 DEF Resend
<1>9. CASE UNCHANGED vars
  BY <1>1, <1>9 DEF vars, resender
<1> QED
  BY <1>1, <1>2, <1>3, <1>4, <1>5, <1>6, <1>7, <1>8, <1>9 DEF Next

-----------------------------------------------------------------------------
(* Resends follow originals                                                *)

\* The rows of event e with this trigger, and the ones still to be resent.
OfEvent(e, trigger) ==
    {d \in Deliveries : rows[d] # None /\ rows[d].trigger = trigger /\ rows[d].event = e}
TodoOf(e) == {d \in todo : rows[d].event = e}

\* Only originals are resent, and every resend of an event, made or still to come,
\* is accounted for by a call and an original.
ResendInv ==
    /\ todo \subseteq Originals
    /\ \A e \in Events :
         Cardinality(OfEvent(e, "manual")) + Cardinality(TodoOf(e))
         <= resends * Cardinality(OfEvent(e, "auto"))

\* The products: another original, another call for an event that has an original,
\* another range over the originals; and there is no resend without an original.
LEMMA ResendArithmetic ==
  ASSUME NEW r \in Nat, NEW a \in Nat, NEW m \in Nat, NEW t \in Nat, m + t <= r * a
  PROVE  /\ m + t <= r * (a + 1)
         /\ a >= 1 => (m + 1) + t <= (r + 1) * a
         /\ m + t <= (r + 1) * a
         /\ \A x \in Nat : t = 0 /\ x <= a => m + x <= (r + 1) * a
         /\ m >= 1 => a >= 1
<1>1. r * (a + 1) = r * a + r /\ (r + 1) * a = r * a + a /\ r * a \in Nat
  OBVIOUS
<1>2. a = 0 => r * a = 0
  OBVIOUS
<1> QED
  BY <1>1, <1>2

\* What is counted is finite.
LEMMA ResendCounts ==
  ASSUME TypeOK, NEW e
  PROVE  /\ IsFiniteSet(TodoOf(e)) /\ Cardinality(TodoOf(e)) \in Nat
         /\ \A trigger : /\ IsFiniteSet(OfEvent(e, trigger))
                         /\ Cardinality(OfEvent(e, trigger)) \in Nat
<1>1. TodoOf(e) \in SUBSET Deliveries /\ \A trigger : OfEvent(e, trigger) \in SUBSET Deliveries
  BY DEF TypeOK, TodoOf, OfEvent
<1> QED
  BY <1>1, DeliveriesFinite

\* No row comes or goes, or changes its event or trigger.
SameRows ==
    \A d \in Deliveries :
        /\ rows'[d] = None <=> rows[d] = None
        /\ rows[d] # None => rows'[d].trigger = rows[d].trigger /\ rows'[d].event = rows[d].event

\* Then what is to be resent may become less.
LEMMA SameRowsKeepResends ==
  ASSUME Core, ResendInv, SameRows, todo' \subseteq todo, resends' = resends
  PROVE  ResendInv'
<1>1. TypeOK /\ todo \subseteq Deliveries
  BY DEF Core, TypeOK
<1>2. todo' \subseteq Originals'
  BY <1>1 DEF ResendInv, SameRows, Originals
<1>3. ASSUME NEW e \in Events
      PROVE  Cardinality(OfEvent(e, "manual")') + Cardinality(TodoOf(e)')
             <= resends' * Cardinality(OfEvent(e, "auto")')
  <2>1. OfEvent(e, "manual")' = OfEvent(e, "manual") /\ OfEvent(e, "auto")' = OfEvent(e, "auto")
    BY DEF SameRows, OfEvent
  <2>2. TodoOf(e)' \subseteq TodoOf(e)
    BY <1>1 DEF SameRows, TodoOf, Core, TodoAreRows
  <2>3. Cardinality(TodoOf(e)') <= Cardinality(TodoOf(e)) /\ Cardinality(TodoOf(e)') \in Nat
    BY <1>1, <2>2, ResendCounts, FS_Subset, FS_CardinalityType
  <2>4. Cardinality(OfEvent(e, "manual")) \in Nat /\ Cardinality(TodoOf(e)) \in Nat
    BY <1>1, ResendCounts
  <2>5. Cardinality(OfEvent(e, "manual")) + Cardinality(TodoOf(e))
        <= resends * Cardinality(OfEvent(e, "auto"))
    BY DEF ResendInv
  <2>6. resends * Cardinality(OfEvent(e, "auto")) \in Nat
    <3>1. resends \in Nat /\ Cardinality(OfEvent(e, "auto")) \in Nat
      BY <1>1, ResendCounts DEF TypeOK
    <3> QED
      BY <3>1
  <2> DEFINE bound == resends * Cardinality(OfEvent(e, "auto"))
  <2>7. resends' * Cardinality(OfEvent(e, "auto")') = bound
    BY <2>1
  <2> HIDE DEF bound
  <2> QED
    BY <2>1, <2>3, <2>4, <2>5, <2>6, <2>7 DEF bound
<1> QED
  BY <1>2, <1>3 DEF ResendInv

\* A new delivery adds its row, unless the insert failed, and no other.
LEMMA CreateAddsRow ==
  ASSUME Core, NEW d \in Deliveries, NEW e \in Events, NEW trigger \in Triggers,
         Create(d, e, trigger)
  PROVE  /\ d \notin todo /\ rows[d] = None
         /\ \A x \in Deliveries \ {d} : rows'[x] = rows[x]
         /\ \A f, s : d \notin OfEvent(f, s)
         /\ \A f, s : f # e \/ s # trigger => OfEvent(f, s)' = OfEvent(f, s)
         /\ \/ OfEvent(e, trigger)' = OfEvent(e, trigger)
            \/ OfEvent(e, trigger)' = OfEvent(e, trigger) \cup {d}
<1>1. /\ d \notin used /\ \A x \in Deliveries \ {d} : rows'[x] = rows[x]
      /\ \/ rows'[d] = rows[d]
         \/ rows'[d] # None /\ rows'[d].event = e /\ rows'[d].trigger = trigger
  BY CreateEffect DEF Core
<1>2. rows[d] = None /\ d \notin todo
  BY <1>1 DEF Core, UnusedIsBlank, TodoAreRows
<1>3. \A f, s : d \notin OfEvent(f, s)
  BY <1>2 DEF OfEvent
<1>4. CASE rows'[d] = rows[d]
  <2>1. \A x \in Deliveries : rows'[x] = rows[x]
    BY <1>1, <1>4
  <2>2. \A f, s : OfEvent(f, s)' = OfEvent(f, s)
    BY <2>1 DEF OfEvent
  <2> QED
    BY <1>1, <1>2, <1>3, <2>2
<1>5. CASE rows'[d] # None /\ rows'[d].event = e /\ rows'[d].trigger = trigger
  <2>1. \A f, s : f # e \/ s # trigger => OfEvent(f, s)' = OfEvent(f, s)
    BY <1>1, <1>2, <1>5 DEF OfEvent
  <2>2. OfEvent(e, trigger)' = OfEvent(e, trigger) \cup {d}
    BY <1>1, <1>2, <1>5 DEF OfEvent
  <2> QED
    BY <1>1, <1>2, <1>3, <2>1, <2>2
<1> QED
  BY <1>1, <1>4, <1>5

\* So the count of its event and trigger grows by one at most.
LEMMA CreateCounts ==
  ASSUME Core, NEW d \in Deliveries, NEW e \in Events, NEW trigger \in Triggers,
         Create(d, e, trigger), NEW f \in Events, NEW s \in Triggers
  PROVE  /\ Cardinality(OfEvent(f, s)') = Cardinality(OfEvent(f, s))
            \/ /\ f = e /\ s = trigger
               /\ Cardinality(OfEvent(f, s)') = Cardinality(OfEvent(f, s)) + 1
         /\ \A x \in todo : x # d /\ rows'[x] = rows[x]
<1>1. IsFiniteSet(OfEvent(f, s)) /\ d \notin OfEvent(f, s)
  BY ResendCounts, CreateAddsRow DEF Core
<1>2. \/ OfEvent(f, s)' = OfEvent(f, s)
      \/ f = e /\ s = trigger /\ OfEvent(f, s)' = OfEvent(f, s) \cup {d}
  BY CreateAddsRow
<1>3. \A x \in todo : x # d /\ rows'[x] = rows[x]
  BY CreateAddsRow DEF Core, TypeOK
<1> QED
  BY <1>1, <1>2, <1>3, FS_AddElement

\* The originals of a range are rows with the trigger "auto".
LEMMA RangeIsOriginals ==
  ASSUME NEW matching, ResendRange(matching)
  PROVE  todo = {} /\ todo' \subseteq Originals /\ rows' = rows /\ resends' = resends + 1
BY DEF ResendRange, ListForResend, Limited

\* One case per action that makes a resend or takes one on.
LEMMA ResendStep == Core /\ ResendInv /\ [Next]_vars => ResendInv'
<1> SUFFICES ASSUME Core, ResendInv, [Next]_vars PROVE ResendInv'
  OBVIOUS
<1>t. TypeOK /\ todo \subseteq Originals /\ resends \in Nat
  BY DEF Core, ResendInv, TypeOK
<1>a. ASSUME NEW e \in Events
      PROVE  /\ Cardinality(OfEvent(e, "manual")) \in Nat /\ Cardinality(OfEvent(e, "auto")) \in Nat
             /\ Cardinality(TodoOf(e)) \in Nat
             /\ Cardinality(OfEvent(e, "manual")) + Cardinality(TodoOf(e))
                <= resends * Cardinality(OfEvent(e, "auto"))
  BY <1>t, ResendCounts DEF ResendInv
<1>c. ASSUME NEW d \in Deliveries, NEW e \in Events, NEW trigger \in Triggers,
             Create(d, e, trigger), todo' \subseteq todo
      PROVE  todo' \subseteq Originals'
  BY <1>t, <1>c, CreateCounts DEF Originals
<1>1. ASSUME NEW d \in Deliveries, NEW e \in Events, DispatchAuto(d, e) PROVE ResendInv'
  <2>1. Create(d, e, "auto") /\ "auto" \in Triggers /\ "manual" \in Triggers
        /\ todo' = todo /\ resends' = resends
    BY <1>1 DEF DispatchAuto, resender, Triggers
  <2>2. ASSUME NEW f \in Events
        PROVE  Cardinality(OfEvent(f, "manual")') + Cardinality(TodoOf(f)')
               <= resends' * Cardinality(OfEvent(f, "auto")')
    <3>1. TodoOf(f)' = TodoOf(f)
      BY <2>1, CreateCounts DEF TodoOf
    <3>2. Cardinality(OfEvent(f, "manual")') = Cardinality(OfEvent(f, "manual"))
      BY <2>1, CreateCounts
    <3>3. \/ Cardinality(OfEvent(f, "auto")') = Cardinality(OfEvent(f, "auto"))
          \/ Cardinality(OfEvent(f, "auto")') = Cardinality(OfEvent(f, "auto")) + 1
      BY <2>1, CreateCounts
    <3>4. Cardinality(OfEvent(f, "manual")) + Cardinality(TodoOf(f))
          <= resends * (Cardinality(OfEvent(f, "auto")) + 1)
      BY <1>t, <1>a, ResendArithmetic
    <3> QED
      BY <1>a, <2>1, <3>1, <3>2, <3>3, <3>4, Zenon
  <2> QED
    BY <1>c, <2>1, <2>2 DEF ResendInv
<1>2. ASSUME NEW latest \in Deliveries, NEW d \in Deliveries, Resend(latest, d) PROVE ResendInv'
  <2> DEFINE e == rows[latest].event
  <2>1. /\ rows[latest] # None /\ rows[latest] \in Row /\ todo' = todo /\ resends' = resends + 1
        /\ Create(d, e, "manual") /\ "auto" \in Triggers /\ "manual" \in Triggers
    BY <1>t, <1>2 DEF Resend, TypeOK, Triggers
  <2>2. e \in Events /\ rows[latest].trigger \in Triggers
    BY <2>1, Fields
  <2>3. latest \in OfEvent(e, "manual") \/ latest \in OfEvent(e, "auto")
    BY <2>1, <2>2 DEF OfEvent, Triggers
  <2> HIDE DEF e
  <2>4. Cardinality(OfEvent(e, "manual")) >= 1 \/ Cardinality(OfEvent(e, "auto")) >= 1
    <3>1. ASSUME NEW S, IsFiniteSet(S), latest \in S PROVE Cardinality(S) >= 1
      <4>1. Cardinality(S) # 0 /\ Cardinality(S) \in Nat
        BY <3>1, FS_EmptySet, FS_CardinalityType
      <4> QED
        BY <4>1
    <3> QED
      BY <1>t, <2>3, <3>1, ResendCounts
  <2>5. Cardinality(OfEvent(e, "auto")) >= 1
    BY <1>t, <1>a, <2>2, <2>4, ResendArithmetic
  <2>6. ASSUME NEW f \in Events
        PROVE  Cardinality(OfEvent(f, "manual")') + Cardinality(TodoOf(f)')
               <= resends' * Cardinality(OfEvent(f, "auto")')
    <3>1. TodoOf(f)' = TodoOf(f)
      BY <2>1, <2>2, CreateCounts DEF TodoOf
    <3>2. Cardinality(OfEvent(f, "auto")') = Cardinality(OfEvent(f, "auto"))
      BY <2>1, <2>2, CreateCounts
    <3>3. \/ Cardinality(OfEvent(f, "manual")') = Cardinality(OfEvent(f, "manual"))
          \/ f = e /\ Cardinality(OfEvent(f, "manual")') = Cardinality(OfEvent(f, "manual")) + 1
      BY <2>1, <2>2, CreateCounts
    <3>4. /\ Cardinality(OfEvent(f, "manual")) + Cardinality(TodoOf(f))
             <= (resends + 1) * Cardinality(OfEvent(f, "auto"))
          /\ f = e => (Cardinality(OfEvent(f, "manual")) + 1) + Cardinality(TodoOf(f))
                      <= (resends + 1) * Cardinality(OfEvent(f, "auto"))
      BY <1>t, <1>a, <2>5, ResendArithmetic
    <3> QED
      BY <2>1, <3>1, <3>2, <3>3, <3>4, Zenon
  <2> QED
    BY <1>c, <2>1, <2>2, <2>6 DEF ResendInv
<1>3. ASSUME NEW matching \in SUBSET {d \in Deliveries : rows[d] # None}, ResendRange(matching)
      PROVE  ResendInv'
  <2>1. todo = {} /\ todo' \subseteq Originals /\ rows' = rows /\ resends' = resends + 1
    BY <1>3, RangeIsOriginals
  <2>2. ASSUME NEW f \in Events
        PROVE  Cardinality(OfEvent(f, "manual")') + Cardinality(TodoOf(f)')
               <= resends' * Cardinality(OfEvent(f, "auto")')
    <3>1. TodoOf(f) = {} /\ TodoOf(f)' \subseteq OfEvent(f, "auto")
      BY <2>1 DEF TodoOf, OfEvent, Originals
    <3>2. OfEvent(f, "manual")' = OfEvent(f, "manual") /\ OfEvent(f, "auto")' = OfEvent(f, "auto")
      BY <2>1 DEF OfEvent
    <3>3. /\ Cardinality(TodoOf(f)) = 0
          /\ Cardinality(TodoOf(f)') \in Nat
          /\ Cardinality(TodoOf(f)') <= Cardinality(OfEvent(f, "auto"))
      BY <1>t, <3>1, ResendCounts, FS_Subset, FS_CardinalityType, FS_EmptySet
    <3>4. Cardinality(OfEvent(f, "manual")) + Cardinality(TodoOf(f)')
          <= (resends + 1) * Cardinality(OfEvent(f, "auto"))
      BY <1>t, <1>a, <3>3, ResendArithmetic
    <3> QED
      BY <2>1, <3>2, <3>4, Zenon
  <2>3. todo' \subseteq Originals'
    BY <2>1 DEF Originals
  <2> QED
    BY <2>2, <2>3 DEF ResendInv
<1>4. ASSUME NEW o \in Deliveries, NEW d \in Deliveries, DispatchResend(o, d) PROVE ResendInv'
  <2> DEFINE e == rows[o].event
  <2>1. /\ o \in todo /\ todo' = todo \ {o} /\ resends' = resends
        /\ Create(d, e, "manual") /\ "auto" \in Triggers /\ "manual" \in Triggers
    BY <1>4 DEF DispatchResend, Triggers
  <2>2. e \in Events
    BY <1>t, <2>1, Fields DEF Core, TodoAreRows, TypeOK
  <2>3. \A f : TodoOf(f)' = TodoOf(f) \ {o} /\ (o \in TodoOf(f) <=> f = e)
    BY <2>1, <2>2, CreateCounts DEF TodoOf
  <2> HIDE DEF e
  <2>4. ASSUME NEW f \in Events
        PROVE  Cardinality(OfEvent(f, "manual")') + Cardinality(TodoOf(f)')
               <= resends' * Cardinality(OfEvent(f, "auto")')
    <3>1. Cardinality(OfEvent(f, "auto")') = Cardinality(OfEvent(f, "auto"))
      BY <2>1, <2>2, CreateCounts
    <3>2. \/ Cardinality(OfEvent(f, "manual")') = Cardinality(OfEvent(f, "manual"))
          \/ f = e /\ Cardinality(OfEvent(f, "manual")') = Cardinality(OfEvent(f, "manual")) + 1
      BY <2>1, <2>2, CreateCounts
    <3>3. IF f = e THEN Cardinality(TodoOf(f)') = Cardinality(TodoOf(f)) - 1
                   ELSE Cardinality(TodoOf(f)') = Cardinality(TodoOf(f))
      <4>1. CASE f = e
        BY <1>t, <2>3, <4>1, ResendCounts, FS_RemoveElement
      <4>2. CASE f # e
        <5>1. TodoOf(f)' = TodoOf(f)
          BY <2>3, <4>2
        <5> QED
          BY <4>2, <5>1
      <4> QED
        BY <4>1, <4>2
    <3> DEFINE bound == resends * Cardinality(OfEvent(f, "auto"))
    <3>4. resends' * Cardinality(OfEvent(f, "auto")') = bound /\ bound \in Nat
      BY <1>t, <1>a, <2>1, <3>1
    <3>5. Cardinality(OfEvent(f, "manual")) + Cardinality(TodoOf(f)) <= bound
      BY <1>a
    <3> HIDE DEF bound
    <3> QED
      BY <1>a, <3>2, <3>3, <3>4, <3>5
  <2> QED
    BY <1>c, <2>1, <2>2, <2>4 DEF ResendInv
<1>5. ASSUME NEW d \in Deliveries, SettleDispatch(d) \/ RecordResult(d)
      PROVE  ResendInv'
  <2>1. todo' = todo /\ resends' = resends
    BY <1>5 DEF SettleDispatch, RecordResult, resender
  <2>2. CASE rows' = rows
    BY <2>1, <2>2, SameRowsKeepResends DEF SameRows
  <2>3. ASSUME NEW status \in Statuses, UpdateDeliveryResult(d, status) PROVE ResendInv'
    BY <1>t, <2>1, <2>3, UpdateEffect, SameRowsKeepResends DEF SameRows
  <2>4. CASE SettleDispatch(d)
    <3>1. calls[d] \in Call /\ calls[d].error # "none"
      BY <1>t, <2>4 DEF SettleDispatch, TypeOK
    <3>2. calls[d].error \in Statuses
      BY <3>1, Fields DEF Statuses
    <3> QED
      BY <2>2, <2>3, <2>4, <3>2 DEF SettleDispatch
  <2>5. CASE RecordResult(d)
    <3>1. AttemptStatus(tasks[d].ok, tasks[d].retried) \in Statuses
      BY DEF AttemptStatus, Statuses
    <3> QED
      BY <2>2, <2>3, <2>5, <3>1 DEF RecordResult
  <2> QED
    BY <1>5, <2>4, <2>5
<1>6. ASSUME NEW d \in Deliveries,
             Enqueue(d) \/ DispatcherDies(d) \/ StartAttempt(d) \/ Deliver(d) \/ Acknowledge(d)
             \/ WorkerDies(d) \/ SkipResend(d)
      PROVE  ResendInv'
  <2>1. rows' = rows /\ todo' \subseteq todo /\ resends' = resends
    BY <1>6
       DEF Enqueue, DispatcherDies, StartAttempt, Deliver, Acknowledge, WorkerDies, SkipResend, resender
  <2> QED
    BY <2>1, SameRowsKeepResends DEF SameRows
<1>7. CASE UNCHANGED vars \/ \E e \in Events : LockExpires(e)
  <2>1. rows' = rows /\ todo' \subseteq todo /\ resends' = resends
    BY <1>7 DEF LockExpires, vars, resender
  <2> QED
    BY <2>1, SameRowsKeepResends DEF SameRows
<1> QED
  BY <1>1, <1>2, <1>3, <1>4, <1>5, <1>6, <1>7 DEF Next, Dispatch, Work

-----------------------------------------------------------------------------
(* The invariant is inductive                                              *)

\* No delivery, lock or call exists at the start.
LEMMA IInvInit == Init => IInv
<1> SUFFICES ASSUME Init PROVE IInv
  OBVIOUS
<1>1. TypeOK
  BY DEF Init, TypeOK
<1>2. UnusedIsBlank /\ CallComesFirst /\ LockNamesTask /\ RefusedHasOriginal /\ OkMeansReached
  BY DEF Init, UnusedIsBlank, CallComesFirst, LockNamesTask, RefusedHasOriginal, OkMeansReached
<1>3. TodoAreRows /\ SuccessMeansReached /\ DuplicateHasOriginal /\ FailedIsFinal
  BY DEF Init, TodoAreRows, SuccessMeansReached, DuplicateHasOriginal, FailedIsFinal
<1>4. AllOrNothing
  BY FS_EmptySet DEF Init, AllOrNothing
<1> QED
  BY <1>1, <1>2, <1>3, <1>4 DEF IInv, Core

\* One case per action.
LEMMA CoreStep == Core /\ [Next]_vars => Core' /\ Sticks
<1> SUFFICES ASSUME Core, [Next]_vars PROVE Core' /\ Sticks
  OBVIOUS
<1>t. TypeOK
  BY DEF Core
<1>1. ASSUME NEW d \in Deliveries, NEW e \in Events, DispatchAuto(d, e) PROVE Core' /\ Sticks
  <2>1. Create(d, e, "auto") /\ ResenderTyped
    BY <1>t, <1>1 DEF DispatchAuto, ResenderTyped, TypeOK, resender
  <2> QED
    BY <2>1, CreateStep DEF Triggers
<1>2. ASSUME NEW d \in Deliveries, Dispatch(d) \/ DispatcherDies(d) PROVE Core' /\ Sticks
  BY <1>2, EnqueueStep, SettleStep, DispatcherDiesStep DEF Dispatch
<1>3. ASSUME NEW d \in Deliveries, Work(d) PROVE Core' /\ Sticks
  <2>1. CASE StartAttempt(d) \/ Deliver(d) \/ RecordResult(d) \/ (Acknowledge(d) /\ tasks[d].ok)
    BY <2>1, WorkStep
  <2>2. CASE Acknowledge(d) /\ ~tasks[d].ok
    BY <1>t, <2>2, RetryStep DEF Acknowledge, Well, TypeOK
  <2> QED
    BY <1>3, <2>1, <2>2 DEF Work
<1>4. ASSUME NEW d \in Deliveries, WorkerDies(d) PROVE Core' /\ Sticks
  BY <1>t, <1>4, RetryStep DEF WorkerDies, Fault, Hurts, TypeOK
<1>5. ASSUME NEW e \in Events, LockExpires(e) PROVE Core' /\ Sticks
  <2>1. /\ locks' \in [Events -> Deliveries \cup {None}]
        /\ \A f \in Events : locks'[f] = locks[f] \/ locks'[f] = None
    BY <1>t, <1>5 DEF LockExpires, TypeOK
  <2>2. /\ todo' \in SUBSET Deliveries /\ \A d \in todo' : rows[d] # None
        /\ current' \in Deliveries \cup {None} /\ matched' \in Nat /\ items' \in Nat /\ resends' \in Nat
        /\ UNCHANGED <<rows, tasks, calls, used, reached, hurt, lost, faults, limits>>
    BY <1>t, <1>5 DEF LockExpires, resender, TypeOK, Core, TodoAreRows, Well
  <2> QED
    BY <2>1, <2>2, QuietStep
<1>6. ASSUME NEW matching \in SUBSET {d \in Deliveries : rows[d] # None}, ResendRange(matching)
      PROVE  Core' /\ Sticks
  <2>1. matching \cap Originals \in SUBSET Deliveries
    BY DEF Originals
  <2>2. todo' \in SUBSET Deliveries /\ \A d \in todo' : rows[d] # None
    BY <1>6, <2>1 DEF ResendRange, ListForResend, Limited
  <2>3. matched' \in Nat
    BY <1>6, <2>1, DeliveriesFinite DEF ResendRange
  <2>4. /\ current' \in Deliveries \cup {None} /\ items' \in Nat /\ resends' \in Nat
        /\ UNCHANGED <<rows, tasks, calls, used, reached, hurt, lost, faults, limits>>
        /\ locks' \in [Events -> Deliveries \cup {None}]
        /\ \A e \in Events : locks'[e] = locks[e] \/ locks'[e] = None
    BY <1>t, <1>6 DEF ResendRange, Well, TypeOK
  <2> QED
    BY <2>2, <2>3, <2>4, QuietStep
<1>7. ASSUME NEW row \in Deliveries, NEW d \in Deliveries, Resend(row, d) PROVE Core' /\ Sticks
  <2>1. rows[row].event \in Events
    BY <1>t, <1>7, Fields DEF Resend, TypeOK
  <2>2. Create(d, rows[row].event, "manual") /\ ResenderTyped
    BY <1>t, <1>7 DEF Resend, ResenderTyped, TypeOK
  <2> QED
    BY <2>1, <2>2, CreateStep DEF Triggers
<1>8. ASSUME NEW row \in Deliveries, NEW d \in Deliveries, DispatchResend(row, d)
      PROVE  Core' /\ Sticks
  <2>1. rows[row].event \in Events
    BY <1>t, <1>8, Fields DEF Core, TodoAreRows, DispatchResend, TypeOK
  <2>2. Create(d, rows[row].event, "manual") /\ ResenderTyped
    BY <1>t, <1>8 DEF DispatchResend, ResenderTyped, TypeOK
  <2> QED
    BY <2>1, <2>2, CreateStep DEF Triggers
<1>9. ASSUME NEW row \in Deliveries, SkipResend(row) PROVE Core' /\ Sticks
  <2>1. /\ todo' \in SUBSET Deliveries /\ \A d \in todo' : rows[d] # None
        /\ current' \in Deliveries \cup {None} /\ matched' \in Nat /\ items' \in Nat /\ resends' \in Nat
        /\ UNCHANGED <<rows, tasks, calls, used, reached, hurt, lost, faults, limits>>
        /\ locks' \in [Events -> Deliveries \cup {None}]
        /\ \A e \in Events : locks'[e] = locks[e] \/ locks'[e] = None
    BY <1>t, <1>9 DEF SkipResend, Well, TypeOK, Core, TodoAreRows
  <2> QED
    BY <2>1, QuietStep
<1>10. CASE UNCHANGED vars
  <2>1. /\ todo' \in SUBSET Deliveries /\ \A d \in todo' : rows[d] # None
        /\ current' \in Deliveries \cup {None} /\ matched' \in Nat /\ items' \in Nat /\ resends' \in Nat
        /\ UNCHANGED <<rows, tasks, calls, used, reached, hurt, lost, faults, limits>>
        /\ locks' \in [Events -> Deliveries \cup {None}]
        /\ \A e \in Events : locks'[e] = locks[e] \/ locks'[e] = None
    BY <1>t, <1>10 DEF vars, resender, TypeOK, Core, TodoAreRows
  <2> QED
    BY <2>1, QuietStep
<1> QED
  BY <1>1, <1>2, <1>3, <1>4, <1>5, <1>6, <1>7, <1>8, <1>9, <1>10 DEF Next

\* The invariant holds throughout.
LEMMA Inductive == Spec => []IInv
<1>1. IInv /\ [Next]_vars => IInv'
  BY CoreStep, AllOrNothingStep DEF IInv
<1> QED
  BY <1>1, IInvInit, PTL DEF Spec

-----------------------------------------------------------------------------
(* What follows from it                                                    *)

\* Rows, tasks, locks and calls stay within their types, and no task is retried
\* more than asynq.MaxRetry times.
THEOREM TypeCorrect == Spec => []TypeOK
  BY Inductive, PTL DEF IInv, Core

\* A row that says success is of a delivery the merchant answered, whichever
\* attempt or worker wrote it.
THEOREM SuccessIsTrue == Spec => []SuccessMeansReached
  BY Inductive, PTL DEF IInv, Core

\* No later attempt, resend or enqueue error moves a row off success.
THEOREM SuccessIsKept == Spec => SuccessSticks
<1>1. Core /\ [Next]_vars => [Sticks]_vars
  BY CoreStep
<1>2. Spec => [][Sticks]_vars
  BY <1>1, Inductive, PTL DEF Spec, IInv
<1> QED
  BY <1>2 DEF SuccessSticks, Sticks

\* A row marked duplicate leaves its event to a task that is in the queue or was,
\* another's or its own: the refusal loses no callback.
THEOREM DuplicateIsCovered == Spec => []DuplicateHasOriginal
  BY Inductive, PTL DEF IInv, Core

\* A row that says failed has no attempt to come, unless its enqueue reached the
\* queue and its reply did not come back.
THEOREM FailureIsFinal == Spec => []FailedIsFinal
  BY Inductive, PTL DEF IInv, Core

\* Every range is resent to the last row it matched, or not at all.
THEOREM RangeIsWhole == Spec => []AllOrNothing
  BY Inductive, PTL DEF IInv

\* However often operators resend, one number or a range, an event is resent at
\* most once per call and original: earlier resends are not resent.
THEOREM ResendsAreAccounted == Spec => []ResendsFollowOriginals
<1>1. Init => ResendInv
  <2> SUFFICES ASSUME Init PROVE ResendInv
    OBVIOUS
  <2>1. todo = {} /\ resends = 0 /\ \A e, trigger : OfEvent(e, trigger) = {} /\ TodoOf(e) = {}
    BY DEF Init, OfEvent, TodoOf
  <2>2. Cardinality({}) = 0
    BY FS_EmptySet
  <2> QED
    BY <2>1, <2>2 DEF ResendInv
<1>2. ResendInv => ResendsFollowOriginals
  BY DEF ResendInv, ResendsFollowOriginals, OfEvent, TodoOf
<1> QED
  BY <1>1, <1>2, Inductive, ResendStep, PTL DEF Spec, IInv
=============================================================================
