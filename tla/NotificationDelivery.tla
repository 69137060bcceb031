------------------------- MODULE NotificationDelivery -------------------------
(***************************************************************************)
(* Merchant callbacks.  dispatchNotification writes a row in               *)
(* va_notification_deliveries and then enqueues an asynq task; the worker  *)
(* delivers the task and writes each attempt's outcome onto the row; an    *)
(* operator resends the originals of a time range.                         *)
(*                                                                         *)
(* asynq is external: a unique task holds a lock on its payload until it   *)
(* completes or the window ends (the lock names the task), a failed task   *)
(* is retried until it has been retried MaxRetry times and then archived,  *)
(* and the task of a worker that died is recovered as if its attempt had   *)
(* failed.  Its Redis client tries a command again whose reply was lost.   *)
(***************************************************************************)
EXTENDS Naturals, FiniteSets

CONSTANTS
    MaxDeliveries, \* bound: deliveries
    Events,     \* payloads: two callbacks of an event have the same bytes
    MaxBulk,    \* MaxBulkResend
    Limits,     \* each initial state's asynq.MaxRetry, and its bounds on the number of
                \* deliveries, of resend calls and of failures
    Faults,     \* which failures happen: a subset of {"db", "queue", "crash"}
    None        \* "nothing"

ASSUME BoundAssumption ==
    /\ MaxBulk \in Nat /\ MaxDeliveries \in Nat
    /\ Limits \subseteq [deliveries: 0 .. MaxDeliveries, retries: Nat, resends: Nat, faults: Nat]

\* Delivery ids, that is rows and tasks.  They are UUIDs, numbered here in the order
\* in which they are generated.
Deliveries == 1 .. MaxDeliveries

Triggers == {"auto", "manual"}

\* va_notification_deliveries.status
Statuses == {"queued", "retrying", "success", "failed", "duplicate"}

Row  == [event: Events, trigger: Triggers, status: Statuses]
Task == [event: Events, state: {"waiting", "active", "ended", "recorded", "completed", "archived"},
         retried: Nat, ok: BOOLEAN]

\* A dispatchNotification call: before the enqueue, or with the error it got.
Call == [event: Events, trigger: Triggers, error: {"none", "failed", "duplicate"}]

ASSUME NoneAssumption == None \notin Row \cup Task \cup Call \cup Deliveries

VARIABLES
    rows,     \* va_notification_deliveries
    tasks,    \* external: the asynq queue, by delivery-id header
    locks,    \* external: the task that holds the uniqueness lock of a payload
    calls,    \* dispatchNotification calls in progress
    todo,     \* originals the resender has still to dispatch
    current,  \* the delivery the resender is dispatching
    matched, items,  \* rows the range matched, and items of the result so far
    resends,  \* history: Resend and ResendRange calls that went ahead
    used,     \* history: delivery ids generated
    reached,  \* history: deliveries the merchant has answered below 400
    hurt,     \* history: deliveries whose dispatcher or worker died, or an UPDATE failed
    lost,     \* history: deliveries enqueued although the enqueue returned an error
    faults,   \* failures so far
    limits    \* one of Limits

resender == <<todo, current, matched, items, resends>>
vars == <<rows, tasks, locks, calls, resender, used, reached, hurt, lost, faults, limits>>

TypeOK ==
    /\ rows \in [Deliveries -> Row \cup {None}]
    /\ tasks \in [Deliveries -> Task \cup {None}]
    /\ locks \in [Events -> Deliveries \cup {None}]
    /\ calls \in [Deliveries -> Call \cup {None}]
    /\ todo \in SUBSET Deliveries /\ current \in Deliveries \cup {None}
    /\ matched \in Nat /\ items \in Nat /\ resends \in Nat
    /\ used \in SUBSET Deliveries /\ reached \in SUBSET Deliveries
    /\ hurt \in SUBSET Deliveries /\ lost \in SUBSET Deliveries
    /\ faults \in Nat /\ limits \in Limits
    /\ \A d \in Deliveries : tasks[d] # None => tasks[d].retried <= limits.retries

Init ==
    /\ rows = [d \in Deliveries |-> None]
    /\ tasks = [d \in Deliveries |-> None]
    /\ locks = [e \in Events |-> None]
    /\ calls = [d \in Deliveries |-> None]
    /\ todo = {} /\ current = None /\ matched = 0 /\ items = 0 /\ resends = 0
    /\ used = {} /\ reached = {} /\ hurt = {} /\ lost = {}
    /\ faults = 0 /\ limits \in Limits

\* A failure of this kind happens, and hurts delivery d; or all is well.
Fault(kind) ==
    /\ kind \in Faults
    /\ faults < limits.faults
    /\ faults' = faults + 1
    /\ UNCHANGED limits
Hurts(d) == hurt' = hurt \cup {d}
Well == UNCHANGED <<hurt, faults, limits>>

-----------------------------------------------------------------------------
(* dispatchNotification                                                    *)

\* The row is written before the enqueue; a failed insert does not stop it.
Create(d, e, trigger) ==
    /\ used = 1 .. d - 1 /\ d <= limits.deliveries
    /\ used' = used \cup {d}
    /\ \/ /\ rows' = [rows EXCEPT ![d] = [event |-> e, trigger |-> trigger, status |-> "queued"]]
          /\ Well
       \/ Fault("db") /\ UNCHANGED <<rows, hurt>>
    /\ calls' = [calls EXCEPT ![d] = [event |-> e, trigger |-> trigger, error |-> "none"]]
    /\ UNCHANGED <<tasks, locks, reached, lost>>

\* Inquiry, payment and the reconciler dispatch an original.
DispatchAuto(d, e) == Create(d, e, "auto") /\ UNCHANGED resender

\* Mutant: every error is taken for a duplicate.
EnqueueErrorIsDuplicate(d) ==
    /\ calls[d] # None
    /\ calls[d].error = "none"
    /\ \/ /\ tasks' = [tasks EXCEPT ![d] = [event |-> calls[d].event, state |-> "waiting",
                                           retried |-> 0, ok |-> FALSE]]
          /\ calls' = [calls EXCEPT ![d] = None]
       \/ /\ locks[calls[d].event] # None \/ "queue" \in Faults
          /\ calls' = [calls EXCEPT ![d].error = "duplicate"]
          /\ UNCHANGED tasks
    /\ Well
    /\ UNCHANGED <<rows, locks, resender, used, reached, lost>>

\* EnqueuePaymentNotification: an original takes the lock on its payload, or is
\* refused as a duplicate; a resend passes the lock by.  When the reply is lost the
\* task is in the queue and the caller has an error: the client gave up, or tried
\* again and met the lock of its own first try.
Enqueue(d) ==
    /\ calls[d] # None
    /\ calls[d].error = "none"
    /\ LET unique == calls[d].trigger # "manual"
           e == calls[d].event
           Queued == /\ unique => locks[e] = None
                     /\ locks' = IF unique THEN [locks EXCEPT ![e] = d] ELSE locks
                     /\ tasks' = [tasks EXCEPT ![d] = [event |-> e, state |-> "waiting",
                                                      retried |-> 0, ok |-> FALSE]]
       IN  \/ /\ Queued
              /\ calls' = [calls EXCEPT ![d] = None]
              /\ Well /\ UNCHANGED lost
           \/ /\ unique /\ locks[e] # None
              /\ calls' = [calls EXCEPT ![d].error = "duplicate"]
              /\ Well /\ UNCHANGED <<locks, tasks, lost>>
           \/ /\ Fault("queue")
              /\ calls' = [calls EXCEPT ![d].error = "failed"]
              /\ UNCHANGED <<locks, tasks, hurt, lost>>
           \/ /\ Fault("queue")
              /\ Queued
              /\ \E err \in {"failed"} \cup {x \in {"duplicate"} : unique} :
                    calls' = [calls EXCEPT ![d].error = err]
              /\ lost' = lost \cup {d}
              /\ UNCHANGED hurt
    /\ UNCHANGED <<rows, resender, used, reached>>

\* Mutant: the UPDATE takes any row.
OverwriteResult(d, status) ==
    rows' = IF rows[d] = None THEN rows ELSE [rows EXCEPT ![d].status = status]

\* UPDATE ... WHERE id = $1 AND status <> 'success'
UpdateDeliveryResult(d, status) ==
    rows' = IF rows[d] = None \/ rows[d].status = "success" THEN rows
            ELSE [rows EXCEPT ![d].status = status]

\* The error of the enqueue is written onto the row.
SettleDispatch(d) ==
    /\ calls[d] # None
    /\ calls[d].error # "none"
    /\ \/ UpdateDeliveryResult(d, calls[d].error) /\ Well
       \/ Fault("db") /\ Hurts(d) /\ UNCHANGED rows
    /\ calls' = [calls EXCEPT ![d] = None]
    /\ UNCHANGED <<tasks, locks, resender, used, reached, lost>>

\* The process dies: the call, and the range it is part of, goes no further.
DispatcherDies(d) ==
    /\ Fault("crash")
    /\ calls[d] # None
    /\ Hurts(d)
    /\ calls' = [calls EXCEPT ![d] = None]
    /\ IF d = current THEN todo' = {} /\ current' = None /\ matched' = 0 /\ items' = 0
                      ELSE UNCHANGED <<todo, current, matched, items>>
    /\ UNCHANGED <<rows, tasks, locks, resends, used, reached, lost>>

-----------------------------------------------------------------------------
(* The worker                                                              *)

\* External: asynq hands the task to a worker.
StartAttempt(d) ==
    /\ tasks[d] # None
    /\ tasks[d].state = "waiting"
    /\ tasks' = [tasks EXCEPT ![d].state = "active"]
    /\ Well
    /\ UNCHANGED <<rows, locks, calls, resender, used, reached, lost>>

\* deliver: the merchant answers below 400; or it does not, or it does and the
\* answer is lost.
Deliver(d) ==
    /\ tasks[d] # None
    /\ tasks[d].state = "active"
    /\ \E answered, ok \in BOOLEAN :
         /\ ok => answered
         /\ tasks' = [tasks EXCEPT ![d].state = "ended", ![d].ok = ok]
         /\ reached' = IF answered THEN reached \cup {d} ELSE reached
    /\ Well
    /\ UNCHANGED <<rows, locks, calls, resender, used, lost>>

\* Mutant: off by one, the last attempt expects another.
RetryingForEver(ok, retried) ==
    IF ok THEN "success" ELSE IF retried <= limits.retries THEN "retrying" ELSE "failed"

\* Mutant: the task counts as delivered when the attempt returns.
AttemptIsSuccess(ok, retried) == "success"

\* recordResult: only the last attempt decides.
AttemptStatus(ok, retried) ==
    IF ok THEN "success" ELSE IF retried < limits.retries THEN "retrying" ELSE "failed"

\* recordResult's UPDATE; its failure is logged.
RecordResult(d) ==
    /\ tasks[d] # None
    /\ tasks[d].state = "ended"
    /\ \/ UpdateDeliveryResult(d, AttemptStatus(tasks[d].ok, tasks[d].retried)) /\ Well
       \/ Fault("db") /\ Hurts(d) /\ UNCHANGED rows
    /\ tasks' = [tasks EXCEPT ![d].state = "recorded"]
    /\ UNCHANGED <<locks, calls, resender, used, reached, lost>>

\* External: asynq retries task d, or archives it after the last retry.
Retried(d) ==
    IF tasks[d].retried < limits.retries
    THEN [tasks EXCEPT ![d].state = "waiting", ![d].retried = @ + 1, ![d].ok = FALSE]
    ELSE [tasks EXCEPT ![d].state = "archived", ![d].ok = FALSE]

\* External: what asynq does with the handler's result.  A completed task gives
\* back the lock if it is still its own.
Acknowledge(d) ==
    /\ tasks[d] # None
    /\ tasks[d].state = "recorded"
    /\ \/ /\ tasks[d].ok
          /\ tasks' = [tasks EXCEPT ![d].state = "completed"]
          /\ locks' = [locks EXCEPT ![tasks[d].event] = IF @ = d THEN None ELSE @]
       \/ /\ ~tasks[d].ok
          /\ tasks' = Retried(d)
          /\ UNCHANGED locks
    /\ Well
    /\ UNCHANGED <<rows, calls, resender, used, reached, lost>>

\* The worker dies, or its acknowledgement is lost; asynq recovers the task.
WorkerDies(d) ==
    /\ Fault("crash")
    /\ tasks[d] # None
    /\ tasks[d].state \in {"active", "ended", "recorded"}
    /\ tasks' = Retried(d)
    /\ Hurts(d)
    /\ UNCHANGED <<rows, locks, calls, resender, used, reached, lost>>

\* External: the five minutes of a lock are over.
LockExpires(e) ==
    /\ locks[e] # None
    /\ locks' = [locks EXCEPT ![e] = None]
    /\ Well
    /\ UNCHANGED <<rows, tasks, calls, resender, used, reached, lost>>

-----------------------------------------------------------------------------
(* Resend and ResendRange                                                  *)

\* Resend: the event of the number's latest row (rows of all numbers are mixed
\* here: any row) is dispatched again, rebuilt from the current transaction.
Resend(latest, d) ==
    /\ rows[latest] # None
    /\ resends < limits.resends
    /\ Create(d, rows[latest].event, "manual")
    /\ resends' = resends + 1
    /\ UNCHANGED <<todo, current, matched, items>>

\* The originals among the rows.
Originals == {d \in Deliveries : rows[d] # None /\ rows[d].trigger = "auto"}

\* The results of a query over the rows s with a LIMIT.
Limited(s, limit) ==
    {r \in SUBSET s : Cardinality(r) = (IF Cardinality(s) <= limit THEN Cardinality(s) ELSE limit)}

\* Mutant: the limit is the cap itself.
ListUpToCap(matching, limit) == Limited(matching \cap Originals, limit - 1)

\* ListForResend: the matching originals, at most limit of them.
ListForResend(matching, limit) == Limited(matching \cap Originals, limit)

\* The range, the number and the statuses the operator gives pick the rows
\* matching; a range that matches more than the cap is refused outright.
ResendRange(matching) ==
    /\ todo = {}
    /\ current # None => calls[current] = None
    /\ resends < limits.resends
    /\ \E originals \in ListForResend(matching, MaxBulk + 1) :
         /\ originals # {}
         /\ Cardinality(originals) <= MaxBulk
         /\ todo' = originals
    /\ resends' = resends + 1
    /\ matched' = Cardinality(matching \cap Originals)
    /\ items' = 0
    /\ current' = None
    /\ Well
    /\ UNCHANGED <<rows, tasks, locks, calls, used, reached, lost>>

\* The next original is dispatched, with its own payload, once the previous
\* dispatch has returned.
DispatchResend(original, d) ==
    /\ original \in todo
    /\ current # None => calls[current] = None
    /\ Create(d, rows[original].event, "manual")
    /\ todo' = todo \ {original}
    /\ current' = d
    /\ items' = items + 1
    /\ UNCHANGED <<matched, resends>>

\* An original without a stored payload that cannot be rebuilt, or without a
\* notificationUrl, is listed as skipped or failed and the loop goes on.
SkipResend(original) ==
    /\ original \in todo
    /\ current # None => calls[current] = None
    /\ todo' = todo \ {original}
    /\ items' = items + 1
    /\ Well
    /\ UNCHANGED <<rows, tasks, locks, calls, current, matched, resends, used, reached, lost>>

-----------------------------------------------------------------------------
(* Specification                                                           *)

Dispatch(d) == Enqueue(d) \/ SettleDispatch(d)

Work(d) == StartAttempt(d) \/ Deliver(d) \/ RecordResult(d) \/ Acknowledge(d)

Next ==
    \/ \E d \in Deliveries, e \in Events : DispatchAuto(d, e)
    \/ \E d \in Deliveries : Dispatch(d) \/ DispatcherDies(d) \/ Work(d) \/ WorkerDies(d)
    \/ \E e \in Events : LockExpires(e)
    \/ \E matching \in SUBSET {d \in Deliveries : rows[d] # None} : ResendRange(matching)
    \/ \E row, d \in Deliveries : Resend(row, d) \/ DispatchResend(row, d)
    \/ \E row \in Deliveries : SkipResend(row)

Spec == Init /\ [][Next]_vars

\* A dispatch in progress goes on; the worker's server runs.
FairSpec == Spec /\ \A d \in Deliveries : WF_vars(Dispatch(d)) /\ WF_vars(Work(d))

-----------------------------------------------------------------------------
(* Properties                                                              *)

\* "success" is the worker's word: the merchant was reached by that delivery.
SuccessMeansReached ==
    \A d \in Deliveries : rows[d] # None /\ rows[d].status = "success" => d \in reached

\* "A row already success is never moved off it", by a rerun of a task whose
\* acknowledgement was lost or by anything else.
SuccessSticks ==
    [][\A d \in Deliveries : rows[d] # None /\ rows[d].status = "success"
          => rows'[d] = rows[d]]_vars

\* "A failure with retries left is retrying, not failed": a row that says failed
\* has no attempt to come, whichever of dispatcher and worker wrote it, unless the
\* reply of its enqueue was lost.
FailedIsFinal ==
    \A d \in Deliveries \ lost :
        rows[d] # None /\ rows[d].status = "failed" /\ tasks[d] # None
        => tasks[d].retried = limits.retries /\ tasks[d].state # "waiting"

\* The same of every row.  The code does not keep it: a lost reply marks the row
\* failed while its task waits.
FailedIsFinalAlways ==
    \A d \in Deliveries :
        rows[d] # None /\ rows[d].status = "failed" /\ tasks[d] # None
        => tasks[d].retried = limits.retries /\ tasks[d].state # "waiting"

\* A row is marked duplicate only when the event has been put into the queue: by
\* another original, or by its own enqueue whose reply was lost.
DuplicateHasOriginal ==
    \A d \in Deliveries :
        rows[d] # None /\ rows[d].status = "duplicate"
        => \E o \in Deliveries : /\ tasks[o] # None /\ tasks[o].event = rows[d].event
                                 /\ o = d => d \in lost

\* "refused outright rather than half-sent": every row the range matched becomes
\* an item of the result, dispatched, skipped or failed.
AllOrNothing == items + Cardinality(todo) = matched

\* "selecting [manual rows] would resend the same event once per earlier
\* resend": an event is resent, or about to be, at most once per call and
\* original.
ResendsFollowOriginals ==
    \A e \in Events :
        LET OfEvent(trigger) == {d \in Deliveries : rows[d] # None /\ rows[d].trigger = trigger
                                                     /\ rows[d].event = e}
        IN  Cardinality(OfEvent("manual")) + Cardinality({d \in todo : rows[d].event = e})
            <= resends * Cardinality(OfEvent("auto"))

\* A callback dispatched does not stay queued or retrying: the row tells how it
\* ended, but for a dispatcher or worker that died and an UPDATE that failed (the
\* task of a worker that dies in the last attempt is archived with the row
\* "retrying").
RowSettles ==
    \A d \in Deliveries :
        rows[d] # None ~> \/ rows[d] # None /\ rows[d].status \in {"success", "failed", "duplicate"}
                         \/ d \in hurt
=============================================================================
