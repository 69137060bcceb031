----------------------------- MODULE Idempotency -----------------------------
(***************************************************************************)
(* IdempotencyMiddleware: an X-EXTERNAL-ID is good for one request per     *)
(* calendar day, except that /payment repeats one under its own            *)
(* paymentRequestId (the double flag).  The key is looked up among the     *)
(* answered ones, then locked with SetNX, and recorded as answered and     *)
(* released after the handler.  The lock carries no owner and lasts at     *)
(* most lockTTL.                                                           *)
(***************************************************************************)
EXTENDS Naturals, FiniteSets

CONSTANTS
    Keys,      \* X-EXTERNAL-IDs
    PayReqs,   \* paymentRequestIds
    Blank,     \* "": an endpoint without the exemption, or no id in the body
    Handlers,  \* slots for requests in progress
    MaxDay,    \* bound: days
    Faults,    \* which failures happen: a subset of {"crash", "redis", "ttl"}
    MaxFaults, \* bound: failures
    None       \* "nothing"

ASSUME DayAssumption == MaxDay \in Nat /\ MaxFaults \in Nat
ASSUME BlankAssumption == Blank \notin PayReqs /\ None \notin PayReqs \cup {Blank}

Days   == 0 .. MaxDay
PayIds == PayReqs \cup {Blank}
Slots  == Keys \X Days   \* idempotency keys: dayStamp ":" X-EXTERNAL-ID

Request == [key: Keys, day: Days, preq: PayIds]

ASSUME NoRequestAssumption == None \notin Request

VARIABLES
    day,     \* today
    cache,   \* idempotency:val: paymentRequestId of the request answered
    locks,   \* idempotency:lock
    pc, req, \* a handler's position and request; day is when it arrived
    answers, \* history: answers below 500 per key and id, counted up to 2
    faults,  \* failures so far (bounded by MaxFaults)
    lapses,  \* history: how often lockTTL ended a lock of a key
    orphans  \* history: locks that no request in progress is going to release

vars == <<day, cache, locks, pc, req, answers, faults, lapses, orphans>>

TypeOK ==
    /\ day \in Days
    /\ cache \in [Slots -> PayIds \cup {None}]
    /\ locks \in SUBSET Slots
    /\ pc \in [Handlers -> {"idle", "check", "lock", "next", "store", "release"}]
    /\ req \in [Handlers -> Request \cup {None}]
    /\ \A h \in Handlers : pc[h] = "idle" <=> req[h] = None
    /\ answers \in [Slots -> [PayIds -> 0 .. 2]]
    /\ faults \in 0 .. MaxFaults
    /\ lapses \in [Slots -> 0 .. MaxFaults]
    /\ orphans \in SUBSET locks

Init ==
    /\ day = 0
    /\ cache = [s \in Slots |-> None]
    /\ locks = {}
    /\ pc = [h \in Handlers |-> "idle"]
    /\ req = [h \in Handlers |-> None]
    /\ answers = [s \in Slots |-> [p \in PayIds |-> 0]]
    /\ faults = 0
    /\ lapses = [s \in Slots |-> 0]
    /\ orphans = {}

\* Mutant: the key has no date.
IdempotencyKeyUndated(r) == <<r.key, 0>>

\* The key under which r is looked up, locked and recorded.
IdempotencyKey(r) == <<r.key, r.day>>

Slot(h) == IdempotencyKey(req[h])

Goto(h, l) == pc' = [pc EXCEPT ![h] = l]

Respond(h) ==
    /\ Goto(h, "idle")
    /\ req' = [req EXCEPT ![h] = None]

\* One of the failures happens, or none does.
Fault(kind) == kind \in Faults /\ faults < MaxFaults /\ faults' = faults + 1
Well == UNCHANGED faults

\* The requests past the lock of s.
InFlight(s) ==
    {h \in Handlers : pc[h] \in {"next", "store", "release"} /\ <<req[h].key, req[h].day>> = s}

-----------------------------------------------------------------------------
(* The middleware                                                          *)

Midnight ==
    /\ day < MaxDay
    /\ day' = day + 1
    /\ UNCHANGED <<cache, locks, pc, req, answers, faults, lapses, orphans>>

Arrive(h) ==
    /\ pc[h] = "idle"
    /\ \E k \in Keys, p \in PayIds : req' = [req EXCEPT ![h] = [key |-> k, day |-> day, preq |-> p]]
    /\ Goto(h, "check")
    /\ UNCHANGED <<day, cache, locks, answers, faults, lapses, orphans>>

IsDoubleFlag(cached, preq) == preq # Blank /\ cached = preq

\* GetResponseCache: an answered key is a conflict unless it is a double flag.  A
\* failed lookup counts as "not answered".
CheckCache(h) ==
    /\ pc[h] = "check"
    /\ LET cached == cache[Slot(h)]
       IN  \/ /\ cached # None /\ ~IsDoubleFlag(cached, req[h].preq)
              /\ Respond(h)
              /\ Well
           \/ /\ \/ (cached = None \/ IsDoubleFlag(cached, req[h].preq)) /\ Well
                 \/ Fault("redis")
              /\ Goto(h, "lock")
              /\ UNCHANGED req
    /\ UNCHANGED <<day, cache, locks, answers, lapses, orphans>>

\* Mutant: the result of the lock is not looked at.
AcquireLockIgnored(h) ==
    /\ pc[h] = "lock"
    /\ locks' = locks \cup {Slot(h)}
    /\ Goto(h, "next")
    /\ UNCHANGED <<day, cache, req, answers, faults, lapses, orphans>>

\* AcquireLock: SetNX; a key that is locked is a conflict, and so is a failure,
\* which may have set the key.
AcquireLock(h) ==
    /\ pc[h] = "lock"
    /\ \/ /\ Slot(h) \in locks
          /\ Respond(h)
          /\ Well /\ UNCHANGED <<locks, orphans>>
       \/ /\ Slot(h) \notin locks
          /\ locks' = locks \cup {Slot(h)}
          /\ Goto(h, "next")
          /\ Well /\ UNCHANGED <<req, orphans>>
       \/ /\ Fault("redis")
          /\ \/ UNCHANGED <<locks, orphans>>
             \/ /\ Slot(h) \notin locks
                /\ locks' = locks \cup {Slot(h)}
                /\ orphans' = orphans \cup {Slot(h)}
          /\ Respond(h)
    /\ UNCHANGED <<day, cache, answers, lapses>>

\* Mutant: a failed request forgets its lock.
ForgetLockOnError(h) ==
    /\ pc[h] = "next"
    /\ \/ /\ answers' = [answers EXCEPT ![<<req[h].key, req[h].day>>][req[h].preq] =
                           IF @ < 2 THEN @ + 1 ELSE @]
          /\ Goto(h, "store")
          /\ UNCHANGED req
       \/ /\ Respond(h)
          /\ UNCHANGED answers
    /\ UNCHANGED <<day, cache, locks, faults, lapses, orphans>>

\* The handler answers; below 500 the key is to be recorded.
NextHandler(h) ==
    /\ pc[h] = "next"
    /\ \/ /\ answers' = [answers EXCEPT ![<<req[h].key, req[h].day>>][req[h].preq] =
                           IF @ < 2 THEN @ + 1 ELSE @]
          /\ Goto(h, "store")
       \/ /\ Goto(h, "release")
          /\ UNCHANGED answers
    /\ UNCHANGED <<day, cache, locks, req, faults, lapses, orphans>>

\* SetResponseCache, its error dropped.
StoreAnswer(h) ==
    /\ pc[h] = "store"
    /\ \/ cache' = [cache EXCEPT ![Slot(h)] = req[h].preq] /\ Well
       \/ UNCHANGED cache /\ Fault("redis")
    /\ Goto(h, "release")
    /\ UNCHANGED <<day, locks, req, answers, lapses, orphans>>

\* ReleaseLock, deferred: whoever holds the lock now.  Its error is dropped.
ReleaseLock(h) ==
    /\ pc[h] = "release"
    /\ \/ /\ locks' = locks \ {Slot(h)}
          /\ orphans' = orphans \ {Slot(h)}
          /\ Well
       \/ /\ Fault("redis")
          /\ orphans' = orphans \cup ({Slot(h)} \cap locks)
          /\ UNCHANGED locks
    /\ Respond(h)
    /\ UNCHANGED <<day, cache, answers, lapses>>

\* The process dies, or the caller disconnects and the request's context is
\* cancelled, so that neither the record nor the release gets through.
Abandon(h) ==
    /\ Fault("crash")
    /\ pc[h] # "idle"
    /\ orphans' = IF h \in InFlight(Slot(h)) THEN orphans \cup ({Slot(h)} \cap locks) ELSE orphans
    /\ Respond(h)
    /\ UNCHANGED <<day, cache, locks, answers, lapses>>

\* lockTTL is over.
LockExpires(s) ==
    /\ Fault("ttl")
    /\ s \in locks
    /\ locks' = locks \ {s}
    /\ lapses' = [lapses EXCEPT ![s] = @ + 1]
    /\ orphans' = orphans \ {s}
    /\ UNCHANGED <<day, cache, pc, req, answers>>

-----------------------------------------------------------------------------
(* Specification                                                           *)

Step(h) ==
    CheckCache(h) \/ AcquireLock(h) \/ NextHandler(h) \/ StoreAnswer(h) \/ ReleaseLock(h)

Next ==
    \/ Midnight
    \/ \E h \in Handlers : Arrive(h) \/ Step(h) \/ Abandon(h)
    \/ \E s \in Slots : LockExpires(s)

Spec == Init /\ [][Next]_vars

\* A request in progress goes on.
FairSpec == Spec /\ \A h \in Handlers : WF_vars(Step(h))

-----------------------------------------------------------------------------
(* Properties                                                              *)

Same(g, h) == req[g].key = req[h].key /\ req[g].day = req[h].day

\* The lock names no owner: a request that outlives its lock goes on beside its
\* successor and then deletes the successor's lock.  The damage does not spread
\* all the same: whatever dies or fails half way, there are never more requests
\* of a key and day past the lock than one, and one for each lock that lapsed.
OverlapIsBounded == \A s \in Slots : Cardinality(InFlight(s)) <= 1 + lapses[s]

\* "BCA retrying after [a 5xx] must not meet a 409 for a request that was never
\* actually answered", and "an id spent at 23:50 is free again at 00:00": a
\* request is refused only when one of the same key and day has been answered
\* below 500 or is in progress, or left its lock behind when it died or lost Redis.
ConflictIsDeserved ==
    [][\A h \in Handlers :
          pc[h] \in {"check", "lock"} /\ pc'[h] = "idle"
          => \/ \E p \in PayIds : answers[<<req[h].key, req[h].day>>][p] > 0
             \/ \E g \in Handlers \ {h} : pc[g] # "idle" /\ Same(g, h)
             \/ <<req[h].key, req[h].day>> \in orphans
             \/ faults' > faults]_vars

\* "A key that has already been answered ... re-using one is a conflict on its
\* own", but for the double flag: the answers of a key and day are for one
\* paymentRequestId, and one only if it is blank.
AnsweredOnce ==
    \A s \in Slots :
        /\ answers[s][Blank] <= 1
        /\ \A p, q \in PayIds : answers[s][p] > 0 /\ answers[s][q] > 0 => p = q

\* A key recorded as answered was answered below 500, under the id recorded.
RecordedWasAnswered ==
    \A s \in Slots : cache[s] # None => answers[s][cache[s]] > 0

\* A lock taken is given back, also when the handler fails, unless the request
\* died or lost Redis; then it is left to lockTTL.
LockIsReleased == \A s \in Slots : s \in locks ~> s \notin locks \/ s \in orphans
=============================================================================
