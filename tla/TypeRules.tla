------------------------------ MODULE TypeRules ------------------------------
(***************************************************************************)
(* The VA type rules and the reserved partner ids that /create-va looks    *)
(* up: two tables, cached as lists in Redis for masterDataCacheTTL and in  *)
(* a snapshot per replica.  A lookup takes Redis's list and makes it the   *)
(* snapshot; a ticker and every write reload both lists from the database  *)
(* into the snapshot and Redis.  A list is the version of its table; None  *)
(* is a key that is not in Redis, or a nil snapshot.  Every action is one  *)
(* query, one Redis command or one assignment under the mutex.             *)
(***************************************************************************)
EXTENDS Naturals

CONSTANTS
    Replicas,
    Tickers,    \* the refresh goroutines
    Requests,   \* slots for lookups and writes in progress
    At,         \* the replica of a ticker or slot
    Tables,     \* the lists that are looked up and whose tables change
    MaxVersion, \* bound: versions of a table
    Empty,      \* the versions in which a table has no rows
    MaxFailures,\* bound: failures of Redis or the database
    None

Procs == Tickers \cup Requests
Lists == {"vaTypes", "partnerIDs"}

ASSUME AtAssumption == At \in [Procs -> Replicas] /\ Tables \subseteq Lists
ASSUME BoundsAssumption == MaxVersion \in Nat \ {0} /\ MaxFailures \in Nat
ASSUME NoneAssumption == None \notin Nat /\ Empty \subseteq 1 .. MaxVersion

Versions == 1 .. MaxVersion
Cached   == Versions \cup {None}

VARIABLES
    db,        \* master_va_type, master_partner_service_ids
    redis,     \* master:va_types, master:partner_service_ids
    snap,      \* a replica's snapshot
    pc, list,  \* a goroutine's position and the list its lookup is about
    read,      \* the lists it has read
    writes,    \* the table it has written, None if it only refreshes
    since,     \* history: published when a lookup began
    warm,      \* history: its replica had a list to go by then
    published, \* history: the version of the last write that returned
    raced,     \* history: a write and something else were in progress together
    failures   \* failures so far (bounded by MaxFailures)

history == <<since, warm, published, raced>>
vars == <<db, redis, snap, pc, list, read, writes, history, failures>>

PCs == {"idle", "listTypes", "listPartners", "install", "setTypes", "setPartners",
        "get", "adopt", "refill", "adoptFresh", "set", "fallback", "direct", "answer"}

TypeOK ==
    /\ db \in [Lists -> Versions]
    /\ redis \in [Lists -> Cached]
    /\ snap \in [Replicas -> [Lists -> Cached]]
    /\ pc \in [Procs -> PCs]
    /\ list \in [Procs -> Lists]
    /\ read \in [Procs -> [Lists -> Cached]]
    /\ \A p \in Procs : pc[p] \in {"install", "setTypes", "setPartners"} => None \notin {read[p][l] : l \in Lists}
    /\ writes \in [Procs -> Lists \cup {None}]
    /\ since \in [Procs -> Versions] /\ warm \in [Procs -> BOOLEAN] /\ published \in [Lists -> Versions]
    /\ raced \in BOOLEAN
    /\ failures \in 0 .. MaxFailures

\* A replica that could not read the tables when it started has no snapshot.
Init ==
    /\ db = [l \in Lists |-> 1]
    /\ redis \in [Lists -> {1, None}]
    /\ snap \in [Replicas -> {[l \in Lists |-> None], [l \in Lists |-> 1]}]
    /\ pc = [p \in Procs |-> "idle"]
    /\ list = [p \in Procs |-> "vaTypes"]
    /\ read = [p \in Procs |-> [l \in Lists |-> None]]
    /\ writes = [p \in Procs |-> None]
    /\ since = [p \in Procs |-> 1]
    /\ warm = [p \in Procs |-> FALSE]
    /\ published = [l \in Lists |-> 1]
    /\ raced = FALSE
    /\ failures = 0

Goto(p, l) == pc' = [pc EXCEPT ![p] = l]
Fails == failures < MaxFailures /\ failures' = failures + 1

\* A list without rows is nil.
Nil(v) == IF v \in Empty THEN None ELSE v

\* The goroutine is done; what it had read is forgotten.
Done(p) ==
    /\ Goto(p, "idle")
    /\ list' = [list EXCEPT ![p] = "vaTypes"]
    /\ read' = [read EXCEPT ![p] = [l \in Lists |-> None]]
    /\ writes' = [writes EXCEPT ![p] = None]
    /\ since' = [since EXCEPT ![p] = 1]
    /\ warm' = [warm EXCEPT ![p] = FALSE]

Reads(p, l, v) == read' = [read EXCEPT ![p][l] = v]

\* Something begins: it races a write in progress.
Begins == raced' = (raced \/ \E q \in Procs : writes[q] # None)

-----------------------------------------------------------------------------
(* RefreshNow                                                              *)

\* Mutant: the ticker leaves a warm snapshot alone.
TickWhenCold(p) ==
    /\ pc[p] = "idle"
    /\ \E l \in Lists : snap[At[p]][l] = None
    /\ Goto(p, "listTypes")
    /\ Begins
    /\ UNCHANGED <<db, redis, snap, list, read, writes, since, warm, published, failures>>

\* Start: the ticker fires.
Tick(p) ==
    /\ pc[p] = "idle"
    /\ Goto(p, "listTypes")
    /\ Begins
    /\ UNCHANGED <<db, redis, snap, list, read, writes, since, warm, published, failures>>

\* Mutant: a write does not refresh.
WriteOnly(p) ==
    /\ pc[p] = "idle"
    /\ \E l \in Tables :
         /\ db[l] < MaxVersion
         /\ db' = [db EXCEPT ![l] = @ + 1]
         /\ published' = [published EXCEPT ![l] = db[l] + 1]
    /\ raced' = (raced \/ \E q \in Procs : pc[q] # "idle")
    /\ UNCHANGED <<redis, snap, pc, list, read, writes, since, warm, failures>>

\* Create, Update and Delete of a VA type or a partner id: the row is written,
\* and RefreshNow called.
Write(p) ==
    /\ pc[p] = "idle"
    /\ \E l \in Tables :
         /\ db[l] < MaxVersion
         /\ db' = [db EXCEPT ![l] = @ + 1]
         /\ writes' = [writes EXCEPT ![p] = l]
    /\ raced' = (raced \/ \E q \in Procs : pc[q] # "idle")
    /\ Goto(p, "listTypes")
    /\ UNCHANGED <<redis, snap, list, read, since, warm, published, failures>>

\* ListVATypes; an error is RefreshNow's.
ListVATypes(p) ==
    /\ pc[p] = "listTypes"
    /\ \/ /\ Reads(p, "vaTypes", db["vaTypes"])
          /\ Goto(p, "listPartners")
          /\ UNCHANGED <<list, writes, since, warm, failures>>
       \/ Fails /\ Done(p)
    /\ UNCHANGED <<db, redis, snap, published, raced>>

ListPartnerServiceIDs(p) ==
    /\ pc[p] = "listPartners"
    /\ \/ /\ Reads(p, "partnerIDs", db["partnerIDs"])
          /\ Goto(p, "install")
          /\ UNCHANGED <<list, writes, since, warm, failures>>
       \/ Fails /\ Done(p)
    /\ UNCHANGED <<db, redis, snap, published, raced>>

\* Both lists become the snapshot, under the mutex.
Install(p) ==
    /\ pc[p] = "install"
    /\ snap' = [snap EXCEPT ![At[p]] = [l \in Lists |-> Nil(read[p][l])]]
    /\ Goto(p, "setTypes")
    /\ UNCHANGED <<db, redis, list, read, writes, history, failures>>

\* Redis is set; its error is dropped.
SetVATypes(p) ==
    /\ pc[p] = "setTypes"
    /\ \/ redis' = [redis EXCEPT !["vaTypes"] = Nil(read[p]["vaTypes"])] /\ UNCHANGED failures
       \/ Fails /\ UNCHANGED redis
    /\ Goto(p, "setPartners")
    /\ UNCHANGED <<db, snap, list, read, writes, history>>

\* The refresh is done.  If it was a write's, the write returns without error.
SetPartnerServiceIDs(p) ==
    /\ pc[p] = "setPartners"
    /\ \/ redis' = [redis EXCEPT !["partnerIDs"] = Nil(read[p]["partnerIDs"])] /\ UNCHANGED failures
       \/ Fails /\ UNCHANGED redis
    /\ Done(p)
    /\ IF writes[p] = None
       THEN UNCHANGED published
       ELSE published' = [published EXCEPT ![writes[p]] = IF read[p][writes[p]] > @ THEN read[p][writes[p]] ELSE @]
    /\ UNCHANGED <<db, snap, raced>>

-----------------------------------------------------------------------------
(* LookupVATypeRule and IsReservedPartnerServiceID: currentVATypes and     *)
(* currentPartnerIDs                                                       *)

Lookup(p) ==
    /\ pc[p] = "idle"
    /\ \E l \in Tables :
         /\ list' = [list EXCEPT ![p] = l]
         /\ since' = [since EXCEPT ![p] = published[l]]
         /\ warm' = [warm EXCEPT ![p] = snap[At[p]][l] # None]
    /\ Begins
    /\ Goto(p, "get")
    /\ UNCHANGED <<db, redis, snap, read, writes, published, failures>>

\* GET: a hit, a miss (a list without rows is one), or an error.
Get(p) ==
    /\ pc[p] = "get"
    /\ \/ /\ redis[list[p]] # None
          /\ Reads(p, list[p], redis[list[p]])
          /\ Goto(p, "adopt")
          /\ UNCHANGED failures
       \/ redis[list[p]] = None /\ Goto(p, "refill") /\ UNCHANGED <<read, failures>>
       \/ Fails /\ Goto(p, "fallback") /\ UNCHANGED read
    /\ UNCHANGED <<db, redis, snap, list, writes, history>>

\* The hit becomes the snapshot.
Adopt(p) ==
    /\ pc[p] = "adopt"
    /\ snap' = [snap EXCEPT ![At[p]][list[p]] = read[p][list[p]]]
    /\ Goto(p, "answer")
    /\ UNCHANGED <<db, redis, list, read, writes, history, failures>>

\* A miss is filled from the database.
Refill(p) ==
    /\ pc[p] = "refill"
    /\ \/ Reads(p, list[p], db[list[p]]) /\ Goto(p, "adoptFresh") /\ UNCHANGED failures
       \/ Fails /\ Goto(p, "fallback") /\ UNCHANGED read
    /\ UNCHANGED <<db, redis, snap, list, writes, history>>

AdoptFresh(p) ==
    /\ pc[p] = "adoptFresh"
    /\ snap' = [snap EXCEPT ![At[p]][list[p]] = Nil(read[p][list[p]])]
    /\ Goto(p, "set")
    /\ UNCHANGED <<db, redis, list, read, writes, history, failures>>

SetFresh(p) ==
    /\ pc[p] = "set"
    /\ \/ redis' = [redis EXCEPT ![list[p]] = Nil(read[p][list[p]])] /\ UNCHANGED failures
       \/ Fails /\ UNCHANGED redis
    /\ Goto(p, "answer")
    /\ UNCHANGED <<db, snap, list, read, writes, history>>

\* Redis or the refill failed: the snapshot, if there is one.
Fallback(p) ==
    /\ pc[p] = "fallback"
    /\ LET s == snap[At[p]][list[p]]
       IN  IF s # None THEN Reads(p, list[p], s) /\ Goto(p, "answer")
           ELSE Goto(p, "direct") /\ UNCHANGED read
    /\ UNCHANGED <<db, redis, snap, list, writes, history, failures>>

\* The last resort; an error, with nothing read, is a lookup's failure.
Direct(p) ==
    /\ pc[p] = "direct"
    /\ \/ Reads(p, list[p], db[list[p]]) /\ UNCHANGED failures
       \/ Fails /\ UNCHANGED read
    /\ Goto(p, "answer")
    /\ UNCHANGED <<db, redis, snap, list, writes, history>>

\* The lookup returns the list read, or an error if there is none.
Answer(p) ==
    /\ pc[p] = "answer"
    /\ Done(p)
    /\ UNCHANGED <<db, redis, snap, published, raced, failures>>

-----------------------------------------------------------------------------
(* The rest of the system                                                  *)

\* A table is changed with SQL.
DirectWrite(l) ==
    /\ db[l] < MaxVersion
    /\ db' = [db EXCEPT ![l] = @ + 1]
    /\ UNCHANGED <<redis, snap, pc, list, read, writes, history, failures>>

\* masterDataCacheTTL is over.
KeyExpires(l) ==
    /\ redis[l] # None
    /\ redis' = [redis EXCEPT ![l] = None]
    /\ UNCHANGED <<db, snap, pc, list, read, writes, history, failures>>

-----------------------------------------------------------------------------
(* Specification                                                           *)

Step(p) ==
    \/ ListVATypes(p) \/ ListPartnerServiceIDs(p) \/ Install(p) \/ SetVATypes(p) \/ SetPartnerServiceIDs(p)
    \/ Get(p) \/ Adopt(p) \/ Refill(p) \/ AdoptFresh(p) \/ SetFresh(p) \/ Fallback(p) \/ Direct(p) \/ Answer(p)

Next ==
    \/ \E p \in Tickers : Tick(p)
    \/ \E p \in Requests : Lookup(p) \/ Write(p)
    \/ \E p \in Procs : Step(p)
    \/ \E l \in Tables : DirectWrite(l) \/ KeyExpires(l)

Spec == Init /\ [][Next]_vars

\* Goroutines go on and tickers fire.
FairSpec ==
    /\ Spec
    /\ \A p \in Procs : WF_vars(Step(p))
    /\ \A p \in Tickers : WF_vars(Tick(p))

-----------------------------------------------------------------------------
(* Properties                                                              *)

\* FR-018 "continue serving /create-va requests using the last known-good cached
\* master data": a lookup fails only at a replica that had no list to go by when
\* it began, whatever fails and whoever refreshes meanwhile.
ServesLastKnownGood ==
    \A p \in Requests : pc[p] = "answer" /\ read[p][list[p]] = None => ~warm[p]

\* "Visible to the next /create-va request without waiting for the scheduled
\* interval" (FR-017), at every replica: a lookup that begins after a write has
\* returned has its rows or later ones, unless Redis or the database failed or
\* something else was in progress together with the write.
WriteIsVisible ==
    \A p \in Requests :
        pc[p] = "answer" /\ failures = 0 /\ ~raced => read[p][list[p]] >= since[p]

\* Once writes stop, every replica serves what is in the tables, and so does Redis,
\* whatever was raced or failed before.
EventuallyFresh ==
    <>[](\A l \in Lists : redis[l] \in {None, Nil(db[l])} /\ \A r \in Replicas : snap[r][l] = Nil(db[l]))

-----------------------------------------------------------------------------
(* What the comments say and the code does not do                          *)

\* va_type_rule_provider.go:113 "a Redis write failure here doesn't invalidate the
\* refresh itself - the in-process snapshot just updated above is still correct":
\* at the replica that wrote, the next lookup has the rows written.
WriteIsVisibleThere == \A p \in Requests : pc[p] = "answer" /\ ~raced => read[p][list[p]] >= since[p]

\* FR-017 with writes and refreshes that overlap.
WriteIsVisibleRacing == \A p \in Requests : pc[p] = "answer" /\ failures = 0 => read[p][list[p]] >= since[p]
=============================================================================
