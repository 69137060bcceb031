----------------------- MODULE Reconciliation_proofs -----------------------
(***************************************************************************)
(* Proofs about Reconciliation and the gateway beneath it, for every set   *)
(* of callers and transactions, every batch size, every decision of the    *)
(* vendor and every number of failures.                                    *)
(***************************************************************************)
EXTENDS Reconciliation, FiniteSetTheorems, TLAPS

-----------------------------------------------------------------------------
(* The inductive invariant                                                 *)

\* Whoever calls the vendor or notifies has a transaction in hand.
WorkInHand ==
    \A c \in Callers : run[c].pc \in {"calling", "notifying"} => run[c].todo # << >>

\* What a run read and has no outcome for is what it has still to do.
RowsOf(todo) == {todo[i].row : i \in DOMAIN todo}
ReadIsDoneOrDue == \A c \in Callers : run[c].read = run[c].done \cup RowsOf(run[c].todo)

\* The vendor knows of a transaction from its inquiry on.
KnownByInquiry == \A r \in Rows : ~row[r].inquired => vendor[r] = "notFound"

\* A payment the vendor held when the transaction was read it still holds.
ReadPaidIsHeld ==
    \A c \in Callers : \A i \in DOMAIN run[c].todo :
        run[c].todo[i].paid => /\ run[c].todo[i].inquired
                               /\ vendor[run[c].todo[i].row] \in VendorHoldsPayment

\* A payment that is reported is held, and one that was held when the
\* transaction was read is not denied.
AnswerIsTrue ==
    \A c \in Callers :
        call[c].pc = "done" =>
            /\ call[c].reply \in VendorHoldsPayment => vendor[Current(c).row] = call[c].reply
            /\ Current(c).paid => call[c].reply \notin {"notFound", "pending", "rejected"}

\* The reconcilers tell the merchant once of what is settled; what they told
\* and /payment settled as well they settled under it.
ReconcilerToldOnce ==
    \A r \in Rows :
        \/ told[r].reconciler = 0
        \/ /\ told[r].reconciler = 1 /\ row[r].by # None
           /\ row[r].by = "payment" => r \in overlap

\* /payment tells the merchant once, of what it settled; while it holds the
\* transaction as pending, only a reconciler can have settled it.
PaymentToldOnce ==
    \A r \in Rows :
        /\ told[r].payment \in {0, 1}
        /\ pay[r] = "saved" \/ told[r].payment = 1 => row[r].by = "payment"
        /\ pay[r] # "none" => told[r].payment = 0
        /\ pay[r] = "read" /\ row[r].by # None => row[r].by = "reconciler" /\ r \in overlap

ToldIsSettled == ReconcilerToldOnce /\ PaymentToldOnce

\* Whoever is about to tell the merchant is the one whose UPDATE settled the
\* transaction: no reconciler has told the merchant before, and if /payment
\* settled it too, the two overlapped.
NotifierSettled ==
    \A c \in Callers :
        run[c].pc = "notifying" =>
            /\ row[Current(c).row].by # None /\ told[Current(c).row].reconciler = 0
            /\ row[Current(c).row].by = "payment" => Current(c).row \in overlap
            /\ \A d \in Callers \ {c} :
                   run[d].pc = "notifying" => Current(d).row # Current(c).row

IInv ==
    /\ TypeOK
    /\ WorkInHand
    /\ ReadIsDoneOrDue
    /\ KnownByInquiry
    /\ ReadPaidIsHeld
    /\ AnswerIsTrue
    /\ SettledIsPaid
    /\ ToldIsSettled
    /\ NotifierSettled

-----------------------------------------------------------------------------
(* The gateway's invariant                                                 *)

\* The vendor drops a token at most a request timeout before the provider
\* does.
TokenOutlivesCache == token.local <= token.left + RequestTimeout

\* A request under way arrives in time.
SentInTime == \A c \in Callers : call[c].pc = "sent" => call[c].left > RequestTimeout

GatewayInv ==
    /\ TypeOK
    /\ TokenOutlivesCache
    /\ SentInTime
    /\ TokenIsLiveOnArrival

\* The margin covers the answer and the request, and so does the lifetime of
\* every token: with the margin of 60 seconds, a request timeout of at most 30.
MarginCoversTimeouts ==
    /\ 2 * RequestTimeout <= TokenRefreshMargin
    /\ \A raw \in ExpiresIns : NormalizeExpiresIn(raw) > 2 * RequestTimeout
-----------------------------------------------------------------------------
(* Batches                                                                 *)

\* The rank of a member of B.
Rank(B, r) == Cardinality({q \in B : q < r})

\* Ranks are told apart and smaller than the size of B.
LEMMA Ranks ==
  ASSUME NEW B \in SUBSET Rows
  PROVE  /\ IsFiniteSet(B) /\ Cardinality(B) \in Nat
         /\ \A r \in B : Rank(B, r) \in 0 .. Cardinality(B) - 1
         /\ \A r, s \in B : Rank(B, r) = Rank(B, s) => r = s
<1> DEFINE Below(r) == {q \in B : q < r}
<1>0. MaxRow \in Nat /\ Rows \subseteq Int
  BY ReconciliationAssumption DEF Rows
<1>1. IsFiniteSet(B) /\ Cardinality(B) \in Nat
  <2>1. IsFiniteSet(Rows)
    BY <1>0, FS_Interval DEF Rows
  <2>2. IsFiniteSet(B)
    BY <2>1, FS_Subset
  <2> QED
    BY <2>2, FS_CardinalityType
<1>2. ASSUME NEW r \in B
      PROVE  /\ IsFiniteSet(Below(r)) /\ Cardinality(Below(r)) \in Nat
             /\ Cardinality(Below(r)) < Cardinality(B)
  <2>1. Below(r) \in SUBSET B /\ r \notin Below(r)
    BY <1>0
  <2>2. IsFiniteSet(Below(r)) /\ Cardinality(Below(r)) \in Nat
    BY <1>1, <2>1, FS_Subset, FS_CardinalityType
  <2>3. Cardinality(Below(r)) <= Cardinality(B) /\ Cardinality(Below(r)) # Cardinality(B)
    <3> HIDE DEF Below
    <3> QED
      BY <1>1, <2>1, FS_Subset
  <2> QED
    BY <1>1, <2>2, <2>3
<1>3. ASSUME NEW r \in B, NEW s \in B, r < s
      PROVE  Cardinality(Below(r)) # Cardinality(Below(s))
  <2>1. Below(r) \in SUBSET Below(s) /\ r \in Below(s) /\ r \notin Below(r)
    <3>1. \A q \in B : q \in Int
      BY <1>0
    <3>2. \A q \in B : q < r => q < s
      BY <1>3, <3>1
    <3>3. ~(r < r)
      BY <3>1
    <3> QED
      BY <1>3, <3>2, <3>3
  <2>2. IsFiniteSet(Below(s))
    BY <1>2
  <2> HIDE DEF Below
  <2> QED
    BY <2>1, <2>2, FS_Subset
<1>4. ASSUME NEW r \in B, NEW s \in B, Rank(B, r) = Rank(B, s)
      PROVE  r = s
  <2>1. r \in Int /\ s \in Int
    BY <1>0
  <2>2. ~(r < s) /\ ~(s < r)
    BY <1>3, <1>4 DEF Rank
  <2> QED
    BY <2>1, <2>2
<1>5. \A r \in B : Rank(B, r) \in 0 .. Cardinality(B) - 1
  <2>1. \A r \in B : Rank(B, r) \in Nat /\ Rank(B, r) < Cardinality(B)
    BY <1>2 DEF Rank
  <2> QED
    BY <1>1, <2>1
<1> QED
  BY <1>1, <1>4, <1>5

\* Every rank is taken.
LEMMA RanksAreTaken ==
  ASSUME NEW B \in SUBSET Rows, NEW i \in 1 .. Cardinality(B)
  PROVE  \E r \in B : Rank(B, r) = i - 1
<1> DEFINE n == Cardinality(B)
           f == [r \in B |-> Rank(B, r)]
<1>1. IsFiniteSet(B) /\ n \in Nat
  BY Ranks
<1>2. f \in Injection(B, 0 .. n - 1)
  BY Ranks DEF Injection, IsInjective
<1>3. IsFiniteSet(0 .. n - 1) /\ Cardinality(0 .. n - 1) = n
  <2> HIDE DEF n
  <2> QED
    BY <1>1, FS_Interval
<1>4. f \in Surjection(B, 0 .. n - 1)
  <2> HIDE DEF f
  <2> QED
    BY <1>2, <1>3, FS_Injection
<1>5. i - 1 \in 0 .. n - 1
  BY <1>1
<1> QED
  BY <1>4, <1>5 DEF Surjection

\* A batch in order is a sequence of snapshots of its rows.
LEMMA InOrderReads ==
  ASSUME NEW B \in SUBSET Rows, TypeOK
  PROVE  /\ InOrder(B) \in Seq(Snapshots) /\ Len(InOrder(B)) = Cardinality(B)
         /\ \A i \in 1 .. Cardinality(B) : \E r \in B : InOrder(B)[i] = Snapshot(r)
<1>1. \A r \in Rows : Snapshot(r) \in Snapshots
  BY DEF Snapshot, Snapshots, TypeOK
<1>2. ASSUME NEW i \in 1 .. Cardinality(B)
      PROVE  \E r \in B : InOrder(B)[i] = Snapshot(r)
  <2>1. PICK r \in B : Rank(B, r) = i - 1
    BY RanksAreTaken
  <2>2. InOrder(B)[i] = Snapshot(CHOOSE s \in B : Rank(B, s) = i - 1)
    BY DEF InOrder, Rank
  <2> QED
    BY <2>1, <2>2
<1>3. Cardinality(B) \in Nat
  BY Ranks
<1>4. DOMAIN InOrder(B) = 1 .. Cardinality(B) /\ InOrder(B) = [i \in 1 .. Cardinality(B) |-> InOrder(B)[i]]
  BY DEF InOrder
<1>5. \A i \in 1 .. Cardinality(B) : InOrder(B)[i] \in Snapshots
  BY <1>1, <1>2
<1> QED
  BY <1>2, <1>3, <1>4, <1>5

\* LIMIT BatchSize.
LEMMA BatchIsBounded == OldestBatch \in SUBSET Rows /\ Cardinality(OldestBatch) <= BatchSize
<1> DEFINE f == [r \in OldestBatch |-> Ahead(r)]
<1>1. StalePending \in SUBSET Rows /\ OldestBatch \in SUBSET StalePending
  BY DEF StalePending, OldestBatch
<1>2. \A r \in StalePending : Ahead(r) = Rank(StalePending, r)
  BY DEF Ahead, Rank
<1>3. BatchSize \in Nat
  BY ReconciliationAssumption
<1>4. f \in Injection(OldestBatch, 0 .. BatchSize - 1)
  <2>1. \A r \in OldestBatch : Ahead(r) \in 0 .. BatchSize - 1
    <3>1. \A r \in StalePending : Ahead(r) \in 0 .. Cardinality(StalePending) - 1
      BY <1>1, <1>2, Ranks
    <3>2. \A r \in OldestBatch : Ahead(r) < BatchSize
      BY DEF OldestBatch
    <3>3. Cardinality(StalePending) \in Nat
      BY <1>1, Ranks
    <3> QED
      BY <1>1, <1>3, <3>1, <3>2, <3>3
  <2>2. \A r, s \in OldestBatch : Ahead(r) = Ahead(s) => r = s
    BY <1>1, <1>2, Ranks
  <2> QED
    BY <2>1, <2>2 DEF Injection, IsInjective
<1>5. IsFiniteSet(0 .. BatchSize - 1) /\ Cardinality(0 .. BatchSize - 1) = BatchSize
  BY <1>3, FS_Interval
<1>6. Cardinality(OldestBatch) <= BatchSize
  <2> HIDE DEF f
  <2> QED
    BY <1>4, <1>5, FS_Injection
<1> QED
  BY <1>1, <1>6
-----------------------------------------------------------------------------
(* What a step does to a run                                               *)

\* A run gets a new value.
LEMMA RunBecomes ==
  ASSUME TypeOK, NEW c \in Callers, NEW x \in Runs, run' = [run EXCEPT ![c] = x]
  PROVE  /\ run' \in [Callers -> Runs] /\ run'[c] = x
         /\ \A d \in Callers \ {c} : run'[d] = run[d]
  BY DEF TypeOK

\* A call gets a new value.
LEMMA CallBecomes ==
  ASSUME TypeOK, NEW c \in Callers, NEW x, call' = [call EXCEPT ![c] = x]
  PROVE  /\ call'[c] = x
         /\ \A d \in Callers \ {c} : call'[d] = call[d]
  BY DEF TypeOK, GatewayTypeOK

Calls == [pc: {"idle", "token", "fetching", "sent", "done"},
          left: Nat, reply: Replies, live: BOOLEAN]

\* A new sequence of transactions, and one that lost its head.
LEMMA TailRows ==
  ASSUME NEW s \in Seq(Snapshots), s # << >>
  PROVE  /\ Tail(s) \in Seq(Snapshots) /\ Len(Tail(s)) = Len(s) - 1 /\ Len(s) \in Nat
         /\ Head(s) \in Snapshots /\ Head(s) = s[1] /\ 1 \in DOMAIN s
         /\ \A i \in DOMAIN Tail(s) : i + 1 \in DOMAIN s /\ Tail(s)[i] = s[i + 1]
         /\ RowsOf(s) = {Head(s).row} \cup RowsOf(Tail(s))
<1>1. /\ Tail(s) \in Seq(Snapshots) /\ Len(Tail(s)) = Len(s) - 1 /\ Len(s) \in Nat
      /\ Head(s) \in Snapshots /\ Head(s) = s[1] /\ 1 \in DOMAIN s
      /\ DOMAIN s = 1 .. Len(s) /\ DOMAIN Tail(s) = 1 .. Len(s) - 1
      /\ \A i \in 1 .. Len(s) - 1 : Tail(s)[i] = s[i + 1]
  OBVIOUS
<1>2. \A i \in DOMAIN Tail(s) : i + 1 \in DOMAIN s /\ Tail(s)[i] = s[i + 1]
  BY <1>1
<1>3. ASSUME NEW i \in DOMAIN s, i # 1
      PROVE  i - 1 \in DOMAIN Tail(s) /\ Tail(s)[i - 1] = s[i]
  BY <1>1, <1>3
<1>4. RowsOf(s) \subseteq {Head(s).row} \cup RowsOf(Tail(s))
  <2>1. ASSUME NEW i \in DOMAIN s
        PROVE  s[i].row \in {Head(s).row} \cup RowsOf(Tail(s))
    <3>1. CASE i = 1
      BY <1>1, <3>1
    <3>2. CASE i # 1
      BY <1>3, <3>2 DEF RowsOf
    <3> QED
      BY <3>1, <3>2
  <2> QED
    BY <2>1 DEF RowsOf
<1>5. {Head(s).row} \cup RowsOf(Tail(s)) \subseteq RowsOf(s)
  BY <1>1, <1>2 DEF RowsOf
<1> QED
  BY <1>1, <1>2, <1>4, <1>5

\* finish takes the transaction in hand off the list.
LEMMA Finished ==
  ASSUME TypeOK, NEW c \in Callers, run[c].todo # << >>, NEW o \in Outcomes, Finish(c, o)
  PROVE  /\ run' \in [Callers -> Runs]
         /\ \A d \in Callers \ {c} : run'[d] = run[d]
         /\ run'[c].pc = "turn" /\ run'[c].todo = Tail(run[c].todo)
         /\ run'[c].read = run[c].read /\ run'[c].last = o
         /\ run'[c].done = run[c].done \cup {Current(c).row}
         /\ run'[c].ctx = run[c].ctx
<1> DEFINE x == [run[c] EXCEPT !.pc = "turn", !.todo = Tail(run[c].todo),
                               !.done = run[c].done \cup {Current(c).row}, !.last = o]
<1>1. run[c] \in Runs /\ run[c].todo \in Seq(Snapshots)
  BY DEF TypeOK, Runs
<1>2. Tail(run[c].todo) \in Seq(Snapshots) /\ Current(c).row \in Rows
  BY <1>1, TailRows DEF Current, Snapshots
<1>3. x \in Runs
  BY <1>1, <1>2 DEF Runs, RunStages
<1>4. run' = [run EXCEPT ![c] = x]
  BY <1>1 DEF Finish, TypeOK
<1>5. /\ x.pc = "turn" /\ x.todo = Tail(run[c].todo) /\ x.read = run[c].read /\ x.last = o
      /\ x.done = run[c].done \cup {Current(c).row} /\ x.ctx = run[c].ctx
  BY <1>1 DEF Runs
<1> HIDE DEF x
<1> QED
  BY <1>3, <1>4, <1>5, RunBecomes

\* A run over transactions just read.
LEMMA RunStarted ==
  ASSUME TypeOK, NEW c \in Callers, NEW t \in {"sweep", "admin"}, NEW batch \in Seq(Snapshots),
         run' = [run EXCEPT ![c] = Over(t, batch)]
  PROVE  /\ run' \in [Callers -> Runs]
         /\ \A d \in Callers \ {c} : run'[d] = run[d]
         /\ run'[c].pc = "turn" /\ run'[c].todo = batch
         /\ run'[c].read = RowsOf(batch) /\ run'[c].done = {} /\ run'[c].last = None
<1>1. RowsOf(batch) \subseteq Rows
  <2>1. \A i \in DOMAIN batch : batch[i] \in Snapshots
    OBVIOUS
  <2> QED
    BY <2>1 DEF RowsOf, Snapshots
<1>2. /\ Over(t, batch) \in Runs
      /\ Over(t, batch).pc = "turn" /\ Over(t, batch).todo = batch
      /\ Over(t, batch).read = RowsOf(batch) /\ Over(t, batch).done = {}
      /\ Over(t, batch).last = None
  BY <1>1 DEF Over, NoRun, Runs, RunStages, RowsOf
<1> QED
  BY <1>2, RunBecomes

\* No run.
LEMMA NoRunIsRun ==
  /\ NoRun \in Runs /\ NoRun.pc = "idle" /\ NoRun.todo = << >> /\ NoRun.read = {} /\ NoRun.done = {}
  /\ NoRun.last = None /\ RowsOf(<< >>) = {} /\ Len(<< >>) = 0
  BY DEF NoRun, Runs, RunStages, RowsOf

\* The results of a call.
LEMMA CallResults ==
  /\ NoCall \in Calls /\ NoCall.pc = "idle" /\ NoCall.live
  /\ Failed \in Calls /\ Failed.pc = "done" /\ Failed.reply = "error" /\ Failed.live
  BY DEF NoCall, Failed, Calls, Replies
-----------------------------------------------------------------------------
(* A step of one caller that touches no transaction                        *)

\* Everything TypeOK says that is not about runs, calls and transactions.
RestOK ==
    /\ token \in [held: BOOLEAN, left: Nat, local: Nat]
    /\ mutex \in Callers \cup {None}
    /\ deployment \subseteq Settings
    /\ load \in Loads
    /\ unique \in Callers \cup {None}
    /\ faults \in 0 .. load.faults

\* A token's lifetime, as the vendor and as the provider reckon it.
LEMMA Lifetimes ==
  ASSUME NEW raw \in ExpiresIns
  PROVE  /\ NormalizeExpiresIn(raw) \in Nat /\ VendorLifetime(raw) = NormalizeExpiresIn(raw)
         /\ NormalizeExpiresIn(raw) > 0
  BY GatewayAssumption DEF NormalizeExpiresIn, VendorLifetime

\* What is left of something.
LEMMA PositivePart ==
  ASSUME NEW n \in Int
  PROVE  Positive(n) \in Nat /\ Positive(n) >= n
  BY DEF Positive

\* Failures are counted up to the bound.
LEMMA FaultsCounted ==
  ASSUME load \in Loads, faults \in 0 .. load.faults, UNCHANGED load, Fault \/ UNCHANGED faults
  PROVE  faults' \in 0 .. load'.faults
  BY ReconciliationAssumption DEF Fault

\* What no invariant but TypeOK is about keeps its type in every step.
LEMMA RestTyped ==
  ASSUME TypeOK, Next
  PROVE  RestOK'
<1> USE DEF RestOK
<1>0. RestOK /\ GatewayTypeOK(Replies)
  BY DEF TypeOK, GatewayTypeOK
<1>1. UNCHANGED <<deployment, load>> /\ unique' \in Callers \cup {None}
  BY <1>0, ZenonT(30)
  DEF Next, World, Step, GrowsStale, Expires, VendorInquires, VendorDecides,
     PaymentReads, PaymentSaves, PaymentNotifies, PaymentStops,
     UniqueExpires, Crash, Tick, SweepSelects, SelectFails, DecideLocally, AskVendor, GetsToken,
     TokenReceived, TokenRefused, VendorAnswers, NoAnswer, NothingToSettle, Settle, SettleFails,
     NotifyRecovered, RunReturns, ScheduleSweep, ContextDone, AdminReconciles, ReleaseUnique,
     sweepVars
<1>2. faults' \in 0 .. load'.faults
  <2>1. Fault \/ UNCHANGED faults
    BY ZenonT(30)
    DEF Next, World, Step, GrowsStale, Expires, VendorInquires, VendorDecides,
       PaymentReads, PaymentSaves, PaymentNotifies, PaymentStops,
       UniqueExpires, Crash, Tick, SweepSelects, SelectFails, DecideLocally, AskVendor, GetsToken,
       TokenReceived, TokenRefused, VendorAnswers, NoAnswer, NothingToSettle, Settle, SettleFails,
       NotifyRecovered, RunReturns, ScheduleSweep, ContextDone, AdminReconciles, Fails
  <2> QED
    BY <1>0, <1>1, <2>1, FaultsCounted
<1>3. token' \in [held: BOOLEAN, left: Nat, local: Nat] /\ mutex' \in Callers \cup {None}
  <2>1. NoToken \in [held: BOOLEAN, left: Nat, local: Nat]
    BY DEF NoToken
  <2>2. CASE Tick
    <3>1. token.local - 1 \in Nat /\ Positive(token.left - 1) \in Nat
      BY <1>0, <2>2, PositivePart, GatewayAssumption DEF Tick, GatewayTick, CachedTokenIsFresh
    <3>2. UNCHANGED mutex
          /\ token' = [token EXCEPT !.left = Positive(token.left - 1), !.local = token.local - 1]
      BY <2>2 DEF Tick, GatewayTick
    <3> QED
      BY <1>0, <3>1, <3>2
  <2>3. ASSUME NEW c \in Callers, TokenReceived(c)
        PROVE  token' \in [held: BOOLEAN, left: Nat, local: Nat] /\ mutex' \in Callers \cup {None}
    <3>1. PICK raw \in ExpiresIns, delay \in Delays : TokenArrives(c, raw, delay)
      BY <2>3 DEF TokenReceived
    <3>2. /\ token' = [held |-> TRUE, left |-> Positive(VendorLifetime(raw) - delay),
                       local |-> NormalizeExpiresIn(raw)]
          /\ mutex' = None
      BY <3>1 DEF TokenArrives
    <3>3. VendorLifetime(raw) - delay \in Int
      BY Lifetimes, GatewayAssumption DEF Delays
    <3> QED
      BY <3>2, <3>3, Lifetimes, PositivePart
  <2>4. CASE \/ UNCHANGED <<token, mutex>>
             \/ \E c \in Callers : UNCHANGED token /\ mutex' = c
             \/ token' = NoToken /\ mutex' = None
    BY <1>0, <2>1, <2>4
  <2>5. \/ Tick \/ (\E c \in Callers : TokenReceived(c))
        \/ UNCHANGED <<token, mutex>>
        \/ \E c \in Callers : UNCHANGED token /\ mutex' = c
        \/ token' = NoToken /\ mutex' = None
    <3>1. CASE World
      BY <3>1 DEF World, GrowsStale, Expires, VendorInquires, VendorDecides,
         PaymentReads, PaymentSaves, PaymentNotifies, PaymentStops,
         UniqueExpires, Crash, GatewayCrash, gatewayVars
    <3>2. ASSUME NEW c \in Callers,
                 \/ SweepSelects(c) \/ SelectFails(c) \/ DecideLocally(c) \/ AskVendor(c)
                 \/ NothingToSettle(c) \/ Settle(c) \/ SettleFails(c) \/ NotifyRecovered(c)
                 \/ RunReturns(c) \/ ScheduleSweep(c) \/ ContextDone(c)
          PROVE  UNCHANGED <<token, mutex>>
      BY <3>2 DEF SweepSelects, SelectFails, DecideLocally, AskVendor, NothingToSettle, Settle,
         SettleFails, NotifyRecovered, RunReturns, ScheduleSweep, ContextDone, gatewayVars
    <3>3. ASSUME NEW c \in Callers, GetsToken(c) \/ TokenRefused(c) \/ VendorAnswers(c) \/ NoAnswer(c)
          PROVE  \/ UNCHANGED <<token, mutex>>
                 \/ UNCHANGED token /\ mutex' = c
                 \/ token' = NoToken /\ mutex' = None
      BY <3>3 DEF GetsToken, TokenRefused, VendorAnswers, NoAnswer, UseCachedToken, FetchToken,
         TokenFails, ResponseArrives, RequestFails
    <3>4. ASSUME NEW c \in Callers, NEW r \in load.targets, AdminReconciles(c, r)
          PROVE  UNCHANGED <<token, mutex>>
      BY <3>4 DEF AdminReconciles, gatewayVars
    <3> QED
      BY <3>1, <3>2, <3>3, <3>4 DEF Next, Step
  <2> QED
    BY <2>2, <2>3, <2>4, <2>5
<1> QED
  BY <1>0, <1>1, <1>2, <1>3

\* What the invariant says of one caller alone.
Fine(c) ==
    /\ Len(run[c].todo) <= BatchSize
    /\ run[c].pc # "calling" <=> call[c].pc = "idle"
    /\ run[c].pc \in {"calling", "notifying"} => run[c].todo # << >>
    /\ run[c].read = run[c].done \cup RowsOf(run[c].todo)
    /\ \A i \in DOMAIN run[c].todo :
           run[c].todo[i].paid => /\ run[c].todo[i].inquired
                                  /\ vendor[run[c].todo[i].row] \in VendorHoldsPayment
    /\ call[c].pc = "done" =>
           /\ call[c].reply \in VendorHoldsPayment => vendor[Current(c).row] = call[c].reply
           /\ Current(c).paid => call[c].reply \notin {"notFound", "pending", "rejected"}

\* The invariant, caller by caller.
LEMMA AllFine ==
  ASSUME IInv
  PROVE  \A c \in Callers : Fine(c)
  BY DEF IInv, TypeOK, Fine, WorkInHand, ReadIsDoneOrDue, ReadPaidIsHeld, AnswerIsTrue

\* The step leaves the other callers alone.
Apart(c) ==
    /\ run' \in [Callers -> Runs] /\ call' \in [Callers -> Calls]
    /\ \A d \in Callers \ {c} : run'[d] = run[d] /\ call'[d] = call[d]

\* Whoever notifies did so before.
StillNotifying(c) ==
    run'[c].pc = "notifying" => run[c].pc = "notifying" /\ run'[c].todo = run[c].todo

\* A step of one caller that writes neither rows nor callbacks.
LEMMA CalmStep ==
  ASSUME IInv, RestOK', NEW c \in Callers, Apart(c), Fine(c)', StillNotifying(c),
         UNCHANGED <<row, vendor, payments>>
  PROVE  IInv'
<1>1. ASSUME NEW d \in Callers
      PROVE  Fine(d)'
  <2>1. CASE d = c
    BY <2>1
  <2>2. CASE d # c
    <3>1. Fine(d) /\ run'[d] = run[d] /\ call'[d] = call[d] /\ vendor' = vendor
      BY <2>2, AllFine DEF Apart
    <3> QED
      BY <3>1 DEF Fine, Current
  <2> QED
    BY <2>1, <2>2
<1>2. \A d \in Callers : run'[d].pc = "notifying" =>
                            run[d].pc = "notifying" /\ Current(d)' = Current(d)
  BY DEF Apart, StillNotifying, Current
<1>3. TypeOK'
  <2>1. \A d \in Callers : run'[d].done \subseteq run'[d].read
    BY <1>1 DEF Fine
  <2> QED
    BY <1>1, <2>1 DEF IInv, TypeOK, GatewayTypeOK, RestOK, Apart, Calls, Fine, payments
<1>4. WorkInHand' /\ ReadIsDoneOrDue' /\ ReadPaidIsHeld' /\ AnswerIsTrue'
  BY <1>1 DEF Fine, WorkInHand, ReadIsDoneOrDue, ReadPaidIsHeld, AnswerIsTrue
<1>5. KnownByInquiry' /\ SettledIsPaid' /\ ToldIsSettled'
  BY DEF IInv, KnownByInquiry, SettledIsPaid, ToldIsSettled, ReconcilerToldOnce, PaymentToldOnce,
     payments
<1>6. NotifierSettled'
  BY <1>2 DEF IInv, NotifierSettled, payments
<1> QED
  BY <1>3, <1>4, <1>5, <1>6 DEF IInv
\* A snapshot is taken of what the vendor holds.
LEMMA SnapshotIsTrue ==
  ASSUME IInv, NEW r \in Rows
  PROVE  /\ Snapshot(r) \in Snapshots
         /\ Snapshot(r).paid => /\ Snapshot(r).inquired
                                /\ vendor[Snapshot(r).row] \in VendorHoldsPayment
<1>1. row[r].inquired \in BOOLEAN
  BY DEF IInv, TypeOK
<1>2. vendor[r] \in VendorHoldsPayment => row[r].inquired
  BY DEF IInv, KnownByInquiry, VendorHoldsPayment
<1>3. /\ Snapshot(r).paid = (vendor[r] \in VendorHoldsPayment)
      /\ Snapshot(r).inquired = row[r].inquired /\ Snapshot(r).row = r
  BY DEF Snapshot
<1>4. Snapshot(r) \in Snapshots
  BY DEF IInv, TypeOK, Snapshot, Snapshots
<1> QED
  BY <1>2, <1>3, <1>4

\* Sweep and Reconcile begin.
LEMMA BeginStep ==
  ASSUME IInv, RestOK', NEW c \in Callers,
         \/ ScheduleSweep(c) \/ SweepSelects(c) \/ \E r \in load.targets : AdminReconciles(c, r)
  PROVE  IInv'
<1>0. TypeOK /\ UNCHANGED <<row, vendor, payments, call>> /\ call \in [Callers -> Calls]
  BY DEF IInv, TypeOK, GatewayTypeOK, Calls, ScheduleSweep, SweepSelects, AdminReconciles, gatewayVars
<1>1. run[c].pc \in {"idle", "queued"} /\ call[c].pc = "idle"
  BY <1>0 DEF TypeOK, ScheduleSweep, SweepSelects, AdminReconciles
<1>2. CASE ScheduleSweep(c)
  <2> DEFINE x == [NoRun EXCEPT !.pc = "queued", !.trigger = "sweep"]
  <2>1. x \in Runs /\ x.pc = "queued" /\ x.todo = << >> /\ x.read = {} /\ x.done = {}
    BY NoRunIsRun DEF Runs, RunStages
  <2>2. run' = [run EXCEPT ![c] = x]
    BY <1>2 DEF ScheduleSweep
  <2> HIDE DEF x
  <2>3. Apart(c) /\ run'[c] = x
    BY <1>0, <2>1, <2>2, RunBecomes DEF Apart
  <2>4. BatchSize \in Nat
    BY ReconciliationAssumption
  <2>5. Fine(c)' /\ StillNotifying(c)
    BY <1>0, <1>1, <2>1, <2>3, <2>4, NoRunIsRun DEF Fine, StillNotifying
  <2> QED
    BY <1>0, <2>3, <2>5, CalmStep
<1>3. ASSUME NEW t \in {"sweep", "admin"}, NEW batch \in Seq(Snapshots), Len(batch) <= BatchSize,
             \A i \in DOMAIN batch : \E r \in Rows : batch[i] = Snapshot(r),
             run' = [run EXCEPT ![c] = Over(t, batch)]
      PROVE  IInv'
  <2>1. /\ Apart(c) /\ run'[c].pc = "turn" /\ run'[c].todo = batch
        /\ run'[c].read = RowsOf(batch) /\ run'[c].done = {}
    BY <1>0, <1>3, RunStarted DEF Apart
  <2>2. \A i \in DOMAIN batch : batch[i].paid => /\ batch[i].inquired
                                                /\ vendor[batch[i].row] \in VendorHoldsPayment
    BY <1>3, SnapshotIsTrue
  <2>3. Fine(c)' /\ StillNotifying(c)
    BY <1>0, <1>1, <1>3, <2>1, <2>2 DEF Fine, StillNotifying
  <2> QED
    BY <1>0, <2>1, <2>3, CalmStep
<1>4. CASE SweepSelects(c)
  <2> DEFINE batch == InOrder(OldestBatch)
  <2>1. OldestBatch \in SUBSET Rows /\ Cardinality(OldestBatch) <= BatchSize
    BY BatchIsBounded
  <2>2. /\ batch \in Seq(Snapshots) /\ Len(batch) = Cardinality(OldestBatch)
        /\ \A i \in 1 .. Cardinality(OldestBatch) : \E r \in OldestBatch : batch[i] = Snapshot(r)
    BY <1>0, <2>1, InOrderReads
  <2>3. run' = [run EXCEPT ![c] = Over("sweep", batch)]
    BY <1>4 DEF SweepSelects
  <2> HIDE DEF batch
  <2>4. DOMAIN batch = 1 .. Cardinality(OldestBatch)
    BY <2>2
  <2> QED
    BY <1>3, <2>1, <2>2, <2>3, <2>4
<1>5. ASSUME NEW r \in load.targets, AdminReconciles(c, r)
      PROVE  IInv'
  <2> DEFINE batch == <<Snapshot(r)>>
  <2>1. r \in Rows /\ BatchSize \in Nat \ {0}
    BY <1>0, <1>5, ReconciliationAssumption DEF TypeOK
  <2>2. Snapshot(r) \in Snapshots
    BY <2>1, SnapshotIsTrue
  <2>3. batch \in Seq(Snapshots) /\ Len(batch) = 1 /\ batch[1] = Snapshot(r) /\ DOMAIN batch = {1}
    BY <2>2
  <2>4. run' = [run EXCEPT ![c] = Over("admin", batch)]
    BY <1>5 DEF AdminReconciles
  <2> HIDE DEF batch
  <2>5. Len(batch) <= BatchSize /\ \A i \in DOMAIN batch : \E q \in Rows : batch[i] = Snapshot(q)
    BY <2>1, <2>3
  <2> QED
    BY <1>3, <2>3, <2>4, <2>5
<1> QED
  BY <1>2, <1>4, <1>5

\* A run ends, or its context.
LEMMA EndStep ==
  ASSUME IInv, RestOK', NEW c \in Callers, SelectFails(c) \/ RunReturns(c) \/ ContextDone(c)
  PROVE  IInv'
<1>0. /\ TypeOK /\ UNCHANGED <<row, vendor, payments, call>> /\ call \in [Callers -> Calls]
      /\ run[c] \in Runs /\ Fine(c)
  BY AllFine
     DEF IInv, TypeOK, GatewayTypeOK, Calls, SelectFails, RunReturns, ContextDone, gatewayVars
<1>1. CASE run' = [run EXCEPT ![c] = NoRun] /\ run[c].pc \in {"queued", "turn"}
  <2>1. Apart(c) /\ run'[c] = NoRun
    BY <1>0, <1>1, NoRunIsRun, RunBecomes DEF Apart
  <2>2. call[c].pc = "idle" /\ BatchSize \in Nat
    BY <1>0, <1>1, ReconciliationAssumption DEF Fine
  <2>3. Fine(c)' /\ StillNotifying(c)
    BY <1>0, <2>1, <2>2, NoRunIsRun DEF Fine, StillNotifying
  <2> QED
    BY <1>0, <2>1, <2>3, CalmStep
<1>2. ASSUME NEW b \in BOOLEAN, run' = [run EXCEPT ![c].ctx = b]
      PROVE  IInv'
  <2> DEFINE x == [run[c] EXCEPT !.ctx = b]
  <2>1. /\ x \in Runs /\ x.pc = run[c].pc /\ x.todo = run[c].todo /\ x.read = run[c].read
        /\ x.done = run[c].done
    BY <1>0 DEF Runs
  <2>2. run' = [run EXCEPT ![c] = x]
    BY <1>0, <1>2 DEF TypeOK
  <2> HIDE DEF x
  <2>3. Apart(c) /\ run'[c] = x
    BY <1>0, <2>1, <2>2, RunBecomes DEF Apart
  <2>4. Fine(c)' /\ StillNotifying(c)
    BY <1>0, <2>1, <2>3 DEF Fine, StillNotifying, Current
  <2> QED
    BY <1>0, <2>3, <2>4, CalmStep
<1> QED
  BY <1>1, <1>2 DEF SelectFails, RunReturns, ContextDone

\* finish, with or without a call.
LEMMA FinishStep ==
  ASSUME IInv, RestOK', NEW c \in Callers, NEW o \in Outcomes, Finish(c, o),
         run[c].pc \in {"turn", "calling"}, run[c].todo # << >>,
         EndCall(c) \/ (UNCHANGED call /\ run[c].pc = "turn"), UNCHANGED <<row, vendor, payments>>
  PROVE  IInv'
<1>0. TypeOK /\ call \in [Callers -> Calls] /\ Fine(c) /\ run[c].todo \in Seq(Snapshots)
  BY AllFine DEF IInv, TypeOK, GatewayTypeOK, Calls, Runs
<1>1. /\ run' \in [Callers -> Runs]
      /\ \A d \in Callers \ {c} : run'[d] = run[d]
      /\ run'[c].pc = "turn" /\ run'[c].todo = Tail(run[c].todo)
      /\ run'[c].read = run[c].read
      /\ run'[c].done = run[c].done \cup {Current(c).row}
  BY <1>0, Finished
<1>2. /\ call' \in [Callers -> Calls] /\ call'[c].pc = "idle"
      /\ \A d \in Callers \ {c} : call'[d] = call[d]
  BY <1>0, CallResults DEF EndCall, Fine
<1>3. Apart(c) /\ StillNotifying(c)
  BY <1>1, <1>2 DEF Apart, StillNotifying
<1>4. /\ Len(Tail(run[c].todo)) <= BatchSize
      /\ RowsOf(run[c].todo) = {Current(c).row} \cup RowsOf(Tail(run[c].todo))
      /\ \A i \in DOMAIN Tail(run[c].todo) :
            Tail(run[c].todo)[i].paid => /\ Tail(run[c].todo)[i].inquired
                                         /\ vendor[Tail(run[c].todo)[i].row] \in VendorHoldsPayment
  <2>1. BatchSize \in Nat
    BY ReconciliationAssumption
  <2> QED
    BY <1>0, <2>1, TailRows DEF Fine, Current
<1>5. Fine(c)'
  <2>1. run'[c].read = run'[c].done \cup RowsOf(run'[c].todo)
    BY <1>0, <1>1, <1>4 DEF Fine
  <2>2. Len(run'[c].todo) <= BatchSize
    BY <1>1, <1>4
  <2>3. \A i \in DOMAIN run'[c].todo :
            run'[c].todo[i].paid => /\ run'[c].todo[i].inquired
                                    /\ vendor[run'[c].todo[i].row] \in VendorHoldsPayment
    BY <1>1, <1>4
  <2> QED
    BY <1>1, <1>2, <2>1, <2>2, <2>3 DEF Fine
<1> QED
  BY <1>3, <1>5, CalmStep
\* The call goes on, and the run with it.
LEMMA CallStep ==
  ASSUME IInv, RestOK', NEW c \in Callers,
         \/ GetsToken(c) \/ TokenReceived(c) \/ TokenRefused(c) \/ VendorAnswers(c) \/ NoAnswer(c)
  PROVE  IInv'
<1>0. /\ TypeOK /\ UNCHANGED <<row, vendor, payments, run>> /\ call \in [Callers -> Calls]
      /\ call[c] \in Calls /\ run \in [Callers -> Runs] /\ Fine(c)
  BY AllFine DEF IInv, TypeOK, GatewayTypeOK, Calls, GetsToken, TokenReceived, TokenRefused,
     VendorAnswers, NoAnswer, sweepVars
<1>1. call[c].pc \in {"token", "fetching", "sent"} /\ run[c].pc = "calling" /\ run[c].todo # << >>
  BY <1>0 DEF Fine, GetsToken, TokenReceived, TokenRefused, VendorAnswers, NoAnswer, UseCachedToken,
     FetchToken, TokenArrives, TokenFails, ResponseArrives, RequestFails
<1>2. ASSUME NEW x \in Calls, call' = [call EXCEPT ![c] = x], x.pc # "idle",
             x.pc = "done" => \/ x.reply \in {"error", "unauthorized"} \cup Unhelpful
                              \/ x.reply = vendor[Current(c).row]
      PROVE  IInv'
  <2>1. Apart(c) /\ call'[c] = x /\ StillNotifying(c)
    BY <1>0, <1>2 DEF Apart, StillNotifying
  <2>2. /\ 1 \in DOMAIN run[c].todo /\ Current(c) = run[c].todo[1]
    <3>1. run[c].todo \in Seq(Snapshots)
      BY <1>0 DEF Runs
    <3> QED
      BY <1>1, <3>1, TailRows DEF Current
  <2>3. x.pc = "done" =>
           /\ x.reply \in VendorHoldsPayment => vendor[Current(c).row] = x.reply
           /\ Current(c).paid => x.reply \notin {"notFound", "pending", "rejected"}
    <3>1. Current(c).paid => vendor[Current(c).row] \in VendorHoldsPayment
      BY <1>0, <2>2 DEF Fine
    <3>2. VendorHoldsPayment \cap ({"error", "unauthorized"} \cup Unhelpful) = {}
      BY DEF VendorHoldsPayment, Unhelpful
    <3> QED
      BY <1>2, <3>1, <3>2 DEF VendorHoldsPayment, Unhelpful
  <2>4. Fine(c)'
    BY <1>0, <1>1, <1>2, <2>1, <2>3 DEF Fine, Current
  <2> QED
    BY <1>0, <2>1, <2>4, CalmStep
<1>3. CASE GetsToken(c)
  <2>1. CASE UseCachedToken(c)
    <3> DEFINE x == [call[c] EXCEPT !.pc = "sent", !.left = token.left]
    <3>1. token.left \in Nat
      BY <1>0 DEF TypeOK, GatewayTypeOK
    <3>2. x \in Calls /\ x.pc = "sent"
      BY <1>0, <3>1 DEF Calls
    <3>3. call' = [call EXCEPT ![c] = x]
      BY <1>0, <2>1 DEF UseCachedToken
    <3> HIDE DEF x
    <3> QED
      BY <1>2, <3>2, <3>3
  <2>2. CASE FetchToken(c)
    <3> DEFINE x == [call[c] EXCEPT !.pc = "fetching"]
    <3>1. x \in Calls /\ x.pc = "fetching"
      BY <1>0 DEF Calls
    <3>2. call' = [call EXCEPT ![c] = x]
      BY <1>0, <2>2 DEF FetchToken
    <3> HIDE DEF x
    <3> QED
      BY <1>2, <3>1, <3>2
  <2> QED
    BY <1>3, <2>1, <2>2 DEF GetsToken
<1>4. CASE TokenReceived(c)
  <2>1. PICK raw \in ExpiresIns, delay \in Delays : TokenArrives(c, raw, delay)
    BY <1>4 DEF TokenReceived
  <2> DEFINE left == Positive(VendorLifetime(raw) - delay)
             x == [call[c] EXCEPT !.pc = "sent", !.left = left]
  <2>2. left \in Nat
    <3>1. VendorLifetime(raw) - delay \in Int
      BY Lifetimes, GatewayAssumption DEF Delays
    <3> QED
      BY <3>1, PositivePart
  <2>3. call' = [call EXCEPT ![c] = x]
    BY <1>0, <2>1 DEF TokenArrives
  <2> HIDE DEF left
  <2>4. x \in Calls /\ x.pc = "sent"
    BY <1>0, <2>2 DEF Calls
  <2> HIDE DEF x
  <2> QED
    BY <1>2, <2>3, <2>4
<1>5. CASE TokenRefused(c) \/ NoAnswer(c)
  <2>1. call' = [call EXCEPT ![c] = Failed]
    BY <1>5 DEF TokenRefused, NoAnswer, TokenFails, RequestFails
  <2> QED
    BY <1>2, <2>1, CallResults
<1>6. CASE VendorAnswers(c)
  <2>1. PICK delay \in Delays, reply \in {vendor[Current(c).row]} \cup Unhelpful :
            ResponseArrives(c, reply, delay)
    BY <1>6 DEF VendorAnswers
  <2> DEFINE live == call[c].left > delay
             x == [pc |-> "done", left |-> 0, live |-> live,
                   reply |-> IF live THEN reply ELSE "unauthorized"]
  <2>2. call' = [call EXCEPT ![c] = x]
    BY <2>1 DEF ResponseArrives
  <2>3. Current(c).row \in Rows
    <3>1. run[c].todo \in Seq(Snapshots)
      BY <1>0 DEF Runs
    <3> QED
      BY <1>1, <3>1, TailRows DEF Current, Snapshots
  <2>4. reply \in Replies
    BY <1>0, <2>3 DEF TypeOK, Replies
  <2>5. live \in BOOLEAN /\ "unauthorized" \in Replies
    BY DEF Replies
  <2> HIDE DEF live
  <2>6. x \in Calls /\ x.pc = "done" /\ x.reply \in {reply, "unauthorized"}
    BY <2>4, <2>5 DEF Calls
  <2> HIDE DEF x
  <2> QED
    BY <1>2, <2>1, <2>2, <2>6
<1> QED
  BY <1>3, <1>4, <1>5, <1>6

\* The vendor is asked.
LEMMA AskStep ==
  ASSUME IInv, RestOK', NEW c \in Callers, AskVendor(c)
  PROVE  IInv'
<1>0. /\ TypeOK /\ UNCHANGED <<row, vendor, payments>> /\ call \in [Callers -> Calls]
      /\ run[c] \in Runs /\ Fine(c)
  BY AllFine DEF IInv, TypeOK, GatewayTypeOK, Calls, AskVendor
<1> DEFINE x == [run[c] EXCEPT !.pc = "calling", !.last = None]
           y == [NoCall EXCEPT !.pc = "token"]
<1>1. /\ x \in Runs /\ x.pc = "calling" /\ x.todo = run[c].todo /\ x.read = run[c].read
      /\ x.done = run[c].done
  BY <1>0 DEF Runs, RunStages
<1>2. y \in Calls /\ y.pc = "token"
  BY CallResults DEF Calls
<1>3. run' = [run EXCEPT ![c] = x] /\ call' = [call EXCEPT ![c] = y]
  BY <1>0 DEF AskVendor, BeginCall, TypeOK
<1> HIDE DEF x, y
<1>4. Apart(c) /\ run'[c] = x /\ call'[c] = y
  BY <1>0, <1>1, <1>2, <1>3, RunBecomes DEF Apart
<1>5. Fine(c)' /\ StillNotifying(c)
  BY <1>0, <1>1, <1>2, <1>4 DEF Fine, StillNotifying, AskVendor
<1> QED
  BY <1>0, <1>4, <1>5, CalmStep

\* The reply is read as one of the outcomes.
LEMMA Classified == \A reply : Classify(reply) \in Outcomes
  BY DEF Classify, Outcomes

\* A transaction is done with, and no UPDATE has touched it.
LEMMA DoneStep ==
  ASSUME IInv, RestOK', NEW c \in Callers,
         DecideLocally(c) \/ NothingToSettle(c) \/ SettleFails(c)
         \/ (Settle(c) /\ UNCHANGED <<row, overlap>>)
  PROVE  IInv'
<1>0. UNCHANGED <<row, vendor, payments>> /\ WorkInHand
  BY DEF IInv, DecideLocally, NothingToSettle, SettleFails, Settle, payments
<1>1. CASE DecideLocally(c)
  BY <1>0, <1>1, FinishStep DEF DecideLocally, Outcomes, gatewayVars
<1>2. CASE NothingToSettle(c)
  <2>1. run[c].pc = "calling" /\ run[c].todo # << >> /\ EndCall(c)
    BY <1>0, <1>2 DEF NothingToSettle, WorkInHand
  <2>2. \E o \in Outcomes : Finish(c, o)
    BY <1>2, Classified DEF NothingToSettle, Outcomes
  <2>3. PICK o \in Outcomes : Finish(c, o)
    BY <2>2
  <2>4. EndCall(c) \/ (UNCHANGED call /\ run[c].pc = "turn")
    BY <2>1
  <2>5. run[c].pc \in {"turn", "calling"}
    BY <2>1
  <2> QED
    BY <1>0, <2>1, <2>3, <2>4, <2>5, FinishStep
<1>3. CASE SettleFails(c)
  <2>1. run[c].pc = "calling" /\ run[c].todo # << >> /\ EndCall(c) /\ Finish(c, "error")
    BY <1>0, <1>3 DEF SettleFails, WorkInHand
  <2> QED
    BY <1>0, <2>1, FinishStep DEF Outcomes
<1>4. CASE Settle(c) /\ UNCHANGED <<row, overlap>>
  <2>1. run[c].pc = "calling" /\ run[c].todo # << >> /\ EndCall(c)
    BY <1>0, <1>4 DEF Settle, WorkInHand
  <2>2. TypeOK /\ Current(c).row \in Rows
    <3>1. run[c].todo \in Seq(Snapshots)
      BY DEF IInv, TypeOK, Runs
    <3> QED
      BY <2>1, <3>1, TailRows DEF Current, Snapshots, IInv
  <2>3. Finish(c, "already_settled")
    <3>1. CASE row[Current(c).row].by = None /\ row' = [row EXCEPT ![Current(c).row].by = "reconciler"]
      <4>1. row'[Current(c).row].by = "reconciler"
        BY <2>2, <3>1 DEF TypeOK
      <4> QED
        BY <1>4, <3>1, <4>1, NoneAssumption
    <3> QED
      BY <1>4, <3>1 DEF Settle
  <2> QED
    BY <1>0, <2>1, <2>3, FinishStep DEF Outcomes
<1> QED
  BY <1>1, <1>2, <1>3, <1>4
-----------------------------------------------------------------------------
(* The rest of the world                                                   *)

RowType == [by: {None, "payment", "reconciler"}, inquired: BOOLEAN,
            stale: BOOLEAN, expired: BOOLEAN]

\* Everything TypeOK says of /payment and the callbacks.
PaymentsOK ==
    /\ pay \in [Rows -> {"none", "read", "saved"}]
    /\ told \in [Rows -> [payment: Nat, reconciler: Nat]]
    /\ overlap \in SUBSET Rows

\* What is settled stays so, /payment replaces a recovery only where the two
\* overlapped, and a payment the vendor holds it keeps.
Keeps ==
    \A r \in Rows :
        /\ row[r].by # None => /\ row'[r].by # None
                               /\ row'[r].by = "payment" => row[r].by = "payment" \/ r \in overlap
        /\ vendor[r] \in VendorHoldsPayment => vendor'[r] = vendor[r]

\* The transaction in hand.
LEMMA InHand ==
  ASSUME TypeOK, WorkInHand, NEW c \in Callers, run[c].pc \in {"calling", "notifying"}
  PROVE  /\ run[c].todo # << >> /\ Current(c) = run[c].todo[1] /\ 1 \in DOMAIN run[c].todo
         /\ Current(c) \in Snapshots /\ Current(c).row \in Rows
<1>1. run[c].todo \in Seq(Snapshots) /\ run[c].todo # << >>
  BY DEF TypeOK, Runs, WorkInHand
<1> QED
  BY <1>1, TailRows DEF Current, Snapshots

\* The rows of a list are transactions.
LEMMA TodoRows ==
  ASSUME TypeOK, NEW c \in Callers, NEW i \in DOMAIN run[c].todo
  PROVE  run[c].todo[i].row \in Rows
<1>1. run[c].todo \in Seq(Snapshots)
  BY DEF TypeOK, Runs
<1>2. run[c].todo[i] \in Snapshots
  BY <1>1
<1> QED
  BY <1>2 DEF Snapshots

\* What a caller knows stays true while others write.
LEMMA StaysFine ==
  ASSUME IInv, NEW c \in Callers, Keeps, run'[c] = run[c], call'[c] = call[c]
  PROVE  Fine(c)'
<1>0. TypeOK /\ WorkInHand /\ Fine(c)
  BY AllFine DEF IInv
<1>1. \A i \in DOMAIN run[c].todo :
        run[c].todo[i].paid => /\ run[c].todo[i].inquired
                               /\ vendor'[run[c].todo[i].row] \in VendorHoldsPayment
  BY <1>0, TodoRows DEF Fine, Keeps
<1>2. ASSUME call[c].pc = "done"
      PROVE  /\ call[c].reply \in VendorHoldsPayment => vendor'[Current(c).row] = call[c].reply
             /\ Current(c).paid => call[c].reply \notin {"notFound", "pending", "rejected"}
  <2>1. Current(c).row \in Rows
    BY <1>0, <1>2, InHand DEF Fine
  <2> QED
    BY <1>0, <1>2, <2>1 DEF Fine, Keeps
<1> QED
  BY <1>0, <1>1, <1>2 DEF Fine, Current

\* A step of the world, while every caller waits.
LEMMA WorldStep ==
  ASSUME IInv, RestOK', UNCHANGED <<run, call>>, Keeps,
         row' \in [Rows -> RowType], vendor' \in [Rows -> VendorStates], PaymentsOK',
         \A r \in Rows : told'[r].reconciler = told[r].reconciler,
         UNCHANGED overlap, KnownByInquiry', SettledIsPaid', ToldIsSettled'
  PROVE  IInv'
<1>0. TypeOK /\ WorkInHand
  BY DEF IInv
<1>1. \A c \in Callers : Fine(c)'
  BY StaysFine
<1>2. TypeOK'
  BY <1>0 DEF TypeOK, GatewayTypeOK, RestOK, RowType, PaymentsOK
<1>3. WorkInHand' /\ ReadIsDoneOrDue' /\ ReadPaidIsHeld' /\ AnswerIsTrue'
  BY <1>1 DEF Fine, WorkInHand, ReadIsDoneOrDue, ReadPaidIsHeld, AnswerIsTrue
<1>4. NotifierSettled'
  <2>1. ASSUME NEW c \in Callers, run[c].pc = "notifying"
        PROVE  /\ row'[Current(c).row].by # None /\ told'[Current(c).row].reconciler = 0
               /\ row'[Current(c).row].by = "payment" => Current(c).row \in overlap
    <3>1. Current(c).row \in Rows
      BY <1>0, <2>1, InHand
    <3>2. /\ row[Current(c).row].by # None /\ told[Current(c).row].reconciler = 0
          /\ row[Current(c).row].by = "payment" => Current(c).row \in overlap
      BY <2>1 DEF IInv, NotifierSettled
    <3> QED
      BY <3>1, <3>2 DEF Keeps
  <2> QED
    BY <2>1 DEF IInv, NotifierSettled, Current
<1> QED
  BY <1>2, <1>3, <1>4 DEF IInv

\* A step of the world that leaves /payment and the settlements alone.
LEMMA IdleStep ==
  ASSUME IInv, RestOK', UNCHANGED <<run, call, payments>>,
         row' \in [Rows -> RowType], vendor' \in [Rows -> VendorStates],
         \A r \in Rows : row'[r].by = row[r].by,
         \A r \in Rows : vendor[r] \in VendorHoldsPayment => vendor'[r] = vendor[r],
         KnownByInquiry'
  PROVE  IInv' /\ Keeps
<1>1. Keeps /\ ToldIsSettled' /\ PaymentsOK' /\ UNCHANGED <<overlap, told>>
  BY DEF IInv, TypeOK, PaymentsOK, Keeps, ToldIsSettled, ReconcilerToldOnce, PaymentToldOnce, payments
<1>2. SettledIsPaid'
  BY DEF IInv, SettledIsPaid, VendorHoldsPayment
<1> QED
  BY <1>1, <1>2, WorldStep

\* Time and the bank: each changes one row.
LEMMA RowStep ==
  ASSUME IInv, RestOK', NEW r \in Rows,
         \/ GrowsStale(r) \/ Expires(r) \/ VendorInquires(r) \/ VendorDecides(r)
  PROVE  IInv' /\ Keeps
<1>0. /\ TypeOK /\ row \in [Rows -> RowType] /\ vendor \in [Rows -> VendorStates]
      /\ UNCHANGED <<run, call, payments>> /\ KnownByInquiry
  BY DEF IInv, TypeOK, RowType, GrowsStale, Expires, VendorInquires, VendorDecides, gatewayVars
<1>1. CASE GrowsStale(r) \/ Expires(r)
  <2>1. UNCHANGED vendor
    BY <1>1 DEF GrowsStale, Expires
  <2>2. /\ row' \in [Rows -> RowType]
        /\ \A q \in Rows : row'[q].by = row[q].by /\ row'[q].inquired = row[q].inquired
    <3>1. CASE GrowsStale(r)
      BY <1>0, <3>1, ZenonT(30) DEF GrowsStale, RowType
    <3>2. CASE Expires(r)
      BY <1>0, <3>2, ZenonT(30) DEF Expires, RowType
    <3> QED
      BY <1>1, <3>1, <3>2
  <2>3. KnownByInquiry'
    BY <1>0, <2>1, <2>2 DEF KnownByInquiry
  <2> QED
    BY <1>0, <2>1, <2>2, <2>3, IdleStep
<1>2. CASE VendorInquires(r)
  <2>1. /\ row' \in [Rows -> RowType] /\ vendor' \in [Rows -> VendorStates]
        /\ \A q \in Rows : row'[q].by = row[q].by
        /\ row'[r].inquired /\ vendor[r] = "notFound"
        /\ \A q \in Rows \ {r} : row'[q].inquired = row[q].inquired /\ vendor'[q] = vendor[q]
    BY <1>0, <1>2, ZenonT(30) DEF VendorInquires, RowType, KnownByInquiry, VendorStates
  <2>2. /\ KnownByInquiry'
        /\ \A q \in Rows : vendor[q] \in VendorHoldsPayment => vendor'[q] = vendor[q]
    BY <1>0, <2>1 DEF KnownByInquiry, VendorHoldsPayment
  <2> QED
    BY <1>0, <2>1, <2>2, IdleStep
<1>3. CASE VendorDecides(r)
  <2>1. Decisions[r] \subseteq VendorStates
    BY ReconciliationAssumption DEF VendorStates
  <2>2. /\ vendor' \in [Rows -> VendorStates] /\ UNCHANGED row /\ vendor[r] = "pending"
        /\ \A q \in Rows \ {r} : vendor'[q] = vendor[q]
    BY <1>0, <1>3, <2>1 DEF VendorDecides
  <2>3. /\ KnownByInquiry'
        /\ \A q \in Rows : vendor[q] \in VendorHoldsPayment => vendor'[q] = vendor[q]
    BY <1>0, <2>2 DEF KnownByInquiry, VendorHoldsPayment
  <2> QED
    BY <1>0, <2>2, <2>3, IdleStep
<1> QED
  BY <1>1, <1>2, <1>3

\* /payment: what it reads as pending it settles, whoever settled it meanwhile.
LEMMA PaymentStep ==
  ASSUME IInv, RestOK', NEW r \in Rows,
         PaymentReads(r) \/ PaymentSaves(r) \/ PaymentNotifies(r) \/ PaymentStops(r)
  PROVE  IInv' /\ Keeps
<1>0. /\ TypeOK /\ row \in [Rows -> RowType] /\ vendor \in [Rows -> VendorStates] /\ PaymentsOK
      /\ UNCHANGED <<run, call, vendor, overlap>>
      /\ KnownByInquiry /\ SettledIsPaid /\ ReconcilerToldOnce /\ PaymentToldOnce
  BY DEF IInv, TypeOK, RowType, PaymentsOK, ToldIsSettled, PaymentReads, PaymentSaves,
     PaymentNotifies, PaymentStops, gatewayVars
<1>1. ASSUME UNCHANGED row, PaymentsOK', PaymentToldOnce',
             \A q \in Rows : told'[q].reconciler = told[q].reconciler
      PROVE  IInv' /\ Keeps
  <2>1. Keeps /\ KnownByInquiry' /\ SettledIsPaid' /\ ReconcilerToldOnce'
    BY <1>0, <1>1 DEF Keeps, KnownByInquiry, SettledIsPaid, ReconcilerToldOnce
  <2> QED
    BY <1>0, <1>1, <2>1, WorldStep DEF ToldIsSettled
<1>2. CASE PaymentReads(r) \/ PaymentStops(r)
  <2>1. /\ UNCHANGED <<row, told>> /\ PaymentsOK'
        /\ \A q \in Rows \ {r} : pay'[q] = pay[q]
        /\ pay'[r] = "none" \/ (pay'[r] = "read" /\ row[r].by = None)
    BY <1>0, <1>2 DEF PaymentReads, PaymentStops, PaymentsOK
  <2>2. told[r].payment = 0 \/ row[r].by # None
    BY <1>0, NoneAssumption DEF PaymentToldOnce
  <2>3. PaymentToldOnce'
    BY <1>0, <2>1, <2>2 DEF PaymentToldOnce
  <2> QED
    BY <1>1, <2>1, <2>3
<1>3. CASE PaymentNotifies(r)
  <2>1. pay[r] = "saved" /\ told[r].payment = 0 /\ row[r].by = "payment"
    BY <1>0, <1>3 DEF PaymentNotifies, PaymentToldOnce
  <2>2. /\ UNCHANGED row /\ PaymentsOK'
        /\ pay'[r] = "none" /\ told'[r].payment = 1
        /\ \A q \in Rows : told'[q].reconciler = told[q].reconciler
        /\ \A q \in Rows \ {r} : pay'[q] = pay[q] /\ told'[q].payment = told[q].payment
    BY <1>0, <1>3, <2>1 DEF PaymentNotifies, PaymentsOK
  <2>3. PaymentToldOnce'
    BY <1>0, <2>1, <2>2 DEF PaymentToldOnce
  <2> QED
    BY <1>1, <2>2, <2>3
<1>4. CASE PaymentSaves(r)
  <2>1. /\ pay[r] = "read" /\ told[r].payment = 0
        /\ row[r].by # None => row[r].by = "reconciler" /\ r \in overlap
    BY <1>0, <1>4 DEF PaymentSaves, PaymentToldOnce
  <2>2. /\ row' \in [Rows -> RowType] /\ row'[r].by = "payment"
        /\ \A q \in Rows : row'[q].inquired = row[q].inquired
        /\ \A q \in Rows \ {r} : row'[q].by = row[q].by
    BY <1>0, <1>4 DEF PaymentSaves, RowType
  <2>3. /\ UNCHANGED told /\ PaymentsOK' /\ pay'[r] = "saved"
        /\ \A q \in Rows \ {r} : pay'[q] = pay[q]
    BY <1>0, <1>4 DEF PaymentSaves, PaymentsOK
  <2>4. Keeps /\ KnownByInquiry' /\ SettledIsPaid'
    BY <1>0, <2>1, <2>2, NoneAssumption DEF Keeps, KnownByInquiry, SettledIsPaid
  <2>5. ReconcilerToldOnce'
    BY <1>0, <2>1, <2>2, <2>3, NoneAssumption DEF ReconcilerToldOnce
  <2>6. PaymentToldOnce'
    BY <1>0, <2>1, <2>2, <2>3 DEF PaymentToldOnce
  <2> QED
    BY <1>0, <2>2, <2>3, <2>4, <2>5, <2>6, WorldStep DEF ToldIsSettled
<1> QED
  BY <1>2, <1>3, <1>4

\* The process dies: nothing is in hand any more.
LEMMA CrashStep ==
  ASSUME IInv, RestOK', Crash
  PROVE  IInv'
<1>0. /\ TypeOK /\ UNCHANGED <<row, vendor, payments>> /\ run \in [Callers -> Runs]
      /\ BatchSize \in Nat
  BY ReconciliationAssumption DEF IInv, TypeOK, Crash
<1>1. call' = [c \in Callers |-> NoCall]
      /\ run' = [c \in Callers |-> IF run[c].pc = "queued" THEN run[c] ELSE NoRun]
  BY DEF Crash, GatewayCrash
<1>2. run' \in [Callers -> Runs] /\ call' \in [Callers -> Calls]
  BY <1>0, <1>1, NoRunIsRun, CallResults
<1>3. ASSUME NEW c \in Callers
      PROVE  /\ Fine(c)' /\ run'[c].pc \in {"idle", "queued"}
             /\ run'[c].done \subseteq run'[c].read
  <2>1. call'[c].pc = "idle"
    BY <1>1, CallResults
  <2>2. CASE run[c].pc = "queued"
    <3>1. run'[c] = run[c] /\ Fine(c)
      BY <1>1, <2>2, AllFine
    <3> QED
      BY <1>0, <2>1, <2>2, <3>1 DEF Fine
  <2>3. CASE run[c].pc # "queued"
    <3>1. run'[c] = NoRun
      BY <1>1, <2>3
    <3> QED
      BY <1>0, <2>1, <3>1, NoRunIsRun DEF Fine
  <2> QED
    BY <2>2, <2>3
<1>4. TypeOK'
  BY <1>0, <1>2, <1>3 DEF TypeOK, GatewayTypeOK, RestOK, Calls, Fine, payments
<1>5. WorkInHand' /\ ReadIsDoneOrDue' /\ ReadPaidIsHeld' /\ AnswerIsTrue'
  BY <1>3 DEF Fine, WorkInHand, ReadIsDoneOrDue, ReadPaidIsHeld, AnswerIsTrue
<1>6. KnownByInquiry' /\ SettledIsPaid' /\ ToldIsSettled'
  BY <1>0 DEF IInv, KnownByInquiry, SettledIsPaid, ToldIsSettled, ReconcilerToldOnce,
     PaymentToldOnce, payments
<1>7. NotifierSettled'
  BY <1>3 DEF NotifierSettled
<1> QED
  BY <1>4, <1>5, <1>6, <1>7 DEF IInv
-----------------------------------------------------------------------------
(* The settlement and the callback                                         *)

\* The UPDATE found the transaction pending.
LEMMA SettleStep ==
  ASSUME IInv, RestOK', NEW c \in Callers, Settle(c), row[Current(c).row].by = None
  PROVE  IInv' /\ Keeps
<1> DEFINE r == Current(c).row
           x == [run[c] EXCEPT !.pc = "notifying"]
<1>0. /\ TypeOK /\ WorkInHand /\ run[c] \in Runs /\ run \in [Callers -> Runs]
      /\ row \in [Rows -> RowType] /\ call \in [Callers -> Calls] /\ Fine(c) /\ PaymentsOK
      /\ KnownByInquiry /\ SettledIsPaid /\ ReconcilerToldOnce /\ PaymentToldOnce /\ NotifierSettled
  BY AllFine DEF IInv, TypeOK, GatewayTypeOK, RowType, Calls, PaymentsOK, ToldIsSettled
<1>1. /\ run[c].pc = "calling" /\ call[c].pc = "done"
      /\ call[c].reply \in VendorHoldsPayment /\ call[c].reply # "noAmount"
      /\ UNCHANGED <<vendor, told, pay>> /\ EndCall(c)
      /\ row' = [row EXCEPT ![r].by = "reconciler"]
      /\ run' = [run EXCEPT ![c].pc = "notifying"]
      /\ overlap' = IF pay[r] = "read" THEN overlap \cup {r} ELSE overlap
  BY DEF Settle, Classify
<1>2. r \in Rows /\ vendor[r] \in {"paid", "timeout"} /\ told[r].reconciler = 0
  <2>1. r \in Rows
    BY <1>0, <1>1, InHand
  <2> QED
    BY <1>0, <1>1, <2>1 DEF Fine, VendorHoldsPayment, ReconcilerToldOnce
<1>3. /\ row' \in [Rows -> RowType] /\ row'[r].by = "reconciler"
      /\ \A q \in Rows : row'[q].inquired = row[q].inquired
      /\ \A q \in Rows \ {r} : row'[q].by = row[q].by
  BY <1>0, <1>1, <1>2 DEF RowType
<1>4. Keeps /\ KnownByInquiry' /\ SettledIsPaid' /\ ToldIsSettled' /\ PaymentsOK'
      /\ overlap \subseteq overlap'
  <2>1. /\ overlap \subseteq overlap' /\ overlap' \in SUBSET Rows
        /\ pay[r] = "read" => r \in overlap'
    BY <1>0, <1>1, <1>2 DEF PaymentsOK
  <2>2. pay[r] # "saved" /\ told[r].payment = 0
    BY <1>0, <1>2, NoneAssumption DEF PaymentToldOnce
  <2>3. PaymentToldOnce'
    BY <1>0, <1>1, <1>3, <2>1, <2>2 DEF PaymentToldOnce
  <2>4. ReconcilerToldOnce'
    BY <1>0, <1>1, <1>2, <1>3, <2>1, NoneAssumption DEF ReconcilerToldOnce
  <2>5. Keeps /\ KnownByInquiry' /\ SettledIsPaid' /\ PaymentsOK'
    BY <1>0, <1>1, <1>2, <1>3, <2>1, NoneAssumption DEF Keeps, KnownByInquiry, SettledIsPaid, PaymentsOK
  <2> QED
    BY <2>1, <2>3, <2>4, <2>5 DEF ToldIsSettled
<1>5. x \in Runs /\ x.pc = "notifying" /\ x.todo = run[c].todo /\ x.read = run[c].read /\ x.done = run[c].done
  BY <1>0 DEF Runs, RunStages
<1>6. run' = [run EXCEPT ![c] = x]
  BY <1>0, <1>1
<1> HIDE DEF x
<1>7. /\ run' \in [Callers -> Runs] /\ run'[c] = x
      /\ \A d \in Callers \ {c} : run'[d] = run[d]
  BY <1>0, <1>5, <1>6, RunBecomes
<1>8. /\ call' \in [Callers -> Calls] /\ call'[c].pc = "idle"
      /\ \A d \in Callers \ {c} : call'[d] = call[d]
  BY <1>0, <1>1, CallResults DEF EndCall
<1>9. ASSUME NEW d \in Callers
      PROVE  Fine(d)' /\ run'[d].done \subseteq run'[d].read /\ Current(d)' = Current(d)
  <2>1. CASE d = c
    BY <1>0, <1>1, <1>5, <1>7, <1>8, <2>1 DEF Fine, Current
  <2>2. CASE d # c
    <3>1. run'[d] = run[d] /\ call'[d] = call[d]
      BY <1>7, <1>8, <2>2
    <3>2. Fine(d)'
      BY <1>4, <3>1, StaysFine
    <3> QED
      BY <3>1, <3>2 DEF Fine, Current
  <2> QED
    BY <2>1, <2>2
<1>10. TypeOK'
  BY <1>0, <1>1, <1>3, <1>4, <1>7, <1>8, <1>9
     DEF TypeOK, GatewayTypeOK, RestOK, RowType, Calls, Fine, PaymentsOK
<1>11. WorkInHand' /\ ReadIsDoneOrDue' /\ ReadPaidIsHeld' /\ AnswerIsTrue'
  BY <1>9 DEF Fine, WorkInHand, ReadIsDoneOrDue, ReadPaidIsHeld, AnswerIsTrue
<1>12. NotifierSettled'
  <2>1. ASSUME NEW d \in Callers \ {c}, run'[d].pc = "notifying"
        PROVE  /\ Current(d).row # r /\ row'[Current(d).row].by # None
               /\ row'[Current(d).row].by = "payment" => Current(d).row \in overlap'
               /\ told'[Current(d).row].reconciler = 0 /\ run[d].pc = "notifying"
    <3>1. run[d].pc = "notifying"
      BY <1>7, <2>1
    <3>2. /\ row[Current(d).row].by # None /\ told[Current(d).row].reconciler = 0
          /\ row[Current(d).row].by = "payment" => Current(d).row \in overlap
      BY <1>0, <3>1 DEF NotifierSettled
    <3>3. Current(d).row # r /\ Current(d).row \in Rows
      BY <1>0, <3>1, <3>2, InHand, NoneAssumption
    <3> QED
      BY <1>1, <1>3, <1>4, <3>1, <3>2, <3>3
  <2>2. /\ row'[Current(c).row].by = "reconciler" /\ told'[Current(c).row].reconciler = 0
        /\ \A d \in Callers : Current(d)' = Current(d)
    BY <1>1, <1>2, <1>3, <1>9
  <2> QED
    BY <1>0, <2>1, <2>2, NoneAssumption DEF NotifierSettled
<1> QED
  BY <1>4, <1>10, <1>11, <1>12 DEF IInv

\* notifyRecovered.
LEMMA NotifyStep ==
  ASSUME IInv, RestOK', NEW c \in Callers, NotifyRecovered(c)
  PROVE  IInv'
<1> DEFINE r == Current(c).row
<1>0. /\ TypeOK /\ WorkInHand /\ PaymentsOK /\ call \in [Callers -> Calls]
      /\ ReconcilerToldOnce /\ PaymentToldOnce /\ NotifierSettled /\ Fine(c)
      /\ UNCHANGED <<call, row, vendor, pay, overlap>> /\ run[c].pc = "notifying" /\ Finish(c, "settled")
      /\ told' = [told EXCEPT ![r].reconciler = @ + 1] \/ UNCHANGED told
  BY AllFine DEF IInv, TypeOK, GatewayTypeOK, Calls, NotifyRecovered, gatewayVars, PaymentsOK,
     ToldIsSettled
<1>1. /\ run[c].todo # << >> /\ r \in Rows /\ row[r].by # None /\ told[r].reconciler = 0
      /\ row[r].by = "payment" => r \in overlap
      /\ run[c].todo \in Seq(Snapshots)
  BY <1>0, InHand DEF NotifierSettled, TypeOK, Runs
<1>2. /\ run' \in [Callers -> Runs]
      /\ \A d \in Callers \ {c} : run'[d] = run[d]
      /\ run'[c].pc = "turn" /\ run'[c].todo = Tail(run[c].todo)
      /\ run'[c].read = run[c].read
      /\ run'[c].done = run[c].done \cup {Current(c).row}
  BY <1>0, <1>1, Finished DEF Outcomes
<1>3. /\ PaymentsOK' /\ told'[r].reconciler \in {0, 1}
      /\ \A q \in Rows \ {r} : told'[q].reconciler = told[q].reconciler
      /\ \A q \in Rows : told'[q].payment = told[q].payment
  <2>1. CASE UNCHANGED told
    BY <1>0, <1>1, <2>1 DEF PaymentsOK
  <2>2. CASE told' = [told EXCEPT ![r].reconciler = @ + 1]
    <3>1. told' = [told EXCEPT ![r] = [told[r] EXCEPT !.reconciler = 1]]
      BY <1>0, <1>1, <2>2 DEF PaymentsOK
    <3>2. told[r] \in [payment: Nat, reconciler: Nat]
      BY <1>0, <1>1 DEF PaymentsOK
    <3> QED
      BY <1>0, <1>1, <3>1, <3>2 DEF PaymentsOK
  <2> QED
    BY <1>0, <2>1, <2>2
<1>4. ToldIsSettled'
  <2>1. ReconcilerToldOnce'
    BY <1>0, <1>1, <1>3 DEF ReconcilerToldOnce
  <2>2. PaymentToldOnce'
    BY <1>0, <1>3 DEF PaymentToldOnce
  <2> QED
    BY <2>1, <2>2 DEF ToldIsSettled
<1>5. ASSUME NEW d \in Callers
      PROVE  Fine(d)'
  <2>1. CASE d = c
    <3>1. call[c].pc = "idle" /\ BatchSize \in Nat
      BY <1>0, ReconciliationAssumption DEF Fine
    <3>2. /\ Len(Tail(run[c].todo)) <= BatchSize
          /\ RowsOf(run[c].todo) = {Current(c).row} \cup RowsOf(Tail(run[c].todo))
          /\ \A i \in DOMAIN Tail(run[c].todo) :
                i + 1 \in DOMAIN run[c].todo /\ Tail(run[c].todo)[i] = run[c].todo[i + 1]
      BY <1>0, <1>1, <3>1, TailRows DEF Fine, Current
    <3>3. \A i \in DOMAIN run'[c].todo :
            run'[c].todo[i].paid => /\ run'[c].todo[i].inquired
                                    /\ vendor[run'[c].todo[i].row] \in VendorHoldsPayment
      BY <1>0, <1>2, <3>2 DEF Fine
    <3>4. run'[c].read = run'[c].done \cup RowsOf(run'[c].todo) /\ Len(run'[c].todo) <= BatchSize
      BY <1>0, <1>2, <3>2 DEF Fine
    <3> QED
      BY <1>0, <1>2, <2>1, <3>1, <3>3, <3>4 DEF Fine
  <2>2. CASE d # c
    <3>1. run'[d] = run[d] /\ call'[d] = call[d] /\ Keeps
      BY <1>0, <1>2, <2>2 DEF Keeps
    <3> QED
      BY <3>1, StaysFine
  <2> QED
    BY <2>1, <2>2
<1>6. TypeOK'
  <2>1. \A d \in Callers : run'[d].done \subseteq run'[d].read
    BY <1>5 DEF Fine
  <2> QED
    BY <1>0, <1>2, <1>3, <1>5, <2>1 DEF TypeOK, GatewayTypeOK, RestOK, Fine, PaymentsOK
<1>7. WorkInHand' /\ ReadIsDoneOrDue' /\ ReadPaidIsHeld' /\ AnswerIsTrue'
  BY <1>5 DEF Fine, WorkInHand, ReadIsDoneOrDue, ReadPaidIsHeld, AnswerIsTrue
<1>8. KnownByInquiry' /\ SettledIsPaid'
  BY <1>0 DEF IInv, KnownByInquiry, SettledIsPaid
<1>9. NotifierSettled'
  <2>1. ASSUME NEW d \in Callers, run'[d].pc = "notifying"
        PROVE  /\ d # c /\ run[d].pc = "notifying" /\ Current(d)' = Current(d)
               /\ row'[Current(d).row].by # None /\ told'[Current(d).row].reconciler = 0
               /\ row'[Current(d).row].by = "payment" => Current(d).row \in overlap'
    <3>1. d # c /\ run'[d] = run[d] /\ run[d].pc = "notifying"
      BY <1>2, <2>1
    <3>2. Current(d).row # r /\ Current(d).row \in Rows
      BY <1>0, <3>1, InHand DEF NotifierSettled
    <3> QED
      BY <1>0, <1>3, <3>1, <3>2 DEF NotifierSettled, Current
  <2>2. ASSUME NEW d \in Callers, NEW e \in Callers \ {d},
               run'[d].pc = "notifying", run'[e].pc = "notifying"
        PROVE  Current(e)'.row # Current(d)'.row
    BY <1>0, <2>1, <2>2 DEF NotifierSettled
  <2> QED
    BY <2>1, <2>2, SMTT(30) DEF NotifierSettled
<1> QED
  BY <1>4, <1>6, <1>7, <1>8, <1>9 DEF IInv
-----------------------------------------------------------------------------
(* The invariant                                                           *)

\* At first nobody holds anything and nothing is settled.
LEMMA InitIInv == Init => IInv
<1> SUFFICES ASSUME Init
             PROVE  IInv
  OBVIOUS
<1>0. /\ BatchSize \in Nat /\ load \in Loads /\ load.faults \in Nat /\ \A c \in Callers : run[c] = NoRun /\ call[c] = NoCall
      /\ run \in [Callers -> Runs] /\ call \in [Callers -> Calls]
  BY ReconciliationAssumption, NoRunIsRun, CallResults DEF Init, GatewayInit
<1>1. TypeOK
  <2>1. token \in [held: BOOLEAN, left: Nat, local: Nat] /\ mutex \in Callers \cup {None}
    BY DEF Init, GatewayInit, NoToken
  <2>2. GatewayTypeOK(Replies)
    BY <1>0, <2>1 DEF GatewayTypeOK, Calls
  <2>3. row \in [Rows -> [by: {None, "payment", "reconciler"}, inquired: BOOLEAN,
                          stale: BOOLEAN, expired: BOOLEAN]]
    BY DEF Init
  <2>4. vendor \in [Rows -> VendorStates] /\ PaymentsOK /\ faults \in 0 .. load.faults
    BY <1>0 DEF Init, VendorStates, PaymentsOK
  <2>5. \A c \in Callers : /\ Len(run[c].todo) <= BatchSize
                           /\ run[c].done \subseteq run[c].read
                           /\ run[c].pc # "calling" <=> call[c].pc = "idle"
    <3>1. Len(NoRun.todo) <= BatchSize
      BY <1>0, NoRunIsRun
    <3>2. NoRun.done \subseteq NoRun.read /\ NoRun.pc # "calling" /\ NoCall.pc = "idle"
      BY NoRunIsRun, CallResults
    <3> QED
      BY <1>0, <3>1, <3>2
  <2>6. deployment \subseteq Settings /\ load \in Loads /\ unique \in Callers \cup {None}
    BY DEF Init
  <2> QED
    BY <1>0, <2>2, <2>3, <2>4, <2>5, <2>6 DEF TypeOK, PaymentsOK
<1>2. WorkInHand /\ ReadIsDoneOrDue /\ ReadPaidIsHeld /\ AnswerIsTrue /\ NotifierSettled
  BY <1>0, NoRunIsRun, CallResults
     DEF WorkInHand, ReadIsDoneOrDue, ReadPaidIsHeld, AnswerIsTrue, NotifierSettled
<1>3. KnownByInquiry /\ SettledIsPaid
  BY NoneAssumption DEF Init, KnownByInquiry, SettledIsPaid
<1>4. \A r \in Rows : /\ told[r].payment = 0 /\ told[r].reconciler = 0 /\ pay[r] = "none"
                     /\ row[r].by = None
  BY DEF Init
<1>5. ToldIsSettled
  BY <1>4 DEF ToldIsSettled, ReconcilerToldOnce, PaymentToldOnce
<1> QED
  BY <1>1, <1>2, <1>3, <1>5 DEF IInv

\* Every step of a caller, of the world and every failure keeps the invariant.
LEMMA NextIInv == IInv /\ [Next]_vars => IInv'
<1> SUFFICES ASSUME IInv, [Next]_vars
             PROVE  IInv'
  OBVIOUS
<1>1. CASE UNCHANGED vars
  BY <1>1 DEF vars, gatewayVars, sweepVars, IInv, TypeOK, GatewayTypeOK, WorkInHand,
     ReadIsDoneOrDue, KnownByInquiry, ReadPaidIsHeld, AnswerIsTrue, SettledIsPaid, ToldIsSettled,
     ReconcilerToldOnce, PaymentToldOnce, NotifierSettled, Current, payments
<1>2. CASE Next
  <2>0. RestOK' /\ TypeOK
    BY <1>2, RestTyped DEF IInv
  <2>1. CASE World
    <3>1. CASE UniqueExpires \/ Tick
      <4>1. UNCHANGED <<run, call, row, vendor, payments>>
        BY <3>1 DEF UniqueExpires, Tick, GatewayTick, gatewayVars, sweepVars
      <4>2. row' \in [Rows -> RowType] /\ vendor' \in [Rows -> VendorStates] /\ KnownByInquiry'
        BY <4>1 DEF IInv, TypeOK, RowType, KnownByInquiry
      <4> QED
        BY <2>0, <4>1, <4>2, IdleStep
    <3> QED
      BY <2>0, <2>1, <3>1, RowStep, PaymentStep, CrashStep DEF World
  <2>2. ASSUME NEW c \in Callers, Step(c)
        PROVE  IInv'
    <3>1. CASE Settle(c)
      <4>1. row[Current(c).row].by # None => UNCHANGED <<row, overlap>>
        BY <3>1 DEF Settle
      <4> QED
        BY <2>0, <3>1, <4>1, SettleStep, DoneStep
    <3> QED
      BY <2>0, <2>2, <3>1, BeginStep, EndStep, DoneStep, AskStep, CallStep, NotifyStep DEF Step
  <2>3. ASSUME NEW c \in Callers, ScheduleSweep(c) \/ ContextDone(c)
        PROVE  IInv'
    BY <2>0, <2>3, BeginStep, EndStep
  <2>4. ASSUME NEW c \in Callers, NEW r \in load.targets, AdminReconciles(c, r)
        PROVE  IInv'
    BY <2>0, <2>4, BeginStep
  <2> QED
    BY <1>2, <2>1, <2>2, <2>3, <2>4 DEF Next
<1> QED
  BY <1>1, <1>2

\* The invariant holds in every state.
LEMMA Invariance == Spec => []IInv
  BY InitIInv, NextIInv, PTL DEF Spec

\* Every state of the reconciler and its gateway is well formed: batches keep
\* to BatchSize, a call is under way exactly while its run waits for it.
THEOREM TypeCorrect == Spec => []TypeOK
<1>1. IInv => TypeOK
  BY DEF IInv
<1> QED
  BY <1>1, Invariance, PTL

\* Over any number of sweeps, reconciles and payments, interleaved in any way
\* and cut off by any failure or crash, the reconcilers together tell the
\* merchant at most once of a transaction, /payment at most once, and both do
\* only where /payment had read as pending what the reconciler then settled.
THEOREM ToldOnce == Spec => []MerchantToldOnce
<1>1. IInv => MerchantToldOnce
  <2>1. ASSUME IInv, NEW r \in Rows
        PROVE  /\ told[r].reconciler <= 1 /\ told[r].payment <= 1
               /\ told[r].reconciler + told[r].payment > 1 => r \in overlap
    <3>1. told[r].reconciler \in {0, 1} /\ told[r].payment \in {0, 1}
      BY <2>1 DEF IInv, ToldIsSettled, ReconcilerToldOnce, PaymentToldOnce
    <3>2. told[r].reconciler = 1 /\ told[r].payment = 1 => r \in overlap
      BY <2>1 DEF IInv, ToldIsSettled, ReconcilerToldOnce, PaymentToldOnce
    <3> QED
      BY <3>1, <3>2
  <2> QED
    BY <2>1 DEF MerchantToldOnce
<1> QED
  BY <1>1, Invariance, PTL

\* What the reconciler settled the vendor holds a payment for, with an amount.
THEOREM SettledOnEvidence == Spec => []SettledIsPaid
<1>1. IInv => SettledIsPaid
  BY DEF IInv
<1> QED
  BY <1>1, Invariance, PTL

\* When a run is over, every transaction it selected has an outcome, whatever
\* failed on the way.
THEOREM WholeBatch == Spec => []BatchIsCovered
<1>1. IInv => BatchIsCovered
  <2>1. ASSUME IInv, NEW c \in Callers, run[c].todo = << >>
        PROVE  run[c].done = run[c].read
    BY <2>1, NoRunIsRun DEF IInv, ReadIsDoneOrDue
  <2> QED
    BY <2>1 DEF BatchIsCovered
<1> QED
  BY <1>1, Invariance, PTL

-----------------------------------------------------------------------------
(* What an outcome says                                                    *)

\* One caller's outcome, as NotPaidIsEvidence wants it.
Evidence(c) ==
    run'[c].done # run[c].done /\ run'[c].last \in {"not_paid", "pending"}
        => \/ ~Current(c).paid
           \/ run'[c].last = "not_paid" /\ call[c].reply = "unknownFlag"

\* A record that is finished with evidence says so.
LEMMA EvidenceOfFinish ==
  ASSUME IInv, NEW c \in Callers, NEW o \in Outcomes, Finish(c, o), run[c].todo # << >>,
         o \in {"not_paid", "pending"} => \/ ~Current(c).paid
                                          \/ o = "not_paid" /\ call[c].reply = "unknownFlag"
  PROVE  \A d \in Callers : Evidence(d)
<1>1. run'[c].last = o /\ \A d \in Callers \ {c} : run'[d] = run[d]
  BY Finished DEF IInv
<1> QED
  BY <1>1 DEF Evidence

\* Every step that reports an outcome has the vendor's word for it.
LEMMA EvidenceStep ==
  ASSUME IInv, Next
  PROVE  \A d \in Callers : Evidence(d)
<1>0. TypeOK /\ WorkInHand /\ run \in [Callers -> Runs] /\ None \notin {"not_paid", "pending"}
  BY NoneAssumption DEF IInv, TypeOK, Outcomes
<1>1. CASE UNCHANGED run
  BY <1>1 DEF Evidence
<1>2. CASE Crash
  <2>1. \A d \in Callers : run'[d] = run[d] \/ run'[d] = NoRun
    BY <1>2 DEF Crash
  <2> QED
    BY <1>0, <2>1, NoRunIsRun DEF Evidence
<1>3. ASSUME NEW c \in Callers, NEW x, x.last = None \/ x.done = run[c].done,
             run' = [run EXCEPT ![c] = x]
      PROVE  \A d \in Callers : Evidence(d)
  BY <1>0, <1>3 DEF Evidence
<1>4. ASSUME NEW c \in Callers,
             \/ ScheduleSweep(c) \/ ContextDone(c) \/ SweepSelects(c) \/ SelectFails(c)
             \/ AskVendor(c) \/ RunReturns(c) \/ \E r \in load.targets : AdminReconciles(c, r)
             \/ (Settle(c) /\ row[Current(c).row].by = None)
      PROVE  \A d \in Callers : Evidence(d)
  <2>0. run[c] \in Runs
    BY <1>0
  <2>1. CASE run' = [run EXCEPT ![c] = NoRun]
    BY <1>3, <2>1, NoRunIsRun
  <2>2. CASE ScheduleSweep(c)
    <3>1. [NoRun EXCEPT !.pc = "queued", !.trigger = "sweep"].last = None
      BY DEF NoRun
    <3> QED
      BY <1>3, <2>2, <3>1 DEF ScheduleSweep
  <2>3. ASSUME NEW t, NEW batch, run' = [run EXCEPT ![c] = Over(t, batch)]
        PROVE  \A d \in Callers : Evidence(d)
    <3>1. Over(t, batch).last = None
      BY DEF Over, NoRun
    <3> QED
      BY <1>3, <2>3, <3>1
  <2>4. ASSUME NEW b, run' = [run EXCEPT ![c].ctx = b]
        PROVE  \A d \in Callers : Evidence(d)
    <3> DEFINE x == [run[c] EXCEPT !.ctx = b]
    <3>1. x.done = run[c].done /\ run' = [run EXCEPT ![c] = x]
      BY <1>0, <2>0, <2>4 DEF Runs
    <3> HIDE DEF x
    <3> QED
      BY <1>3, <3>1
  <2>5. CASE AskVendor(c)
    <3> DEFINE x == [run[c] EXCEPT !.pc = "calling", !.last = None]
    <3>1. x.done = run[c].done /\ run' = [run EXCEPT ![c] = x]
      BY <1>0, <2>0, <2>5 DEF Runs, AskVendor
    <3> HIDE DEF x
    <3> QED
      BY <1>3, <3>1
  <2>6. CASE Settle(c) /\ row[Current(c).row].by = None
    <3> DEFINE x == [run[c] EXCEPT !.pc = "notifying"]
    <3>1. x.done = run[c].done /\ run' = [run EXCEPT ![c] = x]
      BY <1>0, <2>0, <2>6 DEF Runs, Settle
    <3> HIDE DEF x
    <3> QED
      BY <1>3, <3>1
  <2> QED
    BY <1>4, <2>1, <2>2, <2>3, <2>4, <2>5, <2>6
       DEF ContextDone, SweepSelects, SelectFails, RunReturns, AdminReconciles
<1>5. ASSUME NEW c \in Callers, DecideLocally(c)
      PROVE  \A d \in Callers : Evidence(d)
  <2>1. run[c].todo # << >> /\ run[c].todo \in Seq(Snapshots)
    BY <1>0, <1>5 DEF DecideLocally, Runs
  <2>2. 1 \in DOMAIN run[c].todo /\ Current(c) = run[c].todo[1]
    BY <2>1, TailRows DEF Current
  <2>3. Current(c).paid => Current(c).inquired
    BY <2>2 DEF IInv, ReadPaidIsHeld
  <2>4. CASE Finish(c, "already_settled")
    BY <2>1, <2>4, EvidenceOfFinish DEF Outcomes
  <2>5. CASE ~Current(c).inquired /\ Finish(c, "not_paid")
    BY <2>1, <2>3, <2>5, EvidenceOfFinish DEF Outcomes
  <2> QED
    BY <1>5, <2>4, <2>5 DEF DecideLocally
<1>6. ASSUME NEW c \in Callers, NothingToSettle(c)
      PROVE  \A d \in Callers : Evidence(d)
  <2>1. run[c].todo # << >> /\ call[c].pc = "done"
    BY <1>0, <1>6 DEF NothingToSettle, WorkInHand
  <2>2. CASE Finish(c, "error")
    BY <2>1, <2>2, EvidenceOfFinish DEF Outcomes
  <2>3. CASE Finish(c, Classify(call[c].reply))
    <3>1. Classify(call[c].reply) \in {"not_paid", "pending"}
            => \/ call[c].reply \in {"notFound", "pending", "rejected"}
               \/ call[c].reply = "unknownFlag" /\ Classify(call[c].reply) = "not_paid"
      BY DEF Classify, VendorHoldsPayment
    <3>2. Classify(call[c].reply) \in {"not_paid", "pending"}
            => \/ ~Current(c).paid
               \/ Classify(call[c].reply) = "not_paid" /\ call[c].reply = "unknownFlag"
      BY <2>1, <3>1 DEF IInv, AnswerIsTrue
    <3> QED
      BY <2>1, <2>3, <3>2, Classified, EvidenceOfFinish
  <2> QED
    BY <1>6, <2>2, <2>3 DEF NothingToSettle
<1>7. ASSUME NEW c \in Callers,
             \/ SettleFails(c) \/ NotifyRecovered(c)
             \/ (Settle(c) /\ row[Current(c).row].by # None)
      PROVE  \A d \in Callers : Evidence(d)
  <2>1. run[c].todo # << >>
    BY <1>0, <1>7 DEF SettleFails, NotifyRecovered, Settle, WorkInHand
  <2>2. \E o \in Outcomes \ {"not_paid", "pending"} : Finish(c, o)
    BY <1>7 DEF SettleFails, NotifyRecovered, Settle, Outcomes
  <2> QED
    BY <2>1, <2>2, EvidenceOfFinish
<1>8. ASSUME NEW c \in Callers, Step(c)
      PROVE  \A d \in Callers : Evidence(d)
  <2>1. CASE \/ GetsToken(c) \/ TokenReceived(c) \/ TokenRefused(c) \/ VendorAnswers(c) \/ NoAnswer(c)
    <3>1. UNCHANGED run
      BY <2>1 DEF GetsToken, TokenReceived, TokenRefused, VendorAnswers, NoAnswer, sweepVars
    <3> QED
      BY <1>1, <3>1
  <2> QED
    BY <1>4, <1>5, <1>6, <1>7, <1>8, <2>1 DEF Step
<1>9. CASE World
  <2>1. Crash \/ UNCHANGED run
    BY <1>9 DEF World, GrowsStale, Expires, VendorInquires, VendorDecides,
       PaymentReads, PaymentSaves, PaymentNotifies, PaymentStops,
       UniqueExpires, Tick, sweepVars
  <2> QED
    BY <1>1, <1>2, <2>1
<1> QED
  BY <1>4, <1>8, <1>9 DEF Next

\* A payment the vendor held when the transaction was read is never recorded
\* as not paid or pending, whatever failed, except on the one answer of the
\* vendor that says 2002600 and carries none of the flags the code knows.
THEOREM DenialIsEvidence == Spec => NotPaidIsEvidence
<1> DEFINE Denial == \A c \in Callers :
                        run'[c].done # run[c].done /\ run'[c].last \in {"not_paid", "pending"}
                            => \/ ~Current(c).paid
                               \/ run'[c].last = "not_paid" /\ call[c].reply = "unknownFlag"
<1>1. IInv /\ [Next]_vars => [Denial]_vars
  BY EvidenceStep DEF Evidence
<1> QED
  BY <1>1, Invariance, PTL DEF Spec, NotPaidIsEvidence
-----------------------------------------------------------------------------
(* The token                                                               *)

\* The mutex and the token request.
LEMMA MutexStep ==
  ASSUME TypeOK, OneTokenRequest, [Next]_vars
  PROVE  OneTokenRequest'
<1>0. /\ call \in [Callers -> Calls] /\ None \notin Callers
      /\ \A c \in Callers : call[c].pc = "fetching" <=> mutex = c
  BY GatewayAssumption DEF TypeOK, GatewayTypeOK, Calls, OneTokenRequest
<1>1. CASE UNCHANGED <<mutex, call>>
  BY <1>0, <1>1 DEF OneTokenRequest
<1>2. ASSUME NEW c \in Callers, NEW x, call' = [call EXCEPT ![c] = x],
             \/ UNCHANGED mutex /\ (x.pc = "fetching" <=> call[c].pc = "fetching")
             \/ mutex = c /\ mutex' = None /\ x.pc # "fetching"
             \/ mutex = None /\ mutex' = c /\ x.pc = "fetching"
      PROVE  OneTokenRequest'
  <2>1. call'[c] = x /\ \A d \in Callers \ {c} : call'[d] = call[d]
    BY <1>0, <1>2
  <2> QED
    BY <1>0, <1>2, <2>1 DEF OneTokenRequest
<1>3. CASE Crash
  <2>1. \A c \in Callers : call'[c] = NoCall
    BY <1>3 DEF Crash, GatewayCrash
  <2>2. mutex' = None
    BY <1>3 DEF Crash, GatewayCrash
  <2> QED
    BY <1>0, <2>1, <2>2, CallResults DEF OneTokenRequest
<1>4. ASSUME NEW c \in Callers, Step(c), ~UNCHANGED <<mutex, call>>
      PROVE  OneTokenRequest'
  <2>0. call[c] \in Calls
    BY <1>0
  <2>1. CASE AskVendor(c)
    <3> DEFINE x == [NoCall EXCEPT !.pc = "token"]
    <3>1. x.pc = "token" /\ call' = [call EXCEPT ![c] = x] /\ UNCHANGED mutex
      BY <2>1 DEF AskVendor, BeginCall, NoCall
    <3>2. call[c].pc = "idle"
      BY <2>1 DEF AskVendor, TypeOK
    <3> HIDE DEF x
    <3> QED
      BY <1>2, <3>1, <3>2
  <2>2. CASE UseCachedToken(c)
    <3> DEFINE x == [call[c] EXCEPT !.pc = "sent", !.left = token.left]
    <3>1. x.pc = "sent" /\ call' = [call EXCEPT ![c] = x] /\ UNCHANGED mutex /\ call[c].pc = "token"
      BY <1>0, <2>0, <2>2 DEF UseCachedToken, Calls
    <3> HIDE DEF x
    <3> QED
      BY <1>2, <3>1
  <2>3. CASE FetchToken(c)
    <3> DEFINE x == [call[c] EXCEPT !.pc = "fetching"]
    <3>1. x.pc = "fetching" /\ call' = [call EXCEPT ![c] = x] /\ mutex = None /\ mutex' = c
      BY <1>0, <2>0, <2>3 DEF FetchToken, Calls
    <3> HIDE DEF x
    <3> QED
      BY <1>2, <3>1
  <2>4. CASE TokenReceived(c)
    <3>1. PICK raw \in ExpiresIns, delay \in Delays : TokenArrives(c, raw, delay)
      BY <2>4 DEF TokenReceived
    <3> DEFINE x == [call[c] EXCEPT !.pc = "sent", !.left = Positive(VendorLifetime(raw) - delay)]
    <3>2. x.pc = "sent" /\ call' = [call EXCEPT ![c] = x] /\ mutex' = None /\ call[c].pc = "fetching"
      BY <1>0, <2>0, <3>1 DEF TokenArrives, Calls
    <3> HIDE DEF x
    <3>3. mutex = c
      BY <1>0, <3>2
    <3> QED
      BY <1>2, <3>2, <3>3
  <2>5. CASE TokenRefused(c)
    <3>1. call' = [call EXCEPT ![c] = Failed] /\ mutex' = None /\ call[c].pc = "fetching"
      BY <2>5 DEF TokenRefused, TokenFails
    <3>2. mutex = c
      BY <1>0, <3>1
    <3> QED
      BY <1>2, <3>1, <3>2, CallResults
  <2>6. CASE VendorAnswers(c) \/ NoAnswer(c) \/ NothingToSettle(c) \/ Settle(c) \/ SettleFails(c)
    <3>1. call[c].pc \in {"sent", "done"} /\ UNCHANGED mutex
      BY <2>6 DEF VendorAnswers, NoAnswer, NothingToSettle, Settle, SettleFails, ResponseArrives,
         RequestFails
    <3>2. \E x : x.pc # "fetching" /\ call' = [call EXCEPT ![c] = x]
      <4>1. CASE VendorAnswers(c)
        <5>1. PICK delay, reply : ResponseArrives(c, reply, delay)
          BY <4>1 DEF VendorAnswers
        <5> DEFINE x == [pc |-> "done", left |-> 0, live |-> call[c].left > delay,
                         reply |-> IF call[c].left > delay THEN reply ELSE "unauthorized"]
        <5>2. x.pc = "done" /\ call' = [call EXCEPT ![c] = x]
          BY <5>1 DEF ResponseArrives
        <5> HIDE DEF x
        <5> QED
          BY <5>2
      <4>2. CASE NoAnswer(c)
        BY <4>2, CallResults DEF NoAnswer, RequestFails
      <4>3. CASE NothingToSettle(c) \/ Settle(c) \/ SettleFails(c)
        BY <4>3, CallResults DEF NothingToSettle, Settle, SettleFails, EndCall
      <4> QED
        BY <2>6, <4>1, <4>2, <4>3
    <3> QED
      BY <1>2, <3>1, <3>2
  <2> QED
    BY <1>4, <2>1, <2>2, <2>3, <2>4, <2>5, <2>6
       DEF Step, GetsToken, SweepSelects, SelectFails, DecideLocally, NotifyRecovered, RunReturns,
           gatewayVars
<1>5. \/ UNCHANGED <<mutex, call>> \/ Crash \/ \E c \in Callers : Step(c)
  BY DEF Next, World, GrowsStale, Expires, VendorInquires, VendorDecides,
     PaymentReads, PaymentSaves, PaymentNotifies, PaymentStops,
     UniqueExpires, Tick, GatewayTick, ScheduleSweep, ContextDone, AdminReconciles, gatewayVars, vars
<1> QED
  BY <1>1, <1>3, <1>4, <1>5

\* However many calls to the vendor are under way, one of them at most is
\* asking for a token, and it is the one that holds the provider's mutex.
THEOREM TokenAskedForOnce == Spec => []OneTokenRequest
<1>1. Init => OneTokenRequest
  BY GatewayAssumption, CallResults DEF Init, GatewayInit, OneTokenRequest
<1> QED
  BY <1>1, MutexStep, TypeCorrect, PTL DEF Spec

\* A request that is sent has time enough to arrive.
LEMMA InTimeStep ==
  ASSUME MarginCoversTimeouts, GatewayInv, TypeOK', [Next]_vars
  PROVE  GatewayInv'
<1>0. /\ call \in [Callers -> Calls] /\ token \in [held: BOOLEAN, left: Nat, local: Nat]
      /\ RequestTimeout \in Nat /\ TokenRefreshMargin \in Nat
      /\ 2 * RequestTimeout <= TokenRefreshMargin /\ token.left \in Nat /\ token.local \in Nat
      /\ TokenOutlivesCache /\ SentInTime /\ TokenIsLiveOnArrival
  BY GatewayAssumption DEF GatewayInv, MarginCoversTimeouts, TypeOK, GatewayTypeOK, Calls
<1>1. CASE UNCHANGED <<token, call>>
  BY <1>0, <1>1 DEF GatewayInv, TokenOutlivesCache, SentInTime, TokenIsLiveOnArrival
<1>2. ASSUME NEW c \in Callers, NEW x, call' = [call EXCEPT ![c] = x],
             x.pc = "sent" => x.left > RequestTimeout, x.live, TokenOutlivesCache'
      PROVE  GatewayInv'
  <2>1. call'[c] = x /\ \A d \in Callers \ {c} : call'[d] = call[d]
    BY <1>0, <1>2
  <2>2. SentInTime' /\ TokenIsLiveOnArrival'
    BY <1>0, <1>2, <2>1 DEF SentInTime, TokenIsLiveOnArrival
  <2> QED
    BY <1>2, <2>2 DEF GatewayInv
<1>3. NoToken.local = 0 /\ NoToken.left = 0
  BY DEF NoToken
<1>4. CASE Crash
  <2>1. token' = NoToken /\ \A c \in Callers : call'[c] = NoCall
    BY <1>4 DEF Crash, GatewayCrash
  <2> QED
    BY <1>0, <1>3, <2>1, CallResults
       DEF GatewayInv, TokenOutlivesCache, SentInTime, TokenIsLiveOnArrival
<1>5. CASE Tick
  <2>1. /\ UNCHANGED call
        /\ token' = [token EXCEPT !.left = Positive(token.left - 1), !.local = token.local - 1]
    BY <1>5 DEF Tick, GatewayTick
  <2>2. token'.left = Positive(token.left - 1) /\ token'.local = token.local - 1
    BY <1>0, <2>1
  <2>3. Positive(token.left - 1) \in Nat /\ Positive(token.left - 1) >= token.left - 1
    BY <1>0, PositivePart
  <2>4. TokenOutlivesCache'
    BY <1>0, <2>2, <2>3 DEF TokenOutlivesCache
  <2> QED
    BY <1>0, <2>1, <2>4 DEF GatewayInv, SentInTime, TokenIsLiveOnArrival
<1>6. ASSUME NEW c \in Callers, Step(c), ~UNCHANGED <<token, call>>
      PROVE  GatewayInv'
  <2>0. call[c] \in Calls /\ call[c].live /\ (UNCHANGED token => TokenOutlivesCache')
    BY <1>0 DEF TokenOutlivesCache, TokenIsLiveOnArrival
  <2>1. CASE AskVendor(c)
    <3> DEFINE x == [NoCall EXCEPT !.pc = "token"]
    <3>1. x.pc = "token" /\ x.live /\ call' = [call EXCEPT ![c] = x] /\ UNCHANGED token
      BY <2>1 DEF AskVendor, BeginCall, NoCall
    <3> HIDE DEF x
    <3> QED
      BY <1>2, <2>0, <3>1
  <2>2. CASE UseCachedToken(c)
    <3> DEFINE x == [call[c] EXCEPT !.pc = "sent", !.left = token.left]
    <3>1. x.left = token.left /\ x.live /\ call' = [call EXCEPT ![c] = x] /\ UNCHANGED token
      BY <1>0, <2>0, <2>2 DEF UseCachedToken, Calls
    <3>2. token.left > RequestTimeout
      BY <1>0, <2>2 DEF UseCachedToken, CachedTokenIsFresh, TokenOutlivesCache
    <3> HIDE DEF x
    <3> QED
      BY <1>2, <2>0, <3>1, <3>2
  <2>3. CASE FetchToken(c)
    <3> DEFINE x == [call[c] EXCEPT !.pc = "fetching"]
    <3>1. x.pc = "fetching" /\ x.live /\ call' = [call EXCEPT ![c] = x] /\ UNCHANGED token
      BY <1>0, <2>0, <2>3 DEF FetchToken, Calls
    <3> HIDE DEF x
    <3> QED
      BY <1>2, <2>0, <3>1
  <2>4. CASE TokenReceived(c)
    <3>1. PICK raw \in ExpiresIns, delay \in Delays : TokenArrives(c, raw, delay)
      BY <2>4 DEF TokenReceived
    <3> DEFINE left == Positive(VendorLifetime(raw) - delay)
               x == [call[c] EXCEPT !.pc = "sent", !.left = left]
    <3>2. /\ VendorLifetime(raw) = NormalizeExpiresIn(raw) /\ NormalizeExpiresIn(raw) \in Nat
          /\ NormalizeExpiresIn(raw) > 2 * RequestTimeout
          /\ delay \in 0 .. RequestTimeout
      BY Lifetimes DEF MarginCoversTimeouts, Delays
    <3>3. left \in Nat /\ left >= NormalizeExpiresIn(raw) - delay
      BY <1>0, <3>2, PositivePart
    <3>4. /\ token' = [held |-> TRUE, left |-> left, local |-> NormalizeExpiresIn(raw)]
          /\ call' = [call EXCEPT ![c] = x]
      BY <1>0, <3>1 DEF TokenArrives
    <3> HIDE DEF left
    <3>5. x.left = left /\ x.live
      BY <2>0 DEF Calls
    <3> HIDE DEF x
    <3>6. left > RequestTimeout /\ NormalizeExpiresIn(raw) <= left + RequestTimeout
      BY <1>0, <3>2, <3>3
    <3>7. TokenOutlivesCache'
      BY <3>4, <3>6 DEF TokenOutlivesCache
    <3> QED
      BY <1>2, <3>4, <3>5, <3>6, <3>7
  <2>5. CASE TokenRefused(c)
    <3>1. call' = [call EXCEPT ![c] = Failed] /\ token' = NoToken
      BY <2>5 DEF TokenRefused, TokenFails
    <3>2. TokenOutlivesCache'
      BY <1>0, <1>3, <3>1 DEF TokenOutlivesCache
    <3> QED
      BY <1>2, <3>1, <3>2, CallResults
  <2>6. CASE VendorAnswers(c)
    <3>0. PICK delay \in Delays : \E reply : ResponseArrives(c, reply, delay)
      BY <2>6 DEF VendorAnswers
    <3>1. PICK reply : ResponseArrives(c, reply, delay)
      BY <3>0
    <3>2. call[c].left > delay
      BY <1>0, <2>0, <3>1 DEF ResponseArrives, SentInTime, Delays, Calls
    <3> DEFINE x == [pc |-> "done", left |-> 0, live |-> TRUE, reply |-> reply]
    <3>3. x.pc = "done" /\ x.live /\ call' = [call EXCEPT ![c] = x] /\ UNCHANGED token
      BY <3>1, <3>2 DEF ResponseArrives
    <3> HIDE DEF x
    <3> QED
      BY <1>2, <2>0, <3>3
  <2>7. CASE NoAnswer(c)
    BY <1>2, <2>0, <2>7, CallResults DEF NoAnswer, RequestFails
  <2>8. CASE NothingToSettle(c) \/ Settle(c) \/ SettleFails(c)
    BY <1>2, <2>0, <2>8, CallResults DEF NothingToSettle, Settle, SettleFails, EndCall
  <2> QED
    BY <1>6, <2>1, <2>2, <2>3, <2>4, <2>5, <2>6, <2>7, <2>8
       DEF Step, GetsToken, SweepSelects, SelectFails, DecideLocally, NotifyRecovered, RunReturns,
           gatewayVars
<1>7. \/ UNCHANGED <<token, call>> \/ Crash \/ Tick \/ \E c \in Callers : Step(c)
  BY DEF Next, World, GrowsStale, Expires, VendorInquires, VendorDecides,
     PaymentReads, PaymentSaves, PaymentNotifies, PaymentStops,
     UniqueExpires, ScheduleSweep, ContextDone, AdminReconciles, gatewayVars, vars
<1> QED
  BY <1>1, <1>4, <1>5, <1>6, <1>7

\* Where the refresh margin covers two request timeouts, the answer's way and
\* the request's, and no token is shorter-lived than that, no request reaches
\* the vendor with a token it no longer honours: the margin of 60 seconds and
\* the default timeout of 30 are just enough.
THEOREM TokenArrivesLive ==
  ASSUME MarginCoversTimeouts
  PROVE  Spec => []TokenIsLiveOnArrival
<1>1. Init /\ TypeOK => GatewayInv
  BY GatewayAssumption, CallResults
     DEF Init, GatewayInit, GatewayInv, NoToken, TokenOutlivesCache, SentInTime, TokenIsLiveOnArrival
<1>2. GatewayInv /\ TypeOK' /\ [Next]_vars => GatewayInv'
  BY InTimeStep
<1>3. GatewayInv => TokenIsLiveOnArrival
  BY DEF GatewayInv
<1> QED
  BY <1>1, <1>2, <1>3, TypeCorrect, PTL DEF Spec
=============================================================================
