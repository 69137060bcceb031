--------------------------- MODULE Reconciliation ---------------------------
(***************************************************************************)
(* The reconciler with its gateway: the periodic sweep over stale pending  *)
(* transactions and the operator's reconcile of one number, each a loop of *)
(* vendor calls that ends in a conditional settlement.  Transactions are   *)
(* numbered in the order of their created_at.  What the settlement means   *)
(* for a bill is in FixedBillVA and VariableBillVA.                        *)
(***************************************************************************)
EXTENDS VendorGateway, Sequences, FiniteSets

CONSTANTS
    MaxRow,       \* transactions: 1 .. MaxRow, oldest first
    Old,          \* transactions inquired and past the threshold from the start
    Decisions,    \* how the vendor may decide each of them
    BatchSize,    \* ReconcileConfig.BatchSize
    Loads         \* bound: the callers and transactions that take part, those of
                  \* them that operators ask about (targets), that have an
                  \* expired_date or whose payment is flagged, and the failures

Rows == 1 .. MaxRow

ASSUME ReconciliationAssumption ==
    /\ MaxRow \in Nat \ {0} /\ BatchSize \in Nat \ {0}
    /\ Old \subseteq Rows
    /\ Loads \subseteq [callers: SUBSET Callers, rows: SUBSET Rows,
                        targets: SUBSET Rows, expiring: SUBSET Rows,
                        flagged: SUBSET Rows, faults: Nat]
    /\ Decisions \in [Rows -> SUBSET {"rejected", "paid", "timeout", "noAmount"}]

VARIABLES
    deployment, \* which parts of the reconciler's configuration are present
    load,       \* the load that was chosen
    row,        \* va_transactions: what the sweep reads and writes of them
    vendor,     \* what the vendor holds about each transaction
    run,        \* each caller's Sweep or Reconcile
    unique,     \* asynq's unique lock of the sweep task: its holder
    pay,        \* the /payment request of each transaction
    told,       \* payment.received callbacks of a transaction, by who enqueued them
    overlap,    \* history: settled under a /payment that had read them pending
    faults      \* failures so far

payments == <<pay, told, overlap>>
sweepVars == <<deployment, load, row, vendor, run, unique, payments>>
vars == <<gatewayVars, sweepVars, faults>>

-----------------------------------------------------------------------------

\* What the vendor's status service says of a transaction: 4042601; flag 03;
\* 01; 00; 02; and 00 with a blank paidAmount.
VendorStates == {"notFound", "pending", "rejected", "paid", "timeout", "noAmount"}
VendorHoldsPayment == {"paid", "timeout", "noAmount"}

\* Answers that say nothing about the payment: another 4xx with a body, a body
\* without virtualAccountData, and a 2002600 with a flag that is blank or none
\* of the four.
Unhelpful == {"badRequest", "noData", "unknownFlag"}

Outcomes == {"already_settled", "not_paid", "pending", "settled", "error"}

ASSUME NoneAssumption == None \notin Outcomes \cup {"payment", "reconciler"}

Settings == {"enabled", "vendor", "baseURL", "credentials"}

\* buildReconciler: a reconciler only when switched on, for a vendor that is
\* configured, with somewhere to send the call and something to sign it with.
Configured == deployment = Settings

\* A transaction as a SELECT returns it; "paid" records, for the properties,
\* whether the vendor held a payment at that moment.
Snapshot(r) == [row |-> r, settled |-> row[r].by # None,
                inquired |-> row[r].inquired,
                paid |-> vendor[r] \in VendorHoldsPayment]

\* What Sweep or Reconcile keeps.  The rows it read, the rows it has an outcome
\* for and the last outcome are for the properties.
NoRun == [pc |-> "idle", trigger |-> None, ctx |-> TRUE, todo |-> << >>,
          read |-> {}, done |-> {}, last |-> None]

RunStages == {"idle", "queued", "turn", "calling", "notifying"}

\* What PaymentStatus may return, a transaction as it was read, and a run.
Replies == VendorStates \cup Unhelpful \cup {"error", "unauthorized", None}
Snapshots == [row: Rows, settled: BOOLEAN, inquired: BOOLEAN, paid: BOOLEAN]
Runs == [pc: RunStages, trigger: {None, "sweep", "admin"}, ctx: BOOLEAN,
         todo: Seq(Snapshots), read: SUBSET Rows, done: SUBSET Rows,
         last: Outcomes \cup {None}]

TypeOK ==
    /\ GatewayTypeOK(Replies)
    /\ deployment \subseteq Settings
    /\ load \in Loads
    /\ row \in [Rows -> [by: {None, "payment", "reconciler"}, inquired: BOOLEAN,
                         stale: BOOLEAN, expired: BOOLEAN]]
    /\ vendor \in [Rows -> VendorStates]
    /\ run \in [Callers -> Runs]
    /\ \A c \in Callers :
        /\ Len(run[c].todo) <= BatchSize
        /\ run[c].done \subseteq run[c].read
        /\ run[c].pc # "calling" <=> call[c].pc = "idle"
    /\ unique \in Callers \cup {None}
    /\ pay \in [Rows -> {"none", "read", "saved"}]
    /\ told \in [Rows -> [payment: Nat, reconciler: Nat]]
    /\ overlap \in SUBSET Rows
    /\ faults \in 0 .. load.faults

Init ==
    /\ GatewayInit
    /\ deployment \in {Settings, Settings \ {"credentials"}}
    /\ load \in Loads
    /\ row = [r \in Rows |-> [by |-> None, inquired |-> r \in Old,
                              stale |-> r \in Old, expired |-> FALSE]]
    /\ vendor = [r \in Rows |-> IF r \in Old THEN "pending" ELSE "notFound"]
    /\ run = [c \in Callers |-> NoRun]
    /\ unique = None
    /\ pay = [r \in Rows |-> "none"]
    /\ told = [r \in Rows |-> [payment |-> 0, reconciler |-> 0]]
    /\ overlap = {}
    /\ faults = 0

\* The environment fails.
Fault == faults < load.faults /\ faults' = faults + 1

\* A step of c that fails: the environment's doing, or, once the context of c
\* is done, the fate of whatever c calls.
Fails(c) ==
    \/ run[c].ctx /\ Fault
    \/ ~run[c].ctx /\ UNCHANGED faults

-----------------------------------------------------------------------------
(* The rest of the world                                                   *)

\* A transaction passes the pending threshold; older ones did before it.
GrowsStale(r) ==
    /\ r \in load.rows /\ ~row[r].stale
    /\ \A q \in Rows : q < r => row[q].stale
    /\ row' = [row EXCEPT ![r].stale = TRUE]
    /\ UNCHANGED <<gatewayVars, deployment, load, vendor, run, unique, payments, faults>>

\* Its expired_date passes.
Expires(r) ==
    /\ r \in load.expiring /\ ~row[r].expired
    /\ row' = [row EXCEPT ![r].expired = TRUE]
    /\ UNCHANGED <<gatewayVars, deployment, load, vendor, run, unique, payments, faults>>

\* The vendor inquires: the row takes the vendor's inquiryRequestId in place of
\* the placeholder, and the vendor has a transaction to look up.
VendorInquires(r) ==
    /\ r \in load.rows /\ ~row[r].inquired /\ row[r].by = None
    /\ row' = [row EXCEPT ![r].inquired = TRUE]
    /\ vendor' = [vendor EXCEPT ![r] = "pending"]
    /\ UNCHANGED <<gatewayVars, deployment, load, run, unique, payments, faults>>

\* The customer pays, or the vendor rejects the payment.
VendorDecides(r) ==
    /\ vendor[r] = "pending" /\ ~row[r].expired
    /\ \E v \in Decisions[r] : vendor' = [vendor EXCEPT ![r] = v]
    /\ UNCHANGED <<gatewayVars, deployment, load, row, run, unique, payments, faults>>

-----------------------------------------------------------------------------
(* /payment, as far as the reconciler meets it: the one settlement of a    *)
(* bill.  Payments that overlap each other are FixedBillVA's.              *)

\* The payment flag arrives after all: the transaction is read, and it is
\* pending and its date has not passed.
PaymentReads(r) ==
    /\ r \in load.flagged /\ pay[r] = "none" /\ vendor[r] \in VendorHoldsPayment
    /\ row[r].by = None /\ ~row[r].expired
    /\ pay' = [pay EXCEPT ![r] = "read"]
    /\ UNCHANGED <<gatewayVars, deployment, load, row, vendor, run, unique, told, overlap, faults>>

\* SavePayment: an upsert without a guard on the status.
PaymentSaves(r) ==
    /\ pay[r] = "read"
    /\ pay' = [pay EXCEPT ![r] = "saved"]
    /\ row' = [row EXCEPT ![r].by = "payment"]
    /\ UNCHANGED <<gatewayVars, deployment, load, vendor, run, unique, told, overlap, faults>>

\* The merchant is called back.
PaymentNotifies(r) ==
    /\ pay[r] = "saved"
    /\ pay' = [pay EXCEPT ![r] = "none"]
    /\ told' = [told EXCEPT ![r].payment = @ + 1]
    /\ UNCHANGED <<gatewayVars, deployment, load, row, vendor, run, unique, overlap, faults>>

\* The request ends early: its process dies, a statement fails, or the
\* callback cannot be enqueued.
PaymentStops(r) ==
    /\ pay[r] # "none"
    /\ Fault
    /\ pay' = [pay EXCEPT ![r] = "none"]
    /\ UNCHANGED <<gatewayVars, deployment, load, row, vendor, run, unique, told, overlap>>

-----------------------------------------------------------------------------
(* The scheduler and asynq                                                 *)

\* The scheduler's interval comes round: one task, unless the unique lock of
\* an earlier one is still held.
ScheduleSweep(c) ==
    /\ Configured
    /\ c \in load.callers /\ run[c].pc = "idle" /\ unique = None
    /\ run' = [run EXCEPT ![c] = [NoRun EXCEPT !.pc = "queued", !.trigger = "sweep"]]
    /\ unique' = c
    /\ UNCHANGED <<gatewayVars, deployment, load, row, vendor, payments, faults>>

\* The lock is as old as the interval, counted from the enqueue.
UniqueExpires ==
    /\ unique # None
    /\ unique' = None
    /\ UNCHANGED <<gatewayVars, deployment, load, row, vendor, run, payments, faults>>

\* The task is done: its unique lock goes.
ReleaseUnique(c) == unique' = IF unique = c THEN None ELSE unique

\* asynq.Timeout(interval) of the task passes, or the admin's client is gone:
\* the context is done.
ContextDone(c) ==
    /\ run[c].pc # "idle" /\ run[c].ctx
    /\ Fault
    /\ run' = [run EXCEPT ![c].ctx = FALSE]
    /\ UNCHANGED <<gatewayVars, deployment, load, row, vendor, unique, payments>>

\* The process dies.  asynq hands a task that was running out again, which is
\* the next sweep of the model; the unique lock outlives it.  (What stops a
\* /payment is PaymentStops.)
Crash ==
    /\ \E c \in Callers : run[c].pc \notin {"idle", "queued"}
    /\ Fault
    /\ GatewayCrash
    /\ run' = [c \in Callers |-> IF run[c].pc = "queued" THEN run[c] ELSE NoRun]
    /\ UNCHANGED <<deployment, load, row, vendor, unique, payments>>

-----------------------------------------------------------------------------
(* ReconciliationUsecase.Sweep and Reconcile                               *)

\* ListStalePendingTransactions: pending, past the threshold, not expired.
StalePending == {r \in Rows : row[r].by = None /\ row[r].stale /\ ~row[r].expired}

\* How many of them are older than r.
Ahead(r) == Cardinality({q \in StalePending : q < r})

\* ORDER BY created_at ASC LIMIT BatchSize.
OldestBatch == {r \in StalePending : Ahead(r) < BatchSize}

\* The rows of a batch, oldest first.
InOrder(B) == [i \in 1 .. Cardinality(B) |->
                 Snapshot(CHOOSE r \in B : Cardinality({q \in B : q < r}) = i - 1)]

\* A run over the transactions read.
Over(trigger, batch) == [NoRun EXCEPT !.pc = "turn", !.trigger = trigger, !.todo = batch,
                             !.read = {batch[i].row : i \in DOMAIN batch}]

\* The worker takes the task and Sweep selects its candidates.
SweepSelects(c) ==
    /\ run[c].pc = "queued" /\ run[c].ctx
    /\ run' = [run EXCEPT ![c] = Over("sweep", InOrder(OldestBatch))]
    /\ UNCHANGED <<gatewayVars, deployment, load, row, vendor, unique, payments, faults>>

\* The SELECT fails: the error goes to asynq, which runs the task again or,
\* when its retries are used up (they are not counted here), archives it.
SelectFails(c) ==
    /\ run[c].pc = "queued"
    /\ Fails(c)
    /\ \/ run' = [run EXCEPT ![c].ctx = TRUE] /\ UNCHANGED unique
       \/ run' = [run EXCEPT ![c] = NoRun] /\ ReleaseUnique(c)
    /\ UNCHANGED <<gatewayVars, deployment, load, row, vendor, payments>>

\* An operator reconciles a number; 503, with nothing read, when there is no
\* reconciler.
AdminReconciles(c, r) ==
    /\ Configured
    /\ c \in load.callers /\ run[c].pc = "idle"
    /\ run' = [run EXCEPT ![c] = Over("admin", <<Snapshot(r)>>)]
    /\ UNCHANGED <<gatewayVars, deployment, load, row, vendor, unique, payments, faults>>

-----------------------------------------------------------------------------
(* reconcileRecord, one transaction of the run                             *)

Current(c) == Head(run[c].todo)

\* finish: the audit row is written, or its failure is logged, and the loop
\* goes on with the next transaction.
Finish(c, outcome) ==
    run' = [run EXCEPT ![c].pc = "turn", ![c].todo = Tail(@),
                       ![c].done = @ \cup {Current(c).row}, ![c].last = outcome]

\* Decided before any vendor call: a transaction read as settled, and one that
\* still carries its create-va placeholder.
DecideLocally(c) ==
    /\ run[c].pc = "turn" /\ run[c].todo # << >>
    /\ \/ Current(c).settled /\ Finish(c, "already_settled")
       \/ ~Current(c).settled /\ ~Current(c).inquired /\ Finish(c, "not_paid")
    /\ UNCHANGED <<gatewayVars, deployment, load, row, vendor, unique, payments, faults>>

\* Otherwise the vendor is asked.
AskVendor(c) ==
    /\ run[c].pc = "turn" /\ run[c].todo # << >>
    /\ ~Current(c).settled /\ Current(c).inquired
    /\ BeginCall(c)
    /\ run' = [run EXCEPT ![c].pc = "calling", ![c].last = None]
    /\ UNCHANGED <<token, mutex, deployment, load, row, vendor, unique, payments, faults>>

\* The token is at hand or must be fetched.
GetsToken(c) ==
    /\ UseCachedToken(c) \/ FetchToken(c)
    /\ UNCHANGED <<sweepVars, faults>>

\* The vendor issues the token asked for, and its answer is read in time.
TokenReceived(c) ==
    /\ run[c].ctx
    /\ \E raw \in ExpiresIns, delay \in Delays : TokenArrives(c, raw, delay)
    /\ UNCHANGED <<sweepVars, faults>>

\* The token cannot be had.
TokenRefused(c) ==
    /\ TokenFails(c)
    /\ Fails(c)
    /\ UNCHANGED sweepVars

\* The vendor answers the status inquiry in time: with what it holds about
\* the transaction, or without helping.
VendorAnswers(c) ==
    /\ run[c].ctx
    /\ \E delay \in Delays :
        \/ /\ ResponseArrives(c, vendor[Current(c).row], delay)
           /\ UNCHANGED faults
        \/ /\ \E u \in Unhelpful : ResponseArrives(c, u, delay)
           /\ Fault
    /\ UNCHANGED sweepVars

\* There is no answer.
NoAnswer(c) ==
    /\ RequestFails(c)
    /\ Fails(c)
    /\ UNCHANGED sweepVars

\* Mutant: every body without a success code is read as "no payment".
ClassifyByFlagOnly(reply) ==
    CASE reply \in VendorHoldsPayment -> "settled"
      [] reply = "pending" -> "pending"
      [] reply = "error" -> "error"
      [] OTHER -> "not_paid"

\* reconcileRecord's reading of the gateway's result: no answer, an answer
\* without data, then classifyVendorStatus, which takes 4042601 for an answer
\* and every other refusal for none, and a flag it does not know for a
\* rejection.
Classify(reply) ==
    CASE reply \in VendorHoldsPayment -> "settled"
      [] reply = "pending" -> "pending"
      [] reply \in {"notFound", "rejected", "unknownFlag"} -> "not_paid"
      [] OTHER -> "error"

\* The vendor reports no payment, or nothing usable; settle refuses a success
\* flag without an amount.
NothingToSettle(c) ==
    /\ run[c].pc = "calling" /\ call[c].pc = "done"
    /\ \/ Classify(call[c].reply) # "settled" /\ Finish(c, Classify(call[c].reply))
       \/ call[c].reply = "noAmount" /\ Finish(c, "error")
    /\ EndCall(c)
    /\ UNCHANGED <<token, mutex, deployment, load, row, vendor, unique, payments, faults>>

\* Mutant: no WHERE status = '03'.
SettleUnguarded(c) ==
    /\ run[c].pc = "calling" /\ call[c].pc = "done"
    /\ Classify(call[c].reply) = "settled" /\ call[c].reply # "noAmount"
    /\ run[c].ctx
    /\ row' = [row EXCEPT ![Current(c).row].by = "reconciler"]
    /\ run' = [run EXCEPT ![c].pc = "notifying"]
    /\ EndCall(c)
    /\ UNCHANGED <<token, mutex, deployment, load, vendor, unique, payments, faults>>

\* SettlePendingFromVendor: UPDATE ... WHERE status = '03'.  Zero rows means
\* that another writer was first.
Settle(c) ==
    /\ run[c].pc = "calling" /\ call[c].pc = "done"
    /\ Classify(call[c].reply) = "settled" /\ call[c].reply # "noAmount"
    /\ run[c].ctx
    /\ LET r == Current(c).row
       IN  \/ /\ row[r].by = None
              /\ row' = [row EXCEPT ![r].by = "reconciler"]
              /\ run' = [run EXCEPT ![c].pc = "notifying"]
              /\ overlap' = IF pay[r] = "read" THEN overlap \cup {r} ELSE overlap
           \/ /\ row[r].by # None
              /\ Finish(c, "already_settled")
              /\ UNCHANGED <<row, overlap>>
    /\ EndCall(c)
    /\ UNCHANGED <<token, mutex, deployment, load, vendor, unique, pay, told, faults>>

\* The UPDATE fails.
SettleFails(c) ==
    /\ run[c].pc = "calling" /\ call[c].pc = "done"
    /\ Classify(call[c].reply) = "settled" /\ call[c].reply # "noAmount"
    /\ Fails(c)
    /\ Finish(c, "error")
    /\ EndCall(c)
    /\ UNCHANGED <<token, mutex, deployment, load, row, vendor, unique, payments>>

\* notifyRecovered, best effort: the callback is enqueued, or its failure is
\* logged.
NotifyRecovered(c) ==
    /\ run[c].pc = "notifying"
    /\ \/ run[c].ctx /\ told' = [told EXCEPT ![Current(c).row].reconciler = @ + 1]
          /\ UNCHANGED faults
       \/ Fails(c) /\ UNCHANGED told
    /\ Finish(c, "settled")
    /\ UNCHANGED <<gatewayVars, deployment, load, row, vendor, unique, pay, overlap>>

\* The run is over: the results are counted, or the operator has an answer.
RunReturns(c) ==
    /\ run[c].pc = "turn" /\ run[c].todo = << >>
    /\ run' = [run EXCEPT ![c] = NoRun]
    /\ ReleaseUnique(c)
    /\ UNCHANGED <<gatewayVars, deployment, load, row, vendor, payments, faults>>

\* Time passes.
Tick ==
    /\ GatewayTick
    /\ UNCHANGED <<sweepVars, faults>>

-----------------------------------------------------------------------------

Step(c) ==
    \/ SweepSelects(c) \/ SelectFails(c) \/ DecideLocally(c) \/ AskVendor(c)
    \/ GetsToken(c) \/ TokenReceived(c) \/ TokenRefused(c)
    \/ VendorAnswers(c) \/ NoAnswer(c)
    \/ NothingToSettle(c) \/ Settle(c) \/ SettleFails(c) \/ NotifyRecovered(c)
    \/ RunReturns(c)

World ==
    \/ \E r \in Rows : GrowsStale(r) \/ Expires(r) \/ VendorInquires(r)
                       \/ VendorDecides(r)
                       \/ PaymentReads(r) \/ PaymentSaves(r) \/ PaymentNotifies(r) \/ PaymentStops(r)
    \/ UniqueExpires \/ Crash \/ Tick

Next ==
    \/ World
    \/ \E c \in Callers : Step(c) \/ ScheduleSweep(c) \/ ContextDone(c)
    \/ \E c \in Callers, r \in load.targets : AdminReconciles(c, r)

Spec == Init /\ [][Next]_vars

\* Goroutines run and HTTP clients time out; the unique lock of a task that
\* died expires.  A caller waiting for mu is let in (sync.Mutex hands over to
\* a starving waiter), and a sweep that is due is not kept out by admin
\* requests: the program has a worker pool for it, the model's callers serve
\* both.
Fairness ==
    /\ \A c \in Callers : WF_vars(Step(c)) /\ SF_vars(GetsToken(c))
    /\ SF_vars(\E c \in Callers : ScheduleSweep(c))
    /\ WF_vars(UniqueExpires)

FairSpec == Spec /\ Fairness

-----------------------------------------------------------------------------
(* Properties                                                              *)

\* classifyVendorStatus: what is "not evidence about the payment" is not
\* recorded as not paid or pending.  A payment the vendor held when the
\* transaction was read is reported settled, already settled or an error,
\* whatever failed; the one exception is a 2002600 whose flag is none of the
\* four, which the default branch reads as not paid.
NotPaidIsEvidence ==
    [][\A c \in Callers :
           run'[c].done # run[c].done /\ run'[c].last \in {"not_paid", "pending"}
               => \/ ~Current(c).paid
                  \/ run'[c].last = "not_paid" /\ call[c].reply = "unknownFlag"]_vars

\* "the vendor has no successful payment for this VA" (ReconcileOutcomeNotPaid):
\* the same without the exception.
NotPaidMeansUnpaid ==
    [][\A c \in Callers :
           run'[c].done # run[c].done /\ run'[c].last = "not_paid" => ~Current(c).paid]_vars

\* "One transaction's failure never aborts the run" (Sweep): when a run is
\* over, every transaction it selected has an outcome, whatever failed.
BatchIsCovered ==
    \A c \in Callers :
        run[c].pc = "turn" /\ run[c].todo = << >> => run[c].done = run[c].read

\* "the money is recorded once, and the merchant is told once"
\* (SettlePendingFromVendor): sweeps and reconciles that overlap tell the
\* merchant once between them, so does /payment, and both do so only if
\* /payment had read the transaction as pending before the reconciler settled
\* it (its upsert has no guard to lose that race).
MerchantToldOnce ==
    \A r \in Rows :
        /\ told[r].reconciler <= 1 /\ told[r].payment <= 1
        /\ told[r].reconciler + told[r].payment > 1 => r \in overlap

\* The same promise without the exception.
MerchantToldOnceInAll == \A r \in Rows : told[r].reconciler + told[r].payment <= 1

\* Nothing is settled on the vendor's word without a success flag and an
\* amount.
SettledIsPaid ==
    \A r \in Rows : row[r].by = "reconciler" => vendor[r] \in {"paid", "timeout"}

Recoverable(r) ==
    Configured /\ r \in StalePending /\ row[r].inquired /\ vendor[r] \in {"paid", "timeout"}

\* A payment whose flag never arrived is recovered: a stale transaction the
\* vendor reports as paid is settled in the end, if fewer than BatchSize
\* older ones are still pending.
PaidIsRecovered ==
    \A r \in Rows :
        Recoverable(r) /\ Ahead(r) < BatchSize ~> row[r].by # None \/ row[r].expired

\* "a backlog drains steadily" (ReconcileConfig.BatchSize): the same with any
\* number of older transactions.
BacklogDrains ==
    \A r \in Rows : Recoverable(r) ~> row[r].by # None \/ row[r].expired

\* "Re-check under fresh data" (reconcileRecord): the vendor is not asked
\* about a transaction that was settled since it was selected.
AsksAboutPendingOnly ==
    [][\A c \in Callers : AskVendor(c) => row[Current(c).row].by = None]_vars

\* "a slow sweep cannot stack duplicates" (RegisterPeriodic).
OneSweepAtATime ==
    \A c, d \in Callers : run[c].trigger = "sweep" /\ run[d].trigger = "sweep" => c = d
=============================================================================
