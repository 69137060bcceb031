# TLA+ verification of the virtual-account payment service

The service is a SNAP (BCA) virtual-account gateway: merchants register virtual
accounts (VAs) and bills, the bank calls `/inquiry` and `/payment`, the service
records the payment and calls the merchant back. Its state is in PostgreSQL,
its idempotency keys, locks, caches and its queue (asynq) in Redis; any number of
replicas and goroutines serve requests, so every pair of SQL statements of two
requests may interleave.

The modules here model that system. TLC checks them on small instances, and TLAPS
proves nearly all their safety properties for every instance. PROJECT.json
maps every definition to the lines it models (paths below are under `src/`).

## 1. Inventory

| Component | State | Operations | What makes it correct |
|---|---|---|---|
| No-bill VA (`vaType` 01/04): `usecase/va_usecase.go`, `usecase/merchant_va_usecase.go`, `database/va_repository.go` | `va_accounts` (registration), `va_transactions` (one settled row per payment) | create-va (upsert), delete-va, `/inquiry`, `/payment`, lazy expiry | a paymentRequestId is credited once, called back once, and what is answered is on file |
| Double flag: `va_usecase.go` 684-809 | `va_payment_flags`, by (X-EXTERNAL-ID, paymentRequestId) | find before, record after the payment | the first outcome stays and is true of the payment on file |
| Fixed-bill VA (03/06) | `va_transactions`, several cycles per number, the placeholder or the claimed `inquiry_request_id` | create-va, delete-va, `/inquiry` with claim, `/payment` with `SavePayment` and bill details, lazy expiry | one pending bill, the paid amount is the billed one, closed bills are final |
| Variable-bill VA (02/05) | one `va_transactions` row, `va_payments` instalments | `/payment` with `SaveVAPayment`, replay of an instalment | an instalment counts once, the row agrees with the instalments, at most the bill is taken |
| Reconciliation: `usecase/reconciliation_usecase.go`, `worker/reconcile_worker.go`, `queue/asynq.go` | the same rows; the vendor's records; asynq's unique lock of the sweep task | scheduled sweep and on-demand reconcile: select, ask, classify, settle, notify | money whose `/payment` was lost is recovered, and told once; no answer is taken for "not paid" that does not say so |
| Outbound SNAP client: `gateway/snap/client.go`, `token_provider.go` | one cached access token per vendor, a mutex | get or fetch the token, payment status | a token is alive when the vendor looks at it; a failing request lets the next one in |
| Merchant callbacks: `usecase/notification_dispatch.go`, `queue/asynq.go`, `worker/payment_notification_worker.go`, `usecase/resend_callback_usecase.go` | `va_notification_deliveries` rows, asynq tasks and uniqueness locks | dispatch, attempt, retry, archive, resend one, resend a range | the row tells the truth about the delivery, and it settles |
| Idempotency: `middleware/idempotency.go`, `redis/redis.go` | `idempotency:val` and `idempotency:lock` keys in Redis | lookup, lock, handler, record, release | a key is answered once a day; a request that was not answered can be retried |
| create-va: `usecase/merchant_va_usecase.go`, `va_repository.go` 79-135, 1120-1200 | customerNo sequences, `va_accounts`, pending transactions, Redis locks without an owner | generate or register a customerNo, save account, check pending, save transaction | a generated number is unique, a static one is given once, what is issued can be inquired and paid |
| Request validation: `domain/va_validation.go`, `va.go` | none | validators of inquiry, payment and status | the limits of the services agree with each other and with what create-va issues |
| VA type rules and master data: `cache/va_type_rule_provider.go`, `cache/master_data_cache.go`, `database/master_data_repository.go` | two tables, two Redis lists, a snapshot per replica | lookup, write, ticker refresh | a write is visible, caches become fresh, the last known rules are served |
| Clients, tokens, authentication: `usecase/client_usecase.go`, `token_usecase.go`, `crypto/jwt_issuer.go`, `middleware/snap_auth.go`, `merchant_auth.go` | `client_apps`, `client_keys`, `client_secrets`; the JWT keys of a process | register, rotate, revoke; issue a token; authenticate a merchant's or a vendor's request | what is revoked is refused; a vendor is heard, and as itself |
| Status and list endpoints, vendor configuration, telemetry, wiring | none of their own | - | not modelled (section 9) |

Components interact through shared rows and through the queue: `/inquiry`,
`/payment` and the reconciler change the same `va_transactions` rows without a
lock across statements and dispatch into the callback component; the
idempotency middleware runs in front of every bank-facing handler, the
double-flag table inside `/payment`. Authentication and validation precede both.
create-va looks up type rules, and the numbers it issues come back through the
validators of the bank's calls. The reconciler calls the vendor through the
outbound client and settles with an UPDATE guarded by the pending status; the
upserts of `/payment` have no such guard, and the two race (section 4).

Hard behaviours: statements of two requests in an order nobody tests (the check
before an INSERT, the SUM before an UPDATE, the record read before an upsert);
a process dying, a context being cancelled, a statement failing or its
acknowledgement being lost between two statements; errors that the code
swallows on purpose; the bank repeating a payment; expiry detected by several
requests; numbers reused for the next bill; asynq running a task again; a
Redis lock whose owner is gone or that lapsed under it; caches that are filled
from what was read before a write; a token that expires on the way; a
credential revoked while it is being checked. PROJECT.json `hazards` lists them at their lines.

## 2. Modules

| Module | Models |
|---|---|
| `PaymentLedger` | abstract: what is promised about money. `Credit` a payment once, `Tell` the merchant once after it |
| `NoBillVA` | no-bill VA and the double-flag table; implements `PaymentLedger` |
| `FixedBillVA` | fixed-bill VA number over several bills, with what reconciliation does to them |
| `VariableBillVA` | variable-bill transaction with instalments, and what reconciliation does to it; implements `PaymentLedger` |
| `NotificationDelivery` | dispatch, queue, worker and resend of merchant callbacks |
| `Idempotency` | the idempotency middleware |
| `SnapValidation` | the validators of the three transfer-va services, as operators on lengths and shapes |
| `MerchantCreateVA` | create-va, its locks and its sequence; composes `SnapValidation` with what it issues |
| `TypeRules` | type rules and partner ids: tables, Redis, snapshots |
| `VendorGateway` | the outbound client and its token provider (actions only) |
| `Reconciliation` | sweep and reconcile; composes `VendorGateway` |
| `ClientAccess` | client onboarding, access tokens, the two authenticating middlewares |
| `*_proofs` | theorems about a module, with their proofs (section 6) |
| `MC_*` | the same modules with symmetry sets and constants for TLC |

The system modules follow one pattern. A set `Handlers` (`Callers`, `Requests`) of slots serves
requests; `pc[h]` is the statement a handler comes to next, `req[h]` its request
and `read[h]` (`acct[h]`) the record it holds, which may be stale. An action is
one SQL statement, Redis command, vendor call or queue dispatch together with
the local decisions up to the next one. PostgreSQL runs single statements
atomically and `SaveVAPayment` at READ COMMITTED; an action of `VariableBillVA`
is one statement of that transaction, and what it inserted is seen by others
only after `UpdateAndCommit`. `Faults` selects which failures a run admits.
Variables marked history record what properties speak of; the bounded counters
among them only limit the instance.

Actions and code:

- `NoBillVA`: `PaymentArrives` → `FindPaymentFlag` → `CheckExisting` →
  `ReadAccount` → (`LookupTransaction` | `SaveNoBillPayment` → `ReplayDuplicate`
  on a conflict) → `NotifyPayment` → `RecordPaymentFlag`; `InquiryArrives` →
  `InquireAccount` → `InquireTransaction`; expiry is `MarkExpired` →
  `DedupeExpiry` → `NotifyExpiry`. `DatabaseError`, `LostAcknowledgement` and
  `Crash` are the failures; `CreateVA`, `DeleteVA` the merchant's calls.
- `FixedBillVA`: every request starts with the lookup by number (`Lookup`; an
  inquiry with `GetInquiry`, a payment with `CheckExisting`, the sweep with
  `ListStale`); `Route` is the decision on the record read. Then `SaveInquiry`,
  `CancelVA`, `Claim`, `SavePayment` → `SaveBillDetails` → `NotifyPayment`, the
  three expiry steps, or `VendorAnswers` → `Settle` → `NotifyRecovered`. The
  customer and the bank's records (`CustomerPays`, `Quote`, `vendor`) are external.
- `VariableBillVA`: `CheckExisting` → `Lookup` → `Replay` → `Insert` →
  `SumInstalments` → `SelectTotal` → `UpdateAndCommit` → `NotifyPayment`; create-va's
  `SaveInquiry` is an upsert that keeps paid_amount and renews the bill and its
  notification url.
- `NotificationDelivery`: `Create` (row) → `Enqueue` (task) → `SettleDispatch`
  (error on the row) is `dispatchNotification`; `StartAttempt` → `Deliver` →
  `RecordResult` → `Acknowledge` the worker; `ResendRange` →
  (`DispatchResend` | `SkipResend`, an item skipped or failed) the bulk resend. A call to the
  queue may fail before the task is in it or after: then task and lock are there, and
  the row is marked failed, or duplicate where the client repeated the call. asynq itself is
  external, modelled from the options the code passes: uniqueness lock, `MaxRetry`, archive, recovery of a dead worker's task.
- `Idempotency`: `CheckCache` → `AcquireLock` → `NextHandler` → `StoreAnswer` →
  `ReleaseLock`; `Abandon` is death or disconnection, `LockExpires` the TTL.

- `MerchantCreateVA`: `Arrive` (handler and validation) → `AcquireLock` →
  `SelectSequence` → `UpdateSequence` (dynamic; the row is locked until the
  UPDATE) or `CountAccounts` (static) → `ReleaseLock` → `SaveAccount` →
  `CheckPending` → `SaveInquiry` → `SaveBills`. `Storable` is the width of the column
  partner_service_id, VARCHAR(8): the INSERT of a longer one fails. `LockExpires` is the TTL,
  `Crash` a replica dying, `Close` whatever ends a pending transaction. What the bank sends
  for a number (`BankInquiry`, `BankPayment`, `BankStatus`) is external and goes
  through `InquiryAnswer`, `PaymentAnswer` and `StatusAnswer` of `SnapValidation`.
- `TypeRules`: `Tick` or `Write`, then `ListVATypes` → `ListPartnerServiceIDs` →
  `Install` → `SetVATypes` → `SetPartnerServiceIDs` is `RefreshNow`; `Lookup` → `Get` →
  (`Adopt` | `Refill` → `AdoptFresh` → `SetFresh` | `Fallback` | `Direct`) → `Answer` a
  lookup. `KeyExpires` is the Redis TTL, `DirectWrite` a migration or an operator
  at the database. A list is the version of its table.
- `Reconciliation`: `ScheduleSweep` → `SweepSelects`, or `AdminReconciles`; per record
  `DecideLocally` | `AskVendor` → `GetsToken` → `TokenReceived` → `VendorAnswers` →
  (`NothingToSettle` | `Settle` → `NotifyRecovered`); `RunReturns`. Failures are
  `SelectFails`, `TokenRefused`, `NoAnswer`, `SettleFails`, `ContextDone` and `Crash`;
  `GrowsStale`, `Expires`, `VendorInquires`, `VendorDecides` are
  the world. `/payment` is `PaymentReads` → `PaymentSaves` (the upsert, which does not look at the
  status) → `PaymentNotifies` | `PaymentStops`, one per transaction; payments that overlap each other
  are `FixedBillVA`'s. The vendor's answers are the flags `classifyVendorStatus` tells apart, and
  one it does not know. `VendorGateway` counts what a token still lives at the vendor and
  by the provider's own clock.
- `ClientAccess`: `CreateClient` → `CreateFirstKey` | `FirstKeyFails`, `AddClientKey`,
  `AddClientSecret`, the revocations; `TokenRequested` → `CheckClient` → `IssueToken`;
  `MerchantRequested` → `CheckBearer` → `CheckMerchantSignature`; `VendorRequested` →
  `AuthenticateVendorRequest` (no query, hence one step, in the order of
  `authenticateVendor`, with or without `SkipSkewCheck`). `Fails` is a failing query. A signature
  is the record of what was signed with what, the token as sent included.
  Requests write nothing, so one request against operators, clock and restarts
  is every case.

Abstractions. In the payment modules requests have passed validation and
authentication, which have their own modules. Names, dates
and texts are model values; a date is never, future or past. Amounts are small
naturals compared exactly. Logging and audit rows nothing reads are left out.
In the two bill modules each payment request carries its own X-EXTERNAL-ID, so
the double-flag table is never hit. In the two bill modules a sweep is modelled
per transaction; batch, order and limit are `Reconciliation`'s. In
`MerchantCreateVA` a transaction is only whether one is pending.
The `inquiry_request_id` placeholder is the VA number: the
reuse findings therefore concern numbers that may be created again; the static
types are stopped from it earlier, by `RegisterStaticCustomerNo`.

## 3. Runs

| Run | Instance | Shows |
|---|---|---|
| `nobill_races` | 2 handlers, 1 payment id, every fault | credited once and for good (`ImplementsLedger`), called back at most once, 2002500 and accepted flags are true, a settled payment is never refused, the first flag stays, at most one va.expired callback per expiry |
| `fixed_serial` | 1 handler, crashes, 2 bills, 2 inquiries, 2 payments | amount paid is amount billed, one pending bill, closed claimed bills are final |
| `fixed_races` | 2 handlers, all request kinds, failing statements | what the guarded UPDATEs guarantee: a claimed id is kept, paid stays paid, one callback per recovery and per expiry |
| `fixed_recovery` | fair; sweep stopping any number of times | a payment for the claimed inquiry is recovered unless the date passes first |
| `fixed_overwrite` | 2 handlers | violation, section 4 |
| `variable` | 2 handlers, 2 overlapping payments of every kind; and 3 instalments in turn with crashes | `/payment` implements the ledger; the row claims no more than the instalments amount to; what was answered as on file is on file; in turn, also the ceiling, the settling and that a closed bill stays closed hold |
| `delivery` | fair; five instances: 3 deliveries without a retry, 2 with 2 resend calls, 2 with a retry and a fault, 2 with 2 faults, 1 with a retry, a resend and 3 faults; a cap of 2; lost replies of the queue among the faults | success means reached and sticks, a duplicate has an original, a range is resent entirely or not at all, a row no failure hit settles |
| `idempotency` | fair; 2 handlers, 2 days, 2 faults: crashes, failing Redis, lapsing locks | at most one request per key and day past the lock and one more per lapse; a conflict is deserved; a lock is given back |
| `create_va` | fair; 2 callers, 2 calls, the seeded rules, a sequence of 2, a partnerServiceId of nine characters, every fault | generated numbers are unique even when the Redis lock lapses; a static number is given once in turn; what is issued passes inquiry, payment and status; every call is answered |
| `type_rules` | fair; 2 replicas with a ticker each, a request slot, 2 versions, 2 failures | a write nothing raced with is visible at the next lookup; in the end every cache holds what the tables hold |
| `reconciliation` | fair; 1 caller on 2 transactions with 1 fault, and 2 callers on 1 transaction that may expire; a batch of 2, tokens of 3 ticks; `/payment` in both | a token is alive on arrival; a payment among the first of the backlog is recovered; one the vendor held is taken for unpaid only on a flag the code does not know; reconciler and `/payment` each call the merchant back at most once, and both do so only if `/payment` had read the transaction before it was settled |
| `client_access` | 1 client, 2 keys, 2 secrets, 2 replicas, 1 restart, a legacy and a migrated vendor, every header changed in turn, failing queries | a revoked credential is refused, whatever operators do meanwhile; each vendor is heard beside the other and only as itself |

The largest are `variable` (2.3 million states, two minutes) and `client_access` (2.1 million,
a minute and a half), and, with liveness, `delivery` (370 000), `create_va` (290 000) and
`reconciliation` (250 000), two to three minutes each. `Reconciliation_concurrent.cfg`
(1.7 million, safety only) adds a fault to the two callers; it passes and is kept for
reference.

Besides the properties a configuration lists, the modules define further ones
that hold on the same instances, to be added to a configuration when their part of
the code changes: each module's `TypeOK`; `AcceptedFlagIsOnFile`;
`RecoveredIsToldOnce` and `ExpiryCallbackPerTransition` of `FixedBillVA`;
`PaidIsTheSumInTurn`; `FailedIsFinal` and `ResendsFollowOriginals`;
`RecordedWasAnswered`; `IssuedIsOnFile`, `InquirableIsPayable` and `AmountRefusals`;
`ServesLastKnownGood`; `BatchIsCovered`, `SettledIsPaid` and `OneTokenRequest`;
`NewestIsHonoured`. All of them but `IssuedIsOnFile` are also proved (section 6).

Bounds. Two handlers suffice for the races of section 4: each is between the
reader of a value and one writer of it. One payment id makes the handlers
collide, two or three let instalments and bills differ. Two create-va cycles let
a number be reused; `MaxRows` is one more than the rows two cycles and a claim
need. One retry has a first, a last and no further attempt; a cap of 2 with 3
originals has ranges below, at and above it. `MaxDay` 1 has one midnight.
`MaxSeq` 2, from every value of the sequence, has a last number and a sequence that
is used up. A token of 3 ticks with a margin of 2 and a timeout of 1
is fetched, reused and discarded. Two versions of a table are the one before and
the one after a write. `Limits` and `Loads` choose between instances in the initial
state, so that one run covers several. `MaxCycles`, `MaxRows`, `MaxCalls`, `MaxSeq`,
`MaxFaults`, `MaxFailures`, `MaxRestarts`, `MaxRecords` and `MaxDay` only bound the
instance. Symmetry is used in safety runs only. Deadlock is not checked where
bounded calls, deliveries or credentials run out (`delivery`, `create_va`,
`reconciliation`, `client_access`).

## 4. Where the code and its comments disagree

Each row names a property that states what a comment or document of the
repository says, and TLC finds a behaviour of the code against it.
`fixed_overwrite` is a run; the other configurations are kept beside it and run the
same way (`tlc -config X.cfg MC_<Module>`). "`X.cfg` with `P`" means that
configuration with `P` in place of its properties. Several of these properties
hold when requests are served one at a time, which `fixed_serial`, the `InTurn`
properties of `variable` and `RegisteredOnceInTurn` check: there the interleaving is
the cause.

| Configuration, property | Says | Happens |
|---|---|---|
| `NoBillVA_advice.cfg`, `AdviceReplaysSettlement` | usecase/va_usecase.go:836-837 says of advice: "It must replay the original outcome as 2002500, not be reported as a collision". | An advice request for a payment on file is answered 4042518 when the first outcome recorded for its pair was the collision of an earlier re-flag (the handler that settled the payment stopped before recordPaymentFlag). |
| `NoBillVA_reactivated.cfg`, `EveryExpiryIsCalledBack` | usecase/va_usecase.go:1436-1437: "if this call is the one that actually applied the transition, enqueues a single "va.expired" merchant callback". | A registration that expires, is registered again by create-va and expires again applies the transition, but the va.expired row of the first expiry suppresses the callback. |
| `NoBillVA_reactivated.cfg` with `ExpiresOnlyWhenDue` | domain/va.go:590-591: "A registration with no ExpiredDate never expires". | UpdateVAAccountStatus looks at the status only: a handler that read an expired registration marks EXPIRED the one create-va has renewed without an expired date in between. |
| `FixedBillVA_overwrite.cfg`, `PaidIsNeverMutated` | usecase/va_usecase.go:911-912: "a paid transaction must never be mutated after the fact". | Two payments that both read the pending transaction: the ON CONFLICT DO UPDATE of the second replaces the payment of the first, and both are answered 2002500. |
| `FixedBillVA_told_twice.cfg`, `ToldOnce` | infrastructure/database/va_repository.go:1917-1921 says "The WHERE status = '03' guard is what makes reconciliation safe to run concurrently with a real /payment": "the money is recorded once, and the merchant is told once". | SettlePendingFromVendor settles the row between the read and the unguarded upsert of /payment: both call the merchant back for one payment. |
| `FixedBillVA_bill_details.cfg`, `PaidIsCalledBack` | README.md:335 says of /payment that it "triggers an async merchant callback". | SavePayment upserts into the existing row, whose id it does not read back, so SaveBillDetails inserts under an id that is in no row: foreign key violation, 5002500, no callback, while the transaction is settled. |
| `FixedBillVA_reuse.cfg`, `AcceptedStaysOnFile` | usecase/merchant_va_usecase.go:263-265: "the same VA number is free to start a brand new transaction". | A payment without a preceding inquiry settles the row under its placeholder id; the next create-va of the number derives the same placeholder and reopens that row, and the next payment replaces the accepted one. |
| `FixedBillVA_next_bill.cfg`, `PaymentSettlesItsBill` | usecase/va_usecase.go:204: "Status() and Payment() resolve a transaction by that id". | /payment finds the transaction by virtual account number: a payment for the inquiry of a deleted bill settles the next bill of the number. |
| `FixedBillVA_races.cfg` with `OnePendingTransaction` | usecase/merchant_va_usecase.go:261-263: "only a currently PENDING" transaction "blocks a new create-va call". | create-va reads, decides and inserts without a lock: two calls, with an inquiry that claims the first row between the inserts, leave two pending transactions. |
| `FixedBillVA_recovery.cfg` with `EveryPaymentIsRecovered`, `Dates = {"never"}` | usecase/reconciliation_usecase.go:86-88: "the whole point is to recover money nobody knows is missing". | A transaction keeps the id of the first inquiry; a payment made after a second inquiry is recorded at the vendor under an id the reconciler never asks about. |
| `FixedBillVA_recovery.cfg` with `EveryPaymentIsRecovered`, `InqIds = {i1}` | infrastructure/database/va_repository.go:1825-1826: "An expired VA is not stuck, it is closed: the customer can no longer pay it, so there is nothing at the vendor to reconcile." | The sweep does not select a pending transaction whose expired_date has passed, though its customer may have paid before that date and the /payment call been lost; no sweep ever asks about it. |
| `VariableBillVA.cfg` with `UpToTheBill` | usecase/va_usecase.go:953: "A variable bill takes instalments, but only up to what it billed." | Two instalments are checked against the paid_amount both read before either was recorded: together they exceed the bill. |
| `VariableBillVA.cfg` with `PaidInFullIsSettled`, `Loads <- MCPayments` | domain/va.go:701-703: '03' "already means "belum lunas", since SaveVAPayment only flips the row to '00' once the cumulative total reaches total_amount". | Under READ COMMITTED neither of two concurrent SUMs contains the instalment of the other; a bill paid in full stays '03'. |
| `VariableBillVA.cfg` with `ClosedStaysClosed` | domain/va.go:708-709: "expired ('02') and deleted ('04') VAs are closed for reasons no amount comparison may reopen". | The UPDATE of SaveVAPayment has no status guard: an instalment that was read as payable turns a row deleted or expired meanwhile back to '03'. |
| `VariableBillVA_recovered_lost.cfg` with `ToldOnce` | infrastructure/database/va_repository.go:1917-1921 says "The WHERE status = '03' guard is what makes reconciliation safe to run concurrently with a real /payment": "the money is recorded once, and the merchant is told once". | A payment the reconciler settled has no va_payments row; when BCA flags it after all, an instalment of the bill is recorded and the merchant called back again. |
| `VariableBillVA_recovered_lost.cfg`, `RecoveredMoneyCounts` | infrastructure/database/va_repository.go:1917-1921 says "The WHERE status = '03' guard is what makes reconciliation safe to run concurrently with a real /payment": "the money is recorded once, and the merchant is told once". | A payment the reconciler settled has no va_payments row; the next instalment writes the sum of va_payments over paid_amount and the recovered money is gone from the row. |
| `VariableBillVA.cfg` with `PendingOwes` | domain/va.go:701-703: '03' "already means "belum lunas"". | The upsert of create-va reopens a settled row and leaves its paid_amount: a pending bill nothing is owed on. |
| `NotificationDelivery.cfg` with `FailedIsFinalAlways` | adapter/delivery/worker/payment_notification_worker.go:66: "A failure with retries left is "retrying", not "failed"". | The reply of an enqueue is lost: the task is in the queue with all its attempts, and the row is marked failed. |
| `Idempotency_recheck.cfg`, `AnsweredOnce` | adapter/delivery/http/middleware/idempotency.go:236-239: "A key that has already been answered." "re-using one is a conflict on its own". | The cache is read before the lock and not again under it: a request that looked up the key before the first was recorded and locked after it was released is answered a second time. |
| `MerchantCreateVA_static_twice.cfg`, `RegisteredOnce` | infrastructure/database/va_repository.go:1163-1171: "a merchant-supplied customerNo is only ever used once per partnerServiceId"; "The Redis lock is retained so concurrent callers serialize rather than both observing "not yet registered"". | The lock is released before SaveVAAccount inserts: two overlapping calls both find the number free, the upsert takes both, and both are answered 2002700. |
| `MerchantCreateVA_two_spellings.cfg`, `RegisteredOnceUnpadded` | infrastructure/cache/va_type_rule_provider.go:204-207: "the padding is a transport detail". | The registry compares partnerServiceId as it was sent: the padded and the bare spelling register one customerNo twice. |
| `MerchantCreateVA_own_unregistered.cfg`, `OwnIsOnFile` | usecase/merchant_va_usecase.go:193-195: "honor the merchant's own value". | Two dynamic VAs under one number of the merchant's own: the upsert keyed by that number leaves the registration of one of them. |
| `MerchantCreateVA_own_unregistered.cfg` with `OwnIsPayable` | the same | The validators demand that virtualAccountNo is partnerServiceId and customerNo: a number of the merchant's own is refused at inquiry. |
| `MerchantCreateVA_own_unregistered.cfg` with `IssuedIsOnFile`, `Customers <- MCLikeGenerated`, `OwnVAs <- MCNoOwnVAs` | specs/006-static-dynamic-va/spec.md:130 (FR-008): a customerNo "already registered for the same `partnerServiceId`" is rejected. | A dynamic VA whose generated customerNo a merchant registered before as a static one: the upsert keeps the earlier registration and its type, and the number is issued again. |
| `MerchantCreateVA_no_retry.cfg`, `RegisteredIsIssued` | No document promises it, but a merchant expects it: a call answered with a system error (5002700) can be made again. | SaveVAAccount commits, a later statement fails: the retry of a static number is refused 4092701, though the number was never issued. |
| `TypeRules_redis_down.cfg`, `WriteIsVisibleThere` | infrastructure/cache/va_type_rule_provider.go:113-115: "a Redis write failure here doesn't invalidate the refresh itself". | The next lookup reads the older list from Redis and makes it the snapshot again, until a refresh can write Redis or the key expires. |
| `TypeRules.cfg` with `WriteIsVisibleRacing` | specs/006-static-dynamic-va/spec.md:139 (FR-017): "refresh it immediately whenever a row in `master_va_type` or `master_partner_service_ids` is created, updated, or deleted, so operator changes take effect without waiting for the next scheduled interval". | A ticker or a lookup that read the tables before the write installs its older list after it. |
| `Reconciliation_backlog.cfg`, `BacklogDrains` | usecase/reconciliation_usecase.go:24-26: "a backlog drains steadily". | Rows the vendor does not settle stay pending and are the oldest: with BatchSize of them every sweep selects the same ones. |
| `Reconciliation.cfg` with `AsksAboutPendingOnly` | usecase/reconciliation_usecase.go:217-219: "Re-check under fresh data". | What is checked is the record the sweep selected; the vendor is asked about a transaction paid since. (The guarded UPDATE then changes nothing.) |
| `Reconciliation.cfg` with `NotPaidMeansUnpaid` | domain/reconciliation.go:43-45: not_paid "means the vendor has no successful payment for this VA — either no record at all (4042601) or a rejected flag ("01")". | The default branch (usecase/reconciliation_usecase.go:294-296) takes every other flag on 2002600 for not_paid, a blank one included, though the vendor holds the payment. |
| `Reconciliation.cfg` with `MerchantToldOnceInAll` | infrastructure/database/va_repository.go:1917-1921: "the money is recorded once, and the merchant is told once". | The reconciler settles between the read of `/payment` and its upsert, which has no guard: both call back. (`FixedBillVA_told_twice.cfg` has the same in the bill's own module.) |
| `Reconciliation_stacking.cfg`, `OneSweepAtATime` | infrastructure/queue/asynq.go:134-137: "a slow sweep cannot stack duplicates". | The unique lock lapses one interval after the enqueue, whether or not the sweep is still running. |
| `Reconciliation_slow_vendor.cfg`, `TokenIsLiveOnArrival` | adapter/gateway/snap/token_provider.go:20-23: the margin "removes the race where a token that was valid when we checked has expired by the time the vendor validates it". | With a configured request timeout above half the margin it does not: answer and request may each travel that long. The defaults (60 s and 30 s) are just within it. |
| `ClientAccess.cfg` with `OverlapWindow` | docs/guides/merchant-onboarding.md:436-438: "a zero-downtime overlap window (old and new credential both active simultaneously)". | Only the newest active key, and secret, is looked at: the old one is refused as soon as the new one is registered. |
| `ClientAccess.cfg` with `TokenIsHonoured` | specs/001-snap-token-management/spec.md:54: "Given a valid, active access token generated by the gateway, When validated by an internal service, Then the system MUST return token validity status". | The JWT keys are generated at start (cmd/api/main.go:223): another replica, or the same one restarted, refuses the token. |
| `ClientAccess.cfg` with `RejectionIsTheClaimed` | adapter/delivery/http/middleware/snap_auth.go:95-98: "the first candidate's rejection is the one reported, since that is the vendor the headers claimed to be". | A legacy vendor that pins nothing is a candidate for every request and may come first: its rejection is reported. |

## 5. Fairness

`WF_vars(Step(h))`: a goroutine that serves a request goes on. Nobody has to
send a request, with few exceptions. `FixedBillVA`: asynq's scheduler enqueues
the sweep every interval, so `SweepArrives` and the statements of a sweep are
strongly fair: it is started again after a failure and not stopped at one
statement for ever. The operator's reconcile is not fair. `VariableBillVA`: the
bank repeats a payment flag until it is answered. `NotificationDelivery`:
dispatches and the asynq server go on. `TypeRules`: tickers fire. `Reconciliation`:
HTTP clients time out, so a call ends; `GetsToken` is strongly fair because Go's
mutex hands over to a waiter that starves; `ScheduleSweep` is strongly fair because
the scheduler fires every interval and the worker pool is not the operators';
the unique lock of a task that died lapses. `MerchantCreateVA`: `withLock` gives
up at its deadline, so a call that waits for a lock always has a step. Time otherwise (expiry, TTL, midnight), the customer and every failure have no
fairness.

## 6. Proofs

Eight modules `<Module>_proofs` prove the theorems that PROJECT.json lists, for every
value of the constants that the named assumptions of the modules admit. The
assumptions say that amounts and bounds are naturals, that the inputs are of
the kinds the code knows, and that `None` is not a value of the sets it is added
to. A few say more: `PlaceholderAssumption` (the placeholder is no id of the bank's),
`RulesAssumption` (`va_type` is unique and not empty, as the migration declares),
`TextAssumption` (a text is determined by its name and length), `VendorAssumption`
and `NameAssumption` (vendors have names of their own, none of them the name of a
rejection), `SignatureAssumption` (a signature is what was signed),
`InquiredAssumption` (the vendor knows a payment by the id on the row),
`FieldNamesAssumption` (which names of nested fields are equal: the provers do not know
what concatenating two strings gives). TLC evaluates each of them in the run of its
module.

An invariant is never inductive alone. Every proof has the same order: a type
invariant that ties what a handler holds to its position, since an action uses
`req[h].preq` or `read[h].url` because of where the handler is; then what a handler
about to write knows of the rows, which is what other handlers could have made
stale; then the property. `StepShape`, `StepKinds` and the like reduce the step relation
to a few shapes first, so that the actions that do not matter are dealt with once.

- `NoBillVA_proofs`. `TypeInv` adds `WellFormed` to `TypeOK`. `OneCallback`: `CallbackInv` adds that
  a handler about to notify has its payment on file, uncalled, and is alone in that.
  `Refinement`: a settling INSERT is `Credit`, a dispatch `Tell`, all else stutters.
  `AnswersAreOnFile`: an answer fixed but not sent is on file already, and a payment on
  file stays. `FlagsAreWrittenOnce`. `SettledIsReplayed`: where a payment was on file at
  arrival, the handler cannot get past the duplicate check with another outcome.
  `ExpiryIsCalledBackOnce`: callbacks sent and handlers that owe one are together no
  more than the transitions; a set of handlers is counted, hence `FiniteSetTheorems`.
- `Idempotency_proofs`. `BoundedOverlap` needs the stronger `LockBoundsOverlap`: requests past
  the lock are at most the lapses, and one more if the lock is held. Every release
  without ownership keeps this, which is why the damage does not spread.
  `RecordedIsTrue` and `RefusedForAReason` (`LockHasReason`: a lock belongs to a request in
  progress or to one that died) use the same invariant.
- `NotificationDelivery_proofs`. `Core` ties rows, tasks, uniqueness locks and dispatches in progress
  together: a lock names a task of its event, a dispatch that has not called the queue
  has queued nothing, a task that ended well has reached the merchant. From it `SuccessIsTrue`,
  `SuccessIsKept`, `DuplicateIsCovered` and `FailureIsFinal`; the last two except the deliveries in
  `lost`, whose enqueue took effect although it returned an error: without the exception
  both are false (section 4). `RangeIsWhole` counts what was dispatched, skipped or failed and what is
  still to be resent. `ResendsAreAccounted` adds `ResendInv`: what is to be resent are originals, never
  resends. A call for one number needs that its event has an original at all, and
  that follows from the inequality itself: no original, no resend so far.
- `MerchantCreateVA_proofs`. `CustomerNoGivenOnce`: `RowHeld` and `NumbersInHand` say that the number a
  caller has read is the next one as long as it holds the row lock, and that
  numbers given out are below it; the Redis lock does not occur in the argument.
  `StaticGivenOnceInTurn` assumes `OwnVAsApart`: no number of the merchants' own is the
  concatenation of a partner and a customerNo. Without it the upsert replaces a
  registration, as `MerchantCreateVA_own_unregistered.cfg` shows.
  `IssuedPassesEveryService`, `InquiredCanBePaid` and `AmountsAreToldApart` are about the validators of
  `SnapValidation`. A validator answers with the first of its checks that fails; the
  least failing index exists by the well-foundedness of the naturals, an answer
  is traced back to one check (`FailedCheck`), and checks that all hold give `Passed`
  (`NoneFails`). What was issued holds them because of what create-va checked before the
  answer. What it does not check are the hypotheses `TextsFit`: a customerNo that is not
  empty, a name with a length. `InquiredCanBePaid` needs the last only. That a partnerServiceId
  has at most 8 characters is checked nowhere in Go: the column does it, and
  `StoredIsStorable` says that whatever is answered for was stored.
  The same module proves `TypeRules`, as its instance `Cache` (create-va reads its rules
  through those lists). The hypotheses `MastersKnown` are the assumptions of `TypeRules`
  itself. `CacheInv` says, as long as nothing raced and nothing failed, that every copy
  on the way from a table to a lookup is as new as the write the lookup must see;
  with a race or a failure nothing is said of how new a list is, which is why `WrittenIsVisible` has both
  as conditions. `LastKnownGoodIsServed` assumes `Empty = {}`: a table without rows is cached
  as no list at all, and a lookup after it fails in a warm replica.
- `FixedBillVA_proofs`. Under every interleaving `ClaimIsKept` and `PaidIsKept`: the WHERE clauses
  alone carry them. `RecoveryIsToldOnce` and `ExpiryIsCalledBackOnce` count as in `NoBillVA_proofs`: callbacks
  sent and handlers between the guarded UPDATE and the dispatch (`Owing`) are together no
  more than the transitions; `DebtIsKept` is the one lemma for both debts. Under `OneAtATime` (one handler, no failing statement; crashes
  between any two statements remain): `OnePending`, `BilledIsPaid`, `ClosedStays`. `TableOK` is
  about the rows and the vendor's records, `UpToDate` says that what the handler found out
  is still so at its next statement. The hypothesis is needed: `OnePendingTransaction` fails
  with two handlers (section 4), and with one when the lookup of create-va fails and
  is taken for "no transaction".
- `VariableBillVA_proofs`. `Refinement`: `OneInserts` (of the open database transactions for an
  instalment one has inserted it, and it is not on file) and `OneTells`. `RowIsCovered`: a
  handler's sum is at most what will be on file once it commits, and that only
  grows. In turn, `ClosedStays` for every kind of request (`OneServed`: the status read is
  the row's), and under `InTurnLoads` (what does not overlap are inquiries, payments and
  deletions) `CeilingInTurn`, `SumInTurn` and `SettledInTurn` from `TallyInTurn`. The hypothesis is
  needed: the reconciler writes paid_amount without an instalment and create-va
  leaves it (section 4). `SUM(amount)` is `MapThenSumSet`, a CHOOSE of a recursive function:
  the module proves that its equation has one solution on finite sets and that
  adding an instalment adds its amount, by least counterexamples (`LeastOne`, from the
  well-foundedness of the naturals), since no induction theorem can be instantiated.
- `Reconciliation_proofs`. `IInv` follows a record from the selection to the outcome: in hand,
  read, answered truthfully, settled by evidence, told by its only notifier. From it
  `ToldOnce`, `SettledOnEvidence`, `WholeBatch`, `DenialIsEvidence`; `TokenAskedForOnce` from the mutex.
  `ToldOnce` and `DenialIsEvidence` name the one exception each that the code makes: a `/payment`
  that had read the transaction pending before the reconciler settled it (`overlap`), and a flag the
  code does not know (`unknownFlag`). Without them they are false (section 4).
  `TokenArrivesLive` assumes `MarginCoversTimeouts`: the answer with the token and the request
  that carries it may each take the request timeout, so twice the timeout must be
  within the margin. The attempt to prove it under a timeout of at most the margin
  failed for that reason, and `Reconciliation_slow_vendor.cfg` is the counterexample.
- `ClientAccess_proofs`. `RevocationHolds` needs `DeadStaysRevoked`, `NewestIsGranted` needs `GoodStaysGood`: what
  was true of the credential when the request began is true of the rows it has yet
  to read. `AcceptedOnlyAsItself` and `GenuineIsHeard`: the vendor taken is the
  least of the candidates that verify, and a signature tells its vendor and, where the vendor
  has a ClientID, the token it was made over.

## 7. Model-checked only

Liveness under fairness is outside the proof system, with ENABLED:
`ClaimedPaymentIsRecovered`, `RowSettles`, `LockIsReleased`, `EveryCallIsAnswered`, `EventuallyFresh`,
`PaidIsRecovered`. Every safety property of a passing run is stated by a theorem.

Of the properties of section 3 that no run lists, `IssuedIsOnFile` is only checked on its
instance. It has no proof for every value of the constants because it is not true for
every value: where a customerNo was registered before as a static one, and is now
generated or sent for another no-bill type of the partner, the upsert keeps the
earlier type (section 4). The disagreements of
section 4 are counterexamples and have nothing to prove, except for the in-turn
versions that section 6 names.

## 8. Plan

Done: modules of section 2, theorems of section 6. Next, in this order:

1. Instalments that carry bill details; the double-flag table in front of the bill
   modules, composed with `Idempotency`.
2. Paging of the list endpoints, and the amount comparison with its tolerance, as
   operators against a reference definition.

## 9. Not modelled

The status, list and detail endpoints read one record and format it; only the
validation of status is modelled. `token_session_store.go` has no caller, and
`client_key_cache.go` is written and never read. RSA, HMAC and JWT encoding are
functions outside what TLC computes: a signature is what was signed. Date and JSON
parsing, vendor configuration files, telemetry, the connection pool, wiring and
the generated API documentation have no protocol. Amounts are compared exactly:
the tolerance of `amountsEqual` is far below the smallest unit two amounts can
differ by.
