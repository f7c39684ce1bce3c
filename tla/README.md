# TLA+ specifications of zomega

zomega sells AI work for prepaid credits. A tenant buys credits through Stripe, starts a *run* of
one skill or of an agent's sequence of skills, and pays for what the run executed. The specifications
here are about what makes this hard: the money tables, which several processes change concurrently;
the life of a paid run, which passes through an API process, an outbox, a Redis queue, workers that
may die at any point, a reaper and an operator; the admission of runs under quotas and idempotency
keys; a marketplace of signed skills; and the keys and limits that decide who may ask for any of it.

Everything is translated from `src/zomega/*.py`. Line numbers in comments refer to those files.

## 1. Inventory of the system

| Component | Source | State | Operations | What is hard |
|---|---|---|---|---|
| Billing | `billing.py` | `wallets`, `reservations`, `wallet_ledger`, `payment_events` | `process_verified_payment`, `settle_run`, `refund_run`, `reconcile_wallet` | four kinds of process close the same reservation; redelivered payment events |
| Run admission | `run_service.py`, `commercial.py:115-170` | `runs`, `idempotency_records`, `outbox_events`, and Billing's | `create_skill_run`, `create_agent_run`, `_create_run`, `enforce_tenant_admission` | concurrent admissions against one wallet, one quota, one idempotency key |
| Outbox dispatcher | `outbox.py` | `outbox_events.status`, `runs.status` | `dispatch_run`, `dispatch_pending` | Redis and PostgreSQL cannot commit together; two dispatchers of one event; unlocked read before a write |
| Run worker | `jobs.py` | `runs`, `skill_executions`, the coroutine's locals | `execute_run`, `_execute_one`, `reservation_reaper`, `wallet_reconciler`, `audit_retention_reaper` | redelivery, a crash between any two transactions, provider calls of unknown outcome, cancellation, budget |
| Run API | `api.py:208-274` | `runs` | run creation, `cancel_run`, the webhook | cancellation races every other actor |
| Operator CLI | `cli.py:15-61` | `runs`, Billing's | `reconcile-run` | check, money and status in three transactions |
| Marketplace | `marketplace.py` | `marketplace_listings`, `marketplace_ledger`, `private_skill_grants` | `create_listing`, `purchase_listing` | two wallets in one transaction, idempotent purchase, rounding of the share |
| Private registry | `registry.py` | `publishers`, `private_skill_versions` | `create_or_update_publisher`, `publish_skill`, `verify_skill_version` | a publisher's key changes while versions signed with the old one exist or are being published |
| Tenant controls | `commercial.py` | `tenant_controls`, `subscriptions` | `set_control`, `set_subscription`, `prune_audit_events` | quota windows; lost updates of an administrator |
| API keys | `key_service.py`, `admin.py`, `auth.py` | `api_keys` | create, revoke, rotate, authenticate | two keys revoking each other, creation during rotation |
| Rate limiter | `rate_limit.py` | a Redis counter per tenant | `enforce` | increment and expiry are separate calls |
| Audit trail | `audit.py` | `audit_events` | `record_audit` | written after the action, in another transaction |
| Catalog, policy, configuration, providers, pricing | `catalog.py`, `policy.py`, `config.py`, `providers/`, `pricing.py` | none | lookups, external calls | the outcome of a provider call may stay unknown |

How they interact: the API admits a run in one PostgreSQL transaction (reservation, run row, outbox
event) and then tries to dispatch it. Dispatching enqueues an arq job whose id is the run's id, then
marks the event `dispatched` and the run `QUEUED`. A worker executes the job: it makes the run
`RUNNING`, commits a checkpoint before each provider call and the result after it, settles the
reservation and writes the final status. A cron job of the worker dispatches what is still pending,
another refunds reservations that expired. A tenant can cancel, an operator can reconcile a `BLOCKED`
run by hand. All of them share the run row, the reservation row and the wallet row; only some of
their reads take a row lock.

What makes each component correct: Billing, that each wallet agrees with its reservations and its
ledger and a reservation is closed once; the worker, that no skill is sent to the provider twice, no
call is made that the reservation would not cover, and what is charged is what was executed; the
dispatcher, that no admitted run is lost; reaper and cancellation, that no credit stays reserved for
ever; admission, that limits and idempotency keys hold under concurrency; the marketplace, that a
sale creates no credits and a purchase is made once; keys, that a tenant keeps an active one and a
rotation leaves no old one.

The hazards (`PROJECT.json`, `hazards`) name each place where these can go wrong.

## 2. Modules

| Module | What it is |
|---|---|
| `Sums` | the `SUM` of the money code: `Total`, the cardinality of a finite set, and `SumOf`, the fold it equals (`TotalIsSumOf` in `SumTheorems`) |
| `Escrow` | abstract: what a credit wallet promises, without wallet rows or ledger |
| `Billing` | the money tables and every transaction that writes them |
| `BillingLocks` | the same transactions lock by lock; EXTENDS `Billing` |
| `PaidRun` | abstract: what a tenant is promised about a paid run |
| `RunLifecycle` | API, outbox dispatcher, arq, workers, reaper, operator; EXTENDS `Billing` |
| `DocumentedRun` | what the documents say of a run and the code does not do |
| `Admission` | `_create_run` and `enforce_tenant_admission` statement by statement; EXTENDS `Billing` |
| `Marketplace` | the registry and the marketplace; EXTENDS `Billing` |
| `Access` | keys, tenant status and the rate limiter |
| `MCBilling`, `MCBillingLocks`, `MCRunLifecycle`, `MCAdmission`, `MCMarketplace`, `MCAccess` | instances for TLC |
| `SumTheorems`, `BillingProofs`, `LedgerProofs`, `LocksProofs` | theorems about sums, `Billing` and its refinement of `Escrow`, and `BillingLocks` |
| `LifecycleProofs`, `AdmissionProofs`, `MarketplaceProofs`, `AccessProofs` | theorems about the other components |

`Billing` is the hub: `RunLifecycle`, `Admission`, `Marketplace` and `BillingLocks` each extend it,
use its actions for the money part of their own, and add the state around it. The first three are
proved to do nothing else to the money tables (section 4), so what is proved of `Billing` holds in
each of them; `BillingLocks` is proved to implement it. They meet nowhere but in those tables: a
run's life does not read controls, quotas or listings.

A definition marked `mutation` is not part of a model. It is the definition below it as a plausible
bug would have it (a dropped check, an off-by-one, a missing case). Putting it in the place of the
real one must make TLC report the property that is supposed to protect the code from that bug; this
is how each property is shown to say something.

### Billing

One action is one committed transaction. Each transaction locks what it changes before it reads it:
the reservation row, then the wallet row (`settle_run`, `refund_run`), the wallet row
(`_create_run`, `process_verified_payment`), or both wallets in the order of the tenant ids
(`purchase_listing`). So transactions on the same rows are serial, and one that raises rolls back
and is a stutter. `BillingLocks` checks both halves of that argument: what a transaction has
read stays true until it commits, and the lock order has no cycle.

| TLA+ | Code |
|---|---|
| `available`, `reserved` | `wallets.available_credits`, `reserved_credits` |
| `reservation[r]` | the row of `reservations` with the unique `run_id` r |
| `ledger[<<t, kind, ref>>]` | magnitude of the `wallet_ledger` row with that unique key, 0 if there is none (the table refuses rows of amount 0) |
| `payment[e]`, `purchase[<<t, k>>]` | `payment_events.status`; `marketplace_ledger` by buyer and idempotency key |
| `ProcessVerifiedPayment`, `SettleRun`, `RefundRun` | the functions of those names |
| `Reserve` | the money part of `_create_run` |
| `PurchaseListing` | the transaction of `purchase_listing`; the purchase row stands also for the grant inserted with it; a replay writes nothing |
| `ReconcileOk` | the verdict `ok` of `reconcile_wallet` |

`EscrowSpec` is the refinement. The funds of the abstract account are read off the *ledger*, while
the code's guards read the *wallet row*: Billing implements `Escrow` only because the two agree.

### BillingLocks

A transaction is an operation and the list of its locks in the code's order (`LockOrder`): the
unique key that `INSERT ... ON CONFLICT` waits for, the advisory locks of a month's quota and of a
purchase key, the rows read `FOR UPDATE`. It takes them one after the other, waits while another
transaction has the next one (`Free`), reads each row when it gets its lock (`seen`), and then
commits what Billing's action does (`Commit`), or ends without effect at any moment (`Rollback`: an
early return, a refusal, an error, a crash). `reconcile_wallet` reads its two sums under the
wallet's lock, in two further statements, and `ReconcilerIsQuiet` is its verdict on the values *it*
read at three moments.

### RunLifecycle

A step is one transaction, one Redis call or one provider call, and a process may die between any
two. Where the code reads a row without a lock and writes what depends on it later in the same
transaction, there are two steps (`DispatchRead`/`DispatchMark`, `ReaperRead`/`ReaperFail`,
`Prepare`/`Insert`): PostgreSQL's READ COMMITTED lets another transaction commit in between. A write
of a constant through `db.get` is one step.

| TLA+ | Code |
|---|---|
| `status`, `cancelRequested`, `chargedCredits` | columns of `runs` |
| `checkpoint`, `stepCharge` | `skill_executions.status`, `charged_credits` by run and `sequence_no` |
| `calls` | history variable: provider calls made for each step |
| `outbox`, `expired` | `outbox_events.status`; `reservations.expires_at < now` |
| `job`, `tries` | the arq job with `_job_id = run_id`: none, queued, being executed, or only its result kept; `job_try` |
| `dpc drun dseen` | an execution of `dispatch_run` and the run status it has read |
| `wpc wrun wstep wtotal woutcome` | an execution of `execute_run`: where it is, its locals `sequence_no`, `total_charge` and the outcome it writes |
| `refunding`, `reaper`, `opc orun ocharge` | `cancel_run` before its refund, the reaper's loop, `reconcile-run` |

`CreateRun`, `CancelPending`, `CancelActive`, `CancelRefund` are the API; `Dispatch*` the
dispatcher; `Begin*`, `Check`, `Prepare`, `Insert`, `ProviderReturns`, `ProviderRaises`, `Settle*`,
`Finish`, `Record`, `RefundFailed`, `Fail`, `Block`, `Return` the parts of `execute_run` in its
order; `Reaper*` and `Operator*` the rest. `TakeJob`, `AbandonJob`, `ResultExpires`, `WorkerCrash`,
`LeaseExpires` are arq as the code depends on it: a job is delivered until its coroutine returns or
raises, a job that is queued, active or whose result is kept is not enqueued again, a dead or
stalled worker's job is delivered again, up to `max_tries` times. arq is not in the repository;
these are its documented semantics.

Any transaction, read or `record()` of `execute_run` may raise. Inside its `try` the handler takes
over and fails the run, whatever its status is by then (`DatabaseRaises`); before the `try`, as in
`record("run.started")`, or in a handler, nothing catches it and arq ends the job (`JobRaises`). The
outcome's own `record()` is still inside the `try`: that is how a run whose PASS is committed can
become FAIL (`Record`, the places `started` and `finished` of `wpc`). A transaction that raises
although it was committed is one that raises at the place after it.

`BeginWedges` deserves a word. On a redelivery with a `RUNNING` checkpoint, `execute_run` sets
`BLOCKED` and calls `record()` *inside* its open transaction. `record` opens a session of its own and
inserts an evidence row that references the run; PostgreSQL makes that insert wait for the run row,
which the open transaction holds `FOR UPDATE`. The first transaction cannot commit until `record`
returns, so neither ever does. PostgreSQL sees no cycle, no timeout is configured, and because the
call is synchronous the whole worker process hangs. `RowFree` is that lock, seen by everyone else.

Left out: evidence and usage rows (nothing reads them to decide), the outbox event's attempts and
backoff (they only delay), input, output and error texts, and whether a skill's price is fixed or
metered: `Charges` is the set of what a call may turn out to cost.

### Admission

A request is named by the id its run would get, so a row of `runs` needs no variable of its own: the
run exists when its reservation does. The transaction of `_create_run` is one step per statement,
because READ COMMITTED shows each statement what is committed when it starts, and because the month
may turn between two of them. Two months are kept: `created`, the month of PostgreSQL's `now()`,
taken at the transaction's first statement and stored as `created_at`; and `checked`, the month
Python computes before it asks for the advisory lock, which is part of the lock's name and bounds
the queries.

| TLA+ | Code |
|---|---|
| `month`, `control`, `record`, `body` | the calendar; `tenant_controls`; `idempotency_records.run_id` by tenant and key; the request hash |
| `chargedIn`, `boughtIn` | the month of a charge row's `created_at` |
| `limits`, `spent` | locals of `enforce_tenant_admission` |
| `Arrive`, `LookUpKey`, `BeginUnkeyed` | the request's first statement; the advisory lock of the key and the replay check (`run_service.py:77-99`) |
| `CheckRuns`, `ReadSpent`, `CheckCredits` | the controls, the allowlists and the count of runs; the sum of charges; the sum of open reservations and the credit limit (`commercial.py:115-169`) |
| `Admit` | the wallet lock and everything inserted with the run (`run_service.py:101-156`) |
| `Crash` | the process dies and its transaction rolls back |
| `Pay`, `Settle`, `Refund`, `Purchase`, `SetControl`, `NextMonth` | the rest of the system, as admission sees it |

A tenant without a `tenant_controls` row is admitted as one with a row of defaults, which
`get_control` inserts: the row's presence decides nothing, so `DefaultControl` stands for both.
Prices and plan entitlements come from files; a request's amount is a constant.

### Marketplace

A signature is the public key it verifies with, and a version is its unique key (publisher, skill,
version). `publish_skill` reads the publisher's profile without a lock and inserts the version
later, so it is two steps (`VerifySubmission`, `InsertVersion`) between which the profile may change
and the same version may be inserted by another request. Every other transaction is one step: a
unique key makes one of two concurrent inserts a refusal, and purchases are serial by `Billing`.
`unaudited` holds the changes whose handler has still to call `record_audit`, which is a transaction
of its own after the commit; `Crash` loses them. `VerifySkillVersion` is the verdict of
`verify_skill_version`, `PublisherEarnings` the sum of `publisher_earnings`.

### Access

One tenant, because no transaction here touches two. A request authenticates in one transaction and
acts in later ones, so its key may be revoked meanwhile; `CommitAuthentication` is the commit of a
rehash, for which SQLAlchemy emits an UPDATE of the changed columns only and so does not write
`active` back. `RevokeApiKey` locks the row and is one step. `RotateReads`/`RotateCommits` is
`rotate_api_key`. `LoadSubscription`/`FlushSubscription` is `set_subscription`, where the same rule
of the session has an effect: it writes only the columns that differ from what it *read*
(`Emitted`). `CountRun` is the pipeline of INCR and TTL, `SetExpiry` the EXPIRE that follows if
there is none, `WindowEnds` Redis. The counter is kept up to one above the limit, beyond which
nothing changes.

## 3. Runs

| Run | Instance | Properties and what they show |
|---|---|---|
| `billing` | two tenants that buy and sell, two runs, an event for each tenant, two listings whose share is an exact half and rounds to zero | `Reconciled`: the periodic reconciler never finds a mismatch. `RunLedgerBalanced`: the ledger tells each run whole. `SaleConserved`, `PaymentCreditedOnce`, `ReservationClosedOnce`. `EscrowSpec`: refinement. |
| `lifecycle_faults` | one run of two skills, two workers, a dispatcher, an operator, all faults | `ProviderCalledOnce` under duplicate delivery; `PassIsPaid`: PASS means every skill was executed and exactly its cost settled; `ChargeIsSettled`; `CallsFitReservation`: a skill is only called if its reservation and what came before it fit in the amount reserved; `NothingForNothing`; `StartedMeansDispatched`; `PaidRunSpec`: the run is one the tenant was promised: held first, its skills executed once and in order, billed once, and billed anything but what a prefix of them cost only while an operator has to decide. |
| `lifecycle_live` | one worker, two dispatchers of one event, API, dispatcher and reaper deaths, Redis and provider failures, transactions inside the `try` that raise, fair | `EveryHoldEnds`, `EveryEventDispatched`, `CancellationEndsRun`, as long as no worker loses a job; `PassStands`: no late write of reaper or dispatcher replaces PASS, only the FAIL of the worker that could not record it. |
| `billing_locks` | two tenants who buy from each other, a run, two events, three concurrent transactions of every kind | `ReadsStayTrue`: what a transaction read is still so when it commits, which is why one step per transaction is sound in `Billing`; `NoDeadlock`; `ReconcilerIsQuiet`: three reads at three moments agree. |
| `admission` | three requests of one tenant, two of them under one key with the same or another body, one an agent run; a purchase, a payment, two controls an administrator alternates, two months | `OneRunPerKey`; `RunLimitHolds` and `HoldsWithinLimit` under concurrent admissions; `EveryRequestEnds`: no order of the two advisory locks waits for ever. |
| `marketplace` | a publisher with two keys, two versions with a listing each, a buyer with two purchase keys | `EntitlementIsPaid`: a grant exactly for what was paid, also after a replay for another listing; `HistoryVerifiable`; `EarningsAgree`: what the marketplace reports is what the wallet got; `AuditTellsTruth`. |
| `access` | three keys, two requests, an administrator, a limit of one | `RevocationIsFinal`, `RotationCutsOff`, `LastKeyFallsInFlight`, `KeyAuditTellsTruth`; `LimitedIsTemporary`: the limit ends although the process that should have set its expiry died. |

`TypeOK`, `LifecycleTypeOK`, `LocksTypeOK`, `AdmissionTypeOK`, `MarketTypeOK` and `AccessTypeOK` are
the type invariants.

**Bounds.** One run suffices for the life cycle: runs share only the wallet, and every change of it
is a Billing transaction, which `billing` checks with two runs of one tenant. Two skills make a
predecessor and a successor; two credits and charges of one or two make a run that fits its budget,
one that exhausts it and one that overruns it. Two workers make every pair of racing executions, two
dispatchers every pair of racing dispatches; `MaxTries` = 2 makes a redelivery and an abandoned job.
Three credits with two listings let a tenant afford a run or a purchase but not both. Three
transactions make a cycle of two and of three waits: no transaction holds more than three locks, and
the purchase of each tenant from the other is the pair that locks the two wallets in two orders if
the code's ORDER BY is dropped. In `admission` two requests race for a key and all three for a limit
of one run or one credit, and a month that turns once separates `created` from `checked`; in
`marketplace` two public keys make a rotation and two purchase keys a replay and a second purchase;
in `access` three keys let one survive while two revoke each other, or be created during a rotation.
Deadlock is not checked by TLC: instances end when their credits are spent and their requests
answered. `NoDeadlock` says what deadlock means for the locks: no group of transactions in which
each waits for another of the group.

**Fairness.** `Fairness` in `RunLifecycle` asks what the deployment provides: cron jobs run every 15
seconds or 10 minutes, so a dispatcher and the reaper that can act do act (weak fairness); an outage
of Redis ends, and the dispatch and the reaping of a run are not killed at the same place for ever
(strong fairness of the steps that such a failure repeatedly interrupts; for a dispatch it is asked
of the run, whichever execution of `dispatch_run` serves it); a worker goes on within a job; arq
delivers a queued job (strong fairness, because the worker may be busy again and again); time
passes. Nobody has to pay, create, cancel or reconcile anything. `lifecycle_live` leaves out the
faults by which a worker loses its job (crash, stall, job timeout, a transaction that raises before
the `try` or in a handler), because `EveryHoldEnds` and `CancellationEndsRun` are *false* with them:
the run may stay `RUNNING` or `CANCEL_REQUESTED`, which the reaper does not select. The next section
says where the documents promise otherwise.

`AdmissionSpec` asks that a request at a statement that can run goes on (weak fairness: a lock is
released when its holder ends). `AccessSpec` asks that, while someone can authenticate, clients go on
asking for runs and not every one of them dies before EXPIRE (strong fairness of each of these steps
over all requests: others revoke, create and crash again and again), and that Redis expires a key
whose expiry is set.

### Where code and documents differ

Each of these runs checks one sentence of the repository and TLC finds a behaviour of the code that
breaks it.

| Run | Sentence | Behaviour |
|---|---|---|
| `doc_transitions` | `state.py:11`, `tests/test_state.py:15`: a terminal status has no successor | `dispatch_run` read `PENDING_DISPATCH`, `cancel_run` commits `CANCELLED` and refunds, `dispatch_run` writes `QUEUED`. The run still carries `cancel_requested` (`api.py:264`), so no skill is executed for it: the worker goes straight to `_finalize_cancelled` (`jobs.py:144`), whose `settle_run` raises (`billing.py:76`), and the cancelled run is reported as `FAIL` |
| `doc_retry` | `docs/ARCHITECTURE.md:54`: such a retry becomes `BLOCKED` | the self-inflicted lock wait described above |
| `doc_completed` | `README.md:16`: retry-safe worker checkpoint | a crash between `settle_run` and `PASS`; the retry cannot settle twice and reports `FAIL` with no charge, although the tenant paid |
| `doc_quota` | `docs/COMMERCIAL.md:18`: the projected spend includes settled run charges, purchases and open reservations | a run settled between the query for charges and the query for open reservations is in neither sum, and the next run is admitted beyond the limit |
| `doc_subscription` | `docs/COMMERCIAL.md:24`: only active and trialing subscriptions leave the tenant active | of two administrators who read a suspended tenant, one activates it and its subscription; the other then ends the subscription, but not the tenant, which it saw suspended already |

The first three use one worker, one dispatcher and only the faults the behaviour needs: none for
`doc_transitions`, a worker crash for the others; `doc_retry` is checked under `Fairness`, so its
counterexample is not a mere stop. `doc_quota` needs one month and no purchase, `doc_subscription`
two administrators.

Other differences met while modelling, for which there is no run:

- A run in `CANCEL_REQUESTED` whose worker died is accepted by no later delivery, by neither the
  reaper (`jobs.py:232`) nor `reconcile-run`, and its reservation stays open; `docs/RUNBOOK.md:65`
  says that stale non-running reservations are refunded.
- The reaper refunds a run it selected while `QUEUED` and that is `RUNNING` by then (`jobs.py:237`),
  against the same sentence.
- The job is in the queue before the run is `QUEUED` (`outbox.py:32`): a fast worker returns at once
  and the job is used up until its result expires. `docs/adr/0001-transactional-reliability.md:50`
  promises durable queue intent.
- A provider exception refunds at once (`jobs.py:211`); `docs/BILLING.md:58` says that ambiguous
  provider states are not refunded automatically.
- `docs/ARCHITECTURE.md:35-43` takes the quota lock before the key's lock; the code takes them the
  other way round (`run_service.py:78-101`). Either order is free of deadlock.

- If `record("run.completed")` raises, the handler of `execute_run` writes `FAIL` over the `PASS` it
  has just committed and settled (`jobs.py:201-216`), and likewise over `PARTIAL` and `CANCELLED`;
  `state.py:7-11` gives these no successor. `PassStands` allows this one way for a PASS to go.
- If `record("run.started")` raises (`jobs.py:132`), or a transaction of a handler (`jobs.py:211`),
  arq ends the job and the run stays `RUNNING`, with its reservation open unless the handler had
  refunded it; once cancelled it is in `CANCEL_REQUESTED` for ever, as in the first item.

Behaviour no document speaks about, which the models show and the properties allow: a reservation
made before midnight of the last day is in no later month's open reservations; purchases count
towards the credit limit but are not refused by it; an agent run has no skill and passes the skill
allowlist; two `set_control` calls may leave a row that mixes both (`commercial.py:53`); two keys
may revoke each other and leave none; a key created while a rotation runs survives it; a change
whose process dies before `record_audit` is in no audit event.

## 4. Proofs

TLAPS proves the following for every value of the constants that meets the assumptions below.

| Theorem | Module | Statement |
|---|---|---|
| `TypeCorrect` | `BillingProofs` | `Spec => []TypeOK` |
| `AlwaysReconciled` | `BillingProofs` | `Spec => []Reconciled` |
| `ClosedOnce` | `BillingProofs` | `Spec => ReservationClosedOnce` |
| `CreditedOnce` | `LedgerProofs` | `Spec => []PaymentCreditedOnce` |
| `LedgerTellsRuns` | `LedgerProofs` | `Spec => []RunLedgerBalanced` |
| `SalesConserve` | `LedgerProofs` | `Spec => []SaleConserved` |
| `ImplementsEscrow` | `LedgerProofs` | `Spec => EscrowSpec` |
| `LocksImplementBilling` | `LocksProofs` | `LockSpec => Spec` |
| `LocksTypeCorrect` | `LocksProofs` | `LockSpec => []LocksTypeOK` |
| `ReadsAreTrue` | `LocksProofs` | `LockSpec => []ReadsStayTrue` |
| `ReconcilerNeverReports` | `LocksProofs` | `LockSpec => []ReconcilerIsQuiet` |
| `NeverDeadlocked` | `LocksProofs` | `LockSpec => []NoDeadlock` |
| `LifecycleImplementsBilling` | `LifecycleProofs` | `LifecycleSpec => Spec` |
| `LifecycleTypeCorrect` | `LifecycleProofs` | `LifecycleSpec => []LifecycleTypeOK` |
| `CalledOnce` | `LifecycleProofs` | `LifecycleSpec => []ProviderCalledOnce` |
| `StartedAfterDispatch` | `LifecycleProofs` | `LifecycleSpec => []StartedMeansDispatched` |
| `CallsFit` | `LifecycleProofs` | `LifecycleSpec => []CallsFitReservation` |
| `PassPaid` | `LifecycleProofs` | `LifecycleSpec => []PassIsPaid` |
| `ChargesSettled` | `LifecycleProofs` | `LifecycleSpec => []ChargeIsSettled` |
| `NothingCharged` | `LifecycleProofs` | `LifecycleSpec => []NothingForNothing` |
| `LifecycleImplementsPaidRun` | `LifecycleProofs` | `LifecycleSpec => PaidRunSpec` |
| `PassStays` | `LifecycleProofs` | `LifecycleSpec => PassStands`, if `Faults` has none by which a worker loses its job (`Calm`) |
| `AdmissionImplementsBilling` | `AdmissionProofs` | `AdmissionSpec => Spec` |
| `AdmissionTypeCorrect` | `AdmissionProofs` | `AdmissionSpec => []AdmissionTypeOK` |
| `OneRunForEachKey` | `AdmissionProofs` | `AdmissionSpec => []OneRunPerKey` |
| `RunLimitKept` | `AdmissionProofs` | `AdmissionSpec => RunLimitHolds` |
| `CreditLimitKept` | `AdmissionProofs` | `AdmissionSpec => HoldsWithinLimit` |
| `MarketImplementsBilling` | `MarketplaceProofs` | `MarketSpec => Spec` |
| `MarketTypeCorrect` | `MarketplaceProofs` | `MarketSpec => []MarketTypeOK` |
| `HistoryStaysVerifiable` | `MarketplaceProofs` | `MarketSpec => []HistoryVerifiable` |
| `EntitlementsArePaid` | `MarketplaceProofs` | `MarketSpec => []EntitlementIsPaid` |
| `EarningsAreCredited` | `MarketplaceProofs` | `MarketSpec => []EarningsAgree` |
| `AuditIsTrue` | `MarketplaceProofs` | `MarketSpec => []AuditTellsTruth` |
| `AccessTypeCorrect` | `AccessProofs` | `AccessSpec => []AccessTypeOK` |
| `RevokedForEver` | `AccessProofs` | `AccessSpec => RevocationIsFinal` |
| `RotationComplete` | `AccessProofs` | `AccessSpec => []RotationCutsOff` |
| `AuditOfKeysIsTrue` | `AccessProofs` | `AccessSpec => []KeyAuditTellsTruth` |
| `NoKeyAloneLocksOut` | `AccessProofs` | `AccessSpec => LastKeyFallsInFlight` |

These are all the invariants and all the action properties of the runs that pass, and the two
refinements; only liveness is left to TLC.

**Billing.** `TypeOK` is inductive by itself. The part that needs an argument is that no row exceeds
`MaxCredits`: the publisher's share of a price is at most the price (`ShareBound`), a refund is at
most the reservation.

`Reconciled /\ TypeOK` is inductive. `Reconciled` relates a wallet to two sums over whole tables, so
each action's proof is about how one or two rows change a sum. `SumTheorems` has these facts:
`TotalUpdate` (writing one row changes the total by the difference), `TotalAtLeast` (a total is at
least each of its rows) and `TotalZero`. They rest on the library's theorems about cardinality,
which is why `Total` is defined as one. That a total is the sum of the values, taken one by one, is
the lemma `TotalIsSumOf`, a fact about the definition and not about the code: the fold of the
community modules is a recursive function on sets of keys, `TotalsSumUp` says that the totals of the
parts of a table satisfy its recursion, and `SumsAreUnique` that nothing else does, since a set of
keys on which another function differs would have a smallest one. In `BillingProofs`, `OpenChange`
and `RowsChange` apply them to the two sums of `reconcile_wallet`, and each action has one lemma.
`TotalAtLeast` is what keeps `reserved` non-negative: when a reservation is closed the wallet holds
at least its amount *because* `reserved` is the sum of the open ones. The database has a CHECK
constraint for this; the theorem says that it never fires.

`ReservationClosedOnce` follows from the guards of the actions and the type of the table. The three
ledger invariants are each inductive with `TypeOK`. `LedgerProofs` first says, for each action, which
rows of the ledger it writes (`ReserveRows`, `SettleRows`, ...), and then that an invariant about one
run, event or purchase is only disturbed by an action that writes its rows.

**Refinement.** `ImplementsEscrow` needs an invariant of its own, `Sound`: `TypeOK`, `Reconciled`
and that an open reservation has a positive amount. Escrow's hold is guarded by the *funds*, which
the mapping reads off the ledger; the code's guard reads the wallet row. `Reconciled` turns one into
the other: without it the step that maps `Reserve` to a hold is not one.

**Composition.** `LifecycleImplementsBilling`, `AdmissionImplementsBilling` and
`MarketImplementsBilling` say that each step of the larger system is a step of `Billing` or leaves
its variables alone, so every theorem about `Billing` holds of them. For the life cycle that takes
an invariant, `HandsInv`: a worker or an operator that is not idle has a run in hand, a worker
inside the loop is at one of its steps, and what it has accounted for is a natural number;
`SettleRun`'s own guard then makes the charge one that Billing allows.

**Locks.** `LocksInv` adds four things to the types of `BillingLocks`: `Reconciled`, that no two
transactions hold one lock (`Exclusive`), that whoever closes a reservation locks a row that is
there (`RowsExist`), and `ReadsStayTrue` itself. The step of a transaction that holds its locks
leaves what the others read alone because it writes only rows it has locked (`HeldKept`); the two
sums of the reconciler are no rows, but `Reconciled` says that they agree with the wallet row of
their tenant, and the reconciler has that row's lock (`SumsKept`). With `ReadsStayTrue`, a commit is
the action of Billing (`CommitIsStep`), so `LocksImplementBilling` makes the one-step transactions
of `Billing` a consequence of the locks. `NeverDeadlocked` is for any number of transactions: one
that holds a lock and waits for another waits for a wallet (`WaitsForWallet`); who it waits for
wants, if it waits, a wallet of higher rank (`WaitsAscend`); and in a group some wanted wallet has
the highest rank.

**Run life cycle.** The proofs build on each other.

- `CallsInv`: a step without a checkpoint has not been called, checkpoints only move forward, and
  the only step that calls is the one that found none and inserts one. Hence `ProviderCalledOnce`.
- `KnownInv`: a run, an event, a job, or a dispatcher, worker or operator with the run in hand exist
  only once there is a reservation. `DispatchedInv`: whoever executes or reconciles a run has a
  marked event. Hence `StartedMeansDispatched`.
- `SequenceInv`: the completed skills are a prefix of the sequence, what a worker has counted is
  what that prefix cost, and a worker about to call has counted at most what leaves the skill's own
  reservation. A second worker that resumes the run counts the same stored charges. Hence
  `CallsFitReservation`, which is about the amount of the reservation: a reaper that selected the
  run before it was started may have refunded it (`jobs.py:237`).
- `PaidInv`: a worker that finishes has settled what it counted, an operator that writes PARTIAL has
  settled what it writes, a blocked or charged run has a started skill. Since a settled reservation
  never changes (`ReservationStep`), whatever the others write later, `PassIsPaid`,
  `ChargeIsSettled` and `NothingForNothing` follow. These invariants together map every step to one
  of `PaidRun`: the bill of a worker is a prefix's cost by `SequenceInv`, that of an operator is for
  a run in doubt.
- `PassStands` holds only while each job is with one worker until its coroutine ends, which is what
  `Calm` says: a second delivery of a run may refuse to settle again and write `FAIL` over a `PASS`.
  `Calm` leaves every other fault in, transactions that raise inside the `try` among them. A
  delivered job is then active and one worker has it (`DeliveryInv`), so the status says whether the
  run is being executed, or may be, and once the worker has written its outcome only it, on its way
  to a handler, is still with the run (`ExecutionInv`, `WorkedOn`); a dispatcher that has still to
  write `QUEUED` is the first to mark the event, and so finds a run nobody began (`MarkInv`); and
  the reaper fails only runs it refunded (`RefundInv`), while a `PASS` is settled.

**Admission.** `OneRunPerKey` holds because of `KeyInv`: of the requests with one key at most one is
past the lock, while one is the key has no record, and a record is of a run that exists.
`RunLimitHolds` and `HoldsWithinLimit` hold because of `QuotaInv`: of the requests of a tenant with
one month's lock at most one is past it, so from its count on no run is admitted with that lock but
its own; settlements and refunds meanwhile only close reservations, so what is held can only shrink
below what was counted. Sums over the runs of one lock are changed by one row at a time
(`TotalUpdate`, `TotalMonotone`).

**Marketplace and access.** `HistoryVerifiable` needs that every submission not yet inserted was
signed with the key it read (`VersionsInv`), whatever the profile is now; `EntitlementIsPaid` needs
that a listing is of a published version and that no version is ever removed (`GrantsInv`).
`EarningsAgree` is inductive with Billing's types: a sale with a share adds the same number to the
sum of the purchases and to the sum of the publisher's earning rows, and one whose share rounds to
nothing adds to neither; the lemmas about totals do the rest. `AuditTellsTruth` follows from
`AuditInv`: each change that is audited, or still to be, is shown by a row that no action takes back
(`ChangeHappened`). In `AccessProofs` the invariant `AccessInv` adds to the types what a request at
each place has in hand; `LastKeyFallsInFlight` then follows because a request never revokes its own
key: if that key is still active, so is a key after the step.

**Assumptions**, which TLC evaluates on every run: in `Billing`, finite tables, packages and prices
of at least one credit (CHECK constraints and `config.py`), shares of 0 to 10000 basis points (a
CHECK constraint of `marketplace_listings`); in `BillingLocks`, that tenant ids are ordered
(`RankAssumption`); in `RunLifecycle`, at least one skill, reservations of at least one credit,
charges within the bound; in `Admission`, that a request costs at least one credit
(`RequestAssumption`), that a limit is absent or a number that is not negative
(`ControlsAssumption`, the CHECK constraints of `tenant_controls`) and that the clock has a first
month (`MonthAssumption`); in `Marketplace`, that a listing's seller is its version's publisher
(`MarketAssumption`); in `Access`, that the first key exists (`AccessAssumption`). `PassStays` alone
has a hypothesis besides these, `Calm`; the run `lifecycle_live`, which checks `PassStands`,
satisfies it.

**Only model-checked:** liveness under fairness, which the prover cannot do: `EveryHoldEnds`,
`EveryEventDispatched`, `CancellationEndsRun`, `EveryRequestEnds` and `LimitedIsTemporary`. The five
runs that contradict a document are counterexamples and need no proof.

## 5. Plan

What is left, in order of importance:

1. The three hazards without a property: a refund after a provider error of unknown outcome
   (`jobs.py:211`), `set_control` requests that mix in one row (`commercial.py:53`), and reservations
   that fall between two months (`commercial.py:158`).
2. `LimitedIsTemporary` and the other liveness properties as lemmas about one step each: what the
   fair action does from each state it is promised in.

### Not modelled

- Audit retention (`prune_audit_events`, `audit_retention_reaper`) deletes rows that nothing here
  reads.
- Scopes, roles and expiry of keys only refuse a request before it acts; hashing, signatures and
  canonical JSON are pure functions, represented by what they tell apart.
- Catalog, policy and configuration are static data; they appear as constants.
- The web page, the dashboard and the listing endpoints read only. A dashboard's sums are not one
  snapshot, but nothing is decided by them.
- Migrations, shell scripts and deployment files run offline.
- arq, Redis, PostgreSQL and Stripe are external; they are modelled as far as the code depends on
  them.
