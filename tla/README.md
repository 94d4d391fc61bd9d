# TLA+ models of the Tecpey exchange

This directory holds TLA+ models of the parts of the Tecpey platform where the hard state lives: a spot
order on its way from an HTTP request through admission, the command workers and the matching engine to a
settled, published outcome; a withdrawal from its admission through review, signing, broadcast and
confirmation to its settlement; a user's login sessions and their revocation in two stores; and the
notification outbox. TLC checks the models on small instances, and TLAPS proves the main safety properties
for every value of the constants.

All source paths below are relative to the repository root (`src/lib/...`, `docs/...`).

Contents: [system](#1-the-system) · [modules](#2-modules) · [what a step is](#3-what-a-step-is-and-what-is-assumed) ·
[runs](#4-runs) · [fairness](#5-fairness) · [findings](#6-where-the-code-and-its-documents-disagree) ·
[proofs](#7-proofs) · [limits](#8-not-modelled-and-why) · [plan](#9-plan)

## 1. The system

The program is a Next.js application with PostgreSQL as its authority and Redis as cache and transport.
Its components, what each keeps, and what makes each correct:

| Component | State | Operations | What makes it correct |
|---|---|---|---|
| Order admission and command workers (`order-command-service.ts`) | `orders`, `exchange_order_commands` (state, attempts, lease, result) | admit, claim, recover expired lease, reconstruct, finalize, fail | an order is executed once; a published result never changes and is the committed one; every command ends |
| Matching engine (`engine.ts`, `matching-order-service.ts`) | none of its own; a plan between two transactions | rebuild book, compute fills, refuse, settle and commit | a plan older than its commit is executed as planned or rolled back whole; time-in-force rules |
| Market execution lock (`market-execution-lock.ts`) | a PostgreSQL session advisory lock | try (engine), wait (cancellation), release, lost with its connection | one matching or cancellation of a market at a time |
| Order book (`order-book-store.ts`, `order-book-recovery.ts`) | in-memory levels, Redis mirror | rebuild from PostgreSQL, levels, FOK volume | only published limit orders rest; price-time priority |
| Settlement, wallets and holds (`wallet-service.ts`, `matching-settlement-authority.ts`, `matching-financials.ts`, `order-financials.ts`) | `wallet_balances`, `wallet_ledger`, the fee wallet | hold, release, debit, credit, each a guarded UPDATE | value is conserved; held equals the sum of the orders' residual holds; no purchase overpays |
| Evidence triggers (`db-migrate-exchange-order-evidence.ts`, `...-final-evidence-gate.ts`) | `audit_logs` rows per verdict | deferred trigger at COMMIT, gate on final | a final result has an audit row of its verdict and status |
| Cancellation (`order-cancel-authority.ts`) | order status, residual hold | lock the market, cancel, release | only a published open order is closed, and its hold freed once |
| Placement route (`app/api/orders/route.ts`) | none; reads balance and command | validate, precheck, admit or replay, process, answer | one order per idempotency key; a verdict told is the stored one; an exact duplicate is told its order |
| Withdrawal requests (`withdrawal-admission-service.ts`, `withdrawal-authorization-authority.ts`, `withdrawal-cancel-authority.ts`, `withdrawal-admin-authority.ts`) | `withdrawals`, `withdrawal_authorizations`, wallet and ledger | authorize, admit with a hold, cancel, approve, reject, block, flag | every unit is available, held or withdrawn; a hold is returned once |
| Withdrawal execution (`withdrawal-executor.ts`, `withdrawal-external-effect-authority.ts`, `withdrawal-external-effect-recovery.ts`, `rpc/client.ts`, `confirmation/engine.ts`, `withdrawal-settlement-authority.ts`) | signing intents, broadcast attempts, confirmation outbox, the confirmation queue, the chain | claim, build and sign, broadcast, reconcile, publish, poll, settle | one signed transaction of a withdrawal ever reaches a node; the hold is consumed only for an included one and returned only if nothing was sent; monitoring ends in an outcome or in a job the queue gave up |
| API command idempotency (`api-command-idempotency.ts`) | receipts | claim, complete, replay, purge | a receipt and its effect commit together |
| Sessions and refresh tokens (`session-authority.ts`, `jti-store.ts`, the password change route) | families, tokens, sessions, devices and the revocation outbox in PostgreSQL, deny keys in Redis | log in, rotate, revoke, remove a device, change the password, publish, repair | one successor per token; a closed chain never issues again; what was revoked reaches Redis and answers say so |
| Second factors, identity (`two-factor-authority.ts`, `phone-otp-authority.ts`, ...) | challenges, codes, attempts | issue, verify, lock out | single use |
| Notification outboxes (`notifications/domain-outbox.ts`, `notifications/domain-processing.ts`, `notifications/outbox.ts`) | events with lease, attempts and dead letters; intents; deliveries | enqueue, claim, process, fail, recover a lease, deliver | at most one notification of an event, none by a lost claim; every event ends |
| Profile outbox (`mentor-profile-update-outbox.ts`) | profile events | enqueue, claim, complete | at least once |
| Trading arena (`trading-arena-*.ts`) | simulated accounts and positions | open, close, score | account value adds up |
| AI control plane, news, content, growth, academy, community, commerce, CRM | configuration, pipelines, progress rows, receipts | upserts, jobs, webhooks | per-row invariants, budget ceilings |
| Database access, migrations, realtime, rate limits, server, UI | pools, sockets, counters | infrastructure | delivery is best effort, never an authority |

How the modelled parts interact:

```
 client --POST /orders--> placement route --admit (1 tx: order + hold + command)--> PostgreSQL
                               |                                                       |
                               | process (API worker)      recovery lanes --claim------+
                               v                                 |
                       processExchangeOrderCommand <-------------+
                          | claim lease -> reconstruct? -> getOrder
                          v
                       placeOrder: market lock -> rebuild book -> plan ---(await)--- TX: trades, rows,
                          |                                                          holds, event, trigger
                          v
                       finalizeCommand: lease still mine? evidence gate? -> final (published)
 client --DELETE /orders/:id--> cancellation: market lock -> TX: close and release
```

```
 user --POST withdrawal--> admission (1 tx: authorization, hold, row) --> compliance_review | approved
 user cancels / operator decides --(API command receipt, 1 tx)--> withdrawals row
 execution job (at least once) --> executeWithdrawal: recover lease -> claim -> build, sign -> commit bytes
        -> begin attempt -> provider call -> accepted | refused | unknown (-> reconcile on the chain)
        -> publish outbox row --> confirmation queue --> checkConfirmation --> settle | failed | timeout
 login / refresh / revoke --(1 tx)--> families, tokens, sessions, revocation outbox --publish--> Redis
 domain transaction --> domain outbox --claim, lease--> intent, notification, delivery --> in-app worker
```

The parts share rows, not messages; orders and withdrawals meet in the wallet, whose updates are guarded and
relative. What is hard here: a worker keeps values in local variables across
several transactions, while other workers may hold the same command after its lease has run out, a
cancellation may close the order, other takers may eat the makers of its plan, the lock's connection may
drop, and the answer to a COMMIT may be lost. A withdrawal worker calls a provider whose answer may be lost
or contradict what another node did. A revocation has to reach a second store that fails on its own.
Nothing but the guards of each transaction stops a stale worker. `PROJECT.json` lists every such hazard with the line where it bites and the properties that watch
it.

## 2. Modules

| Module | Models |
|---|---|
| `MatchingFinancials` | exact arithmetic: gross, fees, holds and matched releases with their roundings, as operators |
| `OrderBook` | levels, crossing, priority, `computeFills`, FOK volume, planned spend, as operators |
| `MatchingLoop` | the loops behind `OrderBook`: the book filled row by row, `getFOKVolume` and `computeFills` maker by maker |
| `Settlement` | hold, release, debit, credit and the settlement of a trade over a private copy of the rows |
| `ExchangeOrders` | the state machine: admission, workers, engine, market lock, evidence triggers, cancellation |
| `OrderPromise` | the abstract specification of what the exchange promises for an order |
| `OrderPlacement` | the placement route as a retrying client sees it |
| `Withdrawals` | the request side of withdrawals with their holds and command receipts |
| `WithdrawalExecution` | the execution side, composed with the request side: workers, intents, attempts, confirmation outbox and queue, provider and chain |
| `WithdrawalPromise` | the abstract specification of what the custodian promises for a withdrawal |
| `Sessions` | the sessions of one user in PostgreSQL and Redis |
| `LoginChains` | the abstract specification of a login: a chain of single-use credentials |
| `Notifications` | the domain outbox, its workers and the in-app delivery |
| `MCExchangeOrders`, `MCMatchingLoop`, `MCWithdrawals`, `MCSessions` | instances for TLC |
| `ExchangeOrders_proofs`, `MatchingLoop_proofs`, `OrderPlacement_proofs`, `WithdrawalExecution_proofs`, `Sessions_proofs`, `Notifications_proofs` | theorems and proofs about the module each is named after |
| `ExchangeFunds_proofs` | what `ExchangeOrders` does with funds and fills, and that it implements `OrderPromise` |
| `SumTheorems` | facts about `SumFunctionOnSet` over finite sets, which the proofs about money rest on |

`ExchangeOrders` EXTENDS `Settlement`, which EXTENDS `OrderBook`, which EXTENDS `MatchingFinancials`.
`MatchingLoop` EXTENDS `OrderBook` and shows that its operators, which are sets and sums, compute what the
code's loops compute. `WithdrawalExecution` EXTENDS `Withdrawals`: its next step is one of either side, over
the same rows. `ExchangeOrders`, `WithdrawalExecution` and `Sessions` each instantiate their abstract
specification with a refinement mapping.

### Variables of ExchangeOrders

| Variable | In the code |
|---|---|
| `orders` | rows of `orders`, each with the unreleased hold that `wallet_ledger` shows for it (`getOrderHoldResidualTx`) |
| `commands` | rows of `exchange_order_commands`: state, attempt_count, locked_by and the stored result |
| `evidence` | per order, the processed events together with the audit rows their deferred trigger writes |
| `traded` | `trades`, as quantity by taker and maker order |
| `wallet`, `fees` | `wallet_balances` and the exchange's fee wallet |
| `marketLock` | the holder of the session advisory lock: a worker, a cancellation, or nobody |
| `cancelling` | cancellations that have been granted the lock and have not ended |
| `pc`, `job`, `attempt`, `seen`, `plan`, `proposal` | a worker's position in `processExchangeOrderCommand`, its command, the claim's copy of its attempt count, the remaining quantity `getOrder` returned, the engine's plan, the engine's result |

### Actions of ExchangeOrders

| Action | Code |
|---|---|
| `Admit` | `admitExchangeOrderCommand`: order, hold and command in one transaction |
| `Claim`, `ExpireForGood` | `claimCommand` with `recoverExpiredCommandLease` |
| `Reconstruct`, `ReadOrder` | the reads of `processExchangeOrderCommand` before it executes |
| `Plan` | `placeOrder` up to its transaction: try-lock, book rebuild, fills, refusals |
| `CommitTerminal` | `commitTerminalOrder` |
| `CommitMatch` | the engine's transaction, with the deferred trigger at its COMMIT |
| `Finalize`, `FinalizeReplays` | `finalizeCommand` and the gate `tecpey_require_exchange_order_final_evidence` |
| `StepFails`, `Fail` | any exception, and `failCommand` |
| `Crash`, `LockLost` | the process dies; the connection of the advisory lock drops |
| `CancelBegin`, `Cancel`, `CancelRefused` | `cancelOrderIdempotently`: lock, transaction, refusal |

A commit whose answer is lost is part of `CommitMatch` and `CommitTerminal` (`answered`): the rows are
written and the worker sees a failure.

### OrderPlacement

One action per await of the route: `Send` (validation and hold), `Precheck` (balance read), `AdmitNew` and
`AdmitReplay` (serialised by the advisory lock of the key), `Process`, with lost answers (`Lose`), retries
(another call with the same key), a raised fee (`RaiseFee`), recovery lanes (`Recover`) and cancellations.
What happens inside execution is one step here; `ExchangeOrders` is its detailed model.

### Withdrawals and WithdrawalExecution

| Variable | In the code |
|---|---|
| `state`, `reserved`, `cleared` | `withdrawals.state`, `funds_reserved_at` set, `compliance_evidence` that `complianceApprovalReady` accepts |
| `authorization` | the row of `withdrawal_authorizations` |
| `ledger`, `available`, `held` | types of the withdrawal's rows in `wallet_ledger`; the wallet row |
| `receipts` | completed rows of `api_command_receipts` |
| `signed` | `raw_tx` and `tx_hash`, as the generation whose bytes they are |
| `intent` | the latest row of `withdrawal_execution_intents` |
| `attempts`, `leaseDue` | `withdrawal_broadcast_attempts` in order; the lease of the calling one has run out |
| `outbox` | the row of `withdrawal_confirmation_outbox` |
| `watch` | its job in the BullMQ queue: waiting, active or failed for good, the tries it has left past the deadline, how often it stalled |
| `chain` | what the network knows of each signed transaction |
| `worker` | the position of each job in `executeWithdrawal` or `checkConfirmation`, with its locals |

| Action | Code |
|---|---|
| `IssueAuthorization`, `ExpireAuthorization`, `Admit` | `issueWithdrawalAuthorizationTx`, expiry, `createAuthoritativeWithdrawal` |
| `Cancel`, `AdminRepeat`, `AdminDecide`, `PurgeReceipt` | `cancelWithdrawalIdempotently`, `adminActOnAuthoritativeWithdrawal`, `purgeExpiredApiCommandReceipts` |
| `Deliver`, `DeliverWatch`, `JobDone`, `JobThrows` | the jobs of `queue/processor.ts` |
| `Crash`, `LosesLock` | the process dies; BullMQ takes the job of a live worker for stalled |
| `RecoverRead`, `ExpireAttempt` | `recoverExpiredWithdrawalBroadcastAttempt` |
| `ClaimNothing`, `ClaimConfirm`, `ClaimReconcile`, `ClaimResume`, `ClaimBuild` | the branches of `claimWithdrawalExecution` |
| `CommitPrepared`, `BuildFails`, `FailPreparation` | `buildSignAndPersist`, `commitPreparedWithdrawalExecution`, `failWithdrawalPreparation` |
| `Begin`, `RpcTry`, `FinalizeAccepted`, `AcceptFails`, `FinalizeFailure` | `beginWithdrawalBroadcastAttempt`, one endpoint of `RpcClient.call`, `finalizeWithdrawalBroadcastAccepted`, `finalizeWithdrawalBroadcastFailure` |
| `Observe`, `Resolve` | `reconcileAttempt`, `reconcileAmbiguousWithdrawalBroadcast` |
| `PublishNothing`, `PublishEnqueue`, `PublishMark`, `PublishFails`, `Unpublish` | `publishWithdrawalConfirmationOutbox` |
| `LoadDone`, `LoadRefused`, `LoadInTime`, `LoadLate`, `Poll`, `MarkOutcome`, `Settle` | `checkConfirmation`, `markWithdrawalConfirmationOutcome`, `settleConfirmedWithdrawal` |
| `LeaseExpires`, `DeadlinePasses`, `Network` | time, twice; the chain includes, reverts or re-organises |

### Sessions

| Variable | In the code |
|---|---|
| `family`, `device` | `refresh_token_families.status` and `known_device_id`; `"unbound"` marks credentials whose family has no row |
| `active` | active rows of `known_devices` |
| `token`, `session` | `refresh_tokens` and `user_sessions`, by the credential (family and turn) they were issued with |
| `outbox`, `deny` | `session_revocation_outbox`; deny keys in Redis |
| `request` | what each request or repair job is doing, with what it selected and revoked |

`Login`, `Rotate`, `RefuseRotation`, `RevokeSession`, `RevokeUnbound`, `RevokeOthers`, `Sweep`, `RemoveDevice`,
`ChangeBegins` and `ChangePassword` are the transactions of `session-authority.ts` and of the password change route,
`RegisterUnbound` is `setUnifiedSessionCookieAsync`, `PublishRead`, `DenyAll`, `DenyFails` and `PublishMark` are the
steps of `publishPendingSessionRevocations`, `Repair` is `scripts/reconcile-session-revocations.ts`.

### Notifications

`event`, `count`, `owner`, `due` are a row of `notification_domain_outbox` with its lease, `attempt` and `dead` its
attempt and dead-letter rows, `intent` and `delivery` what processing makes of it, `work` the claims the workers
hold. `Claim` is `claimNotificationDomainOutbox` with `recoverExpiredNotificationDomainLeases`; `Begin` fixes the
`NOW()` of a transaction; `Process`, `ProcessFails`, `Fail` and `Abandon` are what becomes of a claim in
`processClaims`; `Deliver` is a batch of the in-app worker, which claims deliveries and accepts them in one transaction.

## 3. What a step is, and what is assumed

* A database transaction is one action. The transactions of the engine, the cancellation and the workers
  take `FOR UPDATE` locks on the rows they read and write, and use guarded UPDATEs. A guard that fails
  rolls the transaction back, which is `StepFails`.
* Reads outside a transaction (`Reconstruct`, `ReadOrder`, the book rebuild in `Plan`, `Precheck`) are
  actions of their own, and what they return is kept in a local variable until it is used.
* A lease of two minutes may run out at any time under a live worker: `Claim` may take a `processing` row.
  Backoff times are left out for the same reason: a retry may come at once.
* One market, two assets. Markets share no order rows and each has its own lock; two markets meet only in
  the wallets, whose updates are guarded and relative.
* Order ids are handed out in admission order and stand for `created_at`. In the code ids are random, and
  orders of one millisecond are queued by id (section 6); `ExchangeOrders` leaves that case out.
* Fee rates are constants in `ExchangeOrders` (the code reads them at admission, planning and settlement).
  Changing rates are in the plan; `OrderPlacement` already changes the fee between two calls.
* Amounts are natural numbers of settlement units, and rounding is integer division: `toSettlementAmount`
  rounds down, a matched release rounds up. `PriceScale` decides how many digits a product has below the
  settlement scale. `HoldIsExact` states what `toHoldAmount` refuses.
* The types `gtc`, `ioc` and `fok` of the request are one type `"gtc"` here, since the engine treats them
  alike and the book recovery leaves all of them out. Their time in force is the field `tif`.
* The Redis mirror and the in-memory book are rebuilt from PostgreSQL inside the section before every match,
  so the model has only the rebuilt book. Between the answer of the recovery query and the end of
  `computeFills` the code does not await, and matchings of one process also queue on a local lock, so a plan
  is one action. Left out: a cancellation in the same process whose own rebuild runs into a matching's,
  which needs a dropped session lock; makers it leaves stale fail the validation of the commit.

* Withdrawals: the withdrawals of one user in one asset. A transaction, a provider call of one endpoint and a
  queue operation are one action each, and `Crash` may come between any two. Execution jobs are delivered at
  any time and any number of times: the repository's recovery enqueues them again and BullMQ delivers at
  least once. A confirmation job has finitely many tries and one forgiven stall (`queue/policy.ts`,
  `queue/processor.ts`); a job that has used either up is failed and stays so, unless the row is published again.
  Its tries before the deadline are not counted, those after it are (`LatePolls`). Prices, fees, addresses,
  compliance scores and nonces are data; the decision of compliance and every answer of a provider are
  chosen freely among those the code distinguishes.
* A provider that refuses may have been preceded, in the same `RpcClient.call`, by one that took the
  transaction and lost its answer; the last error is all the caller sees. A chain may include a transaction
  any time after a node has seen it, revert it, and undo the block that reverted it. A success is one that is
  final.
* Sessions: the sessions of one user. Expiry of tokens, step-up, renaming of devices and loss of keys in Redis
  are left out. Row locks within a batch, and which rows a batch short of its limit leaves out, are
  over-approximated. A session without a family (password change, saving a profile) has no device. Families
  that migration 0035 made of older tokens have none either, until a rotation gives them one; `Init` may have any.
* A transaction that revokes a session without a family is two actions (its read and `Sweep`), because the
  trigger of migration 0036 updates tokens under a snapshot taken before it holds any family row. So is a change
  of password (`ChangeBegins`, `ChangePassword`): its statements see different logins. Login takes no lock that it
  waits for, so a login that commits in between may keep its family and its token.
* Notifications: backoff, schedules, priorities and batch sizes are left out; any rows of the right status may
  be claimed together. Deliveries have leases, failures and a recovery of their own in `outbox.ts`; its one caller
  claims and accepts in a single transaction, which an error rolls back as a whole, so none of these is ever
  committed, and `Deliver` is what is. Beginning a transaction and running it are two actions, because its comparisons use
  the time at which it began.

## 4. Runs

| Run | Instance | Shows |
|---|---|---|
| `race` | 2 workers, 2 orders, 2 attempts, 1 cancellation at a time; a sale of 2, a purchase of 4, a FOK purchase of 2 and a sale of another type | with crashes, expired leases, lost answers, lost locks and cancellations of orders filled in part: `TypeOK`, `TerminalHoldClosed`, `ExecutedOnce`, `UnpublishedUntouched`, `FinalOutcomeTruthful`, `MakersPublished`, `HeldEqualsResiduals`, `OutcomeImmutable`, `OrdersOnlyProgress`, refinement of `OrderPromise` (`KeepsPromise`) |
| `book` | 1 worker, 3 orders out of two sales, a resting, an IOC, a FOK and a market purchase, taker fee of ten per cent, no maker fee | the arithmetic of matching: `FillsAddUp`, `ValueConserved`, `OpenOrdersCovered`, `TradesRespectLimits`, `ImmediateOrdersNeverRest`, `NeverOverpays` |
| `live` | 2 workers, 2 orders, 2 attempts | `EveryCommandEnds`, `ImmediateOrdersSettle` |
| `placement` | 3 calls, 2 keys, 2 bodies, 1 fee change, balance 5 | `TypeOK`, `HoldTakenOnce`, `VerdictsAreStored`, `ReuseNeverExecutes` |
| `loop` | every book of up to three orders of one side, two users, two prices and two quantities, against limit and market takers of three quantities; `PriceScale = 2` | the loops agree with `OrderBook` (`LoopComputesFills`, `LoopCountsVolume`), and throw exactly for a fill worth nothing (`WorthlessFillThrows`) |
| `withdraw` | 1 withdrawal, 2 workers, 3 commands, 2 generations, 2 attempts, 2 RPC tries, 1 late poll, 1 stall | `TypeOK`, `BroadcastIsKnown`, `RetryNeedsAnswer`, `IntentMatchesState`, `PublishedHasJob`, refinement of `WithdrawalPromise` (`KeepsPayoutPromise`) |
| `withdraw_live` | 2 withdrawals of 2 out of funds of 3 and a limit of 4, 1 worker, 3 commands, 2 late polls, 1 stall | `FundsAccounted`; `MonitoringEnds` |
| `sessions` | 2 families (one rotated up to twice), 2 devices, 1 request and 1 repair job | `RemovedDeviceHoldsNothing`, `ReportIsTrue`, refinement of `LoginChains` (`KeepsLoginChains`), `RevocationsPublished` |
| `notifications` | 1 event, 2 workers, 3 attempts | `AttemptsTellTheStory`, `NotifiedOrGivenUp`, `EventsEnd` |
| `placement_duplicates`, `withdraw_stuck`, `sessions_others` | small instances | the disagreements of section 6 |

Why the bounds are enough for the cases in question:

* `MaxOrders = 2` is the least in which a maker and a taker meet and both are processed at the same time;
  3 (`book`) gives a taker two makers, a maker two takers, an own order between others, and
  a second fill after a rounded first one.
* `MaxAttempts = 2` (12 in the code) gives the first claim, a retry and the last attempt, and two claims of
  one command alive together. The proofs hold for every value.
* Two workers are a stale and a new holder of one lease. A third adds a further stale one, which is caught by
  the same guards; again the proofs cover any number.
* Ten per cent fees over prices of 5 make every fee of a single unit round (half a unit), and make hold and
  matched release differ, so the rounding drift of partial fills shows with small numbers.
  `PriceScale = 1` means that no gross rounds; `loop` has `PriceScale = 2`, where one unit at the lowest
  price is worth nothing. Two clock ticks to a millisecond make two of its three orders tie.
* `MaxCancelling = 1` lets a cancellation take the lock between any two steps of the workers, be
  overtaken when the lock is lost, and be refused. With a lost lock two could overlap; both are single
  transactions on a row lock, and the proofs do not bound them.
* Two workers on one withdrawal are a holder of a lease and the one that takes over; `MaxGens = 2` and
  `MaxAttempts = 2` (no bound in the code) give a second signing after a failed one, a second broadcast after a
  lost or refused one. `RpcTries = 2` (3 in the code) lets a node that took the transaction be followed by one
  that refuses it. Withdrawals share only the wallet and the velocity limit, so a second one is in
  `withdraw_live`, where the funds hold one of the two at a time. The velocity limit is read and used under the
  user's advisory lock, and is not contended.
* `LatePolls` is at least 3 in the code. One try (`withdraw`) and two (`withdraw_live`) give the failure of the
  last, and of one before it; fewer tries only fail the job sooner. `MaxStalls = 1` is BullMQ's default.
* Two families are a login beside another on the same or another device, or one that was migrated; one request and
  one job have logins, rotations and a publication run beside every revocation (the proofs cover any number); two rotations give a chain with a used,
  a spent and a live token, so a replay of each kind. `BatchLimit = 4` publishes every row at once. A limit
  below the pending rows (200 in the code) is not run: a request may then answer before all its own rows are
  published, which is the hazard listed at `session-authority.ts:1092`; TLC refutes `ReportIsTrue` with
  `BatchLimit = 1`. The proofs hold for every limit, that of `ReportIsTrue` under the hypothesis `OneBatch`.
* Events are rows of their own: the properties speak of one event, and two events meet only in a batch, which
  the model lets be abandoned in part. Three attempts (8 in the schema) are a first, a middle and a last one.
* `SYMMETRY` is over workers only, in `race` and `withdraw`, without liveness; nothing distinguishes workers in `Init` or in
  the requests.
* Deadlock is checked in the withdrawal runs. Elsewhere it is not: when all `MaxOrders` orders are admitted,
  their commands ended and the orders closed, nothing is left to do; likewise in `OrderPlacement` when all calls
  are answered, in `MatchingLoop` when the loop is over, in `Sessions` when every credential of the bound is
  issued and revoked, and in `Notifications` when every event has ended.

Every property of a passing run has a mutant in `PROJECT.json`: a change to one definition of the kind a
plausible bug would make (a forgotten join, a skipped user check, an unchecked lease, a missing unique key, an overwritten sum) for
which TLC finds the property violated. The mutated forms stand beside the definitions they replace, in the
comments as "Mutant".

## 5. Fairness

`Fairness` is weak fairness of each worker's next step. The code's justification: recovery lanes
(`scripts/run-exchange-order-worker.ts`) are to be run continuously under a supervised service
(`docs/architecture/EXCHANGE_ORDER_ADMISSION_AUTHORITY.md:31`), so a claimed job is
carried on, fails, or its lease expires and somebody claims it again. A worker's step may always be a
failure (`StepFails`); nothing says that an execution ever succeeds. The liveness properties therefore
rest on the attempt bound: each claim counts, and the last one ends in `final` or `failed_terminal`.
Admission, cancellation, crashes and lost locks are owed nothing. `OrderPlacement` states no liveness.

`ImmediateOrdersSettle` has `failed_terminal` as an alternative because the code abandons a command
after its last attempt with the hold in place, for reconciliation to look at.

`WithdrawalExecution`: a worker that does not crash goes on, time passes the deadline, and the queue hands a waiting
confirmation job to a free worker in its turn (strong fairness of `DeliverWatch`; confirmation jobs have workers of
their own). A job that has failed is not delivered again, and nothing is assumed of crashes, lost locks, providers or
publications: any number of them may fail. `MonitoringEnds` therefore has two endings, an outcome or a job that the
queue failed after its last try or second stall. In the second the row stays `published` and the withdrawal
`confirming`, and nothing in the code takes it up again.

`Sessions`: the repair job is run until it exits successfully
(`docs/security/SESSION_AND_DEVICE_AUTHORITY.md:69`), so its steps are strongly fair against failures of Redis.
Requests are owed nothing: they may die before they publish.

`Notifications`: workers poll and take the oldest rows first, so for each event a claim that includes it or its
recovery is weakly fair; leases run out; the in-app worker polls. Nothing is assumed of a claim once taken, which
may be abandoned every time: the bound on attempts ends it.

## 6. Where the code and its documents disagree

Each of these is a run whose single property is what a document says, and which TLC refutes.

* `placement_duplicates`. The admission authority promises that exact duplicates replay the committed command
  (`docs/architecture/EXCHANGE_ORDER_ADMISSION_AUTHORITY.md:20`). The route compares the available balance with the
  hold before it looks for the key, so the duplicate of an order whose hold emptied the balance is told
  `insufficient_balance`; and the request hash includes the hold, so a duplicate after a raised fee is told
  `idempotency_conflict`. `placement` shows that no second order comes of either.
* `withdraw_stuck`. A reverted transaction fails the withdrawal and completes its confirmation row. A later job
  broadcasts the same bytes, which are accepted when the reverting block was undone; the acceptance inserts the
  row with `ON CONFLICT DO NOTHING`, the completed row is immutable, and nobody confirms or settles the
  withdrawal.
* `sessions_others`. Rotation leaves the previous access session live, in the same family as its successor.
  "Revoke others" collects the families of all other live sessions, its own among them, and signs the caller out.

Observed while modelling, and not kept as runs:

* The market lock belongs to a connection of its own. When that connection drops, PostgreSQL frees it while the
  handler goes on, and two handlers are in the section. `race` and the proofs show that no order is harmed: row
  locks, the `NEW` guard and the unique evidence key carry safety without the lock.
* An accepted unfilled GTC order of a type other than `limit` is open and published, and the rebuilt book leaves
  it out: it can never trade. A better-priced order may be published between a plan and its commit, and be
  passed over. The rebuilt book keeps `created_at` in whole milliseconds and breaks ties by order id, a random
  UUID, so of two orders of one millisecond the later may stand first.
* An executed order enters the book when `finalizeCommand` publishes it, after the section has been left. Two orders
  that cross may each be executed while the other is unpublished, and rest side by side until a third comes. The
  documents describe the visibility of liquidity at finality as intended (`docs/TRADING_CORE.md:460`,
  `docs/REDIS_ORDER_BOOK.md:103`).
* A confirmation job that stalls twice, or whose last polls all fail, is failed by BullMQ with its outbox row
  `published`. `publishWithdrawalConfirmationOutbox` selects `pending` and `dead_letter` rows only.
* `RpcClient.call` rethrows the last endpoint's error. A transaction that one node accepted can therefore be
  recorded as `rejected` and its withdrawal as `failed`, with its funds still held. Nothing in the code takes it
  up again (`RetryAllowed` refuses); an operator has to.
* `executor` throws `withdrawal_broadcast_hash_mismatch`, which the classifier's pattern `hash mismatch` does not
  match, so a mismatch is `ambiguous` and no attempt becomes `hash_mismatch`.
* The branch of `claimWithdrawalExecution` that retires an intent whose signing lease has run out is reached only
  from `approved` and `failed`, where no intent is building (`IntentMatchesState`). A worker that dies between
  claim and commit leaves the withdrawal in `building_transaction`, which no job claims again.
* A login that commits between the statements of a password change loses its session, and keeps its family, or its
  family and its token, depending on the statement it missed.
* The refresh token of a password change belongs to a family without a row: its rotation throws
  `refresh_family_missing`. Its revocations go to Redis without the outbox, so a failure of Redis there is not
  repaired. Saving a profile issues a session that is bound to no family.
* A rotation locks token, family, device and a removal device, families, tokens; PostgreSQL may abort one of them.
* One claim of a notification batch whose failure cannot be recorded, or a signal, abandons the other claims of the
  batch: each costs an attempt, so an event can be given up without having been tried `max_attempts` times. A
  delivery that raises in SQL rolls back its whole in-app batch.

## 7. Proofs

Eight modules hold theorems, `SumTheorems` among them; each of their assumptions is evaluated by TLC in the runs
of the module that declares it.

### Orders

`ExchangeOrders_proofs` holds for all `Users`, `Requests`, `Workers`, deposits, fee rates, price
scales and bounds that satisfy `FinancialsAssumption` and `OrdersAssumption` (users are finitely many, workers and
order ids are distinct names, requests have exact holds, rates are at most one).

| Theorem | Property |
|---|---|
| `TypeCorrect` | `TypeOK` |
| `NoHoldOutlivesItsOrder` | `TerminalHoldClosed` |
| `AtMostOneExecution` | `ExecutedOnce` |
| `NothingReachesUnpublishedOrders` | `UnpublishedUntouched` |
| `PublishedOutcomeIsTrue` | `FinalOutcomeTruthful` |
| `LiquidityIsPublished` | `MakersPublished` |
| `TradesAreWithinLimits` | `TradesRespectLimits` |
| `ImmediateOrdersEnd` | `ImmediateOrdersNeverRest` |
| `OutcomesStay` | `OutcomeImmutable` |

The argument. `TypeOK` is not inductive: `Claim` adds one to the attempts of a row that is `admitted` or
`retryable`, so those must be below the maximum (`AttemptsLeft`); a worker that has its
lease has the count of the row (`ClaimsCounted`); and that an admission finds a fresh
command row needs that order and command are inserted as a pair (`InsertedAsPair`). `Typed` is these
together.

`IInv` strengthens the safety invariants by what they lean on:

* `JobsAdmitted`: a busy worker has a command that exists, so no step executes an order that was never
  admitted.
* `PlansStand`: what a worker has planned stays executable as planned or not at all. Its makers are published
  limit orders of another user that the taker's limit reaches; a refused order is one that may not rest; a
  FOK plan is whole. This is what carries a decision made under the lock to a commit that may come after the
  lock is lost. It is stable because `final` commands and requests never change.
* `PublishedWasExecuted`, `ExecutedIsDecided`, `RejectedIsBare`: a published order has its event, an
  executed one a status its event explains, a rejected one no trade and no hold.
* `RowsAddUp`: fills and rest of an order make its quantity.

The preservation proof splits the steps. Those that write no order, evidence or trade are proved once, through
`QuietEffect`. `Admit`, `Cancel`, `CommitTerminal` and `CommitMatch` have a lemma each; `CommitMatchEffect` is
the summary of the engine's transaction that the last one works from. `StepsKeepPlans`
and `StepsKeepJobs` handle the workers' locals. `Invariance` joins them with `PTL`.

### Funds of orders

`ExchangeFunds_proofs` adds, under the same assumptions:

| Theorem | Property |
|---|---|
| `HeldFundsAreReserved` | `HeldEqualsResiduals` |
| `NothingIsMadeOrLost` | `ValueConserved` |
| `FillsAreTrades` | `FillsAddUp` |
| `OrdersMoveForward` | `OrdersOnlyProgress` |
| `PurchasesStayWithinReserve` | `NeverOverpays`: all fills of a purchase and their fees cost no more than was reserved |
| `OpenOrdersStayCovered` | `OpenOrdersCovered`: what an open order still holds pays for the rest of it, up to one settlement unit per trading partner |

A transaction settles its fills one after another on a copy of the rows, and in the middle of a fill neither the
buyer's nor the seller's wallet is what it was. So the proof is about two measures of a copy: `GapIn`, the held
balance of a wallet less the holds on it, and `ValueIn`, what all wallets and the fee wallet have of an asset.
`MoveEffect`, `PaymentEffect` and `ReleaseEffect` say how one ledger movement changes them, `TradeEffect` that the
eight movements of a trade leave both as they were, for any amounts and fees, and `SettleFillEffect` the same of a
turn of the loop with the release that closes a maker. `SettleFillsEffect` carries it through the loop, a fold over
the set of fills: `SettlingExists` shows that the recursion of the fold has a solution on the subsets of a
finite set, and the least set of fills that breaks the measures would be one turn longer than a set that does not.
That each order's hold only shrinks, and only for the taker and its makers, goes along (`Settled`).
`RowsAreACopy` and `WriteBackKeeps` take the result from the copy to the tables.

The invariant `FundsInv` adds `PlansNameMakersOnce` to the properties. The rows are written by order
(`FillOf`) and the trades are settled by fill, and the two agree only because a plan names a maker once,
which holds as the rebuilt book has one entry per order. `TotalByMaker` turns the sum over fills into the sum
over makers.

`NeverOverpays` has a part for each type of purchase. A limit purchase (`LimitBuysCovered`) needs no invariant of its
own: every fill is at its limit or better, a fill's rounded cost is within its exact cost at the limit and the worst
fee (`CostWithin`), the reserve is that cost of the whole quantity to the digit (`HoldIsExactCost`: `toHoldAmount`
refuses anything else), and what is filled is at most the quantity (`FillsAddUp`). A market purchase has no
limit. What binds it is the check of its plan, made against the hold before the lock may be lost, while the transaction
reads prices and hold again. So `CostInv` follows the plan: its prices are those its makers asked for
(`PlansAffordable`), a hold is never above the reserve (`HoldsWithinReserve`), and the payments of a match are
the planned ones (`MatchPaysPlan`), which is the taker's only match.

`OpenOrdersCovered` needs `CoverInv`, kept through every turn of the loop over fills. The release of a fill is rounded
up, so a hold sinks below the exact cost of the rest by less than one unit per fill (`FreedWithin`), and
nothing ever gives it back. `SettlingHolds` carries the bound through the fold for the taker, who is charged once per
maker, and for each maker, charged once. That a pair of orders trades at most once (`MatchIsOfFresh`: a taker executes
once, and before it is published) is why counting partners counts fills (`PartnersOfMatch`). The
proof found a flaw in the property: its CASE had two guards that a market sale met, so its value was open; the
guards are exclusive now.

The last part of `ExchangeFunds_proofs` proves `PromiseToClients`: `Spec => KeepsPromise`. Claims, lost leases, retries, crashes
and lock losses are stutters (`KeptCommand`, `UntouchedPromises`); `Finalize` publishes because the evidence gate
compares verdicts and there is one event (`PublishedCommand`); the last `Fail` abandons. Both transactions of the engine
are an `Execute`: that the evidence of the order was empty comes from `ExecutedOnce` after the step, that every maker is
liquidity from `FinalOutcomeTruthful`, and the sum over the makers' gains from `TotalByMaker`.

### Matching loop

`MatchingLoop_proofs` holds for all books and takers of the types in `LoopAssumption`, any price scale and any tick of the clock.

| Theorem | Property |
|---|---|
| `LoopIsItsDefinition` | `LoopComputesFills`: makers, quantities, order and rest are those of `ComputeFills` |
| `VolumeIsWhole` | `LoopCountsVolume` |
| `WorthlessFillsThrow` | `WorthlessFillThrows` |

The first and the third assume `IdsArePriority`: a row that comes before another in a queue has the smaller id. The
code's ids are UUIDs, while `OrderBook` takes an id for the place of its order; the assumption says just
that. Any book satisfies it once its rows are numbered along their queues, and ids in the order of admission, as in
the run, satisfy it as well (`AdmissionOrder`). `VolumeIsWhole` does not need it.

Sorting comes first. `Arranged` puts an element where its rank is, and by counting (`RankTaken`) each place is taken
once; a set has one sorted sequence (`SortedOnce`), so two ways to sort agree. The invariants follow the phases.
`Reading`: each queue sorts the rows inserted in it. `Counting`: the volume is that of the levels before the present
one, which all cross; where the walk ends nothing behind it crosses, as levels get worse (`CrossingWalked`).
`Filling`, through `FillsAt`: with `Reached` for the rows behind the walk, the records are the fills the plan has for
them, in settlement order, and what remains is the wanted quantity less theirs. The step that matters is at a
maker: the rows behind the walk are exactly those with priority over it (`ReachedIsAhead`), and nothing has been
allocated to it (`PassedIsNoCandidate`), so what the loop gives it is its share of the plan (`MakerShare`). When the
loop stops, every row not reached has a share of nothing (`FillsEnd`).

### Placement

`OrderPlacement_proofs` holds for all calls, keys and orders that satisfy `PlacementAssumption`.

| Theorem | Property |
|---|---|
| `TypeCorrect` | `TypeOK` |
| `OneHoldPerKey` | `HoldTakenOnce`: one order per key, and the balance lacks exactly what commands hold |
| `VerdictsAreTold` | `VerdictsAreStored`: a verdict told is the stored one of the caller's own request |
| `ReuseIsRefused` | `ReuseNeverExecutes` |

The invariant says of a command row what it has when (`CreatedWithCommand`, `PendingHolds`, `FinalHasVerdict`,
`EmptyHoldsNothing`) and of each call what it has read that is still true (`CallInv`).

### Sums

`SumTheorems` proves what a sum over a finite set does when a term is added, removed or changed. An induction theorem
would take an operator as a parameter, so each fact is proved by least counterexample: among the subsets
on which it fails, a finite family, there is one with no smaller member (`SmallestSet`), and removing an element
from it contradicts the choice.

### Withdrawals

`WithdrawalExecution_proofs` holds for all withdrawals, amounts, workers, command keys and bounds that satisfy
`RequestAssumption` and `ExecutionAssumption` (names are distinct, amounts and bounds are natural numbers).

| Theorem | Property |
|---|---|
| `TypeCorrect` | `TypeOK` |
| `BroadcastsAreKnown` | `BroadcastIsKnown`: whatever the chain knows is the signed transaction and has an attempt |
| `RetriesAreAnswered` | `RetryNeedsAnswer`: a second broadcast follows an answer to the first |
| `IntentsMatch` | `IntentMatchesState` |
| `PublishedRowsHaveJobs` | `PublishedHasJob`: in the queue, or failed there for good |
| `PromiseIsKept` | `KeepsPayoutPromise`: every step is a step of `WithdrawalPromise` or a stutter |
| `FundsAreAccounted` | `FundsAccounted`: what is locked is what open withdrawals reserve, and the balance is the deposit less what was paid |

`IInv` is `TypeOK`, `RowInv` of each withdrawal and `JobInv` of each worker. `RowInv` has four parts: `SigningInv` (the
signed bytes, the intent and the state agree), `FundsInv` (the ledger's rows and the state agree), `AttemptsInv`
(the attempts in order, and what each means for the chain) and `OutboxInv`. `JobInv` is what a worker may still
rely on in its local variables. The hard part is that a worker keeps those while others change the row. `Kept(w)`
names what no step takes back of a withdrawal: signed bytes never change once they exist, what the chain has seen
stays seen, attempts are only appended, the outbox row stays, and one that was enqueued keeps a job until it is completed. Every step is
shown to keep it (`RowStep`), so the knowledge of a worker that did not move stays true. There is one lemma per action, and `PromiseStep` maps each to the abstract
specification. The promise needs the invariant: without `RetryAllowed` in the claim, a second signing would pay twice,
and the proof fails there. For the funds the invariant adds that an amount is reserved exactly while the ledger of
its withdrawal holds the lock and neither a payment nor a release; then each step changes at most one term of each sum.

### Sessions

`Sessions_proofs` holds for all families, devices, requests, jobs and batch limits that satisfy `SessionAssumption`.

| Theorem | Property |
|---|---|
| `TypeCorrect` | `TypeOK` |
| `RemovalIsComplete` | `RemovedDeviceHoldsNothing` |
| `ChainsAreKept` | `KeepsLoginChains`: each step is one of `LoginChains` or a stutter |
| `ReportsAreTrue` | `ReportIsTrue`, for behaviours in which the pending rows always fit one publication (`OneBatch`) |

`IInv` adds to the first two that every issued session is in its family (`IssuedInFamily`), that a family has at
most one live token (`OneLiveToken`), which makes rotation a step of the chain, and that rows selected for
publication exist (`SelectedHaveRows`). `"none"`, the missing device, is assumed not to name one.

`ReportsAreTrue` is conditional because the code is: `publishPendingSessionRevocations` takes the oldest 200 rows and
answers for all. Its invariant `ReportInv` says of a published row that Redis denies its session (`QueueIsTrue`)
and of each request, by its place, where the sessions it revoked are: queued, in its batch, or denied (`Accounted`). A
request whose rows another publisher took while it waited finds them published, hence denied. That a batch short
of the limit is all that is pending is `WholeBatch`, which rests on finitely many credentials having been issued
(from the steps of `LoginChains`).

### Notifications

`Notifications_proofs` holds for all events, workers and attempt bounds that satisfy `NotificationAssumption`.

| Theorem | Property |
|---|---|
| `TypeCorrect` | `TypeOK` |
| `EvidenceIsTrue` | `AttemptsTellTheStory` |
| `OneOutcomePerEvent` | `NotifiedOrGivenUp` |

The three are inductive together: the evidence of the attempts is what shows that a claim whose lease was
lost can no longer write.

### Only model-checked

* `EveryCommandEnds`, `ImmediateOrdersSettle`, `MonitoringEnds`, `RevocationsPublished`, `EventsEnd`: liveness
  under fairness, which needs `ENABLED`.

## 8. Not modelled, and why

`PROJECT.json` has every component with its status. Left out of the modelled ones:

* the attempt journal, admission and cancellation audit rows, custody evidence rows, committed events to the
  bus: written and never read by a decision, or read by a gate in the transaction that wrote them;
* authentication, validation, rate limits and risk checks of the routes: they come before any change of state;
* the Redis book and the display book: caches of what is rebuilt;
* row locks and pool connections: transactions are single actions, so PostgreSQL deadlocks and a
  starved pool do not show (planned);
* zero-gross fills in the instances of `ExchangeOrders`: `Plan` has the guard, `loop` shows when it bites,
  and a worker that meets one is a worker whose step fails;
* of withdrawals: `cancelAuthoritativeWithdrawal` (no caller), tenants, price and fee authorities, the backfill of
  intents for rows signed before the intent table existed, and the chains' own providers, which are the free
  answers of `RpcTry`, `Observe` and `Poll`;
* of sessions: expiry, step-up, second factors before a login;
* of notifications: preferences, grouping, digests, external channels, and the profile outbox.

Components outside these (academy, community, content, news, growth, CRM, AI configuration, user
interface) are mostly single-row upserts or pure presentation; the arena, commerce webhooks, the second factors
and the budgets of AI jobs have state worth a model and come next. The share of the repository's lines that the
models stand for is small: most of its lines are pages, content, configuration and launch checks that keep no
state.

## 9. Plan

In order:

1. `HoldConsumption`: changing fee rates and finer prices over one resting order, for the drift of its hold.
2. `LockOrder` and `PoolStarvation`: the order in which transactions take rows, and ten connections with
   waiting cancellations.
3. Two-factor and one-time-code challenges; AI budget admission; the arena account; commerce webhooks.
4. Expiry in `Sessions`, and the loss of deny keys in Redis.
