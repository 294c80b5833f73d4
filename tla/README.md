# InvoiceFi-Stellar: TLA+ specifications

This directory specifies the core of InvoiceFi-Stellar in TLA+: the Soroban
contracts that hold invoices, liquidity and repayments, the backend services that
fund invoices, mirror settlements into the database, tell subscribers about them
and guard the API, and the stateful parts of the frontend. TLC checks the
specifications on small instances; TLAPS proves the most important results for every
value of the constants. `PROJECT.json` maps each definition to
the lines it was translated from and lists runs, mutants, hazards, findings and
theorems.

Paths below are relative to the repository root. All tools run in this directory:

    tlc -workers 2 -config SettlementSync.cfg MCSettlementSync
    tlapm InvoiceContractProofs.tla

## 1. The system

An SME mints an **invoice** on chain; an administrator funds it, which mints an
ownership token. Liquidity providers deposit into the **financing pool**, from
which a liquidity manager advances the discounted face value to the SME. The buyer
repays through the **settlement contract**, in one or several payments, each under
a nonce. All three contracts embed the **access-control library**. The backend
(NestJS, PostgreSQL through Prisma) polls the chain for settlements
(**settlement sync**), updates its mirror of the invoices, and announces changes
through a **webhook queue**. The three contracts never call each other: an
off-chain orchestrator issues the calls.

| Component | State | Operations | How it interacts |
|---|---|---|---|
| Access control (`contracts/access-control`) | signer set and threshold, pending transfer with its confirmations, time-lock, role grants, pause flag | initialize, grant/revoke role, pause/unpause, propose/confirm/execute/cancel admin transfer | library: runs in the storage of each contract; its guards gate their operations |
| Invoice (`contracts/invoice`) | id counter, invoices, tokens, approvals | initialize, mint, fund, approve, transfer, transfer_from, update_status | calls access control; emits events |
| Financing pool (`contracts/financing-pool`) | available liquidity, balances, fundings, discount, price feed, oracle configuration, guard | initialize, deposit, withdraw, fund_invoice, setters | calls access control and checked arithmetic |
| Settlement (`contracts/settlement`) | invoice records, nonce records, fee rate and pot, configuration, guard | init, set_invoice_data, set_fee_rate, settlement_auth, request_settlement_auth, settle_invoice, withdraw_fees, setters | calls access control and checked arithmetic; emits the events the backend reads |
| Oracle (`contracts/oracle`) | submissions, configuration | configure, submit, read a median | none of the contracts calls it |
| Settlement sync (`backend/src/settlement`) | cursor, `Invoice.status`, audit rows; in memory: the cycle's batch | tick/syncOnce, backfill, settleInvoice | reads RPC events; calls the webhook dispatcher |
| Webhooks (`backend/src/webhooks`) | subscriptions, delivery rows, attempts; in memory: running attempts | dispatch, claim, attempt, finalize, register, revoke | several backend instances share the table; HTTP to subscribers |
| Funding (`backend/src/financing-pool`, `common/idempotency*`, `soroban`) | idempotency rows and their Redis records, `Invoice.status` and `funder`, the signing account's sequence number | fundInvoice, invoke, the interceptor, clean-up of stale locks and expired keys | contract call, then database write |
| Rate limiter, circuit breaker (`backend/src/common`) | sorted sets in Redis; a circuit in memory | checkLimit in two tiers; execute, reset | middleware in front of every handler; the breaker is injected nowhere |
| Oracle monitor (`backend/src/oracle-monitor`) | feeds, failure counter, fallback state | poll, forced poll, activation | reads the RPC node; the funding service asks whether funding is blocked |
| Reminders (`backend/src/invoice-reminder`) | Bull jobs, dead letters | scheduler, worker, dead-letter worker | Redis queue shared by the instances |
| Credentials (`backend/src/prisma`, `config/vault`) | secrets, the Prisma client | start, withRetry, reconnect | Vault and PostgreSQL |
| Compliance (`backend/src/compliance`) | export jobs | inline export, job, download | reads the invoice table |
| Monitoring (`backend/src/monitoring`) | windows of recent events, alerts sent | ledger stream, evaluate, dispatch | Horizon |
| Offline queue (`frontend/hooks`) | mutations in IndexedDB, replay passes | enqueue, replay, resolve conflict | the HTTP API; several pages share the store |
| Invoice wizard (`frontend/src/components`, `hooks/useTransactionSimulation.ts`) | step, form, pending transaction, simulation | edit, confirm, simulate, sign, cancel | Horizon, the RPC node, the Freighter wallet |
| Portfolio table (`frontend/components`) | filters, sort, page; the render on the screen and the effect it has pending | filter, sort, page, refresh, commit, effect | props of the page around it |
| Authentication, notifications, calculations, scripts | none of interest | see the sources | peripheral |

### What is hard

* **Contracts.** A call is atomic and a failed one leaves no trace, so there is no
  interleaving inside one; the difficulty is in long sequences of legal calls:
  confirmations carried over from one signer set to the next, an approval
  outliving its owner, an invoice registered a second time, claims drawing on one
  pool, rounding and overflow, pausing in the middle.
* **Settlement sync.** The cursor, the invoice and the webhook row are written in
  three places at three times. Retries, give-ups, a concurrent backfill, a page
  limit, crashes between any two of them.
* **Webhooks.** Several instances claim rows by a lock with an age; an attempt is a
  chain of awaited calls, any of which can fail or be cut off, and the lock of a
  slow attempt can be taken over.
* **Funding.** A client retries, the same key arrives twice, a lock is deleted under
  a slow request, the chain's answer does not come, the process stops between the
  chain and the database.
* **The rest of the application.** Node runs one handler at a time but switches at
  every await: a value read before it is stale after it. Timers and forced polls
  overlap, late outcomes are counted in a newer state, answers arrive out of order,
  a page is closed in the middle of a write.

What makes each component correct is in section 3, by module; the list of places
where it could go wrong is `hazards` in `PROJECT.json`.

## 2. Modules

| Module | Models | Checked by | Proved in |
|---|---|---|---|
| `Storage`, `CheckedMath` | a contract's key-value storage (external); `contracts/common/src/checked_math.rs` | used by the contracts | - |
| `AccessControl` | `contracts/access-control/src/lib.rs` | `MCContracts` | `AccessControlProofs` |
| `InvoiceContract` (extends `AccessControl`) | `contracts/invoice/src/lib.rs` | `MCContracts` | `InvoiceContractProofs` |
| `InvoiceLifecycle` | abstract specification: the life of an invoice and its holder | refined by `InvoiceContract` | `InvoiceContractProofs` |
| `FinancingPool` (extends `AccessControl`) | `contracts/financing-pool/src/lib.rs` | `MCContracts`, `MCFinancingPool` | `FinancingPoolProofs` |
| `SettlementContract` (extends `AccessControl`) | `contracts/settlement/src/lib.rs`, `types.rs` | `MCContracts`, `MCSettlementContract` | `SettlementContractProofs` |
| `SettlementSync` | `backend/src/settlement`, `common/retry.ts` | `MCSettlementSync` | `SettlementSyncProofs` |
| `WebhookDelivery` | `backend/src/webhooks` | `MCWebhookDelivery` | `WebhookDeliveryProofs` |
| `FundingService` | `financing-pool.service.ts`, `idempotency.interceptor.ts`, `idempotency-cleanup.service.ts`, `soroban.service.ts` | `MCFundingService` | `FundingServiceProofs` |
| `RateLimiter` | `rate-limiter.service.ts`, `rate-limit.middleware.ts` | `MCApplication` | `ApplicationProofs` |
| `CircuitBreaker` | `circuit-breaker.service.ts` | `MCApplication` | `ApplicationProofs` |
| `WebhookSubscriptions` | `webhook-subscriptions.service.ts` | `MCApplication` | `ApplicationProofs` |
| `OracleMonitor` | `backend/src/oracle-monitor` | `MCApplication` | `ApplicationProofs` |
| `InvoiceReminder` | `backend/src/invoice-reminder` | `MCApplication` | `ApplicationProofs` |
| `CredentialRotation` | `prisma.service.ts`, `vault.service.ts` | `MCApplication` | `ApplicationProofs` |
| `ComplianceExports` | `backend/src/compliance` | `MCApplication` | `ApplicationProofs` |
| `AnomalyMonitoring` | `backend/src/monitoring` | `MCApplication` | `ApplicationProofs` |
| `OfflineQueue` | `useOfflineQueue.ts`, `useOptimisticUpdate.ts`, `useNetworkStatus.ts` | `MCApplication` | `ApplicationProofs` |
| `InvoiceWizard` | `InvoiceWizard.tsx`, `useTransactionSimulation.ts`, `TransactionSimulationPreview.tsx`, `lib/soroban.ts` | `MCApplication` | `ApplicationProofs` |
| `PortfolioTable` | `InvestorPortfolioTable.tsx` | `MCApplication` | `ApplicationProofs` |

**Contracts.** One variable per storage key (or family of keys), one action per
entry point. `require_auth` says who the caller is, so an action is quantified
over callers and its role checks are guards. An error or panic rolls the call
back, hence every early return is a conjunct and a refused call is no step.
`Initialize` is an action: before it, calls find no signer set and are refused by
the code's own checks. Each contract composes the library: its next-state relation is
its operations plus `ACOps`, the access-control entry points, which leave its own
variables unchanged. Events, TTL extension and pure views are left out. Ledger
sequence and timestamp are advanced by an external action. `MCContracts` runs the
library and the three contracts side by side, one per behaviour (`contract`), with the
part of the library each behaviour explores in `Bounds`. Fee withdrawals take either
sign, as `withdraw_fees` does.

**History variables.** `totals` (pool), `accepted`, `paid`, `fees` (settlement),
`audit`, `announced`, `lost`, `since`, `jumped` (sync), `acks`, `interrupted` (webhooks) record
what happened so that properties can relate it to what the program stored. They
appear in no guard but those of the bounds `MaxDeposited` and `MaxPaidOut`. The same
goes for `overtaken` (funding), `granted`, `newest`, `late`, `waved` (rate limiter),
`sinceTrip` (breaker), `staleStreak` (oracle monitor), `attempts`, `evicted`
(reminders), `rotated` and `overwritten` in an operation (credentials), `seen`
(monitoring), `sends`, `applied`, `discarded`, `doubtful`, `interrupted` (offline queue),
`overlapped`, `signed` (wizard).

**SettlementSync.** `pc`, `batch`, `tries` are the locals of the two loops
(`syncOnce` and `backfill`, which run concurrently in one process); a step ends at
each await where another actor can act. `SettleFunded` is the committed
transaction (conditional update and audit row), `Announce` the later webhook
enqueue. `CallFails`, `EnqueueFails`, `OuterCommitFails`, `CycleFails` and `Crash`
are the faults, at most `MaxFaults` in a behaviour. An invoice that is absent,
PENDING or DEFAULTED is `UNFUNDED`: the code treats the three alike (an error that
is retried). The chain and the funding service are external. `jumped` holds the ledgers the
cursor passed in one of the two ways the code has of leaving an event behind: giving up
on it after another event of its ledger was applied, and a response that was full.

**WebhookDelivery.** A row is identified by its unique constraint
(subscription and idempotency key). `Claim` is the atomic claim query; an attempt
is `Lookup`, `Post`, `LogAttempt`, `Finalize`; `PostAnswerLost` is a request that the
subscriber handled but whose answer never came. Delays are abstract: `BecomeDue`
and `LockExpires` are the clock passing. With `SlowWorkers = FALSE` a lock expires
only when its attempt is over (the timing the constants are meant to ensure:
a 10 s request timeout within a 5 min lock); `TRUE` removes that assumption.

**FundingService.** A request advances by one action per await: `LookupCache`
(Redis), `FindKey`, `CreateLock`, `ReadInvoice`, `LoadAccount`, `Simulate`, `Send`,
`Poll`, `WriteInvoice`, `StoreResponse`, `StoreCache`. `Crash` ends a request at any of
them. The chain is external: it applies a submitted transaction if its sequence
number is the account's next and the contract accepts it, drops it otherwise, and
other clients may fund the invoice too. `ReleaseStaleLock` deletes a lock whether or
not its request is still running; history variable `overtaken` remembers the latter.

**The parts of the application** (`MCApplication`). Eleven components that share no
state with each other. Each is a module with its own variables, `Init` and `Next`; a
behaviour of `MCApplication` picks one (`focus`) and takes only its steps, so that one
run covers all of them at the sum of their state spaces.

* `RateLimiter`: a check reads the clock when it is sent and is evaluated by Redis
  later; `EvalScript` is the whole Lua script, `EvalFails` the fail-open path. Each backend
  instance has a connection of its own, which keeps the order of its scripts.
* `CircuitBreaker`: `Execute` decides, `Succeed` and `Fail` account for the outcome in
  whatever state the circuit is by then.
* `WebhookSubscriptions`: counting and creating are two steps of a request.
* `OracleMonitor`: a poll is suspended at each fetch of each feed; polls overlap. The
  ledger and the price are external; the price has an age the code never looks at.
* `InvoiceReminder`: the scheduler's two queries and one `add` per invoice; Bull is
  external (a job id is unique while the queue keeps the job).
* `CredentialRotation`: credentials are version numbers; `withRetry` of several
  operations shares the client and the secrets.
* `ComplianceExports`: a document is a set of records, each with its parties and the
  invoice's status; dates and layout are left out. Jobs run detached. The sums of the
  investor report are sums of a function over a set of invoices (`Total`); a row without
  a funded amount counts at par, as in the code.
* `AnomalyMonitoring`: one `processLedger` per ledger, concurrently; the rules for a
  large funding and for the volume of a window. The code's alert ids name the
  transaction, the model's the funding; nothing compares the two.
* `OfflineQueue`: each page has a replay pass; every IndexedDB call is a step. The list a
  pass works off is the increasing sequence of the pending ids (`InOrder`). The pages
  are those of one component: each hook replays whatever it finds in the shared store
  with its own handler, whatever the item's label (`useOptimisticUpdate.ts:55-60`).
* `InvoiceWizard`: a click is one run of `onFinalConfirm` or `handleSignTransaction`;
  the form is valid or not and has a face value. The progress buttons lead to any of the
  three steps, from the submitted screen too.
* `PortfolioTable`: a change of state or props (`page`, `matching`), the commit that shows
  it (`CommitRender`) and the effect that brings the page back into range
  (`SnapToLastPage`) are three steps, and the buttons act on the render they belong to.
  A list is its length and the number of invoices the filters let through; the order in
  which they are shown changes no page.

The source at this commit does not compile everywhere; the models follow its
evident meaning: the pool uses a storage key for the oracle discount
configuration that its enum lacks (modelled as a stored configuration);
`settleInvoiceWithTx` refers to a transaction hash that is not in scope
(irrelevant to the model); `PrismaService` exposes transactions on its inner
client, so the outer transaction of `settleInvoice` writes nothing and the
settlement commits in the inner one (modelled as such, `OuterCommitFails`).

## 3. Runs

Twelve runs; five must pass.

| Run | Instance | States | Shows |
|---|---|---|---|
| `contracts`, the library | 3 addresses, signer vectors of 1-3 with a duplicate, 3 time-locks, ledgers up to `U32Max` | 530 k in all | `ConfirmersAreCurrentSigners`, `QuorumStaysReachable`, `SignerSetChangesByQuorum`: control passes only by a quorum of the signers then in charge, after the time-lock, and can always pass; a time-lock that reaches beyond the last ledger saturates |
| - the invoice contract | 2 invoices, 3 addresses, 2 signer sets | | `TokenMirrorsInvoice`, `ApprovalIsTheOwners`, `SettledIsFrozen`; `ImplementsLifecycle` (refinement of `InvoiceLifecycle`) |
| - the pool | 2 invoices, deposits up to 9 in all, face values at the rounding edges and one that overflows | | `LiquidityConservation`, `AdvanceIsExactFloor`, `ClaimsExceedLiquidityByAdvances`, `FundingIsImmutable` |
| - the settlement contract | 2 invoices, 2 nonces, 3 payments, fee rates 0, 50%, 200%, fee withdrawals of 5 and -5, times before and after the nonce window | | `NonceSingleUse`, `PrincipalGatesSettled`, `SettlementInv` (`PaymentsAreAccounted`) |
| `settlement_sync` | 2 invoices, 2 ledgers after the first with up to 2 events each, responses of 2, a backfill range, 2 faults, 2 attempts | 421 k | `PassedLedgersAreApplied`, `SyncInv` (`RepaidOnceAndAnnounced`), and under fairness `SettlementsReachDatabase` |
| `webhook_delivery` | 2 instances, 2 subscriptions, 1 event dispatched twice, 2 attempts, 1 fault, or 1 subscription and 2 faults | 659 k | `OneAttemptInFlight`, `WebhookInv` (`RowTellsTheTruth`), `TerminalIsFinal`, and under fairness `EveryRowResolved` |
| `funding` | 2 requests with 1 or 2 keys, 1 invoice, 2 wallets, another client of the contract, crashes anywhere | 313 k | `FundingInv` (`RowFollowsChain`), `AnswersAreTrue` (`SuccessIsReal`, `DuplicateMeansFunded`), `OneHandlerPerKey` |
| `application` | eleven parts, see below | 1.2 M | one invariant per part, most of them a conjunction of named properties |
| `pool_advance_withdrawal`, `settlement_nonce_window`, `settlement_sync_two_events`, `preview_race`, `fee_payouts`, `oracle_staleness`, `rate_limit_instances` | | | must fail: section 4 |

The parts of `application`:

| Part | Instance | Shows |
|---|---|---|
| rate limiter | 3 requests of a user or an address, 2 backend instances, 3 instants | `LimitsHold`: admissions evaluated in the order of their stamps never exceed the limit of a window (`OrderedWindow`), no tier is skipped (`PassedEveryTier`) |
| circuit breaker | 3 overlapping calls, thresholds 3 and 2, 2 probes | `TripsOnTime`: `ClosedMeansHealthy` and `OpenForExactlyTheTimeout`, whatever late outcomes arrive |
| subscriptions | 2 owners, an admin, 3 subscriptions, 2 requests at once | `OverrunIsBounded`: the limit is exceeded at most by the requests that run at once (`docs/webhooks/webhook-api.md:55` says "at most 20 active subscriptions", which holds up to that overrun) |
| oracle monitor | 2 feeds, 2 overlapping polls, 4 in all | `NoFalseStaleness`: no overlap of polls makes a feed look stale |
| reminders | 2 invoices, 2 schedulers, 2 windows, 2 attempts, 1 failed job kept | `RemindersAreCounted`: `OneJobPerWindow`, `DeadLetterOnlyWhenOver` |
| credentials | 3 operations, 2 rotations, 2 retries | `OnlyRotationFailsAuth`: an operation fails only if the password was rotated while it ran, or if others put outdated credentials back as often as it could retry |
| compliance | 1 invoice, 3 wallets, an admin, 1 job, 2 thresholds | `ExportsAreSound`: `ReportsAreScoped`, `SignedStaysTrue` (the transfers, and the statuses that are final), `PnlBalances` (invoices funded at a discount, at par, and without a funded amount) |
| monitoring | 3 ledgers of up to 2 fundings | `WindowKeepsRecent` |
| offline queue | 1 page with 2 mutations and 2 faults, or 2 pages with 1 and 1 | `ReplayIsSafe`: `NothingIsLost`, `AppliedOnceUnlessInDoubt`, `AttemptsAreBounded`, `StuckOnlyByInterruption` |
| wizard | 2 handlers at once, 2 valid forms and an invalid one, 3 edits | `SigningIsSound`: `SignedFormIsValid`, `SignedAsShown` |
| portfolio | up to 3 invoices, pages of 1 | `NoStrandedPage`: once nothing is left to render, the page shown exists and has rows, whatever was clicked between a commit and its effect |

`ACTypeOK`, `ICTypeOK`, `FPTypeOK` and `ApplicationTypeOK` (the conjunction of the
parts') are the type invariants; those of the settlement contract, the sync, the
webhooks and funding are conjuncts of `SettlementInv`, `SyncInv`, `WebhookInv` and
`FundingInv`. For pool and settlement they include that no call leaves the
reentrancy guard locked.

**Bounds.** Two invoices are enough for the interactions the code has (a shared
counter, a shared fee pot, a shared cursor); three addresses give a signer, a
newcomer and a third party. A quorum of two, a duplicate signer, a time-lock of one
or two ledgers exercise every comparison of the admin transfer. `MaxLedger`,
`MaxInvoices`, `MaxDeposited`, `MaxTip`, `MaxFaults`, `MaxDispatches` cap what would
grow for ever; integer widths are the constants `I128Max`, `U32Max`, `U64Max`, with
values that the runs reach for the advance's product and the end of a time-lock. Two faults
allow a crash during the recovery from a failure; webhooks and the offline queue
have two when one subscription or page is active and one when there are two. In the
application two actors of a kind are what an overlap takes, a third call or request what
a threshold of two or three takes. Behaviours end when a bound is reached, so
`CHECK_DEADLOCK FALSE`. Symmetry is used where only safety is checked
(HTTP requests; invoice ids and nonces, which the code only compares).

**Fairness.** Weak fairness of the listener's own steps: `setInterval` keeps
firing, `tick` clears its flag in a `finally`, and every awaited call settles.
None on the funding service, the chain, an administrator or a fault:
`SettlementsReachDatabase` takes the mirrored funding as its hypothesis. Webhooks:
weak fairness of time, of claiming by *some* instance, and of each started
attempt; a request ends within its time-out. The contracts, funding (where requests may
stop anywhere) and the parts of the application are checked for safety only. Faults are bounded, which stands for
"faults cease".

**Mutants.** For every property of a passing run `PROJECT.json` names a
definition and a plausible bug in it (a dropped guard, an off-by-one, a missing
reset, a swapped check) under which TLC finds the property violated.

## 4. Findings

Each is a run that must fail.

* `pool_advance_withdrawal`: `fund_invoice` reduces the available liquidity by the
  advance, and the recipient's `withdraw` reduces it again, so an advance that uses
  more than half of the liquidity cannot be withdrawn although
  `docs/protocol-spec.md:327-335` shows exactly that sequence.
  `ClaimsExceedLiquidityByAdvances` says by how much claims and liquidity differ.
* `settlement_nonce_window`: the nonce record starts with due date 0 and never gets
  the invoice's (`contracts/settlement/src/types.rs:95`), so the 30 day window is
  counted from timestamp 0.
* `settlement_sync_two_events`: of two settlements in one ledger, one that is given
  up on after the other succeeded is never fetched again.
* `preview_race`: nothing ties the answer of a simulation to the preview it was
  started for. Cancelled while the RPC node is slow, edited and confirmed again, the
  wizard takes the old answer for the new transaction and lets the user sign it
  before it has been simulated. `SignedAsShown` says when this cannot happen.

* `fee_payouts`: `withdraw_fees` compares its amount with the pot from above only
  (`contracts/settlement/src/lib.rs:377`), so an administrator's withdrawal of a negative
  amount raises the pot and the next one pays out what was never charged, against
  invariant 16 of `docs/protocol-spec.md` (274-277). `PaymentsAreAccounted` says what the
  pot is after withdrawals of either sign.
* `oracle_staleness`: the monitor stamps a feed with the clock that then measures its
  age, so however old a price is, the status `stale` cannot occur and the fallback that
  is configured stays off; `docs/oracle-architecture.md:138` says that staleness
  activates it. `NoFalseStaleness` is the positive side.
* `rate_limit_instances`: a stamp is taken in the backend instance, the count in Redis.
  With the two instances of `.github/workflows/deploy.yml:248` an earlier stamp evaluated
  after a later one does not count it, and a window holds more admissions than its limit,
  against `rate-limiter.service.ts:119-120`. `OrderedWindow` says by which admissions it
  can be exceeded.

A variant of a run shows one more. With `SlowWorkers = TRUE`, `OneAttemptInFlight` fails: an
attempt that outlives `STUCK_PROCESSING_MS` runs beside the second one and its
`finalize`, an update by id, overwrites the newer row (`docs/webhooks/webhook-api.md:154`
says two instances never deliver the same row concurrently). And
`settlement_sync_two_events` has a second cause, a response that does not hold all
events: the cursor is still moved to the network tip
(`settlement-sync.service.ts:157`; the comment at :111 says it never moves past what was
fully processed). `PassedLedgersAreApplied` shows that there is no third.

Observations from reading, which shaped the models.

*Contracts and settlement.*

* `has_role` is false for a signer without a grant, unlike what
  `docs/access-control.md:21-23` says (`require_role` does accept him).
* `set_fee_rate` accepts rates above 100%, for which a payment lowers
  `principal_paid` against invariant 15 of the protocol spec
  (`PrincipalGatesSettled` is stated for rates up to 100%; its run includes 200%).
* A price time-stamped in the future has age 0 and is never stale for the pool
  (`contracts/financing-pool/src/lib.rs:731`); who may post one is the oracle's affair.
* The cursor is not stored in the transaction of the settlement, unlike
  `settlement-sync.service.ts:30-31` says (the invariants hold with the separate write).
* The listener recognises events whose *first* topic is `settled` or
  `invoice_settled`, while the contract publishes `settlement` first.

*Funding.*

* When the outcome of a submitted transaction is unknown, the error tells the client
  that the contract rejected it; the transaction may still be applied. A row left
  PENDING after the chain accepted the funding is repaired by nobody.
* `hashBody` does not sort keys although its comment says so; the clean-up comment
  speaks of twice the TTL where the code has five minutes; the `tap(async ...)` that
  stores the response is not awaited.
* The controller passes `fundInvoice` other arguments than it declares
  (`financing-pool.controller.ts:51-54`), and the build excludes the directory. The
  model is of the service as declared.

*Other backend services.*

* Rate limiter: `Retry-After` is one unit short.
* The circuit breaker is injected nowhere, nor is the anomaly monitoring module
  imported; a rejected `processLedger` is an unhandled rejection.
* Reminders: Bull stores job data as JSON, `dueDate` arrives as a string and every
  attempt throws. `DlqRow.attemptCount` is recorded as 0; the query for invoices due
  soon filters on `createdAt`.
* Credentials: `PrismaService` builds its client in the constructor, before
  `VaultService` has loaded the secrets, so the application starts only with secrets
  that are there from the beginning; nothing calls `withRetry`. A reconnection that read
  the secrets before another refreshed them puts the outdated ones back.
* Compliance: jobs that were PENDING or PROCESSING at a crash stay so; funding writes
  `funder` only while the reports read `investor`
  (`financing-pool.service.ts:110`, `fatf.ts:135`), so new fundings are not reported to
  the investor; the scheduler calls `cleanupExpiredRecords`, which does not exist.

*Frontend.*

* An offline timer is not cancelled by the online event: the page then believes it is
  offline until the next disconnection. An item left `replaying` is never selected
  again; a second conflict hides the first; order is not kept across failures; two
  pages may send one mutation twice.
* The wizard shows "submitted" also when there is no wallet or no transaction, drops
  the signed transaction, and its preview does not show the face value.

## 5. Proofs

Proved by TLAPS for every value of the constants that satisfies the `ASSUME`s of
the modules (finite sets of addresses, inputs of the right kind, bounds that are
numbers; no assumption restricts amounts, thresholds or the length of behaviours
beyond that). Every safety property of a passing run is the subject of a theorem, three of
the webhook queue, one of the reminders and one of the types under a hypothesis that is
named below.

Induction over finite sets (sums, sorted lists) is first-order here: `SubsetInduction`
takes a set of subsets instead of a predicate, and is proved from a least counterexample
among the cardinalities.

* **AccessControlProofs.** `ACInv` = types, *the pending signer set and the present
  one are duplicate-free with a reachable threshold*, and *confirmations are
  distinct current signers*. The middle conjunct is needed because a set becomes
  current by being executed long after it was validated; the last one because
  `execute_admin_transfer` counts confirmations without looking at who gave them.
  From it: `ACTypeCorrect`, `ConfirmersAreSigners`, `QuorumReachable`, and the action
  property `TakeoverNeedsQuorum` (the count equals the number of distinct signers,
  lemma `InjectiveSeqCardinality`).
* **InvoiceContractProofs.** `ICInv` adds types, that nothing exists before
  initialisation (otherwise `initialize` could reset the counter below existing
  ids), `TokenMirrorsInvoice` and `ApprovalIsTheOwners`. `ICImplementsAC` shows that
  a step of the contract is a step of the library or leaves it alone, so the
  library's invariant carries over. `SettledStaysFrozen` and `Refinement`
  (`InvoiceLifecycle` with `life` and `holder` computed from the stored invoices).
* **FinancingPoolProofs.** `FPInv` adds types, that the pool is untouched before
  initialisation (the advance of a funding is tied to the discount, which
  `initialize` sets), `LiquidityConservation` and `AdvanceIsExactFloor`; the last one
  rests on lemmas about floor division. `FundingsAreImmutable`, `FPImplementsAC`.
  `ClaimsAreLiquidityAndAdvances` is about a sum over all addresses: `ClaimsIsSum` ties
  `MapThenSumSet` to a function from the sets of addresses to their sums, `SumUnique` and
  `SumChanges` say that there is one such function and what a change of one balance does
  to it, and every entry point then moves claims, liquidity and advances together.
* **SettlementContractProofs.** `SCInv` adds to the library's invariant the types, that
  the fee pot is empty before initialisation, `PaymentsAreAccounted` and
  `NonceSingleUse`; the fee lemmas bound floor(amount * rate / 10000).
  `NoncesAreSingleUse` and `SettlementInvHolds` are for every set of amounts that may be
  paid or withdrawn, negative ones included. `SettledNeedsPrincipal` is the action
  property, `SCImplementsAC` the refinement of the library.
* **FundingServiceProofs.** `FInv` ties each request's place to what the chain has
  applied: before `Send` it has no transaction, at `WriteInvoice` its transaction is
  applied, an unlocked idempotency row or Redis record carries a funding that is in the
  table, a running handler whose lock was not released under it owns the row of its
  key, and the signing account's sequence number counts the transactions in ledgers. From
  it `RowsFollowTheChain`, `AnswersAreAlwaysTrue`, `OneHandlerRunsPerKey`, for any number
  of requests, keys, invoices and wallets (finitely many requests).
* **WebhookDeliveryProofs.** `QueueOK` (types; an attempt has its row; an open row has
  attempts left) is inductive in any case and gives `WebhookTypeCorrect`. `RowOK` says
  that a live attempt is the only one of its row and owns the fresh lock, and that every
  acknowledgement was lost, is on record or is about to be. It is inductive with
  `SlowWorkers = FALSE`, the assumption of `RowsTellTheTruth`, `OneAttemptAtATime` and
  `TerminalRowsAreFinal`; without it they are false (section 4).
* **SettlementSyncProofs.** `MirrorInv` counts: an invoice has one audit row exactly when
  it is repaid, and each audit row was announced, its announcement was lost, or one of
  the two loops is about to make it. `RepaidOnce` follows for every chain, page size and
  number of faults. `CursorIsSafe` (`PassedLedgersAreApplied`) adds what `syncOnce`
  believes in the middle of a cycle: every event from its start on is applied, still in
  its batch, or beyond a response that was full; and the batch lies at or above `safe`,
  in the order of its ledgers. It is for every content of the
  ledgers and every size of a response.
* **ApplicationProofs.** The parts share no variable, so a step of the application is a
  step of the part or leaves it alone (`StepOfThePart`), and each part has an invariant of
  its own:
  - `BreakerInv`: the countdown of an open circuit runs against the time since it tripped
    (`CircuitTripsOnTime`).
  - `OracleInv`: no feed is stamped ahead of the clock, and a poll that waits for a price
    took its time no later than the feed's stamp (`NoFeedLooksStale`).
  - `WizardInv`: what is pending, shown and simulated belongs together while
    confirmations do not overlap (`WalletSignsWhatIsShown`).
  - `SubsInv`: the rows of an owner and the requests that have counted and not yet
    inserted stay within limit and concurrency (`SubscriptionsStayBounded`).
  - `RotationInv`: an operation during which no rotation took place is at most one attempt
    ahead of the times others put outdated credentials back under it (`UnrotatedOK`), for
    any number of operations and retries (`OnlyRotationOrOverwritingFails`).
  - `ReminderInv`: a job the queue has not evicted has as many attempts as were made
    (`RemindersCountedOnce`, if the processor allows for at least the queue's attempts,
    as both are configured).
  - `MonitoringInv`: a point is stamped with its ledger, so dropping up to the first one
    that is recent drops no recent one (`NoRecentFundingIsTrimmed`; the least such point
    exists by well-foundedness of `<`).
  - `PassInv`: a request waits for one script at a time, and in the second tier it has its
    slot of the first.
  - `WindowInv`: a script whose stamp is no older than any evaluated so far finds every
    admission of its window still in the sorted set (`Behind`), and nothing evaluated in
    order is stamped later than the newest reading; hence a grant that is not late has
    counted every other one of every window that contains it
    (`OrderedScriptsKeepLimits`, any number of instances).
  - `QueueInv`: what holds with any number of pages open (types; no page knows of a
    mutation that was not made; nothing made is lost) and what holds while one page is
    open: its pass and the conflict on screen match the store, a success it has seen is
    removed, about to be, or stuck, and an attempt is recorded before it is made
    (`OfflineChangesAreSafe`). `InOrderExists` shows that the sorted list exists.
  - `ComplianceInv`: a document belongs to its job, from the moment it is built to its
    download (`DocOK`), and is taken to the present table by `ReportsGrow`: what funding
    and settlement write takes no transfer out of a FATF export and changes no status that
    is final. A pending invoice has no
    investor, so an investor's positions are funded, repaid or defaulted, and the sum of
    their costs splits in three (`TotalOfThree`); with `ReportBalances` this is
    `ExportsStaySound`.
  - `TableInv`: after its effect ran, a render beyond the last page is no longer the
    present state, so it will be rendered again. That the page then shown has rows counts:
    the pages before it hold fewer invoices than there are (`PagesCover`,
    `NoPageIsStranded`).
  - `StateStaysWellFormed` is `ApplicationTypeOK`. Most of it is in the invariants above;
    what is not was added part by part: late failures are counted on an open circuit, but
    only those of calls under way when it opened (`LateOutcomes`); a streak of failures
    and the polls under way together are no more than the polls started
    (`FailuresCounted`); a job that waits or runs has an attempt left
    (`AttemptsBounded`); a job holds a document from the build on and stores it with its
    completion (`JobsHaveDocuments`); no funding is evaluated twice (`EvaluatedOnce`). Its
    one hypothesis is that `NoDoc`, which stands for a column that is null, is not itself
    one of the `Documents`; TLC cannot evaluate that for a
    model value, so it is stated with the theorem and not as an `ASSUME`.

Only model-checked, and why: liveness (`SettlementsReachDatabase`, `EveryRowResolved`),
because fairness and ENABLED are out of TLAPS's reach. The
invariants of the exports, of the table and of the parts' types were checked by TLC on the
instances of section 3 before they were proved.

## 6. Not modelled, and the plan

Left out, and why:

* Authentication, webhook signing, URL validation, e-mail, decimal formatting,
  report layout: pure functions of strings, or output only.
* Storage TTL; `settlement/src/nonce.rs`, which nothing uses.
* The oracle contract: no other part calls it. The oracle price feed: its two calls
  of the chain always throw.
* Gap detection of the settlement sync counts and logs; `applyEventAtomically` is
  never called.
* The wallet session (`connect-wallet`, `WalletContext`, `WalletSessionGuard`,
  `useFreighterListener`): mounted by no page, and its API client imports
  `next/headers` on the client. The service worker, middleware and notification hooks
  keep no state that another part depends on.
* The trustline API reads balances; scripts, load tests and the upgrade test
  framework are tooling.

The work that remains, in order:

1. Theorems about refinements still to be stated: an abstract at-least-once queue that
   `WebhookDelivery` implements, an abstract once-only ledger that `FundingService` does.
2. `FundingService` composed with `SettlementSync`, whose `MirrorFunded` it would
   replace.
3. Settlement events: what `settle_invoice` publishes against what
   `parseSettlementEvent` accepts. The oracle contract's median against a reference
   definition.
4. The protocol as a whole: the three contracts driven by the orchestrator, and
   what their separate states can say about one invoice.
