--------------------------- MODULE WebhookDelivery ---------------------------
(***************************************************************************)
(* The webhook queue of the backend (backend/src/webhooks): an invoice     *)
(* event is fanned out to one WebhookDelivery row per active subscription, *)
(* and the worker of every backend instance polls the table, claims due    *)
(* rows and attempts them, each attempt a sequence of awaited calls.       *)
(*                                                                         *)
(* Time is abstract: a row's nextAttemptAt passes when BecomeDue happens,  *)
(* and its lock is older than STUCK_PROCESSING_MS when LockExpires did.    *)
(* Two attempts of one row by one worker are not told apart: a worker does *)
(* not claim a row while an attempt of its own on that row is alive.       *)
(***************************************************************************)
EXTENDS Integers, FiniteSets, Storage

CONSTANTS
    Subscriptions,
    Events,                 \* event identities: invoice, type and timestamp
    Workers,                \* the backend instances
    BATCH_SIZE,
    MAX_DELIVERY_ATTEMPTS,
    SlowWorkers,            \* may an attempt last longer than STUCK_PROCESSING_MS?
    MaxDispatches,          \* bound: events emitted upstream, repetitions included
    MaxFaults               \* bound: crashes and failed database calls

ASSUME WebhookSetsAssumption ==
    IsFiniteSet(Subscriptions) /\ IsFiniteSet(Events) /\ IsFiniteSet(Workers)
ASSUME WebhookNumbersAssumption ==
    /\ BATCH_SIZE \in Nat \ {0}
    /\ MAX_DELIVERY_ATTEMPTS \in Nat \ {0}
    /\ SlowWorkers \in BOOLEAN
    /\ MaxDispatches \in Nat
    /\ MaxFaults \in Nat

VARIABLES
    active,       \* WebhookSubscription.active
    toEnqueue,    \* rows that dispatchInvoiceEvent has still to insert
    rows,         \* the WebhookDelivery table, keyed by its unique constraint
    polling,      \* the polling flag of each worker
    jobs,         \* the attemptDelivery call of a worker for a row, NoJob if none
    logged,       \* the number of WebhookDeliveryAttempt rows of each delivery
    acks,         \* history: 2xx answers given by the subscriber
    interrupted,  \* history: 2xx answers whose attempt died before finalize
    dispatches,   \* events emitted so far
    faults        \* faults so far

webhookVars == <<active, toEnqueue, rows, polling, jobs, logged, acks, interrupted,
                 dispatches, faults>>

\* A row is identified by its (subscriptionId, idempotencyKey).
RowId == Subscriptions \X Events

RowStatus == {"PENDING", "PROCESSING", "DELIVERED", "ABANDONED"}
Row == [status : RowStatus, attemptCount : 0 .. MAX_DELIVERY_ATTEMPTS, due : BOOLEAN, stuck : BOOLEAN]

NoJob == [pc |-> "none", attempt |-> 0, outcome |-> "none", awaited |-> FALSE]
Job == [pc : {"none", "lookup", "post", "log", "finalize"},
        attempt : 0 .. MAX_DELIVERY_ATTEMPTS,
        outcome : {"none", "ok", "failed", "revoked"},
        awaited : BOOLEAN]  \* does the worker's current Promise.all wait for it?

IsLive(w, r) == jobs[w][r] # NoJob

-----------------------------------------------------------------------------
(* WebhookDispatchService and WebhookSubscriptionsService. *)

\* dispatchInvoiceEvent up to the loop: the subscriptions are read once.
Dispatch(e) ==
    /\ dispatches < MaxDispatches
    /\ dispatches' = dispatches + 1
    /\ toEnqueue' = toEnqueue \cup {<<s, e>> : s \in {t \in Subscriptions : active[t]}}
    /\ UNCHANGED <<active, rows, polling, jobs, logged, acks, interrupted, faults>>

\* Mutant of Enqueue: the insert became an upsert that starts the row again.
EnqueueUpsert(r) ==
    /\ r \in toEnqueue
    /\ toEnqueue' = toEnqueue \ {r}
    /\ rows' = Put(rows, r, [status |-> "PENDING", attemptCount |-> 0, due |-> TRUE, stuck |-> FALSE])
    /\ UNCHANGED <<active, polling, jobs, logged, acks, interrupted, dispatches, faults>>

\* One insert of the loop; a unique-constraint violation is a duplicate, skipped.
Enqueue(r) ==
    /\ r \in toEnqueue
    /\ toEnqueue' = toEnqueue \ {r}
    /\ rows' = IF Has(rows, r) THEN rows
               ELSE Put(rows, r, [status |-> "PENDING", attemptCount |-> 0,
                                  due |-> TRUE, stuck |-> FALSE])
    /\ UNCHANGED <<active, polling, jobs, logged, acks, interrupted, dispatches, faults>>

\* Any other error of the insert is logged and the loop goes on.
EnqueueFails(r) ==
    /\ faults < MaxFaults
    /\ r \in toEnqueue
    /\ toEnqueue' = toEnqueue \ {r}
    /\ faults' = faults + 1
    /\ UNCHANGED <<active, rows, polling, jobs, logged, acks, interrupted, dispatches>>

Revoke(s) ==
    /\ active[s]
    /\ active' = [active EXCEPT ![s] = FALSE]
    /\ UNCHANGED <<toEnqueue, rows, polling, jobs, logged, acks, interrupted, dispatches, faults>>

-----------------------------------------------------------------------------
(* Time (external). *)

BecomeDue(r) ==
    /\ Has(rows, r) /\ rows[r].status = "PENDING" /\ ~rows[r].due
    /\ rows' = [rows EXCEPT ![r].due = TRUE]
    /\ UNCHANGED <<active, toEnqueue, polling, jobs, logged, acks, interrupted, dispatches, faults>>

\* An attempt is bounded by REQUEST_TIMEOUT_MS and a few database calls; unless
\* SlowWorkers, only the lock of an attempt that died grows as old as
\* STUCK_PROCESSING_MS.
LockExpires(r) ==
    /\ Has(rows, r) /\ rows[r].status = "PROCESSING" /\ ~rows[r].stuck
    /\ SlowWorkers \/ \A w \in Workers : ~IsLive(w, r)
    /\ rows' = [rows EXCEPT ![r].stuck = TRUE]
    /\ UNCHANGED <<active, toEnqueue, polling, jobs, logged, acks, interrupted, dispatches, faults>>

-----------------------------------------------------------------------------
(* WebhookDeliveryWorkerService. *)

\* Mutant of Claimable: PROCESSING rows are claimed whatever the age of the lock.
ClaimableUnlocked(r) ==
    \/ rows[r].status = "PENDING" /\ rows[r].due
    \/ rows[r].status = "PROCESSING"

\* Mutant of Claimable: rows whose worker died are not taken back.
ClaimablePendingOnly(r) == rows[r].status = "PENDING" /\ rows[r].due

\* The WHERE clause of claimBatch.
Claimable(r) ==
    \/ rows[r].status = "PENDING" /\ rows[r].due
    \/ rows[r].status = "PROCESSING" /\ rows[r].stuck

\* poll, claimBatch: the UPDATE takes as many claimable rows as there are, up to
\* BATCH_SIZE, and Promise.all starts an attempt for each.
Claim(w) ==
    /\ ~polling[w]
    /\ \E batch \in SUBSET {r \in DOMAIN rows : Claimable(r) /\ ~IsLive(w, r)} :
         /\ batch # {}
         /\ \/ Cardinality(batch) = BATCH_SIZE
            \/ /\ Cardinality(batch) < BATCH_SIZE
               /\ batch = {r \in DOMAIN rows : Claimable(r) /\ ~IsLive(w, r)}
         /\ rows' = [r \in DOMAIN rows |->
                       IF r \in batch
                       THEN [rows[r] EXCEPT !.status = "PROCESSING", !.stuck = FALSE]
                       ELSE rows[r]]
         /\ jobs' = [jobs EXCEPT ![w] = [r \in RowId |->
                       IF r \in batch
                       THEN [pc |-> "lookup", attempt |-> rows[r].attemptCount + 1,
                             outcome |-> "none", awaited |-> TRUE]
                       ELSE jobs[w][r]]]
    /\ polling' = [polling EXCEPT ![w] = TRUE]
    /\ UNCHANGED <<active, toEnqueue, logged, acks, interrupted, dispatches, faults>>

\* The subscription is read again; a revoked one is not called.
Lookup(w, r) ==
    /\ jobs[w][r].pc = "lookup"
    /\ jobs' = [jobs EXCEPT ![w][r] =
                  IF active[r[1]] THEN [@ EXCEPT !.pc = "post"]
                  ELSE [@ EXCEPT !.pc = "log", !.outcome = "revoked"]]
    /\ UNCHANGED <<active, toEnqueue, rows, polling, logged, acks, interrupted, dispatches, faults>>

\* The POST: a 2xx answer, or an error, a timeout or another status.
Post(w, r) ==
    /\ jobs[w][r].pc = "post"
    /\ \E outcome \in {"ok", "failed"} :
         /\ jobs' = [jobs EXCEPT ![w][r].pc = "log", ![w][r].outcome = outcome]
         /\ acks' = [acks EXCEPT ![r] = IF outcome = "ok" THEN @ + 1 ELSE @]
    /\ UNCHANGED <<active, toEnqueue, rows, polling, logged, interrupted, dispatches, faults>>

\* The subscriber answered 2xx but the answer is lost or late.
PostAnswerLost(w, r) ==
    /\ faults < MaxFaults
    /\ jobs[w][r].pc = "post"
    /\ jobs' = [jobs EXCEPT ![w][r].pc = "log", ![w][r].outcome = "failed"]
    /\ acks' = [acks EXCEPT ![r] = @ + 1]
    /\ interrupted' = [interrupted EXCEPT ![r] = @ + 1]
    /\ faults' = faults + 1
    /\ UNCHANGED <<active, toEnqueue, rows, polling, logged, dispatches>>

LogAttempt(w, r) ==
    /\ jobs[w][r].pc = "log"
    /\ jobs' = [jobs EXCEPT ![w][r].pc = "finalize"]
    /\ logged' = [logged EXCEPT ![r] = @ + 1]
    /\ UNCHANGED <<active, toEnqueue, rows, polling, acks, interrupted, dispatches, faults>>

\* Mutant of FinalRow: a delivery is given up one attempt too early.
FinalRowTooEarly(row, job) ==
    [row EXCEPT
       !.status = CASE job.outcome = "ok" -> "DELIVERED"
                    [] job.outcome = "revoked" -> "ABANDONED"
                    [] OTHER -> IF job.attempt + 1 >= MAX_DELIVERY_ATTEMPTS THEN "ABANDONED" ELSE "PENDING",
       !.attemptCount = job.attempt,
       !.due = FALSE]

\* The row that finalize writes: nextRetryDelayMs(attempt) is null from the last
\* attempt on.
FinalRow(row, job) ==
    [row EXCEPT
       !.status = CASE job.outcome = "ok" -> "DELIVERED"
                    [] job.outcome = "revoked" -> "ABANDONED"
                    [] OTHER -> IF job.attempt >= MAX_DELIVERY_ATTEMPTS THEN "ABANDONED" ELSE "PENDING",
       !.attemptCount = job.attempt,
       !.due = FALSE]

\* poll waits for the attempts of its own batch.
StillPolling(w, r) == \E q \in RowId \ {r} : jobs[w][q].awaited

\* An update by id alone: whoever holds the row now is not looked at.
Finalize(w, r) ==
    /\ jobs[w][r].pc = "finalize"
    /\ rows' = [rows EXCEPT ![r] = FinalRow(@, jobs[w][r])]
    /\ polling' = IF jobs[w][r].awaited THEN [polling EXCEPT ![w] = StillPolling(w, r)] ELSE polling
    /\ jobs' = [jobs EXCEPT ![w][r] = NoJob]
    /\ UNCHANGED <<active, toEnqueue, logged, acks, interrupted, dispatches, faults>>

\* A database call of an attempt fails: the attempt ends, and if Promise.all was
\* waiting for it the poll ends too while the other attempts go on.
AttemptFails(w, r) ==
    /\ faults < MaxFaults
    /\ jobs[w][r].pc \in {"lookup", "log", "finalize"}
    /\ jobs' = [jobs EXCEPT ![w] = [q \in RowId |->
                  IF q = r THEN NoJob
                  ELSE IF jobs[w][r].awaited THEN [jobs[w][q] EXCEPT !.awaited = FALSE]
                  ELSE jobs[w][q]]]
    /\ polling' = IF jobs[w][r].awaited THEN [polling EXCEPT ![w] = FALSE] ELSE polling
    /\ interrupted' = [interrupted EXCEPT ![r] = IF jobs[w][r].outcome = "ok" THEN @ + 1 ELSE @]
    /\ faults' = faults + 1
    /\ UNCHANGED <<active, toEnqueue, rows, logged, acks, dispatches>>

Crash(w) ==
    /\ faults < MaxFaults
    /\ \E r \in RowId : IsLive(w, r)
    /\ jobs' = [jobs EXCEPT ![w] = [r \in RowId |-> NoJob]]
    /\ polling' = [polling EXCEPT ![w] = FALSE]
    /\ interrupted' = [r \in RowId |-> IF jobs[w][r].outcome = "ok" THEN interrupted[r] + 1
                                        ELSE interrupted[r]]
    /\ faults' = faults + 1
    /\ UNCHANGED <<active, toEnqueue, rows, logged, acks, dispatches>>

-----------------------------------------------------------------------------

(* Every subscription that is active beside the first takes one from the      *)
(* bound on faults.                                                           *)
WebhookInit ==
    /\ active \in [Subscriptions -> BOOLEAN]
    /\ \E s \in Subscriptions : active[s]
    /\ toEnqueue = {}
    /\ rows = EmptyStore
    /\ polling = [w \in Workers |-> FALSE]
    /\ jobs = [w \in Workers |-> [r \in RowId |-> NoJob]]
    /\ logged = [r \in RowId |-> 0]
    /\ acks = [r \in RowId |-> 0]
    /\ interrupted = [r \in RowId |-> 0]
    /\ dispatches = 0
    /\ faults = Cardinality({s \in Subscriptions : active[s]}) - 1

AttemptStep(w, r) == Lookup(w, r) \/ Post(w, r) \/ LogAttempt(w, r) \/ Finalize(w, r)

WebhookNext ==
    \/ \E e \in Events : Dispatch(e)
    \/ \E r \in RowId : Enqueue(r) \/ EnqueueFails(r) \/ BecomeDue(r) \/ LockExpires(r)
    \/ \E s \in Subscriptions : Revoke(s)
    \/ \E w \in Workers :
         \/ Claim(w)
         \/ \E r \in RowId : AttemptStep(w, r) \/ PostAnswerLost(w, r) \/ AttemptFails(w, r)
         \/ Crash(w)

WebhookSpec == WebhookInit /\ [][WebhookNext]_webhookVars

\* Time passes, @Interval keeps calling poll, and every awaited call settles:
\* fetch within REQUEST_TIMEOUT_MS, a database call with a result or an error.
WebhookFairness ==
    /\ \A r \in RowId : WF_webhookVars(BecomeDue(r)) /\ WF_webhookVars(LockExpires(r))
    /\ WF_webhookVars(\E w \in Workers : Claim(w))
    /\ \A w \in Workers, r \in RowId : WF_webhookVars(AttemptStep(w, r))

FairWebhookSpec == WebhookSpec /\ WebhookFairness

-----------------------------------------------------------------------------
(* Properties. *)

\* Type invariant.
WebhookTypeOK ==
    /\ active \in [Subscriptions -> BOOLEAN]
    /\ toEnqueue \subseteq RowId
    /\ DOMAIN rows \subseteq RowId
    /\ \A r \in DOMAIN rows : rows[r] \in Row
    /\ polling \in [Workers -> BOOLEAN]
    /\ jobs \in [Workers -> [RowId -> Job]]
    /\ logged \in [RowId -> Nat]
    /\ acks \in [RowId -> Nat]
    /\ interrupted \in [RowId -> Nat]
    /\ dispatches \in 0 .. MaxDispatches
    /\ faults \in Nat

\* No two attempts of the same row are ever under way, in one instance or in
\* two, and the row of an attempt under way is marked PROCESSING under the
\* attempt's number ("no two of them ever pick up and deliver the same row
\* concurrently", webhook-delivery-worker.service.ts:34-35).
OneAttemptInFlight ==
    \A r \in RowId, w \in Workers : IsLive(w, r) =>
        /\ \A v \in Workers : IsLive(v, r) => v = w
        /\ Has(rows, r)
        /\ rows[r].status = "PROCESSING"
        /\ jobs[w][r].attempt = rows[r].attemptCount + 1

\* A DELIVERED or ABANDONED row is never touched again, by a late attempt, by a
\* repeated event or by another instance (finalize, claimBatch, the unique
\* constraint).
TerminalIsFinal ==
    [][\A r \in DOMAIN rows :
         rows[r].status \in {"DELIVERED", "ABANDONED"} => rows'[r] = rows[r]]_webhookVars

\* What the table says is what happened: DELIVERED means that the subscriber
\* answered 2xx; ABANDONED that every attempt of the schedule was made or the
\* subscription is revoked; and the subscriber acknowledged once more than an
\* acknowledgement was lost at most ("a subscriber may still see a duplicate
\* delivery if a request succeeded but the response was lost before the worker
\* recorded it", docs/webhooks/webhook-api.md:157-159).
RowTellsTheTruth ==
    /\ \A r \in RowId : acks[r] <= 1 + interrupted[r]
    /\ \A r \in DOMAIN rows :
         /\ rows[r].status = "DELIVERED" => acks[r] > 0
         /\ rows[r].status = "ABANDONED" =>
              rows[r].attemptCount = MAX_DELIVERY_ATTEMPTS \/ ~active[r[1]]
         /\ rows[r].attemptCount <= logged[r]

\* Every row of the queue is delivered or abandoned in the end, whatever crashed
\* on the way (retry schedule, reclaiming of stuck rows).
EveryRowResolved ==
    \A r \in RowId :
        Has(rows, r) ~> (Has(rows, r) /\ rows[r].status \in {"DELIVERED", "ABANDONED"})
\* The table is well formed and says what happened.
WebhookInv == WebhookTypeOK /\ RowTellsTheTruth
=============================================================================
