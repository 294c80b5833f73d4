---------------------------- MODULE SettlementSync ----------------------------
(***************************************************************************)
(* The backend's settlement listener (backend/src/settlement): it polls    *)
(* the chain for settlement events from a cursor kept in the database,     *)
(* moves each settled invoice from FUNDED to REPAID in a transaction, then *)
(* enqueues the `repaid' webhook, and stores the new cursor at the end of  *)
(* the cycle.  An administrator's backfill applies a range of ledgers with *)
(* the same code, concurrently and without touching the cursor.            *)
(*                                                                         *)
(* Every await at which another actor can act is a step boundary.  A crash *)
(* loses what the process holds in memory; cursor, invoices, audit log and *)
(* webhook queue are in the database.                                      *)
(***************************************************************************)
EXTENDS Integers, Sequences, FiniteSets, Functions

CONSTANTS
    Invoices,        \* the invoices settlement events refer to
    Other,           \* stands for an event that is not a settlement
    LedgerContents,  \* the sequences of events a ledger may carry
    BackfillRanges,  \* the <<fromLedger, toLedger>> an administrator may request
    PageLimit,       \* how many events one getEvents response holds
    MaxAttempts,     \* SETTLEMENT_MAX_ATTEMPTS
    MaxTip,          \* bound: the last ledger the model closes
    MaxFaults        \* bound: crashes and failed database or RPC calls

ASSUME SyncSetsAssumption ==
    /\ IsFiniteSet(Invoices)
    /\ Other \notin Invoices
    /\ LedgerContents \subseteq Seq(Invoices \cup {Other})
    /\ BackfillRanges \subseteq (Nat \ {0}) \X (Nat \ {0})
ASSUME SyncNumbersAssumption ==
    /\ PageLimit \in Nat \ {0}
    /\ MaxAttempts \in Nat \ {0}
    /\ MaxTip \in Nat \ {0}
    /\ MaxFaults \in Nat

VARIABLES
    chain,      \* the events of the chain, in order
    tip,        \* the network's latest ledger
    dbStatus,   \* Invoice.status; UNFUNDED is any state but FUNDED and REPAID
    cursor,     \* SyncCursor.lastLedger, 0 while there is no row
    pc,         \* where syncOnce and backfill stand
    batch,      \* the fetched events each still has to apply
    tries,      \* attempts made for the event at the head of the batch
    start,      \* syncOnce: startLedger
    safe,       \* syncOnce: safeLedger
    latest,     \* syncOnce: latestLedger
    range,      \* backfill: the requested range
    audit,      \* history: invoice_events rows FUNDED -> REPAID per invoice
    announced,  \* history: repaid events handed to the webhook queue
    lost,       \* history: settlements whose announcement was interrupted
    since,      \* history: the ledger the stored cursor started from
    jumped,     \* history: ledgers the cursor passed in part, see CutOff and LeftOut
    faults      \* faults so far

dbVars == <<dbStatus, cursor, audit, announced>>
procVars == <<pc, batch, tries, start, safe, latest, range>>
syncVars == <<chain, tip, dbVars, procVars, lost, since, jumped, faults>>

Worker == {"sync", "backfill"}
Event == [ledger : Nat, invoice : Invoices \cup {Other}]

Maximum(a, b) == IF a > b THEN a ELSE b

\* The chain is in the order of its ledgers: how many events come before a ledger.
EventsBefore(ledger) ==
    CHOOSE n \in 0 .. Len(chain) : \A k \in DOMAIN chain : k <= n <=> chain[k].ledger < ledger

\* fetchEvents(from): one page of events, oldest first; those of the ledgers up to
\* `to' of it.
FetchEvents(from, to) ==
    LET n == EventsBefore(from)
        m == EventsBefore(to + 1)
    IN  SubSeq(chain, n + 1, IF m > n + PageLimit THEN n + PageLimit ELSE m)

-----------------------------------------------------------------------------
(* The world around the listener (external). *)

CloseLedger(contents) ==
    /\ tip < MaxTip
    /\ tip' = tip + 1
    /\ chain' = chain \o [k \in 1 .. Len(contents) |-> [ledger |-> tip + 1, invoice |-> contents[k]]]
    /\ UNCHANGED <<dbVars, procVars, lost, since, jumped, faults>>

\* FinancingPoolService.fundInvoice writes the funding the chain accepted; it
\* may also never do so, when its own database call fails.
MirrorFunded(i) ==
    /\ dbStatus[i] = "UNFUNDED"
    /\ dbStatus' = [dbStatus EXCEPT ![i] = "FUNDED"]
    /\ UNCHANGED <<chain, tip, cursor, audit, announced, procVars, lost, since, jumped, faults>>

-----------------------------------------------------------------------------
(* syncOnce and backfill up to the loop. *)

\* tick: one cycle at a time.  Without a cursor the cycle starts at the tip.
StartCycle ==
    /\ pc["sync"] = "idle"
    /\ start' = IF cursor > 0 THEN cursor + 1 ELSE tip
    /\ pc' = [pc EXCEPT !["sync"] = "fetch"]
    /\ UNCHANGED <<chain, tip, dbVars, batch, tries, safe, latest, range, lost, since, jumped, faults>>

Fetch ==
    /\ pc["sync"] = "fetch"
    /\ batch' = [batch EXCEPT !["sync"] = FetchEvents(start, tip)]
    /\ latest' = tip
    /\ safe' = start - 1
    /\ tries' = [tries EXCEPT !["sync"] = 0]
    /\ pc' = [pc EXCEPT !["sync"] = "apply"]
    /\ UNCHANGED <<chain, tip, dbVars, start, range, lost, since, jumped, faults>>

\* The controller accepts a backfill at any time.
StartBackfill(from, to) ==
    /\ pc["backfill"] = "idle"
    /\ to >= from
    /\ range' = <<from, to>>
    /\ batch' = [batch EXCEPT !["backfill"] = FetchEvents(from, to)]
    /\ tries' = [tries EXCEPT !["backfill"] = 0]
    /\ pc' = [pc EXCEPT !["backfill"] = "apply"]
    /\ UNCHANGED <<chain, tip, dbVars, start, safe, latest, lost, since, jumped, faults>>

-----------------------------------------------------------------------------
(* The loop over the events. *)

Head1(w) == Head(batch[w])

\* The event at the head is done with; only syncOnce keeps a safe ledger.
DropHead(w) ==
    /\ batch' = [batch EXCEPT ![w] = Tail(@)]
    /\ tries' = [tries EXCEPT ![w] = 0]
    /\ safe' = IF w = "sync" THEN Maximum(safe, Head1(w).ledger) ELSE safe

\* parseSettlementEvent returned null.
SkipEvent(w) ==
    /\ pc[w] = "apply" /\ batch[w] # <<>>
    /\ Head1(w).invoice = Other
    /\ DropHead(w)
    /\ UNCHANGED <<chain, tip, dbVars, pc, start, latest, range, lost, since, jumped, faults>>

\* Mutant of SettleFunded: a plain update, not conditional on FUNDED.
SettleAnyStatus(w) ==
    /\ pc[w] = "apply" /\ batch[w] # <<>>
    /\ Head1(w).invoice \in Invoices
    /\ dbStatus[Head1(w).invoice] # "UNFUNDED"
    /\ dbStatus' = [dbStatus EXCEPT ![Head1(w).invoice] = "REPAID"]
    /\ audit' = [audit EXCEPT ![Head1(w).invoice] = @ + 1]
    /\ pc' = [pc EXCEPT ![w] = "announce"]
    /\ UNCHANGED <<chain, tip, cursor, announced, batch, tries, start, safe, latest, range,
                   lost, since, jumped, faults>>

\* settleInvoiceWithTx: the conditional update and the audit row commit together.
SettleFunded(w) ==
    /\ pc[w] = "apply" /\ batch[w] # <<>>
    /\ Head1(w).invoice \in Invoices
    /\ dbStatus[Head1(w).invoice] = "FUNDED"
    /\ dbStatus' = [dbStatus EXCEPT ![Head1(w).invoice] = "REPAID"]
    /\ audit' = [audit EXCEPT ![Head1(w).invoice] = @ + 1]
    /\ pc' = [pc EXCEPT ![w] = "announce"]
    /\ UNCHANGED <<chain, tip, cursor, announced, batch, tries, start, safe, latest, range,
                   lost, since, jumped, faults>>

\* dispatchInvoiceEvent, after the transaction that settled the invoice.
Announce(w) ==
    /\ pc[w] = "announce"
    /\ announced' = [announced EXCEPT ![Head1(w).invoice] = @ + 1]
    /\ DropHead(w)
    /\ pc' = [pc EXCEPT ![w] = "apply"]
    /\ UNCHANGED <<chain, tip, dbStatus, cursor, audit, start, latest, range, lost, since, jumped, faults>>

\* The row of the webhook queue cannot be written: dispatchInvoiceEvent logs the
\* error and returns.
EnqueueFails(w) ==
    /\ faults < MaxFaults
    /\ pc[w] = "announce"
    /\ lost' = [lost EXCEPT ![Head1(w).invoice] = @ + 1]
    /\ DropHead(w)
    /\ pc' = [pc EXCEPT ![w] = "apply"]
    /\ faults' = faults + 1
    /\ UNCHANGED <<chain, tip, dbVars, start, latest, range, since, jumped>>

\* settleInvoiceWithTx returned ALREADY_REPAID.
AlreadyRepaid(w) ==
    /\ pc[w] = "apply" /\ batch[w] # <<>>
    /\ Head1(w).invoice \in Invoices
    /\ dbStatus[Head1(w).invoice] = "REPAID"
    /\ DropHead(w)
    /\ UNCHANGED <<chain, tip, dbVars, pc, start, latest, range, lost, since, jumped, faults>>

\* One attempt of withRetry failed; after MaxAttempts syncOnce gives up on the
\* cycle and backfill on the event.
AttemptFailed(w) ==
    IF tries[w] + 1 < MaxAttempts
    THEN /\ tries' = [tries EXCEPT ![w] = @ + 1]
         /\ pc' = [pc EXCEPT ![w] = "apply"]
         /\ UNCHANGED batch
    ELSE /\ tries' = [tries EXCEPT ![w] = 0]
         /\ pc' = [pc EXCEPT ![w] = IF w = "sync" THEN "giveup" ELSE "apply"]
         /\ batch' = IF w = "sync" THEN batch ELSE [batch EXCEPT ![w] = Tail(@)]

\* InvoiceNotFoundError or UnexpectedInvoiceStatusError.
SettleRejected(w) ==
    /\ pc[w] = "apply" /\ batch[w] # <<>>
    /\ Head1(w).invoice \in Invoices
    /\ dbStatus[Head1(w).invoice] = "UNFUNDED"
    /\ AttemptFailed(w)
    /\ UNCHANGED <<chain, tip, dbVars, start, safe, latest, range, lost, since, jumped, faults>>

\* The transaction fails, or after it the subscriptions cannot be read.
CallFails(w) ==
    /\ faults < MaxFaults
    /\ pc[w] \in {"apply", "announce"} /\ batch[w] # <<>>
    /\ Head1(w).invoice \in Invoices
    /\ AttemptFailed(w)
    /\ lost' = IF pc[w] = "announce" THEN [lost EXCEPT ![Head1(w).invoice] = @ + 1] ELSE lost
    /\ faults' = faults + 1
    /\ UNCHANGED <<chain, tip, dbVars, start, safe, latest, range, since, jumped>>

\* settleInvoice runs all this inside an outer transaction that writes nothing;
\* its commit can fail when the settlement and the webhook row are already
\* committed.
OuterCommitFails(w) ==
    /\ faults < MaxFaults
    /\ pc[w] = "announce"
    /\ announced' = [announced EXCEPT ![Head1(w).invoice] = @ + 1]
    /\ AttemptFailed(w)
    /\ faults' = faults + 1
    /\ UNCHANGED <<chain, tip, dbStatus, cursor, audit, start, safe, latest, range, lost, since, jumped>>

-----------------------------------------------------------------------------
(* The end of a cycle. *)

\* setLastLedger.
StoreCursor(ledger) ==
    /\ cursor' = ledger
    /\ since' = IF cursor = 0 /\ ledger > 0 THEN start ELSE since

\* History: a cycle gives up on an event of the ledger it counts as its last
\* processed one, because another event of that ledger was applied before.
CutOff == IF Head1("sync").ledger <= safe THEN {safe} ELSE {}

\* History: the ledgers up to the tip that the response named whose events did not
\* all fit in it.
LeftOut ==
    {chain[k].ledger : k \in {n \in DOMAIN chain :
        /\ n > PageLimit /\ chain[n - PageLimit].ledger >= start
        /\ chain[n].ledger <= latest}}

EndCycle == pc' = [pc EXCEPT !["sync"] = "idle"] /\ batch' = [batch EXCEPT !["sync"] = <<>>]

\* Mutant of GiveUp: the event given up on counts as processed.
GiveUpPastEvent ==
    /\ pc["sync"] = "giveup"
    /\ StoreCursor(Maximum(safe, Head1("sync").ledger))
    /\ jumped' = jumped \cup CutOff
    /\ EndCycle
    /\ UNCHANGED <<chain, tip, dbStatus, audit, announced, tries, start, safe, latest, range,
                   lost, faults>>

\* The catch block: progress up to the last good ledger.
GiveUp ==
    /\ pc["sync"] = "giveup"
    /\ StoreCursor(Maximum(0, safe))
    /\ jumped' = jumped \cup CutOff
    /\ EndCycle
    /\ UNCHANGED <<chain, tip, dbStatus, audit, announced, tries, start, safe, latest, range,
                   lost, faults>>

\* Nothing failed: past the empty ledgers up to the tip the response named.
FinishCycle ==
    /\ pc["sync"] = "apply" /\ batch["sync"] = <<>>
    /\ StoreCursor(Maximum(safe, latest))
    /\ jumped' = jumped \cup LeftOut
    /\ EndCycle
    /\ UNCHANGED <<chain, tip, dbStatus, audit, announced, tries, start, safe, latest, range,
                   lost, faults>>

FinishBackfill ==
    /\ pc["backfill"] = "apply" /\ batch["backfill"] = <<>>
    /\ pc' = [pc EXCEPT !["backfill"] = "idle"]
    /\ UNCHANGED <<chain, tip, dbVars, batch, tries, start, safe, latest, range, lost, since, jumped, faults>>

\* A call outside the retries fails: reading or storing the cursor, or the RPC.
\* tick logs the error and ends the cycle.
CycleFails ==
    /\ faults < MaxFaults
    /\ pc["sync"] \in {"fetch", "giveup"} \/ (pc["sync"] = "apply" /\ batch["sync"] = <<>>)
    /\ EndCycle
    /\ faults' = faults + 1
    /\ UNCHANGED <<chain, tip, dbVars, tries, start, safe, latest, range, lost, since, jumped>>

Crash ==
    /\ faults < MaxFaults
    /\ \E w \in Worker : pc[w] # "idle"
    /\ pc' = [w \in Worker |-> "idle"]
    /\ batch' = [w \in Worker |-> <<>>]
    /\ tries' = [w \in Worker |-> 0]
    /\ lost' = [i \in Invoices |-> lost[i] +
                  Cardinality({w \in Worker : pc[w] = "announce" /\ Head1(w).invoice = i})]
    /\ faults' = faults + 1
    /\ UNCHANGED <<chain, tip, dbVars, start, safe, latest, range, since, jumped>>

-----------------------------------------------------------------------------

SyncInit ==
    /\ chain = <<>>
    /\ tip = 1
    /\ dbStatus = [i \in Invoices |-> "UNFUNDED"]
    /\ cursor = 0
    /\ pc = [w \in Worker |-> "idle"]
    /\ batch = [w \in Worker |-> <<>>]
    /\ tries = [w \in Worker |-> 0]
    /\ start = 0
    /\ safe = 0
    /\ latest = 0
    /\ range = <<0, 0>>
    /\ audit = [i \in Invoices |-> 0]
    /\ announced = [i \in Invoices |-> 0]
    /\ lost = [i \in Invoices |-> 0]
    /\ since = 0
    /\ jumped = {}
    /\ faults = 0

LoopStep(w) ==
    \/ SkipEvent(w)
    \/ SettleFunded(w)
    \/ Announce(w)
    \/ AlreadyRepaid(w)
    \/ SettleRejected(w)

CycleStep == StartCycle \/ Fetch \/ LoopStep("sync") \/ GiveUp \/ FinishCycle

SyncNext ==
    \/ \E contents \in LedgerContents : CloseLedger(contents)
    \/ \E i \in Invoices : MirrorFunded(i)
    \/ CycleStep
    \/ \E r \in BackfillRanges : StartBackfill(r[1], r[2])
    \/ LoopStep("backfill")
    \/ FinishBackfill
    \/ \E w \in Worker : EnqueueFails(w) \/ CallFails(w) \/ OuterCommitFails(w)
    \/ CycleFails
    \/ Crash

SyncSpec == SyncInit /\ [][SyncNext]_syncVars

\* setInterval keeps firing, tick always clears its flag, and every awaited call
\* settles (it succeeds or is one of the MaxFaults failures).
SyncFairness == WF_syncVars(CycleStep)

FairSyncSpec == SyncSpec /\ SyncFairness

-----------------------------------------------------------------------------
(* Properties. *)

\* Type invariant.
SyncTypeOK ==
    /\ chain \in Seq(Event)
    /\ tip \in 1 .. MaxTip
    /\ dbStatus \in [Invoices -> {"UNFUNDED", "FUNDED", "REPAID"}]
    /\ cursor \in 0 .. MaxTip
    /\ pc \in [Worker -> {"idle", "fetch", "apply", "announce", "giveup"}]
    /\ batch \in [Worker -> Seq(Event)]
    /\ tries \in [Worker -> 0 .. MaxAttempts - 1]
    /\ start \in Nat /\ safe \in Nat /\ latest \in Nat
    /\ jumped \in SUBSET (0 .. MaxTip)
    /\ faults \in 0 .. MaxFaults

\* What the cursor has passed since the listener started and is not applied.
Missed ==
    {k \in DOMAIN chain : /\ chain[k].invoice \in Invoices
                          /\ 0 < since /\ since <= chain[k].ledger /\ chain[k].ledger <= cursor
                          /\ dbStatus[chain[k].invoice] # "REPAID"}

\* The stored cursor never passes a settlement that has not been applied, for
\* ledgers from the one the listener started at: what failed is fetched again
\* ("so this event is re-fetched and re-attempted next cycle",
\* settlement-sync.service.ts:147), whatever crashed or failed in between.
CursorPassesOnlyApplied == Missed = {}

\* The same with the two ways in which the listener does lose a settlement left
\* open, and no other: a settlement behind the cursor is applied unless a cycle
\* gave up in its ledger after applying another event of that ledger, or the
\* response that covered its ledger was full (settlement-sync.service.ts:110-155).
PassedLedgersAreApplied == \A k \in Missed : chain[k].ledger \in jumped

\* However often an event is fetched, retried, replayed after a crash or applied
\* by a concurrent backfill, an invoice is moved to REPAID once, with one audit
\* row and at most one `repaid' notification; the notification is missing only
\* if it was interrupted between the commit and the enqueueing ("concurrent
\* calls cannot double-apply", settlement.service.ts:50).
RepaidOnceAndAnnounced ==
    \A i \in Invoices :
        /\ audit[i] = (IF dbStatus[i] = "REPAID" THEN 1 ELSE 0)
        /\ audit[i] = announced[i] + lost[i] +
             Cardinality({w \in Worker : pc[w] = "announce" /\ Head1(w).invoice = i})

\* A ledger the listener is responsible for settles the invoice.
SettlementDue(i, ledger) ==
    /\ 0 < since /\ since <= ledger
    /\ [ledger |-> ledger, invoice |-> i] \in Range(chain)

\* Every settlement the listener is responsible for reaches the database once
\* faults cease and the fundings are mirrored, also the one an earlier cycle
\* gave up on ("per-event retries with backoff recover missed or
\* transiently-failing events", settlement-sync.service.ts:26), unless its ledger
\* is one the cursor passes in part.  A settlement of an invoice that is never
\* FUNDED in the database holds up all later ones.
SettlementsReachDatabase ==
    \A i \in Invoices, ledger \in 1 .. MaxTip :
        (SettlementDue(i, ledger) /\ \A j \in Invoices : dbStatus[j] # "UNFUNDED")
          ~> (dbStatus[i] = "REPAID" \/ ledger \in jumped)

\* The mirror is well formed and repays an invoice once, whatever is retried,
\* replayed or applied twice.
SyncInv == SyncTypeOK /\ RepaidOnceAndAnnounced
=============================================================================
