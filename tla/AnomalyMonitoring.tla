-------------------------- MODULE AnomalyMonitoring --------------------------
(* On-chain anomaly monitoring (monitoring/): a stream of ledgers, one        *)
(* processLedger per ledger without waiting for the previous one, the funding *)
(* windows of the detector, and the alerts.  The answers of Horizon arrive in *)
(* any order and a ledger is suspended at each alert it sends.                *)
(* A funding is <<ledger, position>>; its time is its ledger.  The discount   *)
(* and relative-volume heuristics are left out, the long-term window they use *)
(* is trimmed like the others.                                                *)
EXTENDS Naturals, Sequences, SequencesExt

CONSTANTS MaxMonLedger,       \* bound: ledgers
          MaxFundings,        \* bound: fundings in a ledger (the code reads 200)
          FundingWindow,      \* fundingVolumeWindowMs
          FundingAmounts, LargeFundingAmount, FundingVolumeThreshold

ASSUME MonitoringAssumption == MaxMonLedger \in Nat /\ MaxFundings \in Nat /\ FundingWindow \in Nat

MonLedgers == 1 .. MaxMonLedger

VARIABLES
    funding,    \* ledger -> the amounts funded in it
    lproc,      \* ledger -> its processLedger: todo is the index of the next funding
    volWindow,  \* AnomalyDetectorService.fundingWindow, in order of arrival
    seen,       \* fundings evaluated since the process started
    pendingAlerts, \* ledger -> alerts of its current funding not yet dispatched
    sentAlerts     \* ids in AlertDispatcherService.sentAt

monitoringVars == <<funding, lproc, volWindow, seen, pendingAlerts, sentAlerts>>

MonitoringInit ==
    /\ funding \in [MonLedgers -> BoundedSeq(FundingAmounts, MaxFundings)]
    /\ lproc = [l \in MonLedgers |-> [at |-> "future", todo |-> 1]]
    /\ volWindow = <<>>
    /\ seen = {}
    /\ pendingAlerts = [l \in MonLedgers |-> {}]
    /\ sentAlerts = {}

(* The stream delivers the ledgers in order; each starts its own processLedger.*)
LedgerArrives(l) ==
    /\ lproc[l].at = "future"
    /\ \A k \in 1 .. l - 1 : lproc[k].at # "future"
    /\ lproc' = [lproc EXCEPT ![l].at = "asked"]
    /\ UNCHANGED <<funding, volWindow, seen, pendingAlerts, sentAlerts>>

OperationsKnown(l) ==
    /\ lproc[l].at = "asked"
    /\ lproc' = [lproc EXCEPT ![l].at = "loop"]
    /\ UNCHANGED <<funding, volWindow, seen, pendingAlerts, sentAlerts>>

Point(l, k) == [amount |-> funding[l][k], time |-> l, id |-> <<l, k>>]

(* The outdated points at the front of the window.                            *)
Outdated(w, now) ==
    CHOOSE n \in 0 .. Len(w) :
        /\ \A i \in 1 .. n : w[i].time + FundingWindow < now
        /\ n < Len(w) => w[n + 1].time + FundingWindow >= now

PushAndTrimEarly(w, p) ==
    LET v == Append(w, p) IN SelectSeq(v, LAMBDA q : q.time + FundingWindow > p.time)

PushAndTrim(w, p) == LET v == Append(w, p) IN SubSeq(v, Outdated(v, p.time) + 1, Len(v))

Volume(w) == FoldLeft(LAMBDA sum, p : sum + p.amount, 0, w)

(* evaluate: the window of the funding and two of the alerts it raises.  The  *)
(* other rules of a funding keep windows of their own, which the same         *)
(* pushAndTrim trims, and are left out.                                       *)
Evaluate(l) ==
    LET k == lproc[l].todo
        w == PushAndTrim(volWindow, Point(l, k))
    IN /\ lproc[l].at = "loop"
       /\ pendingAlerts[l] = {}
       /\ k <= Len(funding[l])
       /\ volWindow' = w
       /\ seen' = seen \cup {<<l, k>>}
       /\ pendingAlerts' = [pendingAlerts EXCEPT ![l] =
              {a \in {"large_invoice_funding", "funding_volume_spike"} :
                 IF a = "large_invoice_funding" THEN funding[l][k] >= LargeFundingAmount
                 ELSE Volume(w) >= FundingVolumeThreshold}]
       /\ lproc' = [lproc EXCEPT ![l].todo = @ + 1]
       /\ UNCHANGED <<funding, sentAlerts>>

(* dispatch: the id is remembered before the webhook is called.  Ids are per  *)
(* account and transaction in the code; here every funding is a transaction.  *)
DispatchAlert(l) ==
    /\ \E a \in pendingAlerts[l] :
         /\ sentAlerts' = sentAlerts \cup {<<a, l, lproc[l].todo - 1>>}
         /\ pendingAlerts' = [pendingAlerts EXCEPT ![l] = @ \ {a}]
    /\ UNCHANGED <<funding, lproc, volWindow, seen>>

LedgerDone(l) ==
    /\ lproc[l].at = "loop"
    /\ pendingAlerts[l] = {}
    /\ lproc[l].todo > Len(funding[l])
    /\ lproc' = [lproc EXCEPT ![l].at = "done"]
    /\ UNCHANGED <<funding, volWindow, seen, pendingAlerts, sentAlerts>>

(* Horizon or the webhook fails.  Nobody awaits processLedger, so the         *)
(* rejection ends the process; the next one starts with empty windows at the  *)
(* newest ledger (cursor "now").                                              *)
ProcessLedgerRejects(l) ==
    /\ lproc[l].at = "asked" \/ pendingAlerts[l] # {}
    /\ lproc' = [k \in MonLedgers |-> IF lproc[k].at = "future" THEN lproc[k] ELSE [lproc[k] EXCEPT !.at = "done"]]
    /\ volWindow' = <<>>
    /\ seen' = {}
    /\ pendingAlerts' = [k \in MonLedgers |-> {}]
    /\ sentAlerts' = {}
    /\ UNCHANGED funding

MonitoringNext ==
    \E l \in MonLedgers : \/ LedgerArrives(l) \/ OperationsKnown(l) \/ Evaluate(l)
                          \/ DispatchAlert(l) \/ LedgerDone(l) \/ ProcessLedgerRejects(l)

InWindow == {volWindow[i].id : i \in DOMAIN volWindow}

MonitoringTypeOK ==
    /\ InWindow \subseteq seen
    /\ Len(volWindow) <= MaxMonLedger * MaxFundings

-----------------------------------------------------------------------------
(* Whatever the order in which the ledgers' answers arrive, the window holds  *)
(* every funding evaluated so far that is no older than FundingWindow when    *)
(* the newest of them closed: a spike is never under-counted there            *)
(* (pushAndTrim).                                                             *)
WindowKeepsRecent ==
    \A e \in seen : (\A f \in seen : f[1] <= e[1] + FundingWindow) => e \in InWindow
=============================================================================
