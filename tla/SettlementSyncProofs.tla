------------------------ MODULE SettlementSyncProofs ------------------------
(***************************************************************************)
(* Proofs about SettlementSync, for any invoices, chain, backfills, page    *)
(* size, number of attempts and number of faults.                          *)
(***************************************************************************)
EXTENDS SettlementSync, FiniteSetTheorems, SequenceTheorems, TLAPS

-----------------------------------------------------------------------------
(* The inductive invariant of the mirror. *)

Pcs == {"idle", "fetch", "apply", "announce", "giveup"}

\* The chain is in the order of its ledgers, none of them beyond the tip.
ChainOK ==
    /\ \A k \in DOMAIN chain : chain[k].ledger <= tip
    /\ \A l \in Nat : \E n \in 0 .. Len(chain) : \A k \in DOMAIN chain : k <= n <=> chain[k].ledger < l

\* No part of the listener is ahead of the chain.
Bounds ==
    /\ \A w \in Worker : \A k \in DOMAIN batch[w] : batch[w][k].ledger <= tip
    /\ cursor <= tip /\ latest <= tip /\ safe <= tip
    /\ pc["sync"] = "fetch" => start \in 1 .. tip + 1

\* A worker that has settled an invoice and not yet announced it still has the event.
AnnounceOK(w) ==
    pc[w] = "announce" =>
        /\ batch[w] # <<>>
        /\ Head1(w).invoice \in Invoices
        /\ dbStatus[Head1(w).invoice] = "REPAID"

MirrorOK ==
    /\ SyncTypeOK
    /\ audit \in [Invoices -> Nat] /\ announced \in [Invoices -> Nat] /\ lost \in [Invoices -> Nat]
    /\ ChainOK
    /\ Bounds
    /\ \A w \in Worker : AnnounceOK(w)

\* Is worker w about to announce invoice i, and how many workers are?
Busy(w, i) == pc[w] = "announce" /\ Head1(w).invoice = i
BusyCount(i) == (IF Busy("sync", i) THEN 1 ELSE 0) + (IF Busy("backfill", i) THEN 1 ELSE 0)

\* One invoice: repaid once, with one audit row and one announcement made, lost or due.
Counted(i) ==
    /\ audit[i] = (IF dbStatus[i] = "REPAID" THEN 1 ELSE 0)
    /\ audit[i] = announced[i] + lost[i] + BusyCount(i)

\* The inductive invariant.
MirrorInv == MirrorOK /\ \A i \in Invoices : Counted(i)

-----------------------------------------------------------------------------
(* Facts about the state. *)

\* A set of workers is counted worker by worker.
LEMMA CountWorkers ==
    ASSUME NEW S \in SUBSET Worker
    PROVE  Cardinality(S) = (IF "sync" \in S THEN 1 ELSE 0) + (IF "backfill" \in S THEN 1 ELSE 0)
<1>1. S = {} \/ S = {"sync"} \/ S = {"backfill"} \/ S = {"sync", "backfill"}
  BY DEF Worker
<1>2. Cardinality({}) = 0 /\ Cardinality({"sync"}) = 1 /\ Cardinality({"backfill"}) = 1
  BY FS_EmptySet, FS_Singleton
<1>3. Cardinality({"sync", "backfill"}) = 2
  <2>1. {"sync", "backfill"} = {"sync"} \cup {"backfill"}
    OBVIOUS
  <2>2. IsFiniteSet({"sync"}) /\ "backfill" \notin {"sync"}
    BY FS_Singleton
  <2>. QED
    BY <1>2, <2>1, <2>2, FS_AddElement
<1>4. CASE S = {}
  BY <1>2, <1>4
<1>5. CASE S = {"sync"}
  BY <1>2, <1>5
<1>6. CASE S = {"backfill"}
  BY <1>2, <1>6
<1>7. CASE S = {"sync", "backfill"}
  BY <1>3, <1>7
<1>. QED
  BY <1>1, <1>4, <1>5, <1>6, <1>7

\* The event at the head of a batch and the batch without it.
LEMMA BatchFacts ==
    ASSUME MirrorOK, NEW w \in Worker
    PROVE  /\ batch[w] \in Seq(Event)
           /\ batch[w] # <<>> =>
                /\ Head1(w) \in Event /\ Head1(w) = batch[w][1] /\ Head1(w).ledger \in 0 .. tip
                /\ Head1(w).invoice \in Invoices \cup {Other}
                /\ Tail(batch[w]) \in Seq(Event) /\ Len(Tail(batch[w])) = Len(batch[w]) - 1
                /\ \A k \in DOMAIN Tail(batch[w]) :
                     /\ k + 1 \in DOMAIN batch[w] /\ Tail(batch[w])[k] = batch[w][k + 1]
<1>1. batch[w] \in Seq(Event)
  BY DEF MirrorOK, SyncTypeOK
<1>2. ASSUME batch[w] # <<>>
      PROVE  /\ Head1(w) \in Event /\ Head1(w) = batch[w][1]
             /\ Tail(batch[w]) \in Seq(Event) /\ Len(Tail(batch[w])) = Len(batch[w]) - 1
             /\ Len(batch[w]) \in Nat /\ Len(batch[w]) >= 1
             /\ \A i \in 1 .. Len(Tail(batch[w])) : Tail(batch[w])[i] = batch[w][i + 1]
  <2>1. /\ Head(batch[w]) \in Event /\ Tail(batch[w]) \in Seq(Event)
        /\ Len(Tail(batch[w])) = Len(batch[w]) - 1
        /\ \A i \in 1 .. Len(Tail(batch[w])) : Tail(batch[w])[i] = batch[w][i + 1]
    BY <1>1, <1>2, HeadTailProperties
  <2>. QED
    BY <1>1, <1>2, <2>1 DEF Head1
<1>3. ASSUME batch[w] # <<>>
      PROVE  Head1(w).ledger \in 0 .. tip /\ Head1(w).invoice \in Invoices \cup {Other}
  <2>1. Head1(w).ledger <= tip
    BY <1>1, <1>2, <1>3 DEF MirrorOK, Bounds
  <2>. QED
    BY <1>2, <1>3, <2>1 DEF Event, MirrorOK, SyncTypeOK
<1>. QED
  BY <1>1, <1>2, <1>3

\* The number of events before a ledger is well defined.
LEMMA EventsBeforeFacts ==
    ASSUME MirrorOK, NEW l \in Nat
    PROVE  /\ EventsBefore(l) \in 0 .. Len(chain)
           /\ \A k \in DOMAIN chain : k <= EventsBefore(l) <=> chain[k].ledger < l
<1>. DEFINE P(n) == \A k \in DOMAIN chain : k <= n <=> chain[k].ledger < l
<1>1. \E n \in 0 .. Len(chain) : P(n)
  BY DEF MirrorOK, ChainOK
<1>2. EventsBefore(l) = CHOOSE n \in 0 .. Len(chain) : P(n)
  BY DEF EventsBefore
<1>. HIDE DEF P
<1>3. EventsBefore(l) \in 0 .. Len(chain) /\ P(EventsBefore(l))
  BY <1>1, <1>2
<1>. QED
  BY <1>3 DEF P

\* A response is a window of the chain.
LEMMA FetchFacts ==
    ASSUME MirrorOK, NEW from \in Nat, NEW to \in Nat
    PROVE  \E n, m \in 0 .. Len(chain) :
             /\ \A k \in DOMAIN chain : k <= n <=> chain[k].ledger < from
             /\ \A k \in DOMAIN chain : k <= m <=> chain[k].ledger < to + 1
             /\ FetchEvents(from, to) \in Seq(Event)
             /\ Len(FetchEvents(from, to)) <= PageLimit
             /\ \A k \in DOMAIN FetchEvents(from, to) :
                  n + k \in DOMAIN chain /\ n + k <= m /\ FetchEvents(from, to)[k] = chain[n + k]
             /\ \A k \in DOMAIN chain : n < k /\ k <= m =>
                  k - n \in DOMAIN FetchEvents(from, to) \/ k > n + PageLimit
<1>. DEFINE n == EventsBefore(from)
            m == EventsBefore(to + 1)
            hi == IF m > n + PageLimit THEN n + PageLimit ELSE m
            page == SubSeq(chain, n + 1, hi)
<1>1. /\ n \in 0 .. Len(chain) /\ m \in 0 .. Len(chain)
      /\ \A k \in DOMAIN chain : k <= n <=> chain[k].ledger < from
      /\ \A k \in DOMAIN chain : k <= m <=> chain[k].ledger < to + 1
  <2>1. to + 1 \in Nat
    OBVIOUS
  <2>. QED
    BY <2>1, EventsBeforeFacts
<1>2. FetchEvents(from, to) = page
  BY DEF FetchEvents
<1>3. chain \in Seq(Event) /\ Len(chain) \in Nat /\ DOMAIN chain = 1 .. Len(chain)
  BY DEF MirrorOK, SyncTypeOK
<1>. HIDE DEF n, m
<1>4. /\ hi \in Int /\ hi <= m /\ hi <= n + PageLimit /\ hi <= Len(chain)
      /\ hi = m \/ hi = n + PageLimit
  BY <1>1, <1>3, SyncNumbersAssumption
<1>. HIDE DEF hi
<1>5. \A i \in n + 1 .. hi : chain[i] \in Event
  BY <1>1, <1>3, <1>4
<1>6. /\ page \in Seq(Event)
      /\ Len(page) = IF n + 1 <= hi THEN hi - (n + 1) + 1 ELSE 0
      /\ \A i \in 1 .. hi - (n + 1) + 1 : page[i] = chain[(n + 1) + i - 1]
  BY <1>1, <1>3, <1>4, <1>5, SubSeqProperties
<1>. HIDE DEF page
<1>7. DOMAIN page = 1 .. Len(page)
  BY <1>6
<1>8. Len(page) <= PageLimit
  BY <1>1, <1>4, <1>6, SyncNumbersAssumption
<1>9. ASSUME NEW k \in DOMAIN page
      PROVE  n + k \in DOMAIN chain /\ n + k <= m /\ page[k] = chain[n + k]
  <2>1. k \in 1 .. hi - n /\ n + 1 <= hi
    BY <1>1, <1>4, <1>6, <1>7
  <2>2. (n + 1) + k - 1 = n + k /\ k \in 1 .. hi - (n + 1) + 1
    BY <1>1, <1>4, <2>1
  <2>3. n + k \in 1 .. Len(chain) /\ n + k <= m
    BY <1>1, <1>3, <1>4, <2>1
  <2>. QED
    BY <1>3, <1>6, <2>2, <2>3
<1>10. ASSUME NEW k \in DOMAIN chain, n < k, k <= m
       PROVE  k - n \in DOMAIN page \/ k > n + PageLimit
  BY <1>1, <1>3, <1>4, <1>6, <1>7, <1>10, SyncNumbersAssumption
<1>. QED
  BY <1>1, <1>2, <1>6, <1>8, <1>9, <1>10

-----------------------------------------------------------------------------
(* The steps of the loop over the events. *)

\* An event needs nothing more when its invoice, if it names one, is REPAID.
Applied(e) == e.invoice \in Invoices => dbStatus[e.invoice] = "REPAID"

\* What a step of worker w in its loop does to the workers: the batch stays, or its
\* head is done with; syncOnce passes over an event only when it has been applied.
Moves(w) ==
    /\ pc[w] \in {"apply", "announce"} /\ batch[w] # <<>>
    /\ pc' \in [Worker -> Pcs] /\ pc'[w] \in {"apply", "announce", "giveup"}
    /\ \A v \in Worker : v # w => pc'[v] = pc[v] /\ batch'[v] = batch[v]
    /\ batch' \in [Worker -> Seq(Event)]
    /\ \/ batch'[w] = batch[w] /\ safe' = safe
       \/ w = "backfill" /\ batch'[w] = Tail(batch[w]) /\ safe' = safe
       \/ /\ w = "sync" /\ batch'[w] = Tail(batch[w])
          /\ safe' = Maximum(safe, Head1(w).ledger) /\ Applied(Head1(w))
    /\ tries' \in [Worker -> 0 .. MaxAttempts - 1]
    /\ faults' \in 0 .. MaxFaults
    /\ dbStatus' \in [Invoices -> {"UNFUNDED", "FUNDED", "REPAID"}]
    /\ \A i \in Invoices : dbStatus[i] = "REPAID" => dbStatus'[i] = "REPAID"
    /\ pc'[w] = "announce" =>
         /\ batch'[w] = batch[w] /\ Head1(w).invoice \in Invoices
         /\ dbStatus'[Head1(w).invoice] = "REPAID"
    /\ pc'[w] = "giveup" => batch'[w] = batch[w]
    /\ UNCHANGED <<chain, tip, cursor, start, latest, range, since, jumped>>

\* DropHead takes the head off the batch.
LEMMA DropHeadFacts ==
    ASSUME MirrorOK, NEW w \in Worker, batch[w] # <<>>, DropHead(w)
    PROVE  /\ batch' \in [Worker -> Seq(Event)] /\ batch'[w] = Tail(batch[w])
           /\ \A v \in Worker : v # w => batch'[v] = batch[v]
           /\ tries' \in [Worker -> 0 .. MaxAttempts - 1]
           /\ w = "sync" => safe' = Maximum(safe, Head1(w).ledger)
           /\ w = "backfill" => safe' = safe
<1>1. batch \in [Worker -> Seq(Event)] /\ tries \in [Worker -> 0 .. MaxAttempts - 1]
  BY DEF MirrorOK, SyncTypeOK
<1>2. Tail(batch[w]) \in Seq(Event)
  BY BatchFacts
<1>3. batch' = [batch EXCEPT ![w] = Tail(batch[w])] /\ tries' = [tries EXCEPT ![w] = 0]
  BY DEF DropHead
<1>4. 0 \in 0 .. MaxAttempts - 1
  BY SyncNumbersAssumption
<1>5. (w = "sync" => safe' = Maximum(safe, Head1(w).ledger)) /\ (w = "backfill" => safe' = safe)
  BY DEF DropHead
<1>. QED
  BY <1>1, <1>2, <1>3, <1>4, <1>5

\* A failed attempt is repeated, ends the cycle, or ends the event of a backfill.
LEMMA AttemptFailedFacts ==
    ASSUME MirrorOK, NEW w \in Worker, batch[w] # <<>>, AttemptFailed(w)
    PROVE  /\ batch' \in [Worker -> Seq(Event)]
           /\ batch'[w] = batch[w] \/ (w = "backfill" /\ batch'[w] = Tail(batch[w]))
           /\ tries' \in [Worker -> 0 .. MaxAttempts - 1]
           /\ pc' \in [Worker -> Pcs] /\ pc'[w] \in {"apply", "giveup"}
           /\ pc'[w] = "giveup" => batch'[w] = batch[w]
           /\ \A v \in Worker : v # w => pc'[v] = pc[v] /\ batch'[v] = batch[v]
<1>1. /\ batch \in [Worker -> Seq(Event)] /\ tries \in [Worker -> 0 .. MaxAttempts - 1]
      /\ pc \in [Worker -> Pcs]
  BY DEF MirrorOK, SyncTypeOK, Pcs
<1>2. Tail(batch[w]) \in Seq(Event)
  BY BatchFacts
<1>3. CASE tries[w] + 1 < MaxAttempts
  <2>1. /\ tries' = [tries EXCEPT ![w] = tries[w] + 1] /\ pc' = [pc EXCEPT ![w] = "apply"]
        /\ batch' = batch
    BY <1>3 DEF AttemptFailed
  <2>2. tries[w] + 1 \in 0 .. MaxAttempts - 1
    BY <1>1, <1>3, SyncNumbersAssumption
  <2>. QED
    BY <1>1, <2>1, <2>2 DEF Pcs
<1>4. CASE ~(tries[w] + 1 < MaxAttempts)
  <2>1. /\ tries' = [tries EXCEPT ![w] = 0]
        /\ pc' = [pc EXCEPT ![w] = IF w = "sync" THEN "giveup" ELSE "apply"]
        /\ batch' = IF w = "sync" THEN batch ELSE [batch EXCEPT ![w] = Tail(batch[w])]
    BY <1>4 DEF AttemptFailed
  <2>2. 0 \in 0 .. MaxAttempts - 1
    BY SyncNumbersAssumption
  <2>. QED
    BY <1>1, <1>2, <2>1, <2>2 DEF Pcs, Worker
<1>. QED
  BY <1>3, <1>4

\* A step of the loop of either worker.
InLoop(w) ==
    \/ LoopStep(w)
    \/ EnqueueFails(w) \/ CallFails(w) \/ OuterCommitFails(w)

\* Every step of the loop moves its own worker as the code prescribes.
LEMMA LoopMoves ==
    ASSUME MirrorOK, NEW w \in Worker, InLoop(w)
    PROVE  Moves(w)
<1>1. /\ pc \in [Worker -> Pcs] /\ batch \in [Worker -> Seq(Event)]
      /\ tries \in [Worker -> 0 .. MaxAttempts - 1] /\ faults \in 0 .. MaxFaults
      /\ dbStatus \in [Invoices -> {"UNFUNDED", "FUNDED", "REPAID"}] /\ AnnounceOK(w)
  BY DEF MirrorOK, SyncTypeOK, Pcs
<1>2. CASE SkipEvent(w) \/ AlreadyRepaid(w)
  <2>1. /\ pc[w] = "apply" /\ batch[w] # <<>> /\ DropHead(w)
        /\ UNCHANGED <<chain, tip, dbVars, pc, start, latest, range, lost, since, jumped, faults>>
    BY <1>2 DEF SkipEvent, AlreadyRepaid
  <2>2. Applied(Head1(w))
    BY <1>2, SyncSetsAssumption DEF SkipEvent, AlreadyRepaid, Applied
  <2>. QED
    BY <1>1, <2>1, <2>2, DropHeadFacts DEF Moves, dbVars, Worker
<1>3. CASE SettleFunded(w)
  <2>1. /\ pc[w] = "apply" /\ batch[w] # <<>> /\ Head1(w).invoice \in Invoices
        /\ dbStatus' = [dbStatus EXCEPT ![Head1(w).invoice] = "REPAID"]
        /\ pc' = [pc EXCEPT ![w] = "announce"]
        /\ UNCHANGED <<chain, tip, cursor, announced, batch, tries, start, safe, latest, range,
                       lost, since, jumped, faults>>
    BY <1>3 DEF SettleFunded
  <2>2. pc' \in [Worker -> Pcs] /\ pc'[w] = "announce" /\ \A v \in Worker : v # w => pc'[v] = pc[v]
    BY <1>1, <2>1 DEF Pcs
  <2>3. /\ dbStatus' \in [Invoices -> {"UNFUNDED", "FUNDED", "REPAID"}]
        /\ dbStatus'[Head1(w).invoice] = "REPAID"
        /\ \A i \in Invoices : dbStatus[i] = "REPAID" => dbStatus'[i] = "REPAID"
    BY <1>1, <2>1
  <2>. QED
    BY <1>1, <2>1, <2>2, <2>3 DEF Moves
<1>4. CASE Announce(w) \/ EnqueueFails(w)
  <2>1. /\ pc[w] = "announce" /\ DropHead(w) /\ pc' = [pc EXCEPT ![w] = "apply"]
        /\ UNCHANGED <<chain, tip, dbStatus, cursor, start, latest, range, since, jumped>>
    BY <1>4 DEF Announce, EnqueueFails, dbVars
  <2>2. faults' \in 0 .. MaxFaults
    BY <1>1, <1>4, SyncNumbersAssumption DEF Announce, EnqueueFails
  <2>3. batch[w] # <<>> /\ Applied(Head1(w))
    BY <1>1, <2>1 DEF AnnounceOK, Applied
  <2>4. pc' \in [Worker -> Pcs] /\ pc'[w] = "apply" /\ \A v \in Worker : v # w => pc'[v] = pc[v]
    BY <1>1, <2>1 DEF Pcs
  <2>. QED
    BY <1>1, <2>1, <2>2, <2>3, <2>4, DropHeadFacts DEF Moves, Worker
<1>5. CASE SettleRejected(w) \/ CallFails(w) \/ OuterCommitFails(w)
  <2>1. /\ pc[w] \in {"apply", "announce"} /\ AttemptFailed(w)
        /\ UNCHANGED <<chain, tip, dbStatus, cursor, start, safe, latest, range, since, jumped>>
    BY <1>5 DEF SettleRejected, CallFails, OuterCommitFails, dbVars
  <2>2. faults' \in 0 .. MaxFaults
    BY <1>1, <1>5, SyncNumbersAssumption DEF SettleRejected, CallFails, OuterCommitFails
  <2>3. batch[w] # <<>>
    BY <1>1, <1>5 DEF SettleRejected, CallFails, OuterCommitFails, AnnounceOK
  <2>. QED
    BY <1>1, <2>1, <2>2, <2>3, AttemptFailedFacts DEF Moves
<1>. QED
  BY <1>2, <1>3, <1>4, <1>5 DEF InLoop, LoopStep

-----------------------------------------------------------------------------
(* The mirror stays well formed. *)

\* A worker keeps what it has to announce as long as it and its batch stay.
LEMMA StillAnnounced ==
    ASSUME NEW v \in Worker, AnnounceOK(v),
           pc'[v] = "announce" => pc[v] = "announce" /\ batch'[v] = batch[v],
           \A i \in Invoices : dbStatus[i] = "REPAID" => dbStatus'[i] = "REPAID"
    PROVE  AnnounceOK(v)'
BY DEF AnnounceOK, Head1

\* A step of a loop.
LEMMA LoopMirror ==
    ASSUME MirrorOK, NEW w \in Worker, Moves(w),
           audit' \in [Invoices -> Nat], announced' \in [Invoices -> Nat],
           lost' \in [Invoices -> Nat]
    PROVE  MirrorOK'
<1>1. batch[w] # <<>> /\ Head1(w).ledger \in 0 .. tip /\ safe \in Nat /\ safe <= tip /\ tip \in Nat
  BY BatchFacts DEF Moves, MirrorOK, SyncTypeOK, Bounds
<1>2. safe' \in Nat /\ safe' <= tip'
  BY <1>1 DEF Moves, Maximum
<1>3. SyncTypeOK'
  BY <1>2 DEF Moves, MirrorOK, SyncTypeOK, Pcs
<1>4. ChainOK'
  BY DEF Moves, MirrorOK, ChainOK
<1>5. Bounds'
  <2>1. ASSUME NEW v \in Worker, NEW k \in DOMAIN batch'[v]
        PROVE  batch'[v][k].ledger <= tip'
    <3>1. CASE batch'[v] = batch[v]
      BY <2>1, <3>1 DEF Moves, MirrorOK, Bounds
    <3>2. CASE v = w /\ batch'[v] = Tail(batch[v])
      <4>1. k + 1 \in DOMAIN batch[v] /\ batch'[v][k] = batch[v][k + 1]
        BY <1>1, <2>1, <3>2, BatchFacts
      <4>. QED
        BY <4>1 DEF Moves, MirrorOK, Bounds
    <3>. QED
      BY <3>1, <3>2 DEF Moves
  <2>2. pc'["sync"] = "fetch" => pc["sync"] = "fetch"
    BY DEF Moves, Worker
  <2>. QED
    BY <1>2, <2>1, <2>2 DEF Moves, MirrorOK, Bounds
<1>6. ASSUME NEW v \in Worker PROVE AnnounceOK(v)'
  <2>1. CASE v # w
    BY <2>1, StillAnnounced DEF Moves, MirrorOK
  <2>2. CASE v = w
    BY <2>2 DEF Moves, AnnounceOK, Head1
  <2>. QED
    BY <2>1, <2>2
<1>. QED
  BY <1>3, <1>4, <1>5, <1>6 DEF MirrorOK

\* A new ledger comes after all the others.
LEMMA CloseMirror ==
    ASSUME MirrorOK, NEW contents \in LedgerContents, CloseLedger(contents)
    PROVE  /\ MirrorOK'
           /\ Len(chain') = Len(chain) + Len(contents) /\ DOMAIN chain' = 1 .. Len(chain')
           /\ \A k \in DOMAIN chain : k \in DOMAIN chain' /\ chain'[k] = chain[k]
           /\ \A k \in DOMAIN chain' : k \notin DOMAIN chain => chain'[k].ledger = tip + 1
<1>. DEFINE new == [k \in 1 .. Len(contents) |-> [ledger |-> tip + 1, invoice |-> contents[k]]]
<1>1. /\ chain \in Seq(Event) /\ tip \in 1 .. MaxTip /\ tip < MaxTip /\ Len(chain) \in Nat
      /\ DOMAIN chain = 1 .. Len(chain)
      /\ contents \in Seq(Invoices \cup {Other}) /\ Len(contents) \in Nat
  BY SyncSetsAssumption DEF MirrorOK, SyncTypeOK, CloseLedger
<1>2. chain' = chain \o new /\ tip' = tip + 1
      /\ UNCHANGED <<dbVars, procVars, lost, since, jumped, faults>>
  BY DEF CloseLedger
<1>3. new \in Seq(Event) /\ Len(new) = Len(contents) /\ \A k \in 1 .. Len(contents) : new[k].ledger = tip + 1
  <2>1. \A k \in 1 .. Len(contents) : [ledger |-> tip + 1, invoice |-> contents[k]] \in Event
    BY <1>1, SyncNumbersAssumption DEF Event
  <2>. QED
    BY <1>1, <2>1
<1>. HIDE DEF new
<1>4. /\ chain' \in Seq(Event) /\ Len(chain') = Len(chain) + Len(contents)
      /\ DOMAIN chain' = 1 .. Len(chain')
      /\ \A k \in 1 .. Len(chain) : chain'[k] = chain[k]
      /\ \A k \in Len(chain) + 1 .. Len(chain') : chain'[k] = new[k - Len(chain)]
  <2>1. /\ chain' \in Seq(Event) /\ Len(chain') = Len(chain) + Len(contents)
        /\ \A i \in 1 .. Len(chain) + Len(contents) :
             chain'[i] = IF i <= Len(chain) THEN chain[i] ELSE new[i - Len(chain)]
    <3>1. chain \in Seq(Event) /\ new \in Seq(Event)
      BY <1>1, <1>3
    <3>2. /\ chain \o new \in Seq(Event) /\ Len(chain \o new) = Len(chain) + Len(new)
          /\ \A i \in 1 .. Len(chain) + Len(new) : (chain \o new)[i] =
               IF i <= Len(chain) THEN chain[i] ELSE new[i - Len(chain)]
      BY <3>1, ConcatProperties, Zenon
    <3>3. Len(new) = Len(contents) /\ chain' = chain \o new
      BY <1>2, <1>3
    <3>. QED
      BY <3>2, <3>3, Zenon
  <2>. QED
    BY <1>1, <2>1
<1>5. ASSUME NEW k \in DOMAIN chain', k \notin DOMAIN chain
      PROVE  chain'[k].ledger = tip + 1
  <2>1. k \in Len(chain) + 1 .. Len(chain') /\ k - Len(chain) \in 1 .. Len(contents)
    BY <1>1, <1>4, <1>5
  <2>. QED
    BY <1>3, <1>4, <2>1
<1>6. \A k \in DOMAIN chain : k \in DOMAIN chain' /\ chain'[k] = chain[k]
  BY <1>1, <1>4
<1>7. ChainOK'
  <2>1. \A k \in DOMAIN chain : chain[k].ledger \in Nat /\ chain[k].ledger <= tip
    <3>1. \A k \in DOMAIN chain : chain[k] \in Event
      BY <1>1
    <3>. QED
      BY <3>1 DEF Event, MirrorOK, ChainOK
  <2>2. \A k \in DOMAIN chain' : chain'[k].ledger <= tip'
    BY <1>1, <1>2, <1>5, <1>6, <2>1
  <2>3. ASSUME NEW l \in Nat
        PROVE  \E n \in 0 .. Len(chain') : \A k \in DOMAIN chain' : k <= n <=> chain'[k].ledger < l
    <3>1. CASE l <= tip + 1
      <4>1. PICK n \in 0 .. Len(chain) : \A k \in DOMAIN chain : k <= n <=> chain[k].ledger < l
        BY DEF MirrorOK, ChainOK
      <4>2. n \in 0 .. Len(chain')
        BY <1>1, <1>4
      <4>3. ASSUME NEW k \in DOMAIN chain' PROVE k <= n <=> chain'[k].ledger < l
        <5>1. CASE k \in DOMAIN chain
          BY <1>6, <4>1, <5>1
        <5>2. CASE k \notin DOMAIN chain
          <6>1. chain'[k].ledger = tip + 1 /\ k > Len(chain)
            BY <1>1, <1>4, <1>5, <5>2
          <6>. QED
            BY <1>1, <1>4, <3>1, <6>1
        <5>. QED
          BY <5>1, <5>2
      <4>. QED
        BY <4>2, <4>3
    <3>2. CASE l > tip + 1
      <4>1. Len(chain') \in 0 .. Len(chain')
        BY <1>1, <1>4
      <4>2. \A k \in DOMAIN chain' : k <= Len(chain') /\ chain'[k].ledger < l
        <5>1. ASSUME NEW k \in DOMAIN chain' PROVE chain'[k].ledger < l
          BY <1>1, <1>5, <1>6, <2>1, <3>2
        <5>. QED
          BY <1>1, <1>4, <5>1
      <4>. QED
        BY <4>1, <4>2
    <3>. QED
      BY <1>1, <3>1, <3>2
  <2>. QED
    BY <2>2, <2>3 DEF ChainOK
<1>8. SyncTypeOK'
  BY <1>1, <1>2, <1>4, SyncNumbersAssumption DEF MirrorOK, SyncTypeOK, dbVars, procVars
<1>9. Bounds'
  <2>1. /\ UNCHANGED <<batch, cursor, latest, safe, pc, start>> /\ tip \in Nat
        /\ cursor \in Nat /\ latest \in Nat /\ safe \in Nat /\ start \in Nat
    BY <1>1, <1>2 DEF dbVars, procVars, MirrorOK, SyncTypeOK
  <2>2. ASSUME NEW w \in Worker, NEW k \in DOMAIN batch[w] PROVE batch[w][k].ledger <= tip + 1
    <3>1. batch[w][k] \in Event
      <4>1. batch[w] \in Seq(Event)
        BY BatchFacts
      <4>. QED
        BY <4>1
    <3>2. batch[w][k].ledger \in Nat /\ batch[w][k].ledger <= tip
      BY <3>1 DEF MirrorOK, Bounds, Event
    <3>. QED
      BY <2>1, <3>2
  <2>. QED
    BY <1>2, <2>1, <2>2 DEF MirrorOK, Bounds
<1>10. \A w \in Worker : AnnounceOK(w)'
  BY <1>2, StillAnnounced DEF dbVars, procVars, MirrorOK
<1>. QED
  BY <1>2, <1>4, <1>5, <1>6, <1>7, <1>8, <1>9, <1>10 DEF MirrorOK, dbVars

\* The steps of the cycle and of a backfill outside the loop.
LEMMA CycleMirror ==
    ASSUME MirrorOK,
           \/ StartCycle \/ Fetch \/ GiveUp \/ FinishCycle \/ FinishBackfill \/ CycleFails \/ Crash
           \/ \E r \in BackfillRanges : StartBackfill(r[1], r[2]),
           lost' \in [Invoices -> Nat]
    PROVE  MirrorOK'
<1>1. /\ chain \in Seq(Event) /\ tip \in 1 .. MaxTip /\ pc \in [Worker -> Pcs]
      /\ batch \in [Worker -> Seq(Event)] /\ tries \in [Worker -> 0 .. MaxAttempts - 1]
      /\ start \in Nat /\ safe \in Nat /\ latest \in Nat /\ cursor \in Nat /\ faults \in 0 .. MaxFaults
      /\ cursor <= tip /\ latest <= tip /\ safe <= tip
      /\ \A w \in Worker : \A k \in DOMAIN batch[w] : batch[w][k].ledger <= tip
      /\ pc["sync"] = "fetch" => start \in 1 .. tip + 1
      /\ "sync" \in Worker /\ "backfill" \in Worker
  BY DEF MirrorOK, SyncTypeOK, Bounds, Pcs, Worker
<1>2. UNCHANGED <<chain, tip, dbStatus, audit, announced>>
  BY DEF StartCycle, Fetch, GiveUp, FinishCycle, FinishBackfill, CycleFails, Crash, StartBackfill, dbVars
<1>3. ASSUME NEW from \in Nat, NEW to \in Nat
      PROVE  /\ FetchEvents(from, to) \in Seq(Event)
             /\ \A k \in DOMAIN FetchEvents(from, to) : FetchEvents(from, to)[k].ledger <= tip
  <2>. DEFINE page == FetchEvents(from, to)
  <2>1. PICK n, m \in 0 .. Len(chain) :
          /\ \A k \in DOMAIN chain : k <= n <=> chain[k].ledger < from
          /\ \A k \in DOMAIN chain : k <= m <=> chain[k].ledger < to + 1
          /\ page \in Seq(Event)
          /\ Len(page) <= PageLimit
          /\ \A k \in DOMAIN page : n + k \in DOMAIN chain /\ n + k <= m /\ page[k] = chain[n + k]
          /\ \A k \in DOMAIN chain : n < k /\ k <= m => k - n \in DOMAIN page \/ k > n + PageLimit
    BY FetchFacts, Zenon
  <2>. HIDE DEF page
  <2>2. page \in Seq(Event) /\ \A k \in DOMAIN page : page[k].ledger <= tip
    BY <2>1 DEF MirrorOK, ChainOK
  <2>. QED
    BY <2>2 DEF page
<1>4. 0 \in 0 .. MaxAttempts - 1
  BY SyncNumbersAssumption
<1>. DEFINE Keeps ==
            /\ pc' \in [Worker -> Pcs] /\ batch' \in [Worker -> Seq(Event)]
            /\ tries' \in [Worker -> 0 .. MaxAttempts - 1]
            /\ start' \in Nat /\ safe' \in Nat /\ latest' \in Nat /\ cursor' \in Nat
            /\ cursor' <= tip /\ latest' <= tip /\ safe' <= tip
            /\ \A w \in Worker : \A k \in DOMAIN batch'[w] : batch'[w][k].ledger <= tip
            /\ pc'["sync"] = "fetch" => start' \in 1 .. tip + 1
            /\ faults' \in 0 .. MaxFaults
            /\ \A w \in Worker : pc'[w] = "announce" => pc[w] = "announce" /\ batch'[w] = batch[w]
<1>5. Keeps
  <2>1. CASE StartCycle
    <3>1. /\ pc' = [pc EXCEPT !["sync"] = "fetch"]
          /\ UNCHANGED <<batch, tries, safe, latest, cursor, faults>>
      BY <2>1 DEF StartCycle, dbVars
    <3>2. start' \in 1 .. tip + 1
      BY <1>1, <2>1 DEF StartCycle
    <3>. QED
      BY <1>1, <3>1, <3>2 DEF Pcs
  <2>2. CASE Fetch
    <3>. DEFINE page == FetchEvents(start, tip)
    <3>1. /\ pc' = [pc EXCEPT !["sync"] = "apply"] /\ batch' = [batch EXCEPT !["sync"] = page]
          /\ latest' = tip /\ safe' = start - 1 /\ tries' = [tries EXCEPT !["sync"] = 0]
          /\ UNCHANGED <<start, cursor, faults>> /\ pc["sync"] = "fetch"
      BY <2>2 DEF Fetch, dbVars
    <3>2. page \in Seq(Event) /\ \A k \in DOMAIN page : page[k].ledger <= tip
      <4>1. start \in Nat /\ tip \in Nat
        BY <1>1
      <4>. QED
        BY <1>3, <4>1
    <3>. HIDE DEF page
    <3>3. safe' \in Nat /\ safe' <= tip
      BY <1>1, <3>1
    <3>4. /\ batch' \in [Worker -> Seq(Event)]
          /\ \A w \in Worker : \A k \in DOMAIN batch'[w] : batch'[w][k].ledger <= tip
      BY <1>1, <3>1, <3>2
    <3>. QED
      BY <1>1, <1>4, <3>1, <3>3, <3>4 DEF Pcs
  <2>3. ASSUME NEW r \in BackfillRanges, StartBackfill(r[1], r[2])
        PROVE  Keeps
    <3>. DEFINE page == FetchEvents(r[1], r[2])
    <3>1. /\ pc' = [pc EXCEPT !["backfill"] = "apply"]
          /\ batch' = [batch EXCEPT !["backfill"] = page]
          /\ tries' = [tries EXCEPT !["backfill"] = 0]
          /\ UNCHANGED <<start, safe, latest, cursor, faults>> /\ pc["backfill"] = "idle"
      BY <2>3 DEF StartBackfill, dbVars
    <3>2. page \in Seq(Event) /\ \A k \in DOMAIN page : page[k].ledger <= tip
      <4>1. r[1] \in Nat /\ r[2] \in Nat
        BY SyncSetsAssumption
      <4>. QED
        BY <1>3, <4>1
    <3>. HIDE DEF page
    <3>3. /\ batch' \in [Worker -> Seq(Event)]
          /\ \A w \in Worker : \A k \in DOMAIN batch'[w] : batch'[w][k].ledger <= tip
      BY <1>1, <3>1, <3>2
    <3>. QED
      BY <1>1, <1>4, <3>1, <3>3 DEF Pcs
  <2>4. CASE GiveUp \/ FinishCycle
    <3>1. /\ pc' = [pc EXCEPT !["sync"] = "idle"] /\ batch' = [batch EXCEPT !["sync"] = <<>>]
          /\ UNCHANGED <<tries, start, safe, latest, faults>>
          /\ cursor' \in {Maximum(0, safe), Maximum(safe, latest)}
      BY <2>4 DEF GiveUp, FinishCycle, EndCycle, StoreCursor
    <3>2. cursor' \in Nat /\ cursor' <= tip
      BY <1>1, <3>1 DEF Maximum
    <3>3. /\ batch' \in [Worker -> Seq(Event)]
          /\ \A w \in Worker : \A k \in DOMAIN batch'[w] : batch'[w][k].ledger <= tip
      BY <1>1, <3>1
    <3>. QED
      BY <1>1, <3>1, <3>2, <3>3 DEF Pcs
  <2>5. CASE FinishBackfill
    <3>1. /\ pc' = [pc EXCEPT !["backfill"] = "idle"]
          /\ UNCHANGED <<batch, cursor, tries, start, safe, latest, faults>>
      BY <2>5 DEF FinishBackfill, dbVars
    <3>. QED
      BY <1>1, <3>1 DEF Pcs
  <2>6. CASE CycleFails
    <3>1. /\ pc' = [pc EXCEPT !["sync"] = "idle"] /\ batch' = [batch EXCEPT !["sync"] = <<>>]
          /\ UNCHANGED <<cursor, tries, start, safe, latest>>
      BY <2>6 DEF CycleFails, EndCycle, dbVars
    <3>2. faults' \in 0 .. MaxFaults
      BY <1>1, <2>6, SyncNumbersAssumption DEF CycleFails
    <3>3. /\ batch' \in [Worker -> Seq(Event)]
          /\ \A w \in Worker : \A k \in DOMAIN batch'[w] : batch'[w][k].ledger <= tip
      BY <1>1, <3>1
    <3>. QED
      BY <1>1, <3>1, <3>2, <3>3 DEF Pcs
  <2>7. CASE Crash
    <3>1. /\ pc' = [w \in Worker |-> "idle"] /\ batch' = [w \in Worker |-> <<>>]
          /\ tries' = [w \in Worker |-> 0]
          /\ UNCHANGED <<cursor, start, safe, latest>>
      BY <2>7 DEF Crash, dbVars
    <3>2. faults' \in 0 .. MaxFaults
      BY <1>1, <2>7, SyncNumbersAssumption DEF Crash
    <3>3. /\ batch' \in [Worker -> Seq(Event)]
          /\ \A w \in Worker : \A k \in DOMAIN batch'[w] : batch'[w][k].ledger <= tip
      BY <3>1
    <3>. QED
      BY <1>1, <1>4, <3>1, <3>2, <3>3 DEF Pcs
  <2>. HIDE DEF Keeps
  <2>. QED
    BY <2>1, <2>2, <2>3, <2>4, <2>5, <2>6, <2>7
<1>. HIDE DEF Keeps
<1>6. SyncTypeOK'
  <2>1. cursor' \in 0 .. MaxTip
    BY <1>1, <1>5, SyncNumbersAssumption DEF Keeps
  <2>2. jumped' \in SUBSET (0 .. MaxTip)
    <3>1. jumped \in SUBSET (0 .. MaxTip)
      BY DEF MirrorOK, SyncTypeOK
    <3>2. CutOff \subseteq 0 .. MaxTip
      BY <1>1, SyncNumbersAssumption DEF CutOff
    <3>3. LeftOut \subseteq 0 .. MaxTip
      <4>1. \A k \in DOMAIN chain : chain[k].ledger \in 0 .. MaxTip
        <5>1. \A k \in DOMAIN chain : chain[k] \in Event /\ chain[k].ledger <= tip
          BY <1>1 DEF MirrorOK, ChainOK
        <5>. QED
          BY <1>1, <5>1, SyncNumbersAssumption DEF Event
      <4>. DEFINE S == {n \in DOMAIN chain : /\ n > PageLimit /\ chain[n - PageLimit].ledger >= start
                                            /\ chain[n].ledger <= latest}
      <4>2. LeftOut = {chain[k].ledger : k \in S} /\ S \subseteq DOMAIN chain
        BY DEF LeftOut
      <4>. HIDE DEF S
      <4>. QED
        BY <4>1, <4>2
    <3>4. jumped' \in {jumped, jumped \cup CutOff, jumped \cup LeftOut}
      BY DEF StartCycle, Fetch, GiveUp, FinishCycle, FinishBackfill, CycleFails, Crash, StartBackfill
    <3>. QED
      BY <3>1, <3>2, <3>3, <3>4
  <2>. QED
    BY <1>1, <1>2, <1>5, <2>1, <2>2 DEF Keeps, MirrorOK, SyncTypeOK, Pcs
<1>7. ChainOK' /\ Bounds'
  BY <1>2, <1>5 DEF Keeps, MirrorOK, ChainOK, Bounds
<1>8. \A w \in Worker : AnnounceOK(w)'
  BY <1>2, <1>5, StillAnnounced DEF Keeps, MirrorOK
<1>. QED
  BY <1>2, <1>6, <1>7, <1>8 DEF MirrorOK

\* A funding is mirrored.
LEMMA FundedMirror ==
    ASSUME MirrorOK, NEW i \in Invoices, MirrorFunded(i)
    PROVE  MirrorOK'
<1>1. /\ dbStatus \in [Invoices -> {"UNFUNDED", "FUNDED", "REPAID"}]
      /\ dbStatus' = [dbStatus EXCEPT ![i] = "FUNDED"] /\ dbStatus[i] = "UNFUNDED"
      /\ UNCHANGED <<chain, tip, cursor, audit, announced, procVars, lost, since, jumped, faults>>
  BY DEF MirrorFunded, MirrorOK, SyncTypeOK
<1>2. SyncTypeOK' /\ ChainOK' /\ Bounds'
  BY <1>1 DEF MirrorOK, SyncTypeOK, ChainOK, Bounds, procVars
<1>3. \A w \in Worker : AnnounceOK(w)'
  BY <1>1, StillAnnounced DEF MirrorOK, procVars
<1>. QED
  BY <1>1, <1>2, <1>3 DEF MirrorOK

-----------------------------------------------------------------------------
(* Audit rows and announcements are counted once. *)

\* What a step of worker w does to the number of announcements due.
LEMMA OneWorker ==
    ASSUME NEW w \in Worker, NEW i \in Invoices,
           \A v \in Worker : v # w => pc'[v] = pc[v] /\ batch'[v] = batch[v]
    PROVE  BusyCount(i)' = BusyCount(i) + (IF Busy(w, i)' THEN 1 ELSE 0) - (IF Busy(w, i) THEN 1 ELSE 0)
<1>1. \A v \in Worker : v # w => (Busy(v, i)' <=> Busy(v, i))
  BY DEF Busy, Head1
<1>. QED
  BY <1>1 DEF BusyCount, Worker

\* The number of announcements due is a number.
LEMMA BusyCountType == \A i \in Invoices : BusyCount(i) \in 0 .. 2
BY DEF BusyCount

\* A step of a loop keeps the count of every invoice and the counters' types.
LEMMA LoopCounts ==
    ASSUME MirrorInv, NEW w \in Worker, InLoop(w)
    PROVE  /\ audit' \in [Invoices -> Nat] /\ announced' \in [Invoices -> Nat]
           /\ lost' \in [Invoices -> Nat]
           /\ \A i \in Invoices : Counted(i)'
<1>1. /\ audit \in [Invoices -> Nat] /\ announced \in [Invoices -> Nat] /\ lost \in [Invoices -> Nat]
      /\ dbStatus \in [Invoices -> {"UNFUNDED", "FUNDED", "REPAID"}]
      /\ MirrorOK /\ AnnounceOK(w) /\ \A i \in Invoices : Counted(i)
  BY DEF MirrorInv, MirrorOK, SyncTypeOK
<1>2. Moves(w)
  BY <1>1, LoopMoves
<1>3. \A i \in Invoices : BusyCount(i)' = BusyCount(i) + (IF Busy(w, i)' THEN 1 ELSE 0)
                                            - (IF Busy(w, i) THEN 1 ELSE 0)
  BY <1>2, OneWorker DEF Moves
<1>4. CASE SkipEvent(w) \/ AlreadyRepaid(w) \/ SettleRejected(w) \/ (CallFails(w) /\ pc[w] = "apply")
  <2>1. UNCHANGED <<dbStatus, audit, announced, lost>> /\ pc[w] = "apply"
    BY <1>4 DEF SkipEvent, AlreadyRepaid, SettleRejected, CallFails, dbVars
  <2>2. pc'[w] # "announce"
    <3>1. CASE SkipEvent(w) \/ AlreadyRepaid(w)
      BY <2>1, <3>1 DEF SkipEvent, AlreadyRepaid
    <3>2. CASE SettleRejected(w) \/ CallFails(w)
      BY <1>1, <1>2, <3>2, AttemptFailedFacts DEF SettleRejected, CallFails
    <3>. QED
      BY <1>4, <3>1, <3>2
  <2>3. \A i \in Invoices : BusyCount(i)' = BusyCount(i)
    BY <1>3, <2>1, <2>2, BusyCountType DEF Busy
  <2>. QED
    BY <1>1, <2>1, <2>3 DEF Counted
<1>5. CASE SettleFunded(w)
  <2>. DEFINE h == Head1(w).invoice
  <2>1. /\ pc[w] = "apply" /\ h \in Invoices /\ dbStatus[h] = "FUNDED"
        /\ dbStatus' = [dbStatus EXCEPT ![h] = "REPAID"] /\ audit' = [audit EXCEPT ![h] = @ + 1]
        /\ UNCHANGED <<announced, lost, batch>> /\ pc'[w] = "announce"
    BY <1>1, <1>5 DEF SettleFunded, MirrorOK, SyncTypeOK
  <2>2. \A i \in Invoices : Busy(w, i)' <=> i = h
    BY <2>1 DEF Busy, Head1
  <2>3. \A i \in Invoices : BusyCount(i)' = BusyCount(i) + (IF i = h THEN 1 ELSE 0)
    BY <1>3, <2>1, <2>2, BusyCountType DEF Busy
  <2>. HIDE DEF h
  <2>. QED
    BY <1>1, <2>1, <2>3, BusyCountType DEF Counted
<1>6. CASE pc[w] = "announce" /\ ~SettleFunded(w)
  <2>. DEFINE h == Head1(w).invoice
  <2>1. /\ h \in Invoices /\ UNCHANGED <<dbStatus, audit>>
        /\ \/ announced' = [announced EXCEPT ![h] = @ + 1] /\ lost' = lost
           \/ lost' = [lost EXCEPT ![h] = @ + 1] /\ announced' = announced
    BY <1>1, <1>6 DEF InLoop, LoopStep, SkipEvent, AlreadyRepaid, SettleRejected, Announce,
                      EnqueueFails, CallFails, OuterCommitFails, AnnounceOK, dbVars
  <2>2. pc'[w] # "announce"
    <3>1. CASE Announce(w) \/ EnqueueFails(w)
      BY <1>1, <3>1 DEF Announce, EnqueueFails, MirrorOK, SyncTypeOK
    <3>2. CASE CallFails(w) \/ OuterCommitFails(w)
      BY <1>1, <1>2, <3>2, AttemptFailedFacts DEF Moves, CallFails, OuterCommitFails
    <3>. QED
      BY <1>6, <3>1, <3>2 DEF InLoop, LoopStep, SkipEvent, AlreadyRepaid, SettleRejected
  <2>3. \A i \in Invoices : BusyCount(i)' = BusyCount(i) - (IF i = h THEN 1 ELSE 0)
    BY <1>3, <1>6, <2>2, BusyCountType DEF Busy
  <2>. HIDE DEF h
  <2>. QED
    BY <1>1, <2>1, <2>3, BusyCountType DEF Counted
<1>. QED
  BY <1>4, <1>5, <1>6 DEF InLoop, LoopStep, Announce, EnqueueFails, CallFails, OuterCommitFails

\* A step that starts or ends no announcement keeps the count of every invoice.
LEMMA QuietCounts ==
    ASSUME MirrorInv, UNCHANGED <<dbStatus, audit, announced, lost>>,
           \A w \in Worker : /\ pc'[w] = "announce" <=> pc[w] = "announce"
                             /\ pc[w] = "announce" => batch'[w] = batch[w]
    PROVE  \A i \in Invoices : Counted(i)'
<1>1. \A i \in Invoices, w \in Worker : Busy(w, i)' <=> Busy(w, i)
  BY DEF Busy, Head1
<1>2. \A i \in Invoices : BusyCount(i)' = BusyCount(i)
  BY <1>1 DEF BusyCount, Worker
<1>. QED
  BY <1>2 DEF MirrorInv, Counted

\* A crash loses the announcements that were due.
LEMMA CrashCounts ==
    ASSUME MirrorInv, Crash
    PROVE  lost' \in [Invoices -> Nat] /\ \A i \in Invoices : Counted(i)'
<1>. DEFINE S(i) == {w \in Worker : pc[w] = "announce" /\ Head1(w).invoice = i}
<1>1. ASSUME NEW i \in Invoices PROVE Cardinality(S(i)) = BusyCount(i)
  <2>1. /\ "sync" \in S(i) <=> Busy("sync", i)
        /\ "backfill" \in S(i) <=> Busy("backfill", i)
    BY DEF Busy, Worker
  <2>2. S(i) \in SUBSET Worker
    OBVIOUS
  <2>. HIDE DEF S
  <2>. QED
    BY <2>1, <2>2, CountWorkers DEF BusyCount
<1>2. /\ lost' = [i \in Invoices |-> lost[i] + Cardinality(S(i))]
      /\ pc' = [w \in Worker |-> "idle"] /\ UNCHANGED <<dbStatus, audit, announced>>
  BY DEF Crash, dbVars
<1>. HIDE DEF S
<1>3. lost \in [Invoices -> Nat] /\ announced \in [Invoices -> Nat]
  BY DEF MirrorInv, MirrorOK
<1>4. \A i \in Invoices : lost'[i] = lost[i] + BusyCount(i)
  BY <1>1, <1>2
<1>5. lost' \in [Invoices -> Nat]
  BY <1>1, <1>2, <1>3, BusyCountType
<1>6. \A i \in Invoices : BusyCount(i)' = 0
  BY <1>2 DEF BusyCount, Busy, Worker
<1>7. \A i \in Invoices : Counted(i)'
  BY <1>2, <1>3, <1>4, <1>6, BusyCountType DEF MirrorInv, Counted
<1>. QED
  BY <1>5, <1>7

\* The initial mirror is empty.
LEMMA MirrorInit == SyncInit => MirrorInv
<1>. SUFFICES ASSUME SyncInit PROVE MirrorInv
  OBVIOUS
<1>1. SyncTypeOK
  <2>1. chain \in Seq(Event) /\ batch \in [Worker -> Seq(Event)]
    BY DEF SyncInit
  <2>2. tries \in [Worker -> 0 .. MaxAttempts - 1] /\ tip \in 1 .. MaxTip /\ cursor \in 0 .. MaxTip
        /\ faults \in 0 .. MaxFaults
    BY SyncNumbersAssumption DEF SyncInit
  <2>. QED
    BY <2>1, <2>2 DEF SyncInit, SyncTypeOK
<1>2. ChainOK
  <2>1. Len(chain) = 0 /\ DOMAIN chain = {}
    BY DEF SyncInit
  <2>. QED
    BY <2>1 DEF ChainOK
<1>3. Bounds
  <2>1. \A w \in Worker : batch[w] = <<>> /\ pc[w] = "idle"
    BY DEF SyncInit
  <2>. QED
    BY <2>1 DEF SyncInit, Bounds, Worker
<1>4. \A w \in Worker : AnnounceOK(w)
  BY DEF SyncInit, AnnounceOK
<1>5. \A i \in Invoices : Counted(i)
  <2>1. \A i \in Invoices : BusyCount(i) = 0
    BY DEF SyncInit, BusyCount, Busy, Worker
  <2>. QED
    BY <2>1 DEF SyncInit, Counted
<1>. QED
  BY <1>1, <1>2, <1>3, <1>4, <1>5 DEF SyncInit, MirrorInv, MirrorOK

\* The steps of the cycle and of a backfill outside the loop, a crash apart.
OutsideLoop ==
    \/ StartCycle \/ Fetch \/ GiveUp \/ FinishCycle \/ FinishBackfill \/ CycleFails
    \/ \E r \in BackfillRanges : StartBackfill(r[1], r[2])

\* They touch no announcement.
LEMMA OutsideLoopFacts ==
    ASSUME MirrorOK, OutsideLoop
    PROVE  /\ UNCHANGED <<chain, tip, dbStatus, audit, announced, lost>>
           /\ \A w \in Worker : /\ pc'[w] = "announce" <=> pc[w] = "announce"
                                /\ pc[w] = "announce" => batch'[w] = batch[w]
<1>1. pc \in [Worker -> Pcs] /\ batch \in [Worker -> Seq(Event)] /\ "sync" \in Worker /\ "backfill" \in Worker
  BY DEF MirrorOK, SyncTypeOK, Pcs, Worker
<1>2. UNCHANGED <<chain, tip, dbStatus, audit, announced, lost>>
  BY DEF OutsideLoop, StartCycle, Fetch, GiveUp, FinishCycle, FinishBackfill, CycleFails, StartBackfill, dbVars
<1>3. \/ /\ pc["sync"] \in {"idle", "fetch", "apply", "giveup"}
         /\ \E x \in {"idle", "fetch", "apply"} : pc' = [pc EXCEPT !["sync"] = x]
         /\ batch' = batch \/ \E b : batch' = [batch EXCEPT !["sync"] = b]
      \/ /\ pc["backfill"] \in {"idle", "apply"}
         /\ \E x \in {"idle", "apply"} : pc' = [pc EXCEPT !["backfill"] = x]
         /\ batch' = batch \/ \E b : batch' = [batch EXCEPT !["backfill"] = b]
  BY DEF OutsideLoop, StartCycle, Fetch, GiveUp, FinishCycle, FinishBackfill, CycleFails, StartBackfill, EndCycle
<1>4. \A w \in Worker : /\ pc'[w] = "announce" <=> pc[w] = "announce"
                        /\ pc[w] = "announce" => batch'[w] = batch[w]
  BY <1>1, <1>3
<1>. QED
  BY <1>2, <1>4

\* Every step is of one of these kinds.
LEMMA SyncSteps ==
    ASSUME [SyncNext]_syncVars
    PROVE  \/ \E contents \in LedgerContents : CloseLedger(contents)
           \/ \E i \in Invoices : MirrorFunded(i)
           \/ \E w \in Worker : InLoop(w)
           \/ OutsideLoop
           \/ Crash
           \/ UNCHANGED syncVars
BY DEF SyncNext, CycleStep, InLoop, OutsideLoop, Worker

\* Every step keeps the mirror well formed and its counts right.
LEMMA MirrorNext == MirrorInv /\ [SyncNext]_syncVars => MirrorInv'
<1>. SUFFICES ASSUME MirrorInv, [SyncNext]_syncVars PROVE MirrorInv'
  OBVIOUS
<1>1. MirrorOK /\ lost \in [Invoices -> Nat]
  BY DEF MirrorInv, MirrorOK
<1>2. ASSUME NEW contents \in LedgerContents, CloseLedger(contents) PROVE MirrorInv'
  <2>1. MirrorOK'
    BY <1>1, <1>2, CloseMirror
  <2>2. UNCHANGED <<dbStatus, audit, announced, lost, pc, batch>>
    BY <1>2 DEF CloseLedger, dbVars, procVars
  <2>. QED
    BY <2>1, <2>2, QuietCounts DEF MirrorInv
<1>3. ASSUME NEW i \in Invoices, MirrorFunded(i) PROVE MirrorInv'
  <2>1. MirrorOK'
    BY <1>1, <1>3, FundedMirror
  <2>2. /\ dbStatus' = [dbStatus EXCEPT ![i] = "FUNDED"] /\ dbStatus[i] = "UNFUNDED"
        /\ dbStatus \in [Invoices -> {"UNFUNDED", "FUNDED", "REPAID"}]
        /\ UNCHANGED <<audit, announced, lost, pc, batch>>
    BY <1>1, <1>3 DEF MirrorFunded, procVars, MirrorOK, SyncTypeOK
  <2>3. \A j \in Invoices : BusyCount(j)' = BusyCount(j)
    BY <2>2 DEF BusyCount, Busy, Head1
  <2>4. \A j \in Invoices : dbStatus'[j] = "REPAID" <=> dbStatus[j] = "REPAID"
    BY <2>2
  <2>5. \A j \in Invoices : Counted(j)'
    BY <2>2, <2>3, <2>4 DEF Counted, MirrorInv
  <2>. QED
    BY <2>1, <2>5 DEF MirrorInv
<1>4. ASSUME NEW w \in Worker, InLoop(w) PROVE MirrorInv'
  BY <1>1, <1>4, LoopMoves, LoopCounts, LoopMirror DEF MirrorInv
<1>5. CASE OutsideLoop
  <2>1. /\ UNCHANGED <<dbStatus, audit, announced, lost>>
        /\ \A w \in Worker : /\ pc'[w] = "announce" <=> pc[w] = "announce"
                             /\ pc[w] = "announce" => batch'[w] = batch[w]
    BY <1>1, <1>5, OutsideLoopFacts
  <2>2. MirrorOK'
    BY <1>1, <1>5, <2>1, CycleMirror DEF OutsideLoop
  <2>. QED
    BY <2>1, <2>2, QuietCounts DEF MirrorInv
<1>6. CASE Crash
  BY <1>1, <1>6, CrashCounts, CycleMirror DEF MirrorInv
<1>7. CASE UNCHANGED syncVars
  <2>1. UNCHANGED <<chain, tip, dbStatus, cursor, audit, announced, pc, batch, tries, start, safe,
                    latest, lost, jumped, faults>>
    BY <1>7 DEF syncVars, dbVars, procVars
  <2>2. MirrorOK'
    BY <1>1, <2>1 DEF MirrorOK, SyncTypeOK, ChainOK, Bounds, AnnounceOK, Head1
  <2>. QED
    BY <2>1, <2>2, QuietCounts DEF MirrorInv
<1>. QED
  BY <1>2, <1>3, <1>4, <1>5, <1>6, <1>7, SyncSteps

\* The inductive invariant of the mirror holds in every state.
THEOREM MirrorInvariance == SyncSpec => []MirrorInv
BY MirrorInit, MirrorNext, PTL DEF SyncSpec

\* Whatever is retried, replayed after a crash or applied by a concurrent backfill, an
\* invoice is repaid once, with one audit row and at most one announcement
\* (settleInvoiceWithTx, dispatchInvoiceEvent).
THEOREM RepaidOnce == SyncSpec => []SyncInv
<1>1. MirrorInv => SyncInv
  <2>. SUFFICES ASSUME MirrorInv PROVE SyncInv
    OBVIOUS
  <2>1. ASSUME NEW i \in Invoices
        PROVE  Cardinality({w \in Worker : pc[w] = "announce" /\ Head1(w).invoice = i}) = BusyCount(i)
    <3>. DEFINE S == {w \in Worker : pc[w] = "announce" /\ Head1(w).invoice = i}
    <3>1. ("sync" \in S <=> Busy("sync", i)) /\ ("backfill" \in S <=> Busy("backfill", i))
      BY DEF Busy, Worker
    <3>2. S \in SUBSET Worker
      OBVIOUS
    <3>. HIDE DEF S
    <3>3. Cardinality(S) = BusyCount(i)
      BY <3>1, <3>2, CountWorkers DEF BusyCount
    <3>. QED
      BY <3>3 DEF S
  <2>2. RepaidOnceAndAnnounced
    BY <2>1 DEF MirrorInv, Counted, RepaidOnceAndAnnounced
  <2>. QED
    BY <2>2 DEF SyncInv, MirrorInv, MirrorOK
<1>. QED
  BY <1>1, MirrorInvariance, PTL

-----------------------------------------------------------------------------
(* The cursor: what is behind it has been applied, except in the ledgers   *)
(* that a cycle passed in part.                                            *)

Working == pc["sync"] \in {"apply", "announce", "giveup"}

\* The event is among those the cycle still has to apply.
Fetched(e) == \E j \in DOMAIN batch["sync"] : batch["sync"][j] = e

\* The k-th event did not fit in the response to a fetch from the start of the cycle.
Beyond(k) == k > PageLimit /\ chain[k - PageLimit].ledger >= start

\* The cycle has applied all it fetched but what is left in its batch, in order, and what
\* it did not fetch comes last.
BatchOK ==
    /\ start - 1 <= safe /\ safe <= latest
    /\ \A k \in DOMAIN chain : start <= chain[k].ledger /\ chain[k].ledger <= latest =>
         Applied(chain[k]) \/ Fetched(chain[k]) \/ Beyond(k)
    /\ \A k \in DOMAIN chain : Beyond(k) =>
         \A j \in DOMAIN batch["sync"] : batch["sync"][j].ledger <= chain[k].ledger
    /\ \A j \in DOMAIN batch["sync"] : safe <= batch["sync"][j].ledger /\ batch["sync"][j].ledger <= latest
    /\ \A i, j \in DOMAIN batch["sync"] : i < j => batch["sync"][i].ledger <= batch["sync"][j].ledger

\* A cycle goes on where the cursor stands, and gives up on an event.
CycleOK ==
    /\ since \in Nat /\ (cursor = 0 <=> since = 0)
    /\ pc["sync"] # "idle" => start \in 1 .. tip + 1 /\ (cursor > 0 => start = cursor + 1)
    /\ pc["sync"] = "giveup" => batch["sync"] # <<>>
    /\ Working => BatchOK

\* The inductive invariant of the cursor.
CursorOK == CycleOK /\ PassedLedgersAreApplied

\* The events of the chain are events of ledgers up to the tip.
LEMMA ChainFacts ==
    ASSUME MirrorOK
    PROVE  /\ tip \in Nat /\ cursor \in Nat /\ start \in Nat /\ safe \in Nat /\ latest \in Nat
           /\ cursor <= tip /\ latest <= tip /\ safe <= tip
           /\ Len(chain) \in Nat /\ DOMAIN chain = 1 .. Len(chain)
           /\ \A k \in DOMAIN chain : chain[k] \in Event /\ chain[k].ledger \in Nat /\ chain[k].ledger <= tip
<1>1. /\ chain \in Seq(Event) /\ tip \in Nat /\ cursor \in Nat /\ start \in Nat /\ safe \in Nat
      /\ latest \in Nat /\ cursor <= tip /\ latest <= tip /\ safe <= tip
  BY SyncNumbersAssumption DEF MirrorOK, SyncTypeOK, Bounds
<1>2. \A k \in DOMAIN chain : chain[k] \in Event /\ chain[k].ledger <= tip
  BY <1>1 DEF MirrorOK, ChainOK
<1>. QED
  BY <1>1, <1>2 DEF Event

\* The events of the chain are in the order of their ledgers.
LEMMA ChainOrder ==
    ASSUME MirrorOK, NEW i \in DOMAIN chain, NEW j \in DOMAIN chain, i <= j
    PROVE  chain[i].ledger <= chain[j].ledger
<1>1. /\ chain[i].ledger \in Nat /\ chain[j].ledger \in Nat /\ i \in Nat /\ j \in Nat
  BY ChainFacts
<1>2. chain[j].ledger + 1 \in Nat
  BY <1>1
<1>3. PICK n \in 0 .. Len(chain) : \A k \in DOMAIN chain : k <= n <=> chain[k].ledger < chain[j].ledger + 1
  BY <1>2 DEF MirrorOK, ChainOK
<1>4. j <= n
  BY <1>1, <1>3
<1>5. i <= n
  BY <1>1, <1>3, <1>4, ChainFacts
<1>. QED
  BY <1>1, <1>3, <1>5

\* A step that leaves the listener alone, or ends its cycle without storing a cursor.
LEMMA ListenerRests ==
    ASSUME CursorOK, UNCHANGED <<chain, tip, cursor, since, jumped>>,
           \A i \in Invoices : dbStatus[i] = "REPAID" => dbStatus'[i] = "REPAID",
           \/ pc'["sync"] = "idle"
           \/ /\ pc'["sync"] = pc["sync"] /\ batch'["sync"] = batch["sync"]
              /\ UNCHANGED <<start, safe, latest>>
    PROVE  CursorOK'
<1>1. PassedLedgersAreApplied'
  BY DEF CursorOK, PassedLedgersAreApplied, Missed
<1>2. CycleOK'
  <2>1. CASE pc'["sync"] = "idle"
    BY <2>1 DEF CursorOK, CycleOK, Working
  <2>2. CASE /\ pc'["sync"] = pc["sync"] /\ batch'["sync"] = batch["sync"]
             /\ UNCHANGED <<start, safe, latest>>
    <3>1. \A k \in DOMAIN chain : Applied(chain[k]) => Applied(chain[k])'
      BY DEF Applied
    <3>2. BatchOK => BatchOK'
      BY <2>2, <3>1 DEF BatchOK, Fetched, Beyond
    <3>. QED
      BY <2>2, <3>2 DEF CursorOK, CycleOK, Working
  <2>. QED
    BY <2>1, <2>2
<1>. QED
  BY <1>1, <1>2 DEF CursorOK

\* A new ledger is beyond the cursor and beyond what the cycle has fetched.
LEMMA CloseCursor ==
    ASSUME MirrorOK, CursorOK, NEW contents \in LedgerContents, CloseLedger(contents)
    PROVE  CursorOK'
<1>1. /\ DOMAIN chain' = 1 .. Len(chain')
      /\ \A k \in DOMAIN chain : k \in DOMAIN chain' /\ chain'[k] = chain[k]
      /\ \A k \in DOMAIN chain' : k \notin DOMAIN chain => chain'[k].ledger = tip + 1
      /\ tip' = tip + 1
      /\ UNCHANGED <<dbStatus, cursor, since, jumped, pc, batch, start, safe, latest>>
  BY CloseMirror DEF CloseLedger, dbVars, procVars
<1>2. PassedLedgersAreApplied'
  <2>1. ASSUME NEW k \in DOMAIN chain', chain'[k].ledger <= cursor
        PROVE  k \in DOMAIN chain /\ chain'[k] = chain[k]
    BY <1>1, <2>1, ChainFacts
  <2>. QED
    BY <1>1, <2>1 DEF CursorOK, PassedLedgersAreApplied, Missed
<1>3. CycleOK'
  <2>1. ASSUME BatchOK PROVE BatchOK'
    <3>1. ASSUME NEW k \in DOMAIN chain PROVE (Beyond(k)' <=> Beyond(k))
      <4>1. k > PageLimit => k - PageLimit \in DOMAIN chain
        BY ChainFacts, SyncNumbersAssumption
      <4>. QED
        BY <1>1, <4>1 DEF Beyond
    <3>2. ASSUME NEW k \in DOMAIN chain', chain'[k].ledger <= latest
          PROVE  k \in DOMAIN chain /\ chain'[k] = chain[k]
      BY <1>1, <3>2, ChainFacts
    <3>3. ASSUME NEW k \in DOMAIN chain', start <= chain'[k].ledger, chain'[k].ledger <= latest
          PROVE  Applied(chain[k])' \/ Fetched(chain[k])' \/ Beyond(k)'
      <4>1. k \in DOMAIN chain /\ chain'[k] = chain[k]
        BY <3>2, <3>3
      <4>2. Applied(chain[k]) \/ Fetched(chain[k]) \/ Beyond(k)
        BY <2>1, <3>3, <4>1 DEF BatchOK
      <4>3. Applied(chain[k]) => Applied(chain[k])'
        BY <1>1, <4>1 DEF Applied
      <4>4. Fetched(chain[k]) => Fetched(chain[k])'
        BY <1>1, <4>1 DEF Fetched
      <4>. QED
        BY <3>1, <4>1, <4>2, <4>3, <4>4
    <3>4. ASSUME NEW k \in DOMAIN chain', Beyond(k)', NEW j \in DOMAIN batch["sync"]
          PROVE  batch["sync"][j].ledger <= chain'[k].ledger
      <4>1. CASE k \in DOMAIN chain
        BY <1>1, <2>1, <3>1, <3>4, <4>1 DEF BatchOK
      <4>2. CASE k \notin DOMAIN chain
        <5>1. batch["sync"][j].ledger <= latest
          BY <2>1 DEF BatchOK
        <5>2. batch["sync"][j].ledger \in Nat
          <6>1. batch["sync"] \in Seq(Event)
            BY DEF MirrorOK, SyncTypeOK, Worker
          <6>2. batch["sync"][j] \in Event
            BY <3>4, <6>1
          <6>. QED
            BY <6>2 DEF Event
        <5>. QED
          BY <1>1, <4>2, <5>1, <5>2, ChainFacts
      <4>. QED
        BY <4>1, <4>2
    <3>. QED
      BY <1>1, <2>1, <3>3, <3>4 DEF BatchOK
  <2>2. pc["sync"] # "idle" => start \in 1 .. tip' + 1
    BY <1>1, ChainFacts DEF CursorOK, CycleOK
  <2>. QED
    BY <1>1, <2>1, <2>2 DEF CursorOK, CycleOK, Working
<1>. QED
  BY <1>2, <1>3 DEF CursorOK

\* The loop of syncOnce: the head is dropped only when it has been applied, and what is
\* left does not lie before the safe ledger.
LEMMA LoopCursor ==
    ASSUME MirrorOK, CursorOK, NEW w \in Worker, Moves(w)
    PROVE  CursorOK'
<1>1. CASE w = "backfill"
  <2>1. /\ pc'["sync"] = pc["sync"] /\ batch'["sync"] = batch["sync"]
        /\ UNCHANGED <<chain, tip, cursor, since, jumped, start, safe, latest>>
        /\ \A i \in Invoices : dbStatus[i] = "REPAID" => dbStatus'[i] = "REPAID"
    BY <1>1 DEF Moves, Worker
  <2>. QED
    BY <2>1, ListenerRests
<1>2. CASE w = "sync"
  <2>1. /\ UNCHANGED <<chain, tip, cursor, since, jumped, start, latest>>
        /\ \A i \in Invoices : dbStatus[i] = "REPAID" => dbStatus'[i] = "REPAID"
        /\ pc["sync"] \in {"apply", "announce"} /\ batch["sync"] # <<>>
        /\ pc'["sync"] \in {"apply", "announce", "giveup"}
        /\ pc'["sync"] = "giveup" => batch'["sync"] = batch["sync"]
    BY <1>2 DEF Moves
  <2>2. PassedLedgersAreApplied'
    BY <2>1 DEF CursorOK, PassedLedgersAreApplied, Missed
  <2>3. BatchOK
    BY <2>1 DEF CursorOK, CycleOK, Working
  <2>4. \A k \in DOMAIN chain : Applied(chain[k]) => Applied(chain[k])'
    BY <2>1 DEF Applied
  <2>5. BatchOK'
    <3>1. CASE batch'["sync"] = batch["sync"] /\ safe' = safe
      BY <2>1, <2>3, <2>4, <3>1 DEF BatchOK, Fetched, Beyond
    <3>2. CASE /\ batch'["sync"] = Tail(batch["sync"])
               /\ safe' = Maximum(safe, Head1("sync").ledger) /\ Applied(Head1("sync"))
      <4>. DEFINE b == batch["sync"]
                  t == Tail(b)
      <4>1. /\ b \in Seq(Event) /\ Head1("sync") = b[1] /\ Len(b) \in Nat /\ DOMAIN b = 1 .. Len(b)
            /\ t \in Seq(Event) /\ Len(t) = Len(b) - 1 /\ DOMAIN t = 1 .. Len(t)
            /\ \A k \in DOMAIN t : k + 1 \in DOMAIN b /\ t[k] = b[k + 1]
            /\ b[1].ledger \in Nat /\ 1 \in DOMAIN b
        <5>1. /\ b \in Seq(Event) /\ Head1("sync") = b[1] /\ t \in Seq(Event)
              /\ Len(t) = Len(b) - 1 /\ Head1("sync").ledger \in 0 .. tip
              /\ \A k \in DOMAIN t : k + 1 \in DOMAIN b /\ t[k] = b[k + 1]
          BY <2>1, BatchFacts DEF Worker
        <5>2. Len(b) # 0
          BY <2>1, <5>1
        <5>. HIDE DEF b, t
        <5>3. Len(b) \in Nat /\ DOMAIN b = 1 .. Len(b) /\ DOMAIN t = 1 .. Len(t) /\ tip \in Nat
          BY <5>1, ChainFacts
        <5>. QED
          BY <5>1, <5>2, <5>3
      <4>. HIDE DEF b, t
      <4>2. /\ start - 1 <= safe /\ safe <= latest
            /\ \A j \in DOMAIN b : safe <= b[j].ledger /\ b[j].ledger <= latest
            /\ \A i, j \in DOMAIN b : i < j => b[i].ledger <= b[j].ledger
            /\ \A k \in DOMAIN chain : start <= chain[k].ledger /\ chain[k].ledger <= latest =>
                 Applied(chain[k]) \/ (\E j \in DOMAIN b : b[j] = chain[k]) \/ Beyond(k)
            /\ \A k \in DOMAIN chain : Beyond(k) => \A j \in DOMAIN b : b[j].ledger <= chain[k].ledger
        BY <2>3 DEF BatchOK, Fetched, b
      <4>3. safe \in Nat /\ start \in Nat /\ latest \in Nat
        BY ChainFacts
      <4>4. safe' = b[1].ledger
        BY <3>2, <4>1, <4>2, <4>3 DEF Maximum
      <4>5. start - 1 <= safe' /\ safe' <= latest
        BY <4>1, <4>2, <4>3, <4>4
      <4>6. \A j \in DOMAIN t : safe' <= t[j].ledger /\ t[j].ledger <= latest
        <5>1. ASSUME NEW j \in DOMAIN t PROVE safe' <= t[j].ledger /\ t[j].ledger <= latest
          <6>1. j + 1 \in DOMAIN b /\ t[j] = b[j + 1] /\ 1 < j + 1
            BY <4>1
          <6>. QED
            BY <4>1, <4>2, <4>4, <6>1
        <5>. QED
          BY <5>1
      <4>7. \A i, j \in DOMAIN t : i < j => t[i].ledger <= t[j].ledger
        <5>1. ASSUME NEW i \in DOMAIN t, NEW j \in DOMAIN t, i < j PROVE t[i].ledger <= t[j].ledger
          <6>1. /\ i + 1 \in DOMAIN b /\ t[i] = b[i + 1]
                /\ j + 1 \in DOMAIN b /\ t[j] = b[j + 1] /\ i + 1 < j + 1
            BY <4>1, <5>1
          <6>. QED
            BY <4>2, <6>1
        <5>. QED
          BY <5>1
      <4>8. ASSUME NEW k \in DOMAIN chain, start <= chain[k].ledger, chain[k].ledger <= latest
            PROVE  Applied(chain[k])' \/ (\E j \in DOMAIN t : t[j] = chain[k]) \/ Beyond(k)
        <5>1. CASE Applied(chain[k])
          BY <2>4, <5>1
        <5>2. ASSUME NEW j \in DOMAIN b, b[j] = chain[k]
              PROVE  Applied(chain[k])' \/ \E i \in DOMAIN t : t[i] = chain[k]
          <6>1. CASE j = 1
            <7>1. Applied(chain[k])
              BY <3>2, <4>1, <5>2, <6>1
            <7>. QED
              BY <2>4, <7>1
          <6>2. CASE j # 1
            <7>1. j - 1 \in DOMAIN t /\ (j - 1) + 1 = j
              BY <4>1, <6>2
            <7>2. t[j - 1] = b[j]
              BY <4>1, <7>1
            <7>. QED
              BY <5>2, <7>1, <7>2
          <6>. QED
            BY <6>1, <6>2
        <5>. QED
          BY <4>2, <4>8, <5>1, <5>2
      <4>10. ASSUME NEW k \in DOMAIN chain, Beyond(k), NEW j \in DOMAIN t
             PROVE  t[j].ledger <= chain[k].ledger
        BY <4>1, <4>2, <4>10
      <4>11. \A k \in DOMAIN chain : Beyond(k)' <=> Beyond(k)
        BY <2>1 DEF Beyond
      <4>9. batch'["sync"] = t
        BY <3>2 DEF b, t
      <4>. QED
        BY <2>1, <4>5, <4>6, <4>7, <4>8, <4>9, <4>10, <4>11 DEF BatchOK, Fetched
    <3>. QED
      BY <1>2, <3>1, <3>2 DEF Moves
  <2>6. CycleOK'
    BY <2>1, <2>5 DEF CursorOK, CycleOK
  <2>. QED
    BY <2>2, <2>6 DEF CursorOK
<1>. QED
  BY <1>1, <1>2 DEF Worker

\* The answer to a fetch holds the events from the start of the cycle on, up to a page.
LEMMA FetchCursor ==
    ASSUME MirrorOK, CursorOK, Fetch
    PROVE  CursorOK'
<1>. DEFINE page == FetchEvents(start, tip)
<1>1. /\ pc["sync"] = "fetch" /\ pc'["sync"] = "apply" /\ batch'["sync"] = page
      /\ latest' = tip /\ safe' = start - 1
      /\ UNCHANGED <<chain, tip, dbStatus, cursor, start, since, jumped>>
  <2>1. pc \in [Worker -> Pcs] /\ batch \in [Worker -> Seq(Event)] /\ "sync" \in Worker
    BY DEF MirrorOK, SyncTypeOK, Pcs, Worker
  <2>. QED
    BY <2>1 DEF Fetch, dbVars
<1>2. PassedLedgersAreApplied'
  BY <1>1 DEF CursorOK, PassedLedgersAreApplied, Missed
<1>3. /\ start \in 1 .. tip + 1 /\ (cursor > 0 => start = cursor + 1)
      /\ since \in Nat /\ (cursor = 0 <=> since = 0)
  BY <1>1 DEF CursorOK, CycleOK
<1>4. tip \in Nat /\ start \in Nat /\ Len(chain) \in Nat /\ DOMAIN chain = 1 .. Len(chain)
  BY ChainFacts
<1>5. PICK n, m \in 0 .. Len(chain) :
        /\ \A k \in DOMAIN chain : k <= n <=> chain[k].ledger < start
        /\ \A k \in DOMAIN chain : k <= m <=> chain[k].ledger < tip + 1
        /\ page \in Seq(Event) /\ Len(page) <= PageLimit
        /\ \A k \in DOMAIN page : n + k \in DOMAIN chain /\ n + k <= m /\ page[k] = chain[n + k]
        /\ \A k \in DOMAIN chain : n < k /\ k <= m => k - n \in DOMAIN page \/ k > n + PageLimit
  BY <1>4, FetchFacts
<1>. HIDE DEF page
<1>6. PageLimit \in Nat \ {0}
  BY SyncNumbersAssumption
<1>7. DOMAIN page \subseteq Nat
  BY <1>5
<1>8. \A k \in DOMAIN chain : chain[k].ledger \in Nat /\ chain[k].ledger <= tip
  BY ChainFacts
<1>9. ASSUME NEW k \in DOMAIN chain, start <= chain[k].ledger
      PROVE  (\E j \in DOMAIN page : page[j] = chain[k]) \/ Beyond(k)
  <2>1. n < k /\ k <= m /\ k \in Nat
    BY <1>4, <1>5, <1>8, <1>9
  <2>2. CASE k - n \in DOMAIN page
    <3>1. n + (k - n) = k
      BY <1>5, <2>1
    <3>. QED
      BY <1>5, <2>2, <3>1
  <2>3. CASE k > n + PageLimit
    <3>1. k - PageLimit \in DOMAIN chain /\ ~(k - PageLimit <= n) /\ k > PageLimit
      BY <1>4, <1>5, <1>6, <2>1, <2>3
    <3>2. ~(chain[k - PageLimit].ledger < start)
      BY <1>5, <3>1
    <3>3. chain[k - PageLimit].ledger >= start
      BY <1>4, <1>8, <3>1, <3>2
    <3>. QED
      BY <3>1, <3>3 DEF Beyond
  <2>. QED
    BY <1>5, <2>1, <2>2, <2>3
<1>10. ASSUME NEW j \in DOMAIN page PROVE start <= page[j].ledger /\ page[j].ledger <= tip
  <2>1. n + j \in DOMAIN chain /\ page[j] = chain[n + j] /\ j >= 1 /\ j \in Nat
    BY <1>5
  <2>2. ~(n + j <= n)
    BY <1>5, <2>1
  <2>. QED
    BY <1>4, <1>5, <1>8, <2>1, <2>2
<1>11. ASSUME NEW i \in DOMAIN page, NEW j \in DOMAIN page, i < j
       PROVE  page[i].ledger <= page[j].ledger
  <2>1. /\ n + i \in DOMAIN chain /\ page[i] = chain[n + i]
        /\ n + j \in DOMAIN chain /\ page[j] = chain[n + j]
    BY <1>5
  <2>2. n + i <= n + j
    BY <1>5, <1>7, <1>11
  <2>. QED
    BY <2>1, <2>2, ChainOrder
<1>14. ASSUME NEW k \in DOMAIN chain, Beyond(k), NEW j \in DOMAIN page
       PROVE  page[j].ledger <= chain[k].ledger
  <2>1. n + j \in DOMAIN chain /\ page[j] = chain[n + j] /\ j <= PageLimit /\ j \in Nat
    BY <1>5, <1>6
  <2>2. k - PageLimit \in DOMAIN chain /\ k > PageLimit /\ chain[k - PageLimit].ledger >= start
    BY <1>4, <1>6, <1>14 DEF Beyond
  <2>3. ~(chain[k - PageLimit].ledger < start)
    BY <1>4, <1>8, <2>2
  <2>4. ~(k - PageLimit <= n)
    BY <1>5, <2>2, <2>3
  <2>5. n + j <= k
    BY <1>4, <1>5, <1>6, <2>1, <2>4
  <2>. QED
    BY <2>1, <2>5, ChainOrder
<1>12. BatchOK'
  <2>1. start - 1 <= safe' /\ safe' <= latest'
    BY <1>1, <1>3, <1>4
  <2>2. \A j \in DOMAIN page : safe' <= page[j].ledger /\ page[j].ledger <= latest'
    <3>1. \A j \in DOMAIN page : page[j].ledger \in Nat
      BY <1>5, <1>8
    <3>. QED
      BY <1>1, <1>4, <1>10, <3>1
  <2>3. \A k \in DOMAIN chain : Beyond(k)' <=> Beyond(k)
    BY <1>1 DEF Beyond
  <2>. QED
    BY <1>1, <1>9, <1>11, <1>14, <2>1, <2>2, <2>3 DEF BatchOK, Fetched
<1>13. CycleOK'
  BY <1>1, <1>3, <1>12 DEF CycleOK
<1>. QED
  BY <1>2, <1>13 DEF CursorOK

\* The cursor is stored at a ledger up to which the cycle has applied everything, but
\* for the ledgers it has passed in part.
LEMMA StoreCursorFacts ==
    ASSUME MirrorOK, CursorOK, pc["sync"] # "idle", NEW ledger \in Nat, StoreCursor(ledger),
           start - 1 <= ledger, pc'["sync"] = "idle",
           \A k \in DOMAIN chain : start <= chain[k].ledger /\ chain[k].ledger <= ledger =>
             Applied(chain[k]) \/ chain[k].ledger \in jumped',
           jumped \subseteq jumped', UNCHANGED <<chain, tip, dbStatus>>
    PROVE  CursorOK'
<1>1. /\ start \in Nat /\ start >= 1 /\ (cursor > 0 => start = cursor + 1) /\ cursor \in Nat
      /\ since \in Nat /\ (cursor = 0 <=> since = 0)
  BY ChainFacts DEF CursorOK, CycleOK
<1>2. cursor' = ledger /\ since' = IF cursor = 0 /\ ledger > 0 THEN start ELSE since
  BY DEF StoreCursor
<1>3. since' \in Nat /\ (cursor' = 0 <=> since' = 0)
  BY <1>1, <1>2
<1>4. CycleOK'
  BY <1>3 DEF CycleOK, Working
<1>5. ASSUME NEW k \in DOMAIN chain, chain[k].invoice \in Invoices,
             0 < since', since' <= chain[k].ledger, chain[k].ledger <= cursor',
             dbStatus[chain[k].invoice] # "REPAID"
      PROVE  chain[k].ledger \in jumped'
  <2>1. chain[k].ledger \in Nat
    BY ChainFacts
  <2>2. CASE start <= chain[k].ledger
    BY <1>2, <1>5, <2>2 DEF Applied
  <2>3. CASE ~(start <= chain[k].ledger)
    <3>1. cursor > 0 /\ since' = since /\ chain[k].ledger <= cursor
      BY <1>1, <1>2, <1>5, <2>1, <2>3
    <3>2. chain[k].ledger \in jumped
      BY <1>5, <3>1 DEF CursorOK, PassedLedgersAreApplied, Missed
    <3>. QED
      BY <3>2
  <2>. QED
    BY <2>2, <2>3
<1>6. PassedLedgersAreApplied'
  BY <1>5 DEF PassedLedgersAreApplied, Missed
<1>. QED
  BY <1>4, <1>6 DEF CursorOK

\* The end of a cycle: giving up stores the safe ledger, finishing the fetched tip.
LEMMA EndCursor ==
    ASSUME MirrorOK, CursorOK, GiveUp \/ FinishCycle
    PROVE  CursorOK'
<1>1. /\ pc["sync"] \in {"giveup", "apply"} /\ pc'["sync"] = "idle"
      /\ UNCHANGED <<chain, tip, dbStatus>>
  <2>1. pc \in [Worker -> Pcs] /\ "sync" \in Worker
    BY DEF MirrorOK, SyncTypeOK, Pcs, Worker
  <2>. QED
    BY <2>1 DEF GiveUp, FinishCycle, EndCycle
<1>2. BatchOK
  BY <1>1 DEF CursorOK, CycleOK, Working
<1>3. safe \in Nat /\ latest \in Nat /\ start \in Nat
  BY ChainFacts
<1>4. start - 1 <= safe /\ safe <= latest
  BY <1>2 DEF BatchOK
<1>5. CASE GiveUp
  <2>1. StoreCursor(safe)
    <3>1. Maximum(0, safe) = safe
      BY <1>3 DEF Maximum
    <3>. QED
      BY <1>5, <3>1 DEF GiveUp
  <2>2. /\ pc["sync"] = "giveup" /\ batch["sync"] # <<>>
        /\ jumped' = jumped \cup CutOff
    BY <1>5 DEF GiveUp, CursorOK, CycleOK
  <2>3. /\ Head1("sync") = batch["sync"][1] /\ Head1("sync").ledger \in Nat
        /\ 1 \in DOMAIN batch["sync"] /\ DOMAIN batch["sync"] \subseteq Nat \ {0}
        /\ safe <= Head1("sync").ledger
    <3>1. /\ batch["sync"] \in Seq(Event) /\ Head1("sync") = batch["sync"][1]
          /\ Head1("sync").ledger \in 0 .. tip /\ tip \in Nat
      BY <2>2, BatchFacts, ChainFacts DEF Worker
    <3>2. Len(batch["sync"]) \in Nat \ {0} /\ DOMAIN batch["sync"] = 1 .. Len(batch["sync"])
      BY <2>2, <3>1
    <3>3. 1 \in DOMAIN batch["sync"]
      BY <3>2
    <3>. QED
      BY <1>2, <3>1, <3>2, <3>3 DEF BatchOK
  <2>4. ASSUME NEW k \in DOMAIN chain, start <= chain[k].ledger, chain[k].ledger <= safe
        PROVE  Applied(chain[k]) \/ chain[k].ledger \in jumped'
    <3>1. chain[k].ledger \in Nat /\ chain[k].ledger <= latest
      BY <1>3, <1>4, <2>4, ChainFacts
    <3>2. CASE Head1("sync").ledger <= chain[k].ledger
      <4>1. chain[k].ledger = safe /\ Head1("sync").ledger <= safe
        BY <1>3, <2>3, <2>4, <3>1, <3>2
      <4>. QED
        BY <2>2, <4>1 DEF CutOff
    <3>3. ASSUME NEW j \in DOMAIN batch["sync"], batch["sync"][j] = chain[k]
          PROVE  Head1("sync").ledger <= chain[k].ledger
      <4>1. CASE j = 1
        BY <2>3, <3>1, <3>3, <4>1
      <4>2. CASE 1 < j
        BY <1>2, <2>3, <3>3, <4>2 DEF BatchOK
      <4>. QED
        BY <2>3, <4>1, <4>2
    <3>4. CASE Fetched(chain[k])
      BY <3>2, <3>3, <3>4 DEF Fetched
    <3>5. CASE Beyond(k)
      BY <1>2, <2>3, <3>2, <3>5 DEF BatchOK
    <3>. QED
      BY <1>2, <2>4, <3>1, <3>4, <3>5 DEF BatchOK
  <2>. QED
    BY <1>1, <1>3, <1>4, <2>1, <2>2, <2>4, StoreCursorFacts
<1>6. CASE FinishCycle
  <2>1. StoreCursor(latest) /\ batch["sync"] = <<>>
    <3>1. Maximum(safe, latest) = latest
      BY <1>3, <1>4 DEF Maximum
    <3>. QED
      BY <1>6, <3>1 DEF FinishCycle
  <2>2. ASSUME NEW k \in DOMAIN chain, start <= chain[k].ledger, chain[k].ledger <= latest
        PROVE  Applied(chain[k]) \/ chain[k].ledger \in jumped'
    <3>1. ~Fetched(chain[k])
      BY <2>1 DEF Fetched
    <3>2. jumped' = jumped \cup LeftOut
      BY <1>6 DEF FinishCycle
    <3>3. Beyond(k) => chain[k].ledger \in LeftOut
      BY <2>2 DEF Beyond, LeftOut
    <3>. QED
      BY <1>2, <2>2, <3>1, <3>2, <3>3 DEF BatchOK
  <2>4. jumped \subseteq jumped'
    BY <1>6 DEF FinishCycle
  <2>3. start - 1 <= latest
    BY <1>3, <1>4
  <2>. QED
    BY <1>1, <1>3, <2>1, <2>2, <2>3, <2>4, StoreCursorFacts
<1>. QED
  BY <1>5, <1>6

\* A cycle starts behind the cursor, or at the tip while there is none.
LEMMA StartCursor ==
    ASSUME MirrorOK, CursorOK, StartCycle
    PROVE  CursorOK'
<1>1. /\ pc'["sync"] = "fetch" /\ start' = (IF cursor > 0 THEN cursor + 1 ELSE tip)
      /\ UNCHANGED <<chain, tip, dbStatus, cursor, since, jumped>>
  <2>1. pc \in [Worker -> Pcs] /\ "sync" \in Worker
    BY DEF MirrorOK, SyncTypeOK, Pcs, Worker
  <2>. QED
    BY <2>1 DEF StartCycle, dbVars
<1>2. cursor \in Nat /\ tip \in Nat /\ tip >= 1 /\ cursor <= tip
  BY ChainFacts DEF MirrorOK, SyncTypeOK
<1>3. start' \in 1 .. tip + 1 /\ (cursor > 0 => start' = cursor + 1)
  BY <1>1, <1>2
<1>4. CycleOK'
  BY <1>1, <1>3 DEF CursorOK, CycleOK, Working
<1>5. PassedLedgersAreApplied'
  BY <1>1 DEF CursorOK, PassedLedgersAreApplied, Missed
<1>. QED
  BY <1>4, <1>5 DEF CursorOK

\* Whatever the ledgers carry, crashes, fails, is given up or is applied by a backfill,
\* the stored cursor passes a settlement that has not been applied only in a ledger
\* another event of which was applied before the cycle gave up, or one that did not fit
\* in a full response (syncOnce).
THEOREM CursorIsSafe == SyncSpec => []PassedLedgersAreApplied
<1>1. SyncInit => MirrorInv /\ CursorOK
  <2>. SUFFICES ASSUME SyncInit PROVE CursorOK
    BY MirrorInit
  <2>1. Len(chain) = 0 /\ DOMAIN chain = {} /\ pc["sync"] = "idle"
    BY DEF SyncInit, Worker
  <2>. QED
    BY <2>1 DEF SyncInit, CursorOK, CycleOK, Working, PassedLedgersAreApplied, Missed
<1>2. MirrorInv /\ CursorOK /\ [SyncNext]_syncVars => MirrorInv' /\ CursorOK'
  <2>. SUFFICES ASSUME MirrorInv, CursorOK, [SyncNext]_syncVars PROVE CursorOK'
    BY MirrorNext
  <2>1. MirrorOK /\ "sync" \in Worker /\ "backfill" \in Worker /\ pc \in [Worker -> Pcs] /\ DOMAIN batch = Worker
    BY DEF MirrorInv, MirrorOK, SyncTypeOK, Pcs, Worker
  <2>2. ASSUME NEW contents \in LedgerContents, CloseLedger(contents) PROVE CursorOK'
    BY <2>1, <2>2, CloseCursor
  <2>3. ASSUME NEW w \in Worker, InLoop(w) PROVE CursorOK'
    BY <2>1, <2>3, LoopMoves, LoopCursor
  <2>4. ASSUME NEW i \in Invoices, MirrorFunded(i) PROVE CursorOK'
    <3>1. /\ UNCHANGED <<chain, tip, cursor, since, jumped, pc, batch, start, safe, latest>>
          /\ dbStatus' = [dbStatus EXCEPT ![i] = "FUNDED"] /\ dbStatus[i] = "UNFUNDED"
      BY <2>4 DEF MirrorFunded, procVars
    <3>2. \A j \in Invoices : dbStatus[j] = "REPAID" => dbStatus'[j] = "REPAID"
      BY <2>1, <3>1 DEF MirrorOK, SyncTypeOK
    <3>. QED
      BY <3>1, <3>2, ListenerRests
  <2>5. CASE StartCycle
    BY <2>1, <2>5, StartCursor
  <2>6. CASE Fetch
    BY <2>1, <2>6, FetchCursor
  <2>7. CASE GiveUp \/ FinishCycle
    BY <2>1, <2>7, EndCursor
  <2>8. CASE FinishBackfill \/ \E r \in BackfillRanges : StartBackfill(r[1], r[2])
    <3>1. /\ UNCHANGED <<chain, tip, dbStatus, cursor, since, jumped, start, safe, latest>>
          /\ pc'["sync"] = pc["sync"] /\ batch'["sync"] = batch["sync"]
      BY <2>1, <2>8 DEF FinishBackfill, StartBackfill, dbVars
    <3>. QED
      BY <3>1, ListenerRests
  <2>9. CASE CycleFails \/ Crash
    <3>1. UNCHANGED <<chain, tip, dbStatus, cursor, since, jumped>> /\ pc'["sync"] = "idle"
      BY <2>1, <2>9 DEF CycleFails, Crash, EndCycle, dbVars
    <3>. QED
      BY <3>1, ListenerRests
  <2>10. CASE UNCHANGED syncVars
    BY <2>10, ListenerRests DEF syncVars, dbVars, procVars
  <2>. QED
    BY <2>2, <2>3, <2>4, <2>5, <2>6, <2>7, <2>8, <2>9, <2>10, SyncSteps DEF OutsideLoop
<1>3. CursorOK => PassedLedgersAreApplied
  BY DEF CursorOK
<1>. QED
  BY <1>1, <1>2, <1>3, PTL DEF SyncSpec
=============================================================================
