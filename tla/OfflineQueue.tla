----------------------------- MODULE OfflineQueue -----------------------------
(* The frontend's offline queue: useOfflineQueue.ts over one IndexedDB store, *)
(* driven by useNetworkStatus.ts and useOptimisticUpdate.ts.  Every page (a   *)
(* tab, or a second component on the same page) has a hook of its own, with   *)
(* its own replayingRef, and all of them share the store.                     *)
(* A mutation is its number: they are numbered in the order of createdAt.     *)
(* Wording, payloads and the state shown on screen are left out.              *)
EXTENDS Naturals, Sequences, SequencesExt, FiniteSets

CONSTANTS Pages,
          NumMutations,       \* bound: mutations made while offline on one page
          NumSharedMutations, \* bound: the same, when several pages are open
          MaxReplayAttempts,  \* maxAttempts, default 3
          MaxTimers,          \* bound: offline timers pending on a page
          MaxFaults,          \* bound: conflicts, lost replies, storage failures, closed pages
          MaxSharedFaults,    \* bound: the same, when several pages are open
          NoItem

Mutations == 1 .. NumMutations

ASSUME QueueAssumption ==
    /\ IsFiniteSet(Pages) /\ Pages # {}
    /\ NumMutations \in Nat /\ NumSharedMutations \in 0 .. NumMutations
    /\ MaxReplayAttempts \in Nat
    /\ NoItem \notin Nat
    /\ NoItem \notin [status : {"queued", "replaying", "failed", "conflict"}, attempts : Nat]

VARIABLES
    open,        \* the pages in use in this behaviour
    net,         \* what the browser knows: is there a network?
    believes,    \* page -> isOnline and wasOnlineRef
    timers,      \* page -> offline timers still running
    store,       \* IndexedDB: mutation -> [status, attempts] or NoItem
    pass,        \* page -> the replay pass: where it is, its snapshot, its item
    asked,       \* page -> conflictData.queueItemId
    fixing,      \* page -> the item read by a resolveConflict in progress
    faults,
    made,        \* mutations made so far
    sends,       \* mutation -> requests since the user last decided about it
    applied,     \* mutation -> times the server has applied it
    discarded,   \* mutations the user gave up for the server's version
    doubtful,    \* mutations whose success could not be recorded
    interrupted  \* mutations whose pass ended in the middle

queueVars == <<open, net, believes, timers, store, pass, asked, fixing, faults,
               made, sends, applied, discarded, doubtful, interrupted>>

netVars == <<net, believes, timers>>
ghostVars == <<made, sends, applied, discarded, doubtful, interrupted>>

Idle == [at |-> "idle", todo |-> <<>>, id |-> 0, attempts |-> 0]
Item(status, attempts) == [status |-> status, attempts |-> attempts]
NewItem == Item("queued", 0)

QueueInit ==
    /\ open \in {{CHOOSE p \in Pages : TRUE}, Pages}
    /\ net = TRUE
    /\ believes = [p \in Pages |-> TRUE]
    /\ timers = [p \in Pages |-> 0]
    /\ store = [i \in Mutations |-> NoItem]
    /\ pass = [p \in Pages |-> Idle]
    /\ asked = [p \in Pages |-> 0]
    /\ fixing = [p \in Pages |-> NoItem]
    /\ faults = 0
    /\ made = 0
    /\ sends = [i \in Mutations |-> 0]
    /\ applied = [i \in Mutations |-> 0]
    /\ discarded = {}
    /\ doubtful = {}
    /\ interrupted = {}

Fault ==
    /\ faults < (IF Cardinality(open) = 1 THEN MaxFaults ELSE MaxSharedFaults)
    /\ faults' = faults + 1

-----------------------------------------------------------------------------
(* useNetworkStatus.  An offline event only starts a timer; the online event  *)
(* does not stop the timers that run.                                         *)

(* replayQueue returns at once while its own hook's pass runs.                *)
Replaying(p) == IF pass[p].at = "idle" THEN [Idle EXCEPT !.at = "read"] ELSE pass[p]

GoOffline ==
    /\ net
    /\ \A p \in open : timers[p] < MaxTimers
    /\ net' = FALSE
    /\ timers' = [p \in Pages |-> IF p \in open THEN timers[p] + 1 ELSE 0]
    /\ UNCHANGED <<open, believes, store, pass, asked, fixing, faults, ghostVars>>

GoOnline ==
    /\ ~net
    /\ net' = TRUE
    /\ believes' = [p \in Pages |-> TRUE]
    /\ pass' = [p \in Pages |-> IF believes[p] THEN pass[p] ELSE Replaying(p)]
    /\ UNCHANGED <<open, timers, store, asked, fixing, faults, ghostVars>>

OfflineTimer(p) ==
    /\ timers[p] > 0
    /\ timers' = [timers EXCEPT ![p] = @ - 1]
    /\ believes' = [believes EXCEPT ![p] = FALSE]
    /\ UNCHANGED <<open, net, store, pass, asked, fixing, faults, ghostVars>>

(* mutate of useOptimisticUpdate on a page that believes it is offline.       *)
EnqueueMutation(p) ==
    /\ ~believes[p]
    /\ made < (IF Cardinality(open) = 1 THEN NumMutations ELSE NumSharedMutations)
    /\ made' = made + 1
    /\ store' = [store EXCEPT ![made + 1] = NewItem]
    /\ UNCHANGED <<open, netVars, pass, asked, fixing, faults, sends, applied, discarded, doubtful, interrupted>>

-----------------------------------------------------------------------------
(* replayQueue.                                                               *)

Pending(i) == store[i] # NoItem /\ store[i].status \in {"queued", "failed"}

(* The ids of a set in the order of createdAt.                                *)
InOrder(ids) ==
    CHOOSE s \in [1 .. Cardinality(ids) -> ids] : \A k, l \in DOMAIN s : k < l => s[k] < s[l]

GetAllQueuedItems(p) ==
    /\ pass[p].at = "read"
    /\ LET pending == InOrder({i \in Mutations : Pending(i)})
           todo == [k \in DOMAIN pending |-> [id |-> pending[k], attempts |-> store[pending[k]].attempts]]
       IN pass' = [pass EXCEPT ![p] = [at |-> "loop", todo |-> todo, id |-> 0, attempts |-> 0]]
    /\ UNCHANGED <<open, netVars, store, asked, fixing, faults, ghostVars>>

SkipItem(p) ==
    /\ pass[p].at = "loop" /\ pass[p].todo # <<>>
    /\ Head(pass[p].todo).attempts >= MaxReplayAttempts
    /\ pass' = [pass EXCEPT ![p].todo = Tail(@)]
    /\ UNCHANGED <<open, netVars, store, asked, fixing, faults, ghostVars>>

MarkByTakingOut(p) ==
    /\ pass[p].at = "loop" /\ pass[p].todo # <<>>
    /\ LET item == Head(pass[p].todo)
       IN /\ item.attempts < MaxReplayAttempts
          /\ store' = [store EXCEPT ![item.id] = NoItem]
          /\ pass' = [pass EXCEPT ![p] = [at |-> "sending", todo |-> Tail(@.todo), id |-> item.id,
                                          attempts |-> item.attempts + 1]]
          /\ sends' = [sends EXCEPT ![item.id] = @ + 1]
    /\ UNCHANGED <<open, netVars, asked, fixing, faults, made, applied, discarded, doubtful, interrupted>>

(* The item is written back as the snapshot has it, with one more attempt.    *)
MarkReplaying(p) ==
    /\ pass[p].at = "loop" /\ pass[p].todo # <<>>
    /\ LET item == Head(pass[p].todo)
       IN /\ item.attempts < MaxReplayAttempts
          /\ store' = [store EXCEPT ![item.id] = Item("replaying", item.attempts + 1)]
          /\ pass' = [pass EXCEPT ![p] = [at |-> "sending", todo |-> Tail(@.todo), id |-> item.id,
                                          attempts |-> item.attempts + 1]]
          /\ sends' = [sends EXCEPT ![item.id] = @ + 1]
    /\ UNCHANGED <<open, netVars, asked, fixing, faults, made, applied, discarded, doubtful, interrupted>>

(* onReplay: the server applies the mutation and the reply arrives, the reply *)
(* is lost, the request fails, or the server answers CONFLICT.  A hook passes *)
(* the payload of every queued item to its own onQueuedReplay, whatever the   *)
(* item's label: the pages here are pages of one component, whose handlers    *)
(* send the same request.                                                     *)
OnReplay(p) ==
    /\ pass[p].at = "sending"
    /\ LET i == pass[p].id IN
       \/ /\ pass' = [pass EXCEPT ![p].at = "removing"]
          /\ applied' = [applied EXCEPT ![i] = @ + 1]
          /\ UNCHANGED <<faults, doubtful>>
       \/ /\ Fault
          /\ pass' = [pass EXCEPT ![p].at = "failing"]
          /\ applied' = [applied EXCEPT ![i] = @ + 1]
          /\ doubtful' = doubtful \cup {i}
       \/ /\ pass' = [pass EXCEPT ![p].at = "failing"]
          /\ UNCHANGED <<faults, applied, doubtful>>
       \/ /\ Fault
          /\ pass' = [pass EXCEPT ![p].at = "conflicting"]
          /\ UNCHANGED <<applied, doubtful>>
    /\ UNCHANGED <<open, netVars, store, asked, fixing, made, sends, discarded, interrupted>>

(* removeQueueItem is inside the try block: when it fails, the item that      *)
(* succeeded is treated as one that failed.                                   *)
RemoveItem(p) ==
    /\ pass[p].at = "removing"
    /\ \/ /\ store' = [store EXCEPT ![pass[p].id] = NoItem]
          /\ pass' = [pass EXCEPT ![p].at = "loop"]
          /\ UNCHANGED <<faults, doubtful>>
       \/ /\ Fault
          /\ pass' = [pass EXCEPT ![p].at = "failing"]
          /\ doubtful' = doubtful \cup {pass[p].id}
          /\ UNCHANGED store
    /\ UNCHANGED <<open, netVars, asked, fixing, made, sends, applied, discarded, interrupted>>

AfterError(n) == IF n >= MaxReplayAttempts THEN "failed" ELSE "queued"

(* The catch block: onReplayError, or onConflict, whose conflictData replaces *)
(* the one the page was showing.                                              *)
PutBack(p) ==
    /\ pass[p].at \in {"failing", "conflicting"}
    /\ LET i == pass[p].id
           conflict == pass[p].at = "conflicting"
       IN /\ store' = [store EXCEPT ![i] = Item(IF conflict THEN "conflict" ELSE AfterError(pass[p].attempts),
                                                pass[p].attempts)]
          /\ asked' = IF conflict THEN [asked EXCEPT ![p] = i] ELSE asked
    /\ pass' = [pass EXCEPT ![p].at = "loop"]
    /\ UNCHANGED <<open, netVars, fixing, faults, ghostVars>>

(* A write of the store fails outside the try block: the pass is over.        *)
PassThrows(p) ==
    /\ \/ pass[p].at = "loop" /\ pass[p].todo # <<>>
       \/ pass[p].at \in {"read", "failing", "conflicting"}
    /\ Fault
    /\ interrupted' = interrupted \cup (IF pass[p].at \in {"failing", "conflicting"} THEN {pass[p].id} ELSE {})
    /\ pass' = [pass EXCEPT ![p] = Idle]
    /\ UNCHANGED <<open, netVars, store, asked, fixing, made, sends, applied, discarded, doubtful>>

PassEnds(p) ==
    /\ pass[p].at = "loop" /\ pass[p].todo = <<>>
    /\ pass' = [pass EXCEPT ![p] = Idle]
    /\ UNCHANGED <<open, netVars, store, asked, fixing, faults, ghostVars>>

-----------------------------------------------------------------------------
(* resolveConflict, from the buttons of ConflictResolution.                   *)

UseLatestData(p) ==
    /\ asked[p] # 0
    /\ store' = [store EXCEPT ![asked[p]] = NoItem]
    /\ discarded' = discarded \cup {asked[p]}
    /\ asked' = [asked EXCEPT ![p] = 0]
    /\ UNCHANGED <<open, netVars, pass, fixing, faults, made, sends, applied, doubtful, interrupted>>

(* 'local' or 'merge': the item is read in one transaction and written in     *)
(* another, with its attempts reset.                                          *)
ReadConflict(p) ==
    /\ asked[p] # 0
    /\ fixing[p] = NoItem
    /\ store[asked[p]] # NoItem
    /\ fixing' = [fixing EXCEPT ![p] = asked[p]]
    /\ UNCHANGED <<open, netVars, store, pass, asked, faults, ghostVars>>

(* Nothing to resolve any more: another page has removed the item.            *)
ConflictIsGone(p) ==
    /\ asked[p] # 0
    /\ fixing[p] = NoItem
    /\ store[asked[p]] = NoItem
    /\ asked' = [asked EXCEPT ![p] = 0]
    /\ pass' = [pass EXCEPT ![p] = Replaying(p)]
    /\ UNCHANGED <<open, netVars, store, fixing, faults, ghostVars>>

KeepLocal(p) ==
    /\ fixing[p] # NoItem
    /\ store' = [store EXCEPT ![fixing[p]] = Item("queued", 0)]
    /\ sends' = [sends EXCEPT ![fixing[p]] = 0]
    /\ fixing' = [fixing EXCEPT ![p] = NoItem]
    /\ asked' = [asked EXCEPT ![p] = 0]
    /\ pass' = [pass EXCEPT ![p] = Replaying(p)]
    /\ UNCHANGED <<open, netVars, faults, made, applied, discarded, doubtful, interrupted>>

(* The page is closed or reloaded; what it held in memory is gone.            *)
ClosePage(p) ==
    /\ Fault
    /\ interrupted' = interrupted \cup
         (IF pass[p].at \in {"sending", "removing", "failing", "conflicting"} THEN {pass[p].id} ELSE {})
    /\ pass' = [pass EXCEPT ![p] = Idle]
    /\ asked' = [asked EXCEPT ![p] = 0]
    /\ fixing' = [fixing EXCEPT ![p] = NoItem]
    /\ timers' = [timers EXCEPT ![p] = 0]
    /\ believes' = [believes EXCEPT ![p] = net]
    /\ UNCHANGED <<open, net, store, made, sends, applied, discarded, doubtful>>

QueueNext ==
    \/ GoOffline \/ GoOnline
    \/ \E p \in open :
         \/ OfflineTimer(p) \/ EnqueueMutation(p)
         \/ GetAllQueuedItems(p) \/ SkipItem(p) \/ MarkReplaying(p) \/ OnReplay(p) \/ RemoveItem(p)
         \/ PutBack(p) \/ PassThrows(p) \/ PassEnds(p)
         \/ UseLatestData(p) \/ ReadConflict(p) \/ ConflictIsGone(p) \/ KeepLocal(p) \/ ClosePage(p)

QueueTypeOK ==
    /\ store \in [Mutations -> [status : {"queued", "replaying", "failed", "conflict"},
                                attempts : 0 .. MaxReplayAttempts] \cup {NoItem}]
    /\ \A i \in Mutations : store[i] # NoItem => i <= made

-----------------------------------------------------------------------------
InProgress(i) == \E p \in open : pass[p].id = i /\ pass[p].at \in {"sending", "removing", "failing", "conflicting"}

(* "No data has been lost": a change made offline is in the queue until the   *)
(* server has applied it or the user chose the server's version, whatever     *)
(* fails and however many pages replay the queue (ConflictResolution.tsx).    *)
NothingIsLost ==
    \A i \in 1 .. made : store[i] # NoItem \/ applied[i] > 0 \/ i \in discarded

(* With one page, replaying a mutation that the server has applied takes a    *)
(* reply that was lost or a removal that failed: neither reconnecting in a    *)
(* pass nor closing the page makes a second request of a success.             *)
AppliedOnceUnlessInDoubt ==
    Cardinality(open) = 1 => \A i \in Mutations : applied[i] > 1 => i \in doubtful

(* With one page, a mutation is sent at most maxAttempts times before the     *)
(* user is asked, closed pages and failed writes included: the attempt is     *)
(* recorded before it is made.                                                *)
AttemptsAreBounded ==
    Cardinality(open) = 1 => \A i \in Mutations : sends[i] <= MaxReplayAttempts

(* An item that no pass works on is 'replaying', and so never selected again, *)
(* only if its pass was interrupted: every other outcome, seen by any number  *)
(* of pages, takes it out of that state.                                      *)
StuckOnlyByInterruption ==
    \A i \in Mutations : store[i] # NoItem /\ store[i].status = "replaying" => InProgress(i) \/ i \in interrupted
(* Replaying loses nothing, repeats nothing without cause, gives up in time   *)
(* and leaves nothing behind unless it is interrupted.                        *)
ReplayIsSafe == NothingIsLost /\ AppliedOnceUnlessInDoubt /\ AttemptsAreBounded /\ StuckOnlyByInterruption
=============================================================================
