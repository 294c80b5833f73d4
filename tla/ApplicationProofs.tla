-------------------------- MODULE ApplicationProofs --------------------------
(* Proofs about the parts composed in MCApplication.  Each part keeps its     *)
(* own variables, so a step of the application is a step of the part or       *)
(* leaves it alone; what the part guarantees then holds of the application.   *)
EXTENDS MCApplication, FiniteSetTheorems, SequenceTheorems, WellFoundedInduction, TLAPS

-----------------------------------------------------------------------------
(* The circuit breaker.                                                       *)

(* CircuitBreakerInstance; only what one outcome can add bounds its counters. *)
CircuitRecord == [state : {"CLOSED", "OPEN", "HALF_OPEN"}, failures : Nat,
                  successes : 0 .. SuccessThresholdHalfOpen - 1, staleness : Nat,
                  wait : 0 .. ResetTimeoutMs]

(* What a shared circuit satisfies: below both thresholds while it is closed, *)
(* and a wait that runs against the time since it tripped while it is open.   *)
BreakerInv ==
    /\ circuit \in CircuitRecord
    /\ inflight \subseteq Calls
    /\ sinceTrip \in 0 .. ResetTimeoutMs
    /\ TripsOnTime

(* A new circuit is closed and healthy (getOrCreateCircuit).                  *)
LEMMA BreakerInvInit == BreakerInit => BreakerInv
BY BreakerAssumption DEF BreakerInit, BreakerInv, CircuitRecord, FreshCircuit, TripsOnTime, ClosedMeansHealthy, OpenForExactlyTheTimeout

(* No call, outcome, reset or tick breaks it (execute, onSuccess, onFailure). *)
LEMMA BreakerInvNext == BreakerInv /\ [BreakerNext]_breakerVars => BreakerInv'
<1>. SUFFICES ASSUME BreakerInv, [BreakerNext]_breakerVars PROVE BreakerInv'
  OBVIOUS
<1>. USE BreakerAssumption DEF BreakerInv, CircuitRecord, TripsOnTime, ClosedMeansHealthy, OpenForExactlyTheTimeout
<1>1. ASSUME NEW c \in Calls, Execute(c) PROVE BreakerInv'
  BY <1>1 DEF Execute, FreshCircuit
<1>2. ASSUME NEW c \in Calls, Succeed(c) PROVE BreakerInv'
  <2>1. c \in inflight /\ circuit' = AfterSuccess(circuit) /\ inflight' \subseteq Calls /\ sinceTrip' = sinceTrip
    BY <1>2 DEF Succeed
  <2>2. CASE circuit.state = "HALF_OPEN" /\ circuit.successes + 1 >= SuccessThresholdHalfOpen
    <3>. circuit' = [FreshCircuit EXCEPT !.wait = circuit.wait]
      BY <2>1, <2>2 DEF AfterSuccess
    <3>. QED  BY <2>1 DEF FreshCircuit
  <2>3. CASE circuit.state = "HALF_OPEN" /\ circuit.successes + 1 < SuccessThresholdHalfOpen
    <3>. circuit' = [circuit EXCEPT !.successes = @ + 1, !.staleness = 0]
      BY <2>1, <2>3 DEF AfterSuccess
    <3>1. circuit'.state = "HALF_OPEN" /\ circuit' \in CircuitRecord
      <4>. circuit.successes + 1 \in 0 .. SuccessThresholdHalfOpen - 1  BY <2>3
      <4>. QED  BY <2>3
    <3>. QED  BY <2>1, <3>1
  <2>4. CASE circuit.state = "CLOSED"
    <3>. circuit' = [circuit EXCEPT !.failures = 0, !.staleness = 0]
      BY <2>1, <2>4 DEF AfterSuccess
    <3>1. circuit' \in CircuitRecord /\ circuit'.state = "CLOSED" /\ circuit'.failures = 0 /\ circuit'.staleness = 0
      BY <2>4
    <3>. QED  BY <2>1, <3>1
  <2>5. CASE circuit.state = "OPEN"
    <3>. circuit' = [circuit EXCEPT !.staleness = 0]
      BY <2>1, <2>5 DEF AfterSuccess
    <3>1. circuit' \in CircuitRecord /\ circuit'.state = "OPEN" /\ circuit'.wait = circuit.wait
      BY <2>5
    <3>. QED  BY <2>1, <2>5, <3>1
  <2>. QED  BY <2>2, <2>3, <2>4, <2>5
<1>3. ASSUME NEW c \in Calls, NEW stale \in BOOLEAN, Fail(c, stale) PROVE BreakerInv'
  <2>. DEFINE n == Counted(circuit, stale)
  <2>1. /\ c \in inflight /\ circuit' = AfterFailure(circuit, stale) /\ inflight' \subseteq Calls
        /\ sinceTrip' = IF circuit.state # "OPEN" /\ circuit'.state = "OPEN" THEN 0 ELSE sinceTrip
    BY <1>3 DEF Fail
  <2>2. /\ n \in CircuitRecord
        /\ n.state = circuit.state /\ n.wait = circuit.wait /\ (~stale => n.staleness = 0)
    <3>1. CASE stale
      <4>. n = [circuit EXCEPT !.failures = @ + 1, !.staleness = @ + 1]  BY <3>1 DEF Counted
      <4>. circuit.failures + 1 \in Nat /\ circuit.staleness + 1 \in Nat  OBVIOUS
      <4>. HIDE DEF n
      <4>. QED  BY <3>1
    <3>2. CASE ~stale
      <4>. n = [circuit EXCEPT !.failures = @ + 1, !.staleness = 0]  BY <3>2 DEF Counted
      <4>. circuit.failures + 1 \in Nat  OBVIOUS
      <4>. HIDE DEF n
      <4>. QED  BY <3>2
    <3>. QED  BY <3>1, <3>2
  <2>3. CASE circuit' = Opened(n) /\ circuit.state # "OPEN"
    <3>. HIDE DEF n
    <3>. circuit' = [n EXCEPT !.state = "OPEN", !.wait = ResetTimeoutMs]
      BY <2>3 DEF Opened
    <3>1. circuit' \in CircuitRecord /\ circuit'.state = "OPEN" /\ circuit'.wait = ResetTimeoutMs
      <4>1. ResetTimeoutMs \in 0 .. ResetTimeoutMs  OBVIOUS
      <4>2. n \in CircuitRecord  BY <2>2
      <4>. QED  BY <4>1, <4>2
    <3>. QED  BY <2>1, <2>3, <3>1
  <2>4. CASE /\ circuit' = n
             /\ circuit.state # "HALF_OPEN"
             /\ circuit.state = "CLOSED" => /\ ~stale \/ n.staleness < StalenessFailureThreshold
                                            /\ n.failures < FailureThreshold
    <3>. HIDE DEF n
    <3>. QED  BY <2>1, <2>2, <2>4
  <2>5. \/ circuit' = Opened(n) /\ circuit.state # "OPEN"
        \/ /\ circuit' = n
           /\ circuit.state # "HALF_OPEN"
           /\ circuit.state = "CLOSED" => /\ ~stale \/ n.staleness < StalenessFailureThreshold
                                          /\ n.failures < FailureThreshold
    <3>. HIDE DEF n
    <3>. QED  BY <2>1, <2>2 DEF AfterFailure, n
  <2>. QED  BY <2>3, <2>4, <2>5
<1>4. ASSUME Reset PROVE BreakerInv'
  BY <1>4 DEF Reset, FreshCircuit
<1>5. ASSUME BreakerTick PROVE BreakerInv'
  BY <1>5 DEF BreakerTick
<1>6. CASE UNCHANGED breakerVars
  BY <1>6 DEF breakerVars
<1>. QED
  BY <1>1, <1>2, <1>3, <1>4, <1>5, <1>6 DEF BreakerNext

(* Late failures are counted too, but only calls that were under way when the *)
(* circuit opened can still fail: a half-open circuit starts from zero.       *)
LateOutcomes ==
    /\ circuit.state = "HALF_OPEN" => circuit.failures = 0 /\ circuit.staleness = 0
    /\ circuit.state = "OPEN" =>
         /\ circuit.failures + Cardinality(inflight) <= FailureThreshold + Cardinality(Calls)
         /\ circuit.staleness + Cardinality(inflight) <= StalenessFailureThreshold + Cardinality(Calls)

(* A fresh circuit is closed.                                                 *)
LEMMA LateOutcomesInit == BreakerInit => LateOutcomes
BY DEF BreakerInit, FreshCircuit, LateOutcomes

(* Calls under way can be counted.                                            *)
LEMMA InflightCounted ==
    ASSUME NEW S \in SUBSET Calls
    PROVE  /\ IsFiniteSet(S) /\ Cardinality(S) \in Nat /\ Cardinality(Calls) \in Nat
           /\ Cardinality(S) <= Cardinality(Calls)
           /\ \A c \in S : Cardinality(S \ {c}) = Cardinality(S) - 1
BY FS_Subset, FS_CardinalityType, FS_RemoveElement, BreakerAssumption

(* No outcome counts a call twice.                                            *)
LEMMA LateOutcomesNext == BreakerInv /\ LateOutcomes /\ [BreakerNext]_breakerVars => LateOutcomes'
<1>. SUFFICES ASSUME BreakerInv, LateOutcomes, [BreakerNext]_breakerVars PROVE LateOutcomes'
  OBVIOUS
<1>0. /\ circuit \in CircuitRecord /\ inflight \in SUBSET Calls /\ Cardinality(inflight) \in Nat
      /\ Cardinality(Calls) \in Nat /\ Cardinality(inflight) <= Cardinality(Calls)
      /\ \A c \in inflight : Cardinality(inflight \ {c}) = Cardinality(inflight) - 1
  BY InflightCounted DEF BreakerInv
<1>1. ASSUME NEW c \in Calls, Execute(c) PROVE LateOutcomes'
  BY <1>1 DEF Execute, FreshCircuit, LateOutcomes
<1>2. ASSUME NEW c \in Calls, Succeed(c) PROVE LateOutcomes'
  <2>1. c \in inflight /\ circuit' = AfterSuccess(circuit) /\ inflight' = inflight \ {c}
    BY <1>2 DEF Succeed
  <2>2. Cardinality(inflight') = Cardinality(inflight) - 1  BY <1>0, <2>1
  <2>. QED  BY <1>0, <2>1, <2>2, BreakerAssumption DEF AfterSuccess, FreshCircuit, CircuitRecord, LateOutcomes
<1>3. ASSUME NEW c \in Calls, NEW stale \in BOOLEAN, Fail(c, stale) PROVE LateOutcomes'
  <2>1. c \in inflight /\ circuit' = AfterFailure(circuit, stale) /\ inflight' = inflight \ {c}
    BY <1>3 DEF Fail
  <2>2. Cardinality(inflight') = Cardinality(inflight) - 1  BY <1>0, <2>1
  <2>3. /\ circuit'.failures = circuit.failures + 1 /\ circuit'.staleness \in {0, circuit.staleness + 1}
        /\ circuit.state = "OPEN" => circuit'.state = "OPEN"
        /\ circuit'.state # "HALF_OPEN"
    BY <1>0, <2>1 DEF AfterFailure, Counted, Opened, CircuitRecord
  <2>4. /\ circuit.failures \in Nat /\ circuit.staleness \in Nat /\ circuit.state \in {"CLOSED", "OPEN", "HALF_OPEN"}
        /\ circuit.state = "CLOSED" => circuit.failures < FailureThreshold /\ circuit.staleness < StalenessFailureThreshold
    BY <1>0 DEF BreakerInv, TripsOnTime, ClosedMeansHealthy, CircuitRecord
  <2>. QED  BY <1>0, <2>2, <2>3, <2>4, BreakerAssumption DEF LateOutcomes
<1>4. CASE Reset
  BY <1>4 DEF Reset, FreshCircuit, LateOutcomes
<1>5. CASE BreakerTick
  <2>1. circuit' = [circuit EXCEPT !.wait = @ - 1] /\ inflight' = inflight  BY <1>5 DEF BreakerTick
  <2>2. circuit'.state = circuit.state /\ circuit'.failures = circuit.failures /\ circuit'.staleness = circuit.staleness
    BY <1>0, <2>1 DEF CircuitRecord
  <2>. QED  BY <2>1, <2>2 DEF LateOutcomes
<1>6. CASE UNCHANGED breakerVars
  BY <1>6 DEF breakerVars, LateOutcomes
<1>. QED  BY <1>1, <1>2, <1>3, <1>4, <1>5, <1>6 DEF BreakerNext

(* The counters of a circuit exceed their thresholds by no more than the      *)
(* calls that can be under way.                                               *)
LEMMA BreakerTyped == BreakerInv /\ LateOutcomes => BreakerTypeOK
<1>. SUFFICES ASSUME BreakerInv, LateOutcomes PROVE BreakerTypeOK
  OBVIOUS
<1>1. /\ circuit \in CircuitRecord /\ Cardinality(inflight) \in Nat /\ Cardinality(Calls) \in Nat
  BY InflightCounted DEF BreakerInv
<1>2. /\ circuit.failures \in 0 .. FailureThreshold + Cardinality(Calls)
      /\ circuit.staleness \in 0 .. StalenessFailureThreshold + Cardinality(Calls)
  BY <1>1, BreakerAssumption DEF LateOutcomes, BreakerInv, TripsOnTime, ClosedMeansHealthy, CircuitRecord
<1>. QED  BY <1>1, <1>2 DEF BreakerInv, BreakerTypeOK, CircuitRecord

-----------------------------------------------------------------------------
(* The oracle monitor.                                                        *)

(* FeedHealth as long as no feed looks stale, and the variables of a poll.    *)
FeedRecord == [status : {"healthy", "unknown"}, fallbackActive : {FALSE}, lastUpdatedAt : Nat]
PollRecord == [at : {"idle", "check", "price", "done"}, feed : Feeds, now : Nat,
               allHealthy : BOOLEAN, alerts : {0}]

(* A poll that waits for a price took its time no later than the feed's stamp:*)
(* whoever overtook it has stamped the feed again, and later.                 *)
OracleInv ==
    /\ feed \in [Feeds -> FeedRecord]
    /\ poll \in [Polls -> PollRecord]
    /\ oracleClock \in Nat
    /\ \A f \in Feeds : feed[f].lastUpdatedAt <= oracleClock
    /\ \A p \in Polls : poll[p].at = "price" => poll[p].now <= feed[poll[p].feed].lastUpdatedAt

(* Before the first poll no feed has been stamped.                            *)
LEMMA OracleInvInit == OracleInit => OracleInv
BY OracleAssumption DEF OracleInit, OracleInv, FeedRecord, PollRecord, Feeds, NoPoll

(* evaluateFeed changes nothing of a feed that is not stale and for which no  *)
(* fallback is active, so it sends no alert either.                           *)
LEMMA EvaluatedQuietly ==
    ASSUME OracleInv, NEW p \in Polls, NEW s \in {"healthy", "unknown"}, Evaluated(p, s),
           UNCHANGED oracleClock
    PROVE  OracleInv'
<1>. DEFINE f == poll[p].feed
            old == [feed[f] EXCEPT !.status = s]
<1>0. f \in Feeds /\ NumFeeds \in Nat
  BY OracleAssumption DEF OracleInv, PollRecord
<1>1. EvaluateFeed(old) = old /\ old \in FeedRecord /\ old.lastUpdatedAt = feed[f].lastUpdatedAt
  BY <1>0 DEF OracleInv, FeedRecord, EvaluateFeed
<1>2. feed' = [feed EXCEPT ![f] = old]
  BY <1>1 DEF Evaluated
<1>3. \A g \in Feeds : feed'[g].lastUpdatedAt = feed[g].lastUpdatedAt
  BY <1>0, <1>1, <1>2 DEF OracleInv
<1>4. PICK r \in PollRecord : r.at # "price" /\ poll' = [poll EXCEPT ![p] = r]
  <2>. DEFINE at == IF f = NumFeeds THEN "done" ELSE "check"
              n == IF f = NumFeeds THEN f ELSE f + 1
              ok == poll[p].allHealthy /\ s = "healthy"
              r == [poll[p] EXCEPT !.at = at, !.feed = n, !.allHealthy = ok, !.alerts = poll[p].alerts + 0]
  <2>1. n \in Feeds /\ at \in {"done", "check"} /\ ok \in BOOLEAN
    BY <1>0 DEF Feeds
  <2>2. poll' = [poll EXCEPT ![p] = r]
    <3>. DEFINE alerted == IF EvaluateFeed(old) # old THEN 1 ELSE 0
    <3>1. poll' = [poll EXCEPT ![p] = [poll[p] EXCEPT !.at = at, !.feed = n, !.allHealthy = ok,
                                                     !.alerts = poll[p].alerts + alerted]]
      BY Zenon DEF Evaluated
    <3>2. alerted = 0  BY <1>1
    <3>. QED  BY <3>1, <3>2, Zenon
  <2>3. poll[p] \in PollRecord /\ poll[p].alerts + 0 = 0
    BY DEF OracleInv, PollRecord
  <2>. HIDE DEF at, n, ok
  <2>4. r \in PollRecord /\ r.at # "price"
    BY <2>1, <2>3 DEF PollRecord
  <2>. QED  BY <2>2, <2>4
<1>5. /\ poll' \in [Polls -> PollRecord]
      /\ poll'[p].at # "price"
      /\ \A q \in Polls \ {p} : poll'[q] = poll[q]
  BY <1>4 DEF OracleInv
<1>6. feed' \in [Feeds -> FeedRecord]
  BY <1>0, <1>1, <1>2 DEF OracleInv
<1>7. \A q \in Polls : poll'[q].at = "price" => poll'[q].now <= feed'[poll'[q].feed].lastUpdatedAt
  <2>. SUFFICES ASSUME NEW q \in Polls, poll'[q].at = "price"
               PROVE  poll'[q].now <= feed'[poll'[q].feed].lastUpdatedAt
    OBVIOUS
  <2>1. poll'[q] = poll[q] /\ poll[q].feed \in Feeds  BY <1>5 DEF OracleInv, PollRecord
  <2>. QED  BY <1>3, <2>1 DEF OracleInv
<1>. QED  BY <1>3, <1>5, <1>6, <1>7 DEF OracleInv

(* Overlapping polls and the clock keep it (poll, checkFeed).                 *)
LEMMA OracleInvNext == OracleInv /\ [OracleNext]_oracleVars => OracleInv'
<1>. SUFFICES ASSUME OracleInv, [OracleNext]_oracleVars PROVE OracleInv'
  OBVIOUS
<1>1. ASSUME NEW p \in Polls, StartPoll(p) PROVE OracleInv'
  <2>1. 1 \in Feeds  BY OracleAssumption DEF Feeds
  <2>. QED  BY <1>1, <2>1 DEF StartPoll, NoPoll, OracleInv, PollRecord
<1>2. ASSUME NEW p \in Polls, CheckUnaddressed(p) PROVE OracleInv'
  BY <1>2, EvaluatedQuietly DEF CheckUnaddressed
<1>3. ASSUME NEW p \in Polls, LedgerKnown(p) PROVE OracleInv'
  <2>. DEFINE f == poll[p].feed
  <2>1. f \in Feeds  BY DEF OracleInv, PollRecord
  <2>2. /\ feed' \in [Feeds -> FeedRecord]
        /\ feed'[f].lastUpdatedAt = oracleClock
        /\ \A g \in Feeds \ {f} : feed'[g] = feed[g]
    <3>. DEFINE r == [feed[f] EXCEPT !.lastUpdatedAt = oracleClock]
    <3>1. r \in FeedRecord /\ r.lastUpdatedAt = oracleClock  BY <2>1 DEF OracleInv, FeedRecord
    <3>2. feed' = [feed EXCEPT ![f] = r]  BY <1>3 DEF LedgerKnown
    <3>. HIDE DEF r, f
    <3>. QED  BY <2>1, <3>1, <3>2 DEF OracleInv
  <2>3. /\ poll' \in [Polls -> PollRecord]
        /\ poll'[p].now = oracleClock /\ poll'[p].feed = f
        /\ \A q \in Polls \ {p} : poll'[q] = poll[q]
    <3>. DEFINE r == [poll[p] EXCEPT !.at = "price", !.now = oracleClock]
    <3>1. r \in PollRecord /\ r.now = oracleClock /\ r.feed = f  BY DEF OracleInv, PollRecord
    <3>2. poll' = [poll EXCEPT ![p] = r]  BY <1>3 DEF LedgerKnown, OracleInv
    <3>. HIDE DEF r, f
    <3>. QED  BY <3>1, <3>2 DEF OracleInv
  <2>4. \A g \in Feeds : feed[g].lastUpdatedAt <= feed'[g].lastUpdatedAt /\ feed'[g].lastUpdatedAt <= oracleClock
    <3>. SUFFICES ASSUME NEW g \in Feeds
                 PROVE  feed[g].lastUpdatedAt <= feed'[g].lastUpdatedAt /\ feed'[g].lastUpdatedAt <= oracleClock
      OBVIOUS
    <3>1. feed[g].lastUpdatedAt \in Nat /\ feed[g].lastUpdatedAt <= oracleClock /\ oracleClock \in Nat
      BY DEF OracleInv, FeedRecord
    <3>2. CASE g = f  BY <2>2, <3>1, <3>2
    <3>3. CASE g # f  BY <2>2, <3>1, <3>3
    <3>. QED  BY <3>2, <3>3
  <2>5. ASSUME NEW q \in Polls, poll'[q].at = "price"
        PROVE  poll'[q].now <= feed'[poll'[q].feed].lastUpdatedAt
    <3>. HIDE DEF f
    <3>1. CASE q = p  BY <2>2, <2>3, <3>1 DEF OracleInv
    <3>2. CASE q # p
      <4>1. poll'[q] = poll[q] /\ poll[q].feed \in Feeds /\ poll[q].now \in Nat
        BY <2>3, <3>2 DEF OracleInv, PollRecord
      <4>2. poll[q].now <= feed[poll[q].feed].lastUpdatedAt
        BY <2>5, <4>1 DEF OracleInv
      <4>3. feed[poll[q].feed].lastUpdatedAt \in Nat /\ feed'[poll[q].feed].lastUpdatedAt \in Nat
        BY <4>1, <2>2 DEF OracleInv, FeedRecord
      <4>. QED  BY <2>4, <4>1, <4>2, <4>3
    <3>. QED  BY <3>1, <3>2
  <2>6. oracleClock' = oracleClock  BY <1>3 DEF LedgerKnown
  <2>. QED  BY <2>2, <2>3, <2>4, <2>5, <2>6 DEF OracleInv
<1>4. ASSUME NEW p \in Polls, PriceKnown(p) PROVE OracleInv'
  <2>1. StaleMs(p) <= 0 /\ StaleMs(p) \in Int
    <3>1. poll[p].feed \in Feeds /\ poll[p].now \in Nat /\ poll[p].now <= feed[poll[p].feed].lastUpdatedAt
      BY <1>4 DEF PriceKnown, OracleInv, PollRecord
    <3>2. feed[poll[p].feed].lastUpdatedAt \in Nat
      BY <3>1 DEF OracleInv, FeedRecord
    <3>. QED  BY <3>1, <3>2 DEF StaleMs
  <2>2. CheckedStatus(p) = "healthy"
    BY <2>1, OracleAssumption DEF CheckedStatus
  <2>. QED  BY <1>4, <2>2, EvaluatedQuietly DEF PriceKnown
<1>5. ASSUME NEW p \in Polls, EndPoll(p) PROVE OracleInv'
  <2>1. 1 \in Feeds  BY OracleAssumption DEF Feeds
  <2>. QED  BY <1>5, <2>1 DEF EndPoll, NoPoll, OracleInv, PollRecord
<1>6. ASSUME OracleTick PROVE OracleInv'
  <2>1. feed' = feed /\ poll' = poll /\ oracleClock' = oracleClock + 1  BY <1>6 DEF OracleTick
  <2>2. \A f \in Feeds : feed[f].lastUpdatedAt \in Nat  BY DEF OracleInv, FeedRecord
  <2>3. \A f \in Feeds : feed'[f].lastUpdatedAt <= oracleClock'  BY <2>1, <2>2 DEF OracleInv
  <2>. QED  BY <2>1, <2>3 DEF OracleInv
<1>7. CASE UNCHANGED oracleVars
  BY <1>7 DEF oracleVars, OracleInv
<1>. QED
  BY <1>1, <1>2, <1>3, <1>4, <1>5, <1>6, <1>7 DEF OracleNext

(* The polls that are under way.                                              *)
UnderWay == {p \in Polls : poll[p].at # "idle"}

(* Only a poll that has ended counts a failure, and the fallback is activated *)
(* in the mode that is configured.                                            *)
FailuresCounted ==
    /\ failures \in Nat /\ polled \in 0 .. MaxPolls
    /\ failures + Cardinality(UnderWay) <= polled
    /\ configured \in FallbackMode /\ monitorMode \in FallbackMode
    /\ strategy # NoFallback => strategy.mode \in FallbackMode
    /\ staleStreak \in Nat

(* Before the first poll nothing has failed.                                  *)
LEMMA FailuresCountedInit == OracleInit => FailuresCounted
<1>. SUFFICES ASSUME OracleInit PROVE FailuresCounted
  OBVIOUS
<1>1. UnderWay = {}  BY DEF OracleInit, UnderWay, NoPoll
<1>2. Cardinality(UnderWay) = 0  BY <1>1, FS_EmptySet
<1>. QED  BY <1>2, OracleAssumption DEF OracleInit, FailuresCounted

(* Starting, suspending and ending a poll counts it in and out.               *)
LEMMA UnderWayCounted ==
    ASSUME NEW p \in Polls
    PROVE  /\ Cardinality(UnderWay) \in Nat
           /\ p \in UnderWay => Cardinality(UnderWay \ {p}) = Cardinality(UnderWay) - 1
           /\ p \notin UnderWay => Cardinality(UnderWay \cup {p}) = Cardinality(UnderWay) + 1
<1>1. IsFiniteSet(UnderWay)  BY FS_Subset, OracleAssumption DEF UnderWay
<1>. QED  BY <1>1, FS_CardinalityType, FS_RemoveElement, FS_AddElement

(* No poll counts twice, however many overlap (poll).                         *)
LEMMA FailuresCountedNext == OracleInv /\ FailuresCounted /\ [OracleNext]_oracleVars => FailuresCounted'
<1>. SUFFICES ASSUME OracleInv, FailuresCounted, [OracleNext]_oracleVars PROVE FailuresCounted'
  OBVIOUS
<1>0. DOMAIN poll = Polls /\ \A p \in Polls : poll[p] \in PollRecord
  BY DEF OracleInv
<1>1. ASSUME NEW p \in Polls, StartPoll(p) PROVE FailuresCounted'
  <2>. DEFINE new == [NoPoll EXCEPT !.at = "check"]
  <2>1. /\ poll' = [poll EXCEPT ![p] = new] /\ poll[p].at = "idle" /\ new.at = "check"
        /\ polled' = polled + 1 /\ polled < MaxPolls
        /\ UNCHANGED <<failures, configured, monitorMode, strategy, staleStreak>>
    BY <1>1 DEF StartPoll, NoPoll
  <2>. HIDE DEF new
  <2>2. p \notin UnderWay /\ UnderWay' = UnderWay \cup {p}  BY <1>0, <2>1 DEF UnderWay
  <2>3. Cardinality(UnderWay') = Cardinality(UnderWay) + 1 /\ Cardinality(UnderWay) \in Nat
    BY <2>2, UnderWayCounted
  <2>. QED  BY <2>1, <2>3, OracleAssumption DEF FailuresCounted
<1>2. ASSUME NEW p \in Polls, NEW new, poll' = [poll EXCEPT ![p] = new], new.at # "idle", poll[p].at # "idle",
             UNCHANGED <<failures, polled, configured, monitorMode, strategy, staleStreak>>
      PROVE  FailuresCounted'
  <2>1. UnderWay' = UnderWay  BY <1>0, <1>2 DEF UnderWay
  <2>. QED  BY <1>2, <2>1 DEF FailuresCounted
<1>3. ASSUME NEW p \in Polls, NEW s, Evaluated(p, s), poll[p].at # "idle",
             UNCHANGED <<failures, polled, configured, monitorMode, strategy, staleStreak>>
      PROVE  FailuresCounted'
  <2>1. PICK new : poll' = [poll EXCEPT ![p] = new] /\ new.at \in {"done", "check"}
    <3>. DEFINE q == poll[p]
                f == q.feed
                at == IF f = NumFeeds THEN "done" ELSE "check"
                n == IF f = NumFeeds THEN f ELSE f + 1
                ok == q.allHealthy /\ s = "healthy"
                a == q.alerts + (IF EvaluateFeed([feed[f] EXCEPT !.status = s]) # [feed[f] EXCEPT !.status = s] THEN 1 ELSE 0)
                new == [q EXCEPT !.at = at, !.feed = n, !.allHealthy = ok, !.alerts = a]
    <3>1. poll' = [poll EXCEPT ![p] = new]  BY <1>3, Zenon DEF Evaluated
    <3>2. at \in {"done", "check"}  OBVIOUS
    <3>3. q \in PollRecord  BY <1>0
    <3>. HIDE DEF at, n, ok, a, q
    <3>4. new.at = at  BY <3>3 DEF PollRecord
    <3>. HIDE DEF new
    <3>. QED  BY <3>1, <3>2, <3>4
  <2>. QED  BY <1>2, <1>3, <2>1
<1>4. ASSUME NEW p \in Polls, LedgerKnown(p) PROVE FailuresCounted'
  <2>. DEFINE new == [poll[p] EXCEPT !.at = "price", !.now = oracleClock]
  <2>1. poll' = [poll EXCEPT ![p] = new] /\ UNCHANGED <<failures, polled, configured, monitorMode, strategy, staleStreak>>
        /\ poll[p].at # "idle"
    BY <1>0, <1>4 DEF LedgerKnown
  <2>2. new.at # "idle"  BY <1>0 DEF PollRecord
  <2>. HIDE DEF new
  <2>. QED  BY <1>2, <2>1, <2>2
<1>5. ASSUME NEW p \in Polls, EndPoll(p) PROVE FailuresCounted'
  <2>1. /\ poll' = [poll EXCEPT ![p] = NoPoll] /\ poll[p].at = "done" /\ NoPoll.at = "idle"
        /\ failures' \in {0, failures + 1} /\ staleStreak' \in {0, staleStreak + 1} /\ UNCHANGED <<polled, configured>>
    BY <1>5 DEF EndPoll, NoPoll
  <2>2. p \in UnderWay /\ UnderWay' = UnderWay \ {p}  BY <1>0, <2>1 DEF UnderWay
  <2>3. Cardinality(UnderWay') = Cardinality(UnderWay) - 1 /\ Cardinality(UnderWay) \in Nat
    BY <2>2, UnderWayCounted
  <2>4. failures' \in Nat /\ failures' + Cardinality(UnderWay') <= polled'
    BY <2>1, <2>3, OracleAssumption DEF FailuresCounted
  <2>5. monitorMode' \in {monitorMode, configured} /\ (strategy' = strategy \/ strategy' = Activate(configured))
    BY <1>5 DEF EndPoll, ActivateFallback
  <2>6. Activate(configured) = strategy \/ Activate(configured).mode = configured
    BY DEF Activate
  <2>. QED  BY <2>1, <2>4, <2>5, <2>6 DEF FailuresCounted
<1>6. ASSUME UNCHANGED <<poll, failures, polled, configured, monitorMode, strategy, staleStreak>> PROVE FailuresCounted'
  <2>1. UnderWay' = UnderWay  BY <1>6 DEF UnderWay
  <2>. QED  BY <1>6, <2>1 DEF FailuresCounted
<1>7. ASSUME NEW p \in Polls, CheckUnaddressed(p) \/ PriceKnown(p) PROVE FailuresCounted'
  BY <1>3, <1>7 DEF CheckUnaddressed, PriceKnown
<1>. QED  BY <1>1, <1>4, <1>5, <1>6, <1>7 DEF OracleNext, OracleTick, oracleVars

(* A streak of failures is no longer than the polls that were made.           *)
LEMMA OracleTyped == OracleInv /\ FailuresCounted => OracleTypeOK
<1>. SUFFICES ASSUME OracleInv, FailuresCounted PROVE OracleTypeOK
  OBVIOUS
<1>1. Cardinality(UnderWay) \in Nat
  <2>1. IsFiniteSet(UnderWay)  BY FS_Subset, OracleAssumption DEF UnderWay
  <2>. QED  BY <2>1, FS_CardinalityType
<1>2. failures \in 0 .. MaxPolls  BY <1>1, OracleAssumption DEF FailuresCounted
<1>3. feed \in [Feeds -> [status : FeedStatus, fallbackActive : BOOLEAN, lastUpdatedAt : Nat]]
  BY DEF OracleInv, FeedRecord, FeedStatus
<1>. QED  BY <1>2, <1>3 DEF FailuresCounted, OracleTypeOK

-----------------------------------------------------------------------------
(* The invoice wizard.                                                        *)

(* The transactions onFinalConfirm may build.                                 *)
ValidTx == {BuildContractInvocationXdr(f) : f \in ValidForms}

Preparing(c) == click[c].at \in {"building", "simulating"}

(* While confirmations have not overlapped, one at most is being prepared,    *)
(* its transaction is the pending one unless that was cleared, and a          *)
(* successful simulation is the one of the pending transaction.               *)
PreviewIsCurrent ==
    /\ \A c, d \in Clicks : Preparing(c) /\ Preparing(d) => c = d
    /\ \A c \in Clicks : click[c].at = "simulating" => pendingXdr \in {click[c].tx, NoTx}
    /\ sim.status = "success" /\ pendingXdr # NoTx => sim.details = BuildSimulationDetails(pendingXdr)
    /\ \A s \in signed : IsShown(s)

WizardInv ==
    /\ pendingXdr \in ValidTx \cup {NoTx}
    /\ DOMAIN click = Clicks
    /\ \A c \in Clicks : Preparing(c) => click[c].tx \in ValidTx
    /\ overlapped \in BOOLEAN
    /\ \A s \in signed : s.tx \in ValidTx
    /\ ~overlapped => PreviewIsCurrent

(* An untouched wizard has nothing pending, shown or signed.                  *)
LEMMA WizardInvInit == WizardInit => WizardInv
<1>. SUFFICES ASSUME WizardInit PROVE WizardInv
  OBVIOUS
<1>1. DOMAIN click = Clicks /\ \A c \in Clicks : click[c].at = "none"
  BY DEF WizardInit, NoClick
<1>2. sim.status = "idle" /\ pendingXdr = NoTx /\ signed = {} /\ overlapped = FALSE
  BY DEF WizardInit, NoSim
<1>. QED  BY <1>1, <1>2 DEF WizardInv, PreviewIsCurrent, Preparing

(* A confirmation reads a valid form and notes whether another is under way.  *)
LEMMA ConfirmationKeepsPreview ==
    ASSUME WizardInv, NEW c \in Clicks, form \in ValidForms,
           Begin(c, "building", BuildContractInvocationXdr(form)), UNCHANGED <<pendingXdr, sim, signed>>
    PROVE  WizardInv'
<1>. DEFINE tx == BuildContractInvocationXdr(form)
<1>1. /\ click' = [click EXCEPT ![c] = [at |-> "building", tx |-> tx]]
      /\ overlapped' = (overlapped \/ \E d \in Clicks : Preparing(d))
  BY DEF Begin, Preparing
<1>2. tx \in ValidTx  BY DEF ValidTx
<1>3. /\ DOMAIN click' = Clicks
      /\ click'[c].at = "building" /\ click'[c].tx = tx
      /\ \A d \in Clicks \ {c} : click'[d] = click[d]
  BY <1>1 DEF WizardInv
<1>4. overlapped' \in BOOLEAN /\ (~overlapped' => ~overlapped /\ \A d \in Clicks : ~Preparing(d))
  BY <1>1, Zenon DEF WizardInv
<1>5. \A d \in Clicks : Preparing(d)' => click'[d].tx \in ValidTx
  BY <1>2, <1>3 DEF WizardInv, Preparing
<1>6. ASSUME ~overlapped' PROVE PreviewIsCurrent'
  <2>1. \A d \in Clicks : Preparing(d)' => d = c  BY <1>3, <1>4, <1>6 DEF Preparing
  <2>2. \A d \in Clicks : click'[d].at # "simulating"  BY <1>3, <1>4, <1>6 DEF Preparing
  <2>. QED  BY <1>4, <1>6, <2>1, <2>2 DEF WizardInv, PreviewIsCurrent
<1>. QED  BY <1>3, <1>4, <1>5, <1>6 DEF WizardInv

(* A handler that ends, or waits for the wallet, prepares nothing.            *)
LEMMA ClickEnds ==
    ASSUME WizardInv, NEW c \in Clicks, NEW k, click' = [click EXCEPT ![c] = k], k.at \notin {"building", "simulating"}
    PROVE  /\ DOMAIN click' = Clicks
           /\ ~Preparing(c)'
           /\ \A d \in Clicks : Preparing(d)' => d # c /\ Preparing(d) /\ click'[d] = click[d]
           /\ \A d \in Clicks : Preparing(d)' => click'[d].tx \in ValidTx
<1>1. DOMAIN click' = Clicks /\ click'[c] = k /\ \A d \in Clicks \ {c} : click'[d] = click[d]
  BY DEF WizardInv
<1>. QED  BY <1>1 DEF WizardInv, Preparing

(* No handler, click or answer breaks it, in any order.                       *)
LEMMA WizardInvNext == WizardInv /\ [WizardNext]_wizardVars => WizardInv'
<1>. SUFFICES ASSUME WizardInv, [WizardNext]_wizardVars PROVE WizardInv'
  OBVIOUS
<1>1. ASSUME UNCHANGED <<pendingXdr, sim, click, overlapped, signed>> PROVE WizardInv'
  BY <1>1 DEF WizardInv, PreviewIsCurrent, Preparing
<1>2. CASE EditForm  BY <1>1, <1>2 DEF EditForm
<1>3. ASSUME NEW s, GoToStep(s) PROVE WizardInv'
  BY <1>1, <1>3 DEF GoToStep
<1>4. ASSUME NEW c \in Clicks, Confirm(c) PROVE WizardInv'
  BY <1>4, ConfirmationKeepsPreview DEF Confirm
<1>5. ASSUME NEW c \in Clicks, ConfirmTwice(c) PROVE WizardInv'
  <2>1. PICK d \in Clicks : click[d].at = "building" /\ click[d].tx.from = form
    BY <1>5 DEF ConfirmTwice
  <2>2. click[d].tx \in ValidTx  BY <2>1 DEF WizardInv, Preparing
  <2>3. form \in ValidForms  BY <2>1, <2>2 DEF ValidTx, BuildContractInvocationXdr
  <2>. QED  BY <1>5, <2>3, ConfirmationKeepsPreview DEF ConfirmTwice
<1>6. ASSUME NEW c \in Clicks, BuildRequest(c) PROVE WizardInv'
  <2>1. /\ Preparing(c) /\ pendingXdr' = click[c].tx /\ sim'.status = "simulating"
        /\ overlapped' = overlapped /\ signed' = signed
        /\ click' = [click EXCEPT ![c] = [click[c] EXCEPT !.at = "simulating"]]
    BY <1>6 DEF BuildRequest, NoSim, Preparing
  <2>2. /\ DOMAIN click' = Clicks /\ click'[c].tx = click[c].tx /\ pendingXdr' \in ValidTx
        /\ \A d \in Clicks \ {c} : click'[d] = click[d]
    BY <2>1 DEF WizardInv
  <2>3. \A d \in Clicks : Preparing(d)' => Preparing(d) /\ click'[d].tx \in ValidTx
    BY <2>1, <2>2 DEF WizardInv, Preparing
  <2>4. ASSUME ~overlapped PROVE PreviewIsCurrent'
    <3>1. \A d \in Clicks : Preparing(d) => d = c
      BY <2>1, <2>4 DEF WizardInv, PreviewIsCurrent
    <3>2. \A d \in Clicks : click'[d].at = "simulating" => pendingXdr' \in {click'[d].tx, NoTx}
      BY <2>1, <2>2, <2>3, <3>1 DEF Preparing
    <3>3. \A s \in signed' : IsShown(s)
      BY <2>1, <2>4 DEF WizardInv, PreviewIsCurrent
    <3>. QED  BY <2>1, <2>3, <3>1, <3>2, <3>3 DEF PreviewIsCurrent
  <2>. QED  BY <2>1, <2>2, <2>3, <2>4 DEF WizardInv
<1>7. ASSUME NEW c \in Clicks, BuildFails(c) PROVE WizardInv'
  <2>1. click' = [click EXCEPT ![c] = NoClick] /\ pendingXdr' = NoTx /\ signed' = signed /\ overlapped' = overlapped
    BY <1>7 DEF BuildFails
  <2>2. NoClick.at = "none"  BY DEF NoClick
  <2>. QED  BY <2>1, <2>2, ClickEnds DEF WizardInv, PreviewIsCurrent, Preparing
<1>8. ASSUME NEW c \in Clicks, SimulationAnswers(c) PROVE WizardInv'
  <2>1. /\ click' = [click EXCEPT ![c] = NoClick] /\ pendingXdr' = pendingXdr
        /\ signed' = signed /\ overlapped' = overlapped
        /\ click[c].at = "simulating"
        /\ sim'.status = "success" => sim'.details = BuildSimulationDetails(click[c].tx)
    BY <1>8 DEF SimulationAnswers
  <2>2. NoClick.at = "none"  BY DEF NoClick
  <2>3. ASSUME ~overlapped PROVE PreviewIsCurrent'
    <3>1. pendingXdr' # NoTx => pendingXdr' = click[c].tx
      BY <2>1, <2>3 DEF WizardInv, PreviewIsCurrent
    <3>. QED  BY <2>1, <2>2, <2>3, <3>1, ClickEnds DEF WizardInv, PreviewIsCurrent, Preparing
  <2>. QED  BY <2>1, <2>2, <2>3, ClickEnds DEF WizardInv
<1>9. CASE CancelPreview
  BY <1>9 DEF CancelPreview, WizardInv, PreviewIsCurrent, Preparing
<1>10. ASSUME NEW c \in Clicks, SignTransaction(c) PROVE WizardInv'
  <2>. DEFINE k == [at |-> "signing", tx |-> pendingXdr]
  <2>1. /\ click' = [click EXCEPT ![c] = k] /\ pendingXdr' = pendingXdr /\ sim' = sim
        /\ overlapped' = overlapped /\ k.at = "signing"
    BY <1>10 DEF SignTransaction, Begin, WizardInv
  <2>2. CASE pendingXdr = NoTx
    <3>1. signed' = signed  BY <1>10, <2>2 DEF SignTransaction
    <3>. HIDE DEF k
    <3>. QED  BY <2>1, <3>1, ClickEnds DEF WizardInv, PreviewIsCurrent, Preparing
  <2>3. CASE pendingXdr # NoTx
    <3>. DEFINE new == [tx |-> pendingXdr, shown |-> sim.details]
    <3>1. signed' \subseteq signed \cup {new}  BY <1>10, <2>3 DEF SignTransaction
    <3>2. new.tx \in ValidTx  BY <2>3 DEF WizardInv
    <3>3. ~overlapped => IsShown(new)
      BY <1>10, <2>3 DEF SignTransaction, CanSign, WizardInv, PreviewIsCurrent, IsShown, BuildSimulationDetails
    <3>. HIDE DEF k, new
    <3>4. \A s \in signed' : s.tx \in ValidTx /\ (~overlapped => IsShown(s))
      BY <3>1, <3>2, <3>3 DEF WizardInv, PreviewIsCurrent
    <3>. QED  BY <2>1, <3>4, ClickEnds DEF WizardInv, PreviewIsCurrent, Preparing
  <2>. QED  BY <2>2, <2>3
<1>11. ASSUME NEW c \in Clicks, SigningEnds(c) PROVE WizardInv'
  <2>1. click' = [click EXCEPT ![c] = NoClick] /\ pendingXdr' = NoTx /\ signed' = signed /\ overlapped' = overlapped
    BY <1>11 DEF SigningEnds
  <2>2. NoClick.at = "none"  BY DEF NoClick
  <2>. QED  BY <2>1, <2>2, ClickEnds DEF WizardInv, PreviewIsCurrent, Preparing
<1>12. CASE UNCHANGED wizardVars
  BY <1>1, <1>12 DEF wizardVars
<1>. QED
  BY <1>2, <1>3, <1>4, <1>5, <1>6, <1>7, <1>8, <1>9, <1>10, <1>11, <1>12 DEF WizardNext

(* What WizardInv says of the wallet's prompts.                               *)
LEMMA WizardInvSound == WizardInv => SigningIsSound
BY DEF WizardInv, PreviewIsCurrent, SigningIsSound, SignedFormIsValid, SignedAsShown, ValidTx, BuildContractInvocationXdr

(* The wizard is at one of its steps and the simulation at one of its stages. *)
StepsKnown ==
    /\ step \in {"details", "valuation", "review", "submitted"}
    /\ sim = [status |-> sim.status, details |-> sim.details]
    /\ sim.status \in {"idle", "simulating", "success", "error"}

(* An untouched wizard.                                                       *)
LEMMA StepsKnownInit == WizardInit => StepsKnown
BY DEF WizardInit, StepsKnown, NoSim

(* Every handler sets both to one of them.                                    *)
LEMMA StepsKnownNext == StepsKnown /\ [WizardNext]_wizardVars => StepsKnown'
<1>. SUFFICES ASSUME StepsKnown, [WizardNext]_wizardVars PROVE StepsKnown'
  OBVIOUS
<1>1. ASSUME step' \in {"details", "valuation", "review", "submitted", step}, sim' = sim PROVE StepsKnown'
  BY <1>1 DEF StepsKnown
<1>2. ASSUME step' \in {step, "submitted"}, NEW s \in {"idle", "simulating", "success", "error"}, NEW d,
             sim' = [status |-> s, details |-> d]
      PROVE  StepsKnown'
  BY <1>2 DEF StepsKnown
<1>3. ASSUME NEW c \in Clicks, BuildRequest(c) PROVE StepsKnown'
  <2>1. sim' = [status |-> "simulating", details |-> NoTx] /\ step' = step  BY <1>3 DEF BuildRequest, NoSim
  <2>. QED  BY <1>2, <2>1
<1>4. ASSUME NEW c \in Clicks, BuildFails(c) PROVE StepsKnown'
  <2>1. sim' = [status |-> "error", details |-> NoTx] /\ step' = step  BY <1>4 DEF BuildFails, NoSim
  <2>. QED  BY <1>2, <2>1
<1>5. ASSUME NEW c \in Clicks, SimulationAnswers(c) PROVE StepsKnown'
  <2>1. PICK s \in SimulateTransactionRpc :
          sim' = [status |-> s, details |-> IF s = "success" THEN BuildSimulationDetails(click[c].tx) ELSE sim.details]
    BY <1>5 DEF SimulationAnswers
  <2>2. step' = step  BY <1>5 DEF SimulationAnswers
  <2>. QED  BY <1>2, <2>1, <2>2 DEF SimulateTransactionRpc
<1>6. ASSUME NEW c \in Clicks, SigningEnds(c) PROVE StepsKnown'
  <2>1. sim' = [status |-> "idle", details |-> NoTx] /\ step' \in {step, "submitted"}
    BY <1>6 DEF SigningEnds, NoSim
  <2>. QED  BY <1>2, <2>1
<1>7. CASE CancelPreview
  <2>1. sim' = [status |-> "idle", details |-> NoTx] /\ step' = step
    BY <1>7 DEF CancelPreview, NoSim
  <2>. QED  BY <1>2, <2>1
<1>8. ASSUME NEW s \in {"details", "valuation", "review"}, GoToStep(s) PROVE StepsKnown'
  BY <1>1, <1>8 DEF GoToStep
<1>. QED
  BY <1>1, <1>3, <1>4, <1>5, <1>6, <1>7, <1>8
  DEF WizardNext, wizardVars, EditForm, Confirm, ConfirmTwice, SignTransaction

(* A transaction that is pending was built from a form.                       *)
LEMMA WizardTyped == WizardInv /\ StepsKnown => WizardTypeOK
BY DEF WizardInv, ValidTx, Forms, StepsKnown, WizardTypeOK

-----------------------------------------------------------------------------
(* The webhook subscriptions.                                                 *)

(* The requests of a wallet that were counted and have yet to create.         *)
Registering(o) == {n \in Sessions : session[n] = <<o>>}

SubsInv ==
    /\ SubsTypeOK
    /\ IsFiniteSet(DOMAIN subs)
    /\ OverrunIsBounded

(* No subscription yet.                                                       *)
LEMMA SubsInvInit == SubsInit => SubsInv
<1>. SUFFICES ASSUME SubsInit PROVE SubsInv
  OBVIOUS
<1>1. DOMAIN subs = {} /\ session = [n \in Sessions |-> << >>]
  BY DEF SubsInit
<1>2. SubsTypeOK /\ IsFiniteSet(DOMAIN subs)
  BY <1>1, FS_EmptySet DEF SubsTypeOK
<1>3. \A o \in Owners : ActiveOf(o) = {} /\ {n \in Sessions : session[n] = <<o>>} = {}
  BY <1>1 DEF ActiveOf
<1>4. Cardinality({}) = 0 /\ Cardinality(Sessions) \in Nat
  BY FS_EmptySet, FS_CardinalityType, SubsAssumption
<1>5. OverrunIsBounded
  BY <1>3, <1>4, SubsAssumption DEF OverrunIsBounded
<1>. QED  BY <1>2, <1>5 DEF SubsInv

(* The rows and requests of a wallet can be counted.                          *)
LEMMA CountsAreNumbers ==
    ASSUME SubsInv, NEW o
    PROVE  /\ IsFiniteSet(ActiveOf(o)) /\ Cardinality(ActiveOf(o)) \in Nat
           /\ IsFiniteSet(Registering(o)) /\ Cardinality(Registering(o)) \in Nat
           /\ Cardinality(Sessions) \in Nat
           /\ Cardinality(Registering(o)) <= Cardinality(Sessions)
<1>1. ActiveOf(o) \subseteq DOMAIN subs /\ Registering(o) \subseteq Sessions
  BY DEF ActiveOf, Registering
<1>. QED  BY <1>1, FS_Subset, FS_CardinalityType, SubsAssumption DEF SubsInv

(* Counting and creating in two statements, and revoking, keep the bound      *)
(* (register, revoke).                                                        *)
LEMMA SubsInvNext == SubsInv /\ [SubsNext]_subsVars => SubsInv'
<1>. SUFFICES ASSUME SubsInv, [SubsNext]_subsVars PROVE SubsInv'
  OBVIOUS
<1>0. \A o \in Owners : Cardinality(ActiveOf(o)) + Cardinality(Registering(o))
                           <= MAX_SUBSCRIPTIONS_PER_OWNER - 1 + Cardinality(Sessions)
  BY DEF SubsInv, OverrunIsBounded, Registering
<1>. SUFFICES ASSUME SubsNext
             PROVE  /\ SubsTypeOK' /\ IsFiniteSet(DOMAIN subs')
                    /\ \A o \in Owners : Cardinality(ActiveOf(o)') + Cardinality(Registering(o)')
                                            <= MAX_SUBSCRIPTIONS_PER_OWNER - 1 + Cardinality(Sessions)
  <2>1. ASSUME UNCHANGED subsVars PROVE SubsInv'
    BY <2>1 DEF subsVars, SubsInv, SubsTypeOK, OverrunIsBounded, ActiveOf
  <2>. QED  BY <2>1 DEF SubsInv, OverrunIsBounded, Registering
<1>1. ASSUME NEW n \in Sessions, NEW w \in Owners, CountSubscriptions(n, w)
      PROVE  /\ SubsTypeOK' /\ IsFiniteSet(DOMAIN subs')
             /\ \A o \in Owners : Cardinality(ActiveOf(o)') + Cardinality(Registering(o)')
                                     <= MAX_SUBSCRIPTIONS_PER_OWNER - 1 + Cardinality(Sessions)
  <2>1. /\ subs' = subs /\ session' = [session EXCEPT ![n] = <<w>>] /\ session[n] = << >>
        /\ Cardinality(ActiveOf(w)) < MAX_SUBSCRIPTIONS_PER_OWNER
    BY <1>1 DEF CountSubscriptions
  <2>2. SubsTypeOK' /\ IsFiniteSet(DOMAIN subs')
    BY <2>1 DEF SubsInv, SubsTypeOK
  <2>3. ASSUME NEW o \in Owners
        PROVE  Cardinality(ActiveOf(o)') + Cardinality(Registering(o)')
                   <= MAX_SUBSCRIPTIONS_PER_OWNER - 1 + Cardinality(Sessions)
    <3>1. ActiveOf(o)' = ActiveOf(o)  BY <2>1 DEF ActiveOf
    <3>2. CASE o = w
      <4>1. Registering(o)' \subseteq Sessions  BY DEF Registering
      <4>2. Cardinality(Registering(o)') <= Cardinality(Sessions) /\ Cardinality(Registering(o)') \in Nat
        BY <4>1, FS_Subset, FS_CardinalityType, SubsAssumption
      <4>. QED  BY <2>1, <3>1, <3>2, <4>2, CountsAreNumbers, SubsAssumption
    <3>3. CASE o # w
      <4>1. Registering(o)' = Registering(o)
        BY <2>1, <3>3 DEF Registering, SubsInv, SubsTypeOK
      <4>. QED  BY <1>0, <3>1, <4>1
    <3>. QED  BY <3>2, <3>3
  <2>. QED  BY <2>2, <2>3
<1>2. ASSUME NEW n \in Sessions, NEW s \in SubIds, CreateSubscription(n, s)
      PROVE  /\ SubsTypeOK' /\ IsFiniteSet(DOMAIN subs')
             /\ \A o \in Owners : Cardinality(ActiveOf(o)') + Cardinality(Registering(o)')
                                     <= MAX_SUBSCRIPTIONS_PER_OWNER - 1 + Cardinality(Sessions)
  <2>1. PICK w \in Owners : session[n] = <<w>>
    BY <1>2 DEF CreateSubscription, SubsInv, SubsTypeOK
  <2>. DEFINE row == [owner |-> w, active |-> TRUE]
  <2>2. /\ subs' = [x \in DOMAIN subs \cup {s} |-> IF x = s THEN row ELSE subs[x]]
        /\ s \notin DOMAIN subs /\ session' = [session EXCEPT ![n] = << >>]
    BY <1>2, <2>1 DEF CreateSubscription
  <2>3. row \in [owner : Owners, active : BOOLEAN] /\ row.owner = w /\ row.active = TRUE
    OBVIOUS
  <2>. HIDE DEF row
  <2>4. DOMAIN subs' = DOMAIN subs \cup {s} /\ subs'[s] = row /\ \A x \in DOMAIN subs : subs'[x] = subs[x]
    BY <2>2
  <2>5. SubsTypeOK'
    <3>1. session' \in [Sessions -> {<< >>} \cup {<<o>> : o \in Owners}]
      BY <2>2 DEF SubsInv, SubsTypeOK
    <3>. QED  BY <2>3, <2>4, <3>1 DEF SubsInv, SubsTypeOK
  <2>6. IsFiniteSet(DOMAIN subs')
    BY <2>4, FS_AddElement DEF SubsInv
  <2>7. ASSUME NEW o \in Owners
        PROVE  Cardinality(ActiveOf(o)') + Cardinality(Registering(o)')
                   <= MAX_SUBSCRIPTIONS_PER_OWNER - 1 + Cardinality(Sessions)
    <3>1. CASE o = w
      <4>1. ActiveOf(o)' = ActiveOf(o) \cup {s} /\ s \notin ActiveOf(o)
        BY <2>2, <2>3, <2>4, <3>1 DEF ActiveOf
      <4>2. Registering(o)' = Registering(o) \ {n} /\ n \in Registering(o)
        BY <2>1, <2>2, <3>1 DEF Registering, SubsInv, SubsTypeOK
      <4>3. Cardinality(ActiveOf(o)') = Cardinality(ActiveOf(o)) + 1
        BY <4>1, FS_AddElement, CountsAreNumbers
      <4>4. Cardinality(Registering(o)') = Cardinality(Registering(o)) - 1
        BY <4>2, FS_RemoveElement, CountsAreNumbers
      <4>. QED  BY <1>0, <4>3, <4>4, CountsAreNumbers
    <3>2. CASE o # w
      <4>1. ActiveOf(o)' = ActiveOf(o)
        BY <2>2, <2>3, <2>4, <3>2 DEF ActiveOf
      <4>2. Registering(o)' = Registering(o)
        BY <2>1, <2>2, <3>2 DEF Registering, SubsInv, SubsTypeOK
      <4>. QED  BY <1>0, <4>1, <4>2
    <3>. QED  BY <3>1, <3>2
  <2>. QED  BY <2>5, <2>6, <2>7
<1>3. ASSUME NEW p, NEW s \in SubIds, RevokeSubscription(p, s)
      PROVE  /\ SubsTypeOK' /\ IsFiniteSet(DOMAIN subs')
             /\ \A o \in Owners : Cardinality(ActiveOf(o)') + Cardinality(Registering(o)')
                                     <= MAX_SUBSCRIPTIONS_PER_OWNER - 1 + Cardinality(Sessions)
  <2>. DEFINE row == [subs[s] EXCEPT !.active = FALSE]
  <2>1. s \in DOMAIN subs /\ subs' = [subs EXCEPT ![s] = row] /\ session' = session
    BY <1>3 DEF RevokeSubscription
  <2>2. row \in [owner : Owners, active : BOOLEAN] /\ row.active = FALSE
    BY <2>1 DEF SubsInv, SubsTypeOK
  <2>. HIDE DEF row
  <2>3. DOMAIN subs' = DOMAIN subs /\ subs'[s] = row /\ \A x \in DOMAIN subs \ {s} : subs'[x] = subs[x]
    BY <2>1
  <2>4. SubsTypeOK' /\ IsFiniteSet(DOMAIN subs')
    BY <2>1, <2>2, <2>3 DEF SubsInv, SubsTypeOK
  <2>5. ASSUME NEW o \in Owners
        PROVE  Cardinality(ActiveOf(o)') + Cardinality(Registering(o)')
                   <= MAX_SUBSCRIPTIONS_PER_OWNER - 1 + Cardinality(Sessions)
    <3>1. ActiveOf(o)' \subseteq ActiveOf(o)
      BY <2>2, <2>3 DEF ActiveOf
    <3>2. Registering(o)' = Registering(o)
      BY <2>1 DEF Registering
    <3>3. Cardinality(ActiveOf(o)') <= Cardinality(ActiveOf(o)) /\ Cardinality(ActiveOf(o)') \in Nat
      BY <3>1, FS_Subset, FS_CardinalityType, CountsAreNumbers
    <3>. QED  BY <1>0, <3>2, <3>3, CountsAreNumbers, SubsAssumption
  <2>. QED  BY <2>4, <2>5
<1>. QED
  BY <1>1, <1>2, <1>3 DEF SubsNext

-----------------------------------------------------------------------------
(* The rotation of the database credentials.                                  *)

OpRecord(v) == [at : {"idle", "query", "reconnect", "refresh", "connect", "failed"},
                attempt : 0 .. MAX_ROTATION_RETRIES, using : 0 .. v, rotated : BOOLEAN,
                overwritten : Nat]

(* An operation during which no rotation took place finds an outdated client  *)
(* at its start, and then only when another has put one back since.           *)
UnrotatedOK(o) ==
    ~op[o].rotated =>
        /\ op[o].at = "failed" => MAX_ROTATION_RETRIES <= op[o].overwritten
        /\ op[o].at \in {"refresh", "connect"} => op[o].using = version
        /\ op[o].at \in {"reconnect", "refresh", "connect"} => op[o].attempt <= op[o].overwritten + 1
        /\ op[o].at = "query" /\ op[o].using # version => op[o].attempt <= op[o].overwritten
        /\ op[o].at = "connect" /\ client # version => op[o].attempt <= op[o].overwritten

RotationInv ==
    /\ RotationTypeOK
    /\ version \in Nat \ {0}
    /\ \A o \in Operations : op[o].at = "refresh" => op[o].using # 0
    /\ boot = "construct" => \A o \in Operations : op[o].at = "idle"
    /\ \A o \in Operations : UnrotatedOK(o)

(* Before the start no operation runs.                                        *)
LEMMA RotationInvInit == RotationInit => RotationInv
<1>. SUFFICES ASSUME RotationInit PROVE RotationInv
  OBVIOUS
<1>1. IdleOp \in OpRecord(1) /\ IdleOp.at = "idle"
  BY RotationAssumption DEF IdleOp, OpRecord
<1>2. /\ op \in [Operations -> OpRecord(1)] /\ version = 1 /\ boot = "construct"
      /\ \A o \in Operations : op[o].at = "idle"
  BY <1>1 DEF RotationInit
<1>3. RotationTypeOK
  BY <1>2 DEF RotationInit, RotationTypeOK, OpRecord
<1>. QED  BY <1>2, <1>3 DEF RotationInv, UnrotatedOK

(* A step of operation p, which leaves the client and the version alone,      *)
(* disturbs none of the others.                                               *)
LEMMA OthersUndisturbed ==
    ASSUME RotationInv, NEW p \in Operations, NEW k \in OpRecord(version),
           op' = [op EXCEPT ![p] = k], UNCHANGED <<boot, version, secrets, client>>,
           k.at = "refresh" => k.using # 0 /\ k.using = version,
           boot # "construct",
           ~k.rotated =>
             /\ k.at = "failed" => MAX_ROTATION_RETRIES <= k.overwritten
             /\ k.at = "connect" => k.using = version
             /\ k.at \in {"reconnect", "refresh", "connect"} => k.attempt <= k.overwritten + 1
             /\ k.at = "query" /\ k.using # version => k.attempt <= k.overwritten
             /\ k.at = "connect" /\ client # version => k.attempt <= k.overwritten
    PROVE  RotationInv'
<1>1. op \in [Operations -> OpRecord(version)]
  BY DEF RotationInv, RotationTypeOK, OpRecord
<1>2. op' \in [Operations -> OpRecord(version)] /\ op'[p] = k /\ \A o \in Operations \ {p} : op'[o] = op[o]
  BY <1>1
<1>3. ASSUME NEW o \in Operations PROVE UnrotatedOK(o)'
  <2>1. CASE o = p
    BY <1>2, <2>1 DEF UnrotatedOK
  <2>2. CASE o # p
    <3>1. op'[o] = op[o] /\ UnrotatedOK(o)  BY <1>2, <2>2 DEF RotationInv
    <3>. QED  BY <3>1 DEF UnrotatedOK
  <2>. QED  BY <2>1, <2>2
<1>4. RotationTypeOK'
  BY <1>2 DEF RotationInv, RotationTypeOK, OpRecord
<1>. QED  BY <1>2, <1>3, <1>4 DEF RotationInv

(* Operations, their retries and the rotation keep it (withRetry,             *)
(* reconnectWithNewCredentials).                                              *)
LEMMA RotationInvNext == RotationInv /\ [RotationNext]_rotationVars => RotationInv'
<1>. SUFFICES ASSUME RotationInv, [RotationNext]_rotationVars PROVE RotationInv'
  OBVIOUS
<1>0. /\ op \in [Operations -> OpRecord(version)] /\ version \in Nat \ {0} /\ client \in 0 .. version
      /\ MAX_ROTATION_RETRIES \in Nat
  BY RotationAssumption DEF RotationInv, RotationTypeOK, OpRecord
<1>i. IdleOp \in OpRecord(version) /\ IdleOp.at = "idle"
  BY <1>0 DEF IdleOp, OpRecord
<1>1. CASE Construct
  <2>1. /\ op' = op /\ version' = version /\ secrets' = secrets
        /\ \A o \in Operations : op[o].at = "idle"
        /\ boot' \in {"init", "failed"}
        /\ client' \in 0 .. version
    <3>1. boot = "construct" /\ (secrets # NoSecrets => secrets \in 0 .. version)
      BY <1>1, <1>0 DEF Construct, RotationInv, RotationTypeOK
    <3>. QED  BY <1>0, <1>1, <3>1 DEF Construct, RequireSecrets, RotationInv
  <2>2. \A o \in Operations : UnrotatedOK(o)'
    BY <2>1 DEF UnrotatedOK
  <2>. QED  BY <2>1, <2>2 DEF RotationInv, RotationTypeOK
<1>2. CASE ModuleInit
  <2>1. /\ op' = op /\ version' = version /\ secrets' = secrets /\ client' = client
        /\ boot' \in {"up", "failed"}
    BY <1>2 DEF ModuleInit
  <2>2. \A o \in Operations : UnrotatedOK(o)'
    BY <2>1 DEF UnrotatedOK, RotationInv
  <2>. QED  BY <2>1, <2>2 DEF RotationInv, RotationTypeOK
<1>3. ASSUME NEW o \in Operations, StartOperation(o) PROVE RotationInv'
  <2>. DEFINE k == [IdleOp EXCEPT !.at = "query", !.using = client]
  <2>1. op' = [op EXCEPT ![o] = k] /\ UNCHANGED <<boot, version, secrets, client>> /\ boot # "construct"
    BY <1>3 DEF StartOperation, Running
  <2>2. k \in OpRecord(version) /\ k.at = "query" /\ k.attempt <= k.overwritten
    <3>1. IdleOp.attempt = 0 /\ IdleOp.overwritten = 0  BY DEF IdleOp
    <3>2. /\ k \in OpRecord(version) /\ k.at = "query"
          /\ k.attempt = IdleOp.attempt /\ k.overwritten = IdleOp.overwritten
      BY <1>0, <1>i DEF OpRecord
    <3>. HIDE DEF k
    <3>. QED  BY <3>1, <3>2
  <2>. HIDE DEF k
  <2>. QED  BY <2>1, <2>2, OthersUndisturbed
<1>4. ASSUME NEW o \in Operations, OperationEnds(o) \/ VaultFails(o) \/ ReportFailure(o) PROVE RotationInv'
  <2>1. op' = [op EXCEPT ![o] = IdleOp] /\ UNCHANGED <<boot, version, secrets, client>> /\ op[o].at # "idle"
    BY <1>4 DEF OperationEnds, VaultFails, ReportFailure
  <2>2. boot # "construct"  BY <2>1 DEF RotationInv
  <2>. QED  BY <1>i, <2>1, <2>2, OthersUndisturbed
<1>5. ASSUME NEW o \in Operations, AuthError(o) PROVE RotationInv'
  <2>1. /\ op[o].at = "query" /\ op[o].using # version /\ boot # "construct"
        /\ UNCHANGED <<boot, version, secrets, client>> /\ op[o].attempt \in 0 .. MAX_ROTATION_RETRIES
        /\ op[o].overwritten \in Nat /\ (~op[o].rotated => op[o].attempt <= op[o].overwritten)
    BY <1>0, <1>5 DEF AuthError, IsAuthError, RotationInv, UnrotatedOK, OpRecord
  <2>2. CASE AttemptsLeft(o)
    <3>. DEFINE k == [op[o] EXCEPT !.at = "reconnect", !.attempt = op[o].attempt + 1]
    <3>1. op' = [op EXCEPT ![o] = k]  BY <1>5, <2>2 DEF AuthError
    <3>2. op[o].attempt + 1 \in 0 .. MAX_ROTATION_RETRIES  BY <1>0, <2>1, <2>2 DEF AttemptsLeft
    <3>3. /\ k \in OpRecord(version) /\ k.at = "reconnect" /\ k.attempt = op[o].attempt + 1
          /\ k.rotated = op[o].rotated /\ k.overwritten = op[o].overwritten
      BY <1>0, <3>2 DEF OpRecord
    <3>. HIDE DEF k
    <3>4. ~k.rotated => k.attempt <= k.overwritten + 1
      BY <2>1, <3>3
    <3>. QED  BY <2>1, <3>1, <3>3, <3>4, OthersUndisturbed
  <2>3. CASE ~AttemptsLeft(o)
    <3>. DEFINE k == [op[o] EXCEPT !.at = "failed"]
    <3>1. op' = [op EXCEPT ![o] = k]  BY <1>5, <2>3 DEF AuthError
    <3>2. ~op[o].rotated => MAX_ROTATION_RETRIES <= op[o].overwritten
      BY <1>0, <2>1, <2>3 DEF AttemptsLeft
    <3>3. /\ k \in OpRecord(version) /\ k.at = "failed" /\ k.rotated = op[o].rotated
          /\ k.overwritten = op[o].overwritten
      BY <1>0 DEF OpRecord
    <3>. HIDE DEF k
    <3>. QED  BY <2>1, <3>1, <3>2, <3>3, OthersUndisturbed
  <2>. QED  BY <2>2, <2>3
<1>6. ASSUME NEW o \in Operations, VaultReads(o) PROVE RotationInv'
  <2>. DEFINE k == [op[o] EXCEPT !.at = "refresh", !.using = version]
  <2>1. /\ op[o].at = "reconnect" /\ boot # "construct" /\ UNCHANGED <<boot, version, secrets, client>>
        /\ ~op[o].rotated => op[o].attempt <= op[o].overwritten + 1
    BY <1>6 DEF VaultReads, RotationInv, UnrotatedOK
  <2>2. op' = [op EXCEPT ![o] = k]  BY <1>0, <1>6 DEF VaultReads
  <2>3. /\ k \in OpRecord(version) /\ k.at = "refresh" /\ k.using = version
        /\ k.attempt = op[o].attempt /\ k.rotated = op[o].rotated /\ k.overwritten = op[o].overwritten
    <3>1. version \in 0 .. version /\ op[o] \in OpRecord(version)  BY <1>0
    <3>. QED  BY <3>1 DEF OpRecord
  <2>. HIDE DEF k
  <2>. QED  BY <1>0, <2>1, <2>2, <2>3, OthersUndisturbed
<1>7. ASSUME NEW o \in Operations, Rebuild(o) PROVE RotationInv'
  <2>. DEFINE v == op[o].using
              k == [op[o] EXCEPT !.at = "connect"]
  <2>1. /\ op[o].at = "refresh" /\ secrets' = v /\ client' = v /\ UNCHANGED <<boot, version>>
        /\ boot # "construct" /\ v \in 1 .. version
    BY <1>0, <1>7 DEF Rebuild, RefreshedSecrets, RotationInv, OpRecord
  <2>2. op' = [p \in Operations |-> IF p = o THEN k ELSE Overwritten(p, v # version)]
    BY <1>0, <1>7, <2>1 DEF Rebuild, OpRecord
  <2>3. /\ k \in OpRecord(version) /\ k.at = "connect" /\ k.using = v
        /\ k.attempt = op[o].attempt /\ k.rotated = op[o].rotated /\ k.overwritten = op[o].overwritten
    BY <1>0 DEF OpRecord
  <2>. HIDE DEF k
  <2>5. ASSUME NEW p \in Operations, p # o
        PROVE  /\ op'[p] \in OpRecord(version) /\ op'[p].at = op[p].at /\ op'[p].using = op[p].using
               /\ op'[p].attempt = op[p].attempt /\ op'[p].rotated = op[p].rotated
               /\ op[p].overwritten <= op'[p].overwritten
               /\ v # version /\ op[p].at # "idle" => op'[p].overwritten = op[p].overwritten + 1
    <3>1. op'[p] = Overwritten(p, v # version) /\ op[p] \in OpRecord(version)  BY <1>0, <2>2, <2>5
    <3>2. CASE v # version /\ op[p].at # "idle"
      <4>1. op'[p] = [op[p] EXCEPT !.overwritten = op[p].overwritten + 1]
        BY <3>1, <3>2 DEF Overwritten
      <4>2. op[p].overwritten \in Nat  BY <3>1 DEF OpRecord
      <4>. QED  BY <3>1, <4>1, <4>2 DEF OpRecord
    <3>3. CASE ~(v # version /\ op[p].at # "idle")
      <4>1. op'[p] = op[p]  BY <3>1, <3>3 DEF Overwritten
      <4>2. op[p].overwritten \in Nat  BY <3>1 DEF OpRecord
      <4>. QED  BY <3>1, <3>3, <4>1, <4>2
    <3>. QED  BY <3>2, <3>3
  <2>. HIDE DEF v
  <2>4. op' \in [Operations -> OpRecord(version)] /\ op'[o] = k
    BY <1>0, <2>2, <2>3, <2>5
  <2>7. ASSUME NEW p \in Operations PROVE UnrotatedOK(p)'
    <3>1. UnrotatedOK(p) /\ op[p].attempt \in Nat /\ op[p].overwritten \in Nat  BY <1>0 DEF RotationInv, OpRecord
    <3>2. CASE p = o
      BY <1>0, <2>1, <2>3, <2>4, <3>1, <3>2 DEF UnrotatedOK, v
    <3>3. CASE p # o
      <4>1. op'[p].overwritten \in Nat  BY <2>5, <3>3 DEF OpRecord
      <4>. QED  BY <1>0, <2>1, <2>5, <3>1, <3>3, <4>1 DEF UnrotatedOK
    <3>. QED  BY <3>2, <3>3
  <2>8. RotationTypeOK'
    BY <1>0, <2>1, <2>4 DEF RotationInv, RotationTypeOK, OpRecord
  <2>9. \A p \in Operations : op'[p].at = "refresh" => op'[p].using # 0
    BY <2>3, <2>4, <2>5 DEF RotationInv
  <2>. QED  BY <1>0, <2>1, <2>7, <2>8, <2>9 DEF RotationInv
<1>8. ASSUME NEW o \in Operations, Connect(o) PROVE RotationInv'
  <2>. DEFINE at == IF op[o].using = version THEN "query" ELSE "failed"
              k == [op[o] EXCEPT !.at = at, !.using = client]
  <2>1. /\ op[o].at = "connect" /\ boot # "construct" /\ UNCHANGED <<boot, version, secrets, client>>
        /\ ~op[o].rotated => /\ op[o].using = version
                             /\ client # version => op[o].attempt <= op[o].overwritten
    BY <1>8 DEF Connect, RotationInv, UnrotatedOK
  <2>2. op' = [op EXCEPT ![o] = k]  BY <1>0, <1>8 DEF Connect
  <2>a. at \in {"query", "failed"} /\ (~op[o].rotated => at = "query")  BY <2>1
  <2>. HIDE DEF at
  <2>3. /\ k \in OpRecord(version) /\ k.at = at /\ k.using = client
        /\ k.attempt = op[o].attempt /\ k.rotated = op[o].rotated /\ k.overwritten = op[o].overwritten
    BY <1>0, <2>a DEF OpRecord
  <2>. HIDE DEF k
  <2>. QED  BY <2>1, <2>2, <2>3, <2>a, OthersUndisturbed
<1>9. CASE Rotate
  <2>1. /\ version' = version + 1 /\ UNCHANGED <<boot, secrets, client>>
        /\ op' = [o \in Operations |-> [op[o] EXCEPT !.rotated = op[o].at # "idle"]]
    BY <1>9 DEF Rotate
  <2>2. ASSUME NEW o \in Operations
        PROVE  /\ op'[o] \in OpRecord(version + 1) /\ op'[o].at = op[o].at /\ op'[o].using = op[o].using
               /\ op'[o].at # "idle" => op'[o].rotated
    <3>. DEFINE r == op[o].at # "idle"
    <3>1. r \in BOOLEAN /\ op'[o] = [op[o] EXCEPT !.rotated = r]  BY <2>1
    <3>2. op[o] \in OpRecord(version + 1)  BY <1>0 DEF OpRecord
    <3>3. r => op[o].at # "idle"  OBVIOUS
    <3>4. op'[o] \in OpRecord(version + 1) /\ op'[o].at = op[o].at /\ op'[o].using = op[o].using /\ op'[o].rotated = r
      <4>. HIDE DEF r
      <4>. QED  BY <3>1, <3>2 DEF OpRecord
    <3>. QED  BY <3>4
  <2>3. op' \in [Operations -> OpRecord(version + 1)]
    BY <2>1, <2>2
  <2>4. RotationTypeOK' /\ version' \in Nat \ {0}
    BY <1>0, <2>1, <2>3 DEF RotationInv, RotationTypeOK, OpRecord
  <2>5. \A o \in Operations : UnrotatedOK(o)'
    BY <2>2 DEF UnrotatedOK
  <2>. QED  BY <2>1, <2>2, <2>4, <2>5 DEF RotationInv
<1>10. CASE UNCHANGED rotationVars
  <2>1. op' = op /\ version' = version /\ client' = client /\ secrets' = secrets /\ boot' = boot
    BY <1>10 DEF rotationVars
  <2>. QED  BY <2>1 DEF RotationInv, RotationTypeOK, UnrotatedOK
<1>. QED
  BY <1>1, <1>2, <1>3, <1>4, <1>5, <1>6, <1>7, <1>8, <1>9, <1>10 DEF RotationNext

-----------------------------------------------------------------------------
(* The reminders.                                                             *)

JobRecord == [state : {"absent", "waiting", "active", "failed"}, attemptsMade : Nat]

(* A jobId the queue does not know has no attempts to its name.               *)
ReminderInv ==
    /\ job \in [JobIds -> JobRecord]
    /\ attempts \in [JobIds -> Nat] /\ dlq \in [JobIds -> Nat]
    /\ failedJobs \in Seq(JobIds)
    /\ \A j \in JobIds : job[j].state = "absent" => job[j].attemptsMade = 0
    /\ RemindersAreCounted

(* An empty queue.                                                            *)
LEMMA ReminderInvInit == ReminderInit => ReminderInv
<1>. SUFFICES ASSUME ReminderInit PROVE ReminderInv
  OBVIOUS
<1>1. /\ job \in [JobIds -> JobRecord] /\ \A j \in JobIds : job[j].attemptsMade = 0
      /\ attempts \in [JobIds -> Nat] /\ \A j \in JobIds : attempts[j] = 0
      /\ dlq \in [JobIds -> Nat] /\ \A j \in JobIds : dlq[j] = 0
  BY DEF ReminderInit, NoJob, JobRecord
<1>2. failedJobs \in Seq(JobIds)
  BY DEF ReminderInit
<1>. QED  BY <1>1, <1>2 DEF ReminderInv, RemindersAreCounted, OneJobPerWindow, DeadLetterOnlyWhenOver

(* A job that is given up is the last the queue forgets.                      *)
LEMMA KeptFacts ==
    ASSUME NEW j \in JobIds, failedJobs \in Seq(JobIds)
    PROVE  Kept(j) \in Seq(JobIds) /\ j \in Range(Kept(j))
<1>1. PICK r \in Seq(JobIds) : Kept(j) = Append(r, j)
  <2>1. CASE Len(failedJobs) < KeepFailed
    BY <2>1 DEF Kept
  <2>2. CASE ~(Len(failedJobs) < KeepFailed)
    <3>1. failedJobs # << >>  BY <2>2, ReminderAssumption
    <3>2. Tail(failedJobs) \in Seq(JobIds)  BY <3>1
    <3>. QED  BY <2>2, <3>2 DEF Kept
  <2>. QED  BY <2>1, <2>2
<1>2. /\ Append(r, j) \in Seq(JobIds) /\ Len(r) + 1 \in DOMAIN Append(r, j)
      /\ Append(r, j)[Len(r) + 1] = j
  OBVIOUS
<1>. QED  BY <1>1, <1>2 DEF Range

(* The schedulers, the worker and the dead letters keep it, when the          *)
(* processor counts as many attempts as the queue makes (handleReminder,      *)
(* onFailed).                                                                 *)
LEMMA ReminderInvNext ==
    ASSUME MaxAttempts >= QueueAttempts, ReminderInv, [ReminderNext]_reminderVars
    PROVE  ReminderInv'
<1>1. ASSUME UNCHANGED <<job, failedJobs, attempts, evicted, dlq>> PROVE ReminderInv'
  BY <1>1 DEF ReminderInv, RemindersAreCounted, OneJobPerWindow, DeadLetterOnlyWhenOver
<1>2. ASSUME NEW s \in Schedulers, ScheduleOne(s) PROVE ReminderInv'
  <2>1. PICK i \in sched[s].todo : LET j == <<i, sched[s].slot>> IN
          job' \in (IF j \in sched[s].inFlight THEN {job} ELSE {job, AddJob(j)})
    BY <1>2 DEF ScheduleOne
  <2>. DEFINE j == <<i, sched[s].slot>>
  <2>2. UNCHANGED <<failedJobs, attempts, evicted, dlq>>
    BY <1>2 DEF ScheduleOne
  <2>3. CASE job' = job  BY <1>1, <2>2, <2>3
  <2>4. CASE /\ job[j].state = "absent"
             /\ job' = [job EXCEPT ![j] = [NoJob EXCEPT !.state = "waiting"]]
    <3>. DEFINE new == [NoJob EXCEPT !.state = "waiting"]
    <3>1. new \in JobRecord /\ new.state = "waiting" /\ new.attemptsMade = 0
      BY DEF NoJob, JobRecord
    <3>. HIDE DEF new, j
    <3>2. job' \in [JobIds -> JobRecord]
      BY <2>4, <3>1 DEF ReminderInv, new
    <3>3. ASSUME NEW k \in JobIds
          PROVE  \/ job'[k] = job[k]
                 \/ job[k].state = "absent" /\ job'[k].state = "waiting" /\ job'[k].attemptsMade = 0
      BY <2>4, <3>1 DEF ReminderInv, new
    <3>4. ASSUME NEW k \in JobIds
          PROVE  /\ job'[k].attemptsMade = job[k].attemptsMade
                 /\ job[k].state = "failed" => job'[k].state = "failed"
                 /\ job'[k].state = "absent" => job'[k].attemptsMade = 0
      BY <3>3 DEF ReminderInv
    <3>. QED
      BY <2>2, <3>2, <3>4 DEF ReminderInv, RemindersAreCounted, OneJobPerWindow, DeadLetterOnlyWhenOver
  <2>. QED  BY <2>1, <2>3, <2>4 DEF AddJob
<1>3. ASSUME NEW j \in JobIds, StartAttempt(j) PROVE ReminderInv'
  <2>. DEFINE new == [job[j] EXCEPT !.state = "active"]
  <2>1. job' = [job EXCEPT ![j] = new] /\ job[j].state = "waiting" /\ UNCHANGED <<failedJobs, attempts, evicted, dlq>>
    BY <1>3 DEF StartAttempt
  <2>2. new \in JobRecord /\ new.state = "active" /\ new.attemptsMade = job[j].attemptsMade
    BY DEF ReminderInv, JobRecord
  <2>. HIDE DEF new
  <2>3. job' \in [JobIds -> JobRecord] /\ job'[j] = new /\ \A k \in JobIds \ {j} : job'[k] = job[k]
    BY <2>1, <2>2 DEF ReminderInv
  <2>4. ASSUME NEW k \in JobIds
        PROVE  /\ job'[k].attemptsMade = job[k].attemptsMade
               /\ job[k].state = "failed" => job'[k].state = "failed"
               /\ job'[k].state = "absent" => job'[k].attemptsMade = 0
    BY <2>1, <2>2, <2>3 DEF ReminderInv
  <2>. QED
    BY <2>1, <2>3, <2>4 DEF ReminderInv, RemindersAreCounted, OneJobPerWindow, DeadLetterOnlyWhenOver
<1>4. ASSUME NEW j \in JobIds, ReminderFails(j) PROVE ReminderInv'
  <2>. DEFINE n == job[j].attemptsMade + 1
              over == n >= QueueAttempts
              gone == IF over THEN Range(failedJobs) \ Range(Kept(j)) ELSE {}
              new == [state |-> IF over THEN "failed" ELSE "waiting", attemptsMade |-> n]
  <2>1. /\ job[j].state = "active"
        /\ attempts' = [attempts EXCEPT ![j] = attempts[j] + 1]
        /\ job' = [k \in JobIds |-> IF k \in gone THEN NoJob ELSE IF k = j THEN new ELSE job[k]]
        /\ failedJobs' = (IF over THEN Kept(j) ELSE failedJobs)
        /\ evicted' = evicted \cup gone
        /\ dlq' \in (IF Exhausted(n) THEN {dlq, [dlq EXCEPT ![j] = dlq[j] + 1]} ELSE {dlq})
    BY <1>4 DEF ReminderFails, ReminderInv
  <2>2. n \in Nat /\ attempts[j] + 1 \in Nat /\ dlq[j] + 1 \in Nat
    BY DEF ReminderInv, JobRecord
  <2>3. j \notin gone  BY KeptFacts DEF ReminderInv
  <2>4. failedJobs' \in Seq(JobIds)  BY <2>1, KeptFacts DEF ReminderInv
  <2>5. new \in JobRecord /\ new.attemptsMade = n /\ new.state \in {"failed", "waiting"}
        /\ (over => new.state = "failed")
    BY <2>2 DEF JobRecord
  <2>6. NoJob \in JobRecord /\ NoJob.attemptsMade = 0  BY DEF NoJob, JobRecord
  <2>7. Exhausted(n) => over  BY <2>2, ReminderAssumption DEF Exhausted
  <2>8. attempts' \in [JobIds -> Nat] /\ attempts'[j] = attempts[j] + 1 /\ \A k \in JobIds \ {j} : attempts'[k] = attempts[k]
    BY <2>1, <2>2 DEF ReminderInv
  <2>9. /\ dlq' \in [JobIds -> Nat] /\ \A k \in JobIds \ {j} : dlq'[k] = dlq[k]
        /\ dlq'[j] = dlq[j] \/ (dlq'[j] = dlq[j] + 1 /\ over)
    BY <2>1, <2>2, <2>7 DEF ReminderInv
  <2>. HIDE DEF n, over, gone, new
  <2>10. /\ job' \in [JobIds -> JobRecord] /\ job'[j] = new
         /\ \A k \in JobIds \ {j} : job'[k] = IF k \in gone THEN NoJob ELSE job[k]
    BY <2>1, <2>3, <2>5, <2>6 DEF ReminderInv
  <2>11. \A k \in JobIds : job'[k].state = "absent" => job'[k].attemptsMade = 0
    BY <2>5, <2>6, <2>10 DEF ReminderInv
  <2>12. OneJobPerWindow'
    <3>. SUFFICES ASSUME NEW k \in JobIds, k \notin evicted' PROVE attempts'[k] = job'[k].attemptsMade
      BY DEF OneJobPerWindow
    <3>1. k \notin evicted /\ k \notin gone /\ attempts[k] = job[k].attemptsMade
      BY <2>1 DEF ReminderInv, RemindersAreCounted, OneJobPerWindow
    <3>2. CASE k = j  BY <2>5, <2>8, <2>10, <3>1, <3>2 DEF n
    <3>3. CASE k # j  BY <2>8, <2>10, <3>1, <3>3
    <3>. QED  BY <3>2, <3>3
  <2>13. DeadLetterOnlyWhenOver'
    <3>. SUFFICES ASSUME NEW k \in JobIds, dlq'[k] > 0, k \notin evicted'
                 PROVE  job'[k].state = "failed" /\ dlq'[k] <= 1
      BY DEF DeadLetterOnlyWhenOver
    <3>1. k \notin evicted /\ k \notin gone /\ (dlq[k] > 0 => job[k].state = "failed" /\ dlq[k] <= 1) /\ dlq[k] \in Nat
      BY <2>1 DEF ReminderInv, RemindersAreCounted, DeadLetterOnlyWhenOver
    <3>2. CASE k = j
      <4>1. dlq[j] = 0  BY <2>1, <3>1, <3>2
      <4>. QED  BY <2>5, <2>9, <2>10, <3>2, <4>1
    <3>3. CASE k # j  BY <2>9, <2>10, <3>1, <3>3
    <3>. QED  BY <3>2, <3>3
  <2>. QED  BY <2>4, <2>8, <2>9, <2>10, <2>11, <2>12, <2>13 DEF ReminderInv, RemindersAreCounted
<1>. QED
  BY <1>1, <1>2, <1>3, <1>4 DEF ReminderNext, reminderVars, FindDueSoon, GetInFlight, SchedulerEnds, HandleDlq, NextWindow

(* A job in the queue has an attempt left, and no more failed jobs are kept   *)
(* than removeOnFail says.                                                    *)
MayTryAgain(r) ==
    /\ r \in JobRecord /\ r.attemptsMade <= QueueAttempts
    /\ r.state \in {"waiting", "active"} => r.attemptsMade < QueueAttempts

AttemptsBounded ==
    /\ job = [j \in JobIds |-> job[j]] /\ \A j \in JobIds : MayTryAgain(job[j])
    /\ failedJobs \in Seq(JobIds) /\ Len(failedJobs) <= KeepFailed

(* A jobId without a job, and one just added.                                 *)
LEMMA NewJobs == MayTryAgain(NoJob) /\ MayTryAgain([NoJob EXCEPT !.state = "waiting"])
BY ReminderAssumption DEF NoJob, MayTryAgain, JobRecord

(* An empty queue.                                                            *)
LEMMA AttemptsBoundedInit == ReminderInit => AttemptsBounded
<1>. SUFFICES ASSUME ReminderInit PROVE AttemptsBounded
  OBVIOUS
<1>1. job = [j \in JobIds |-> job[j]] /\ \A j \in JobIds : job[j] = NoJob  BY DEF ReminderInit
<1>2. failedJobs \in Seq(JobIds) /\ Len(failedJobs) <= KeepFailed
  BY ReminderAssumption DEF ReminderInit
<1>. QED  BY <1>1, <1>2, NewJobs DEF AttemptsBounded

(* The queue forgets a job for every one it keeps too many (removeOnFail).    *)
LEMMA KeptFew ==
    ASSUME NEW j \in JobIds, failedJobs \in Seq(JobIds), Len(failedJobs) <= KeepFailed
    PROVE  Len(Kept(j)) <= KeepFailed
<1>1. CASE Len(failedJobs) < KeepFailed
  <2>1. Len(Append(failedJobs, j)) = Len(failedJobs) + 1  OBVIOUS
  <2>. QED  BY <1>1, <2>1, ReminderAssumption DEF Kept
<1>2. CASE ~(Len(failedJobs) < KeepFailed)
  <2>1. failedJobs # << >> /\ Len(failedJobs) = KeepFailed  BY <1>2, ReminderAssumption
  <2>2. Tail(failedJobs) \in Seq(JobIds) /\ Len(Tail(failedJobs)) = Len(failedJobs) - 1  BY <2>1
  <2>3. Len(Append(Tail(failedJobs), j)) = Len(failedJobs)  BY <2>2
  <2>. QED  BY <1>2, <2>1, <2>3 DEF Kept
<1>. QED  BY <1>1, <1>2

(* Whatever the schedulers add and the worker tries, in any order.            *)
LEMMA AttemptsBoundedNext == AttemptsBounded /\ [ReminderNext]_reminderVars => AttemptsBounded'
<1>. SUFFICES ASSUME AttemptsBounded, [ReminderNext]_reminderVars PROVE AttemptsBounded'
  OBVIOUS
<1>1. ASSUME UNCHANGED <<job, failedJobs>> PROVE AttemptsBounded'
  BY <1>1 DEF AttemptsBounded
<1>2. ASSUME NEW j, NEW r, MayTryAgain(r), job' = [job EXCEPT ![j] = r], failedJobs' = failedJobs
      PROVE  AttemptsBounded'
  <2>1. job' = [k \in JobIds |-> job'[k]] /\ \A k \in JobIds : job'[k] = job[k] \/ job'[k] = r
    BY <1>2 DEF AttemptsBounded
  <2>. QED  BY <1>2, <2>1 DEF AttemptsBounded
<1>3. ASSUME NEW s \in Schedulers, ScheduleOne(s) PROVE AttemptsBounded'
  <2>1. PICK i \in sched[s].todo : LET j == <<i, sched[s].slot>> IN
          job' \in (IF j \in sched[s].inFlight THEN {job} ELSE {job, AddJob(j)})
    BY <1>3 DEF ScheduleOne
  <2>. DEFINE j == <<i, sched[s].slot>>
  <2>2. failedJobs' = failedJobs  BY <1>3 DEF ScheduleOne
  <2>3. job' = job \/ job' = [job EXCEPT ![j] = [NoJob EXCEPT !.state = "waiting"]]
    BY <2>1 DEF AddJob
  <2>. HIDE DEF j
  <2>. QED  BY <1>1, <1>2, <2>2, <2>3, NewJobs
<1>4. ASSUME NEW j \in JobIds, StartAttempt(j) PROVE AttemptsBounded'
  <2>. DEFINE new == [job[j] EXCEPT !.state = "active"]
  <2>1. job' = [job EXCEPT ![j] = new] /\ job[j].state = "waiting" /\ failedJobs' = failedJobs
    BY <1>4 DEF StartAttempt
  <2>2. MayTryAgain(job[j])  BY DEF AttemptsBounded
  <2>3. MayTryAgain(new)  BY <2>1, <2>2 DEF MayTryAgain, JobRecord
  <2>. HIDE DEF new
  <2>. QED  BY <1>2, <2>1, <2>3
<1>5. ASSUME NEW j \in JobIds, ReminderFails(j) PROVE AttemptsBounded'
  <2>. DEFINE n == job[j].attemptsMade + 1
              over == n >= QueueAttempts
              gone == IF over THEN Range(failedJobs) \ Range(Kept(j)) ELSE {}
              new == [state |-> IF over THEN "failed" ELSE "waiting", attemptsMade |-> n]
  <2>1. /\ job[j].state = "active"
        /\ job' = [k \in JobIds |-> IF k \in gone THEN NoJob ELSE IF k = j THEN new ELSE job[k]]
        /\ failedJobs' = (IF over THEN Kept(j) ELSE failedJobs)
    BY <1>5 DEF ReminderFails
  <2>2. MayTryAgain(job[j])  BY DEF AttemptsBounded
  <2>3. n \in Nat /\ n <= QueueAttempts  BY <2>1, <2>2, ReminderAssumption DEF MayTryAgain, JobRecord
  <2>4. MayTryAgain(new)  BY <2>3, ReminderAssumption DEF MayTryAgain, JobRecord
  <2>5. failedJobs' \in Seq(JobIds) /\ Len(failedJobs') <= KeepFailed
    BY <2>1, KeptFacts, KeptFew DEF AttemptsBounded
  <2>. HIDE DEF n, over, gone, new
  <2>6. job' = [k \in JobIds |-> job'[k]] /\ \A k \in JobIds : job'[k] \in {job[k], NoJob, new}
    BY <2>1
  <2>7. \A k \in JobIds : MayTryAgain(job'[k])
    BY <2>4, <2>6, NewJobs DEF AttemptsBounded
  <2>. QED  BY <2>5, <2>6, <2>7 DEF AttemptsBounded
<1>. QED
  BY <1>1, <1>3, <1>4, <1>5 DEF ReminderNext, reminderVars, FindDueSoon, GetInFlight, SchedulerEnds, HandleDlq, NextWindow

(* No job is tried more often than the queue is configured for.               *)
LEMMA ReminderTyped == AttemptsBounded => ReminderTypeOK
<1>. SUFFICES ASSUME AttemptsBounded PROVE ReminderTypeOK
  OBVIOUS
<1>1. ASSUME NEW j \in JobIds
      PROVE  job[j] \in [state : {"absent", "waiting", "active", "failed"}, attemptsMade : 0 .. QueueAttempts]
  <2>1. job[j] \in JobRecord /\ job[j].attemptsMade <= QueueAttempts  BY DEF AttemptsBounded, MayTryAgain
  <2>2. job[j].attemptsMade \in 0 .. QueueAttempts  BY <2>1, ReminderAssumption DEF JobRecord
  <2>. QED  BY <2>1, <2>2 DEF JobRecord
<1>2. job \in [JobIds -> [state : {"absent", "waiting", "active", "failed"}, attemptsMade : 0 .. QueueAttempts]]
  BY <1>1 DEF AttemptsBounded
<1>. QED  BY <1>2 DEF AttemptsBounded, ReminderTypeOK

-----------------------------------------------------------------------------
(* The anomaly detector.                                                      *)

Points == [amount : FundingAmounts, time : MonLedgers, id : MonLedgers \X Nat]

(* The points of the window carry the ledger of their funding as their time.  *)
MonitoringInv ==
    /\ funding \in [MonLedgers -> Seq(FundingAmounts)]
    /\ lproc \in [MonLedgers -> [at : {"future", "asked", "loop", "done"}, todo : Nat \ {0}]]
    /\ seen \subseteq MonLedgers \X Nat
    /\ volWindow \in Seq(Points)
    /\ \A i \in DOMAIN volWindow : volWindow[i].time = volWindow[i].id[1]
    /\ WindowKeepsRecent

(* Nothing has been evaluated yet.                                            *)
LEMMA MonitoringInvInit == MonitoringInit => MonitoringInv
<1>. SUFFICES ASSUME MonitoringInit PROVE MonitoringInv
  OBVIOUS
<1>1. funding \in [MonLedgers -> Seq(FundingAmounts)]
  <2>1. ASSUME NEW s \in BoundedSeq(FundingAmounts, MaxFundings) PROVE s \in Seq(FundingAmounts)
    <3>1. PICK m \in 0 .. MaxFundings : s \in [1 .. m -> FundingAmounts]
      BY <2>1 DEF BoundedSeq, SeqOf
    <3>. QED  BY <3>1, MonitoringAssumption
  <2>. QED  BY <2>1 DEF MonitoringInit
<1>2. lproc \in [MonLedgers -> [at : {"future", "asked", "loop", "done"}, todo : Nat \ {0}]]
  BY DEF MonitoringInit
<1>3. seen = {} /\ volWindow = << >>
  BY DEF MonitoringInit
<1>. QED  BY <1>1, <1>2, <1>3 DEF MonitoringInv, WindowKeepsRecent

(* A set of numbers that is not empty has a least one.                        *)
LEMMA LeastElement ==
    ASSUME NEW S \in SUBSET Nat, S # {}
    PROVE  \E x \in S : \A y \in S : x <= y
<1>. DEFINE R == OpToRel(<, Nat)
<1>1. IsWellFoundedOn(R, Nat)
  BY NatLessThanWellFounded, Zenon
<1>2. R = {ss \in Nat \X Nat : ss[1] < ss[2]}
  BY DEF OpToRel
<1>. HIDE DEF R
<1>3. PICK x \in S : \A y \in S : ~(<<y, x>> \in R)
  BY <1>1, WFMin
<1>4. ASSUME NEW y \in S, y < x PROVE FALSE
  <2>1. <<y, x>> \in Nat \X Nat /\ <<y, x>>[1] < <<y, x>>[2]
    BY <1>4
  <2>. QED  BY <1>2, <1>3, <2>1
<1>. QED  BY <1>4

(* The time of a point is a number.                                           *)
LEMMA PointTimes ==
    ASSUME NEW w \in Seq(Points), NEW i \in 1 .. Len(w)
    PROVE  w[i].time \in Nat
<1>1. w[i] \in Points
  OBVIOUS
<1>2. w[i].time \in MonLedgers
  BY <1>1 DEF Points
<1>. QED  BY <1>2, MonitoringAssumption DEF MonLedgers

(* The trimmed front of the window is well defined, and only holds points     *)
(* that are too old (pushAndTrim).                                            *)
LEMMA OutdatedFacts ==
    ASSUME NEW w \in Seq(Points), NEW now \in Nat
    PROVE  /\ Outdated(w, now) \in 0 .. Len(w)
           /\ \A i \in 1 .. Outdated(w, now) : w[i].time + FundingWindow < now
<1>. DEFINE P(n) == /\ \A i \in 1 .. n : w[i].time + FundingWindow < now
                    /\ n < Len(w) => w[n + 1].time + FundingWindow >= now
            S == {i \in 1 .. Len(w) : w[i].time + FundingWindow >= now}
<1>0. \A i \in 1 .. Len(w) : w[i].time \in Nat
  BY PointTimes
<1>1. \E n \in 0 .. Len(w) : P(n)
  <2>1. CASE S = {}
    <3>1. P(Len(w))  BY <1>0, <2>1, MonitoringAssumption
    <3>. QED  BY <3>1
  <2>2. CASE S # {}
    <3>1. PICK x \in S : \A y \in S : x <= y
      <4>1. S \in SUBSET Nat  OBVIOUS
      <4>. HIDE DEF S
      <4>. QED  BY <2>2, <4>1, LeastElement
    <3>2. x - 1 \in 0 .. Len(w) /\ (x - 1) + 1 = x
      BY <3>1
    <3>3. \A i \in 1 .. x - 1 : i \in 1 .. Len(w) /\ i \notin S
      BY <3>1
    <3>4. P(x - 1)  BY <1>0, <3>1, <3>2, <3>3, MonitoringAssumption
    <3>. QED  BY <3>2, <3>4
  <2>. QED  BY <2>1, <2>2
<1>2. Outdated(w, now) = CHOOSE n \in 0 .. Len(w) : P(n)
  BY DEF Outdated
<1>. HIDE DEF P
<1>3. Outdated(w, now) \in 0 .. Len(w) /\ P(Outdated(w, now))
  BY <1>1, <1>2
<1>. QED  BY <1>3 DEF P

(* Ledgers answered in any order, alerts and restarts keep it (evaluate,      *)
(* pushAndTrim).                                                              *)
LEMMA MonitoringInvNext == MonitoringInv /\ [MonitoringNext]_monitoringVars => MonitoringInv'
<1>. SUFFICES ASSUME MonitoringInv, [MonitoringNext]_monitoringVars PROVE MonitoringInv'
  OBVIOUS
<1>1. ASSUME UNCHANGED <<funding, volWindow, seen>>,
             lproc' \in [MonLedgers -> [at : {"future", "asked", "loop", "done"}, todo : Nat \ {0}]]
      PROVE  MonitoringInv'
  BY <1>1 DEF MonitoringInv, WindowKeepsRecent, InWindow
<1>2. ASSUME NEW l \in MonLedgers, LedgerArrives(l) \/ OperationsKnown(l) \/ LedgerDone(l) PROVE MonitoringInv'
  <2>1. /\ UNCHANGED <<funding, volWindow, seen>>
        /\ \E a \in {"asked", "loop", "done"} : lproc' = [lproc EXCEPT ![l].at = a]
    BY <1>2 DEF LedgerArrives, OperationsKnown, LedgerDone
  <2>2. lproc' \in [MonLedgers -> [at : {"future", "asked", "loop", "done"}, todo : Nat \ {0}]]
    <3>1. lproc \in [MonLedgers -> [at : {"future", "asked", "loop", "done"}, todo : Nat \ {0}]]
      BY Zenon DEF MonitoringInv
    <3>2. PICK a \in {"future", "asked", "loop", "done"} : lproc' = [lproc EXCEPT ![l].at = a]
      BY <2>1
    <3>. QED  BY <3>1, <3>2
  <2>. QED  BY <1>1, <2>1, <2>2
<1>3. ASSUME NEW l \in MonLedgers, Evaluate(l) PROVE MonitoringInv'
  <2>. DEFINE k == lproc[l].todo
              p == Point(l, k)
              v == Append(volWindow, p)
              n == Outdated(v, l)
  <2>1. /\ k <= Len(funding[l]) /\ volWindow' = SubSeq(v, n + 1, Len(v)) /\ seen' = seen \cup {<<l, k>>}
        /\ funding' = funding /\ lproc' = [lproc EXCEPT ![l].todo = @ + 1]
    BY <1>3 DEF Evaluate, PushAndTrim, Point
  <2>2. k \in Nat \ {0} /\ l \in Nat
    <3>1. lproc \in [MonLedgers -> [at : {"future", "asked", "loop", "done"}, todo : Nat \ {0}]]
      BY Zenon DEF MonitoringInv
    <3>2. l \in Nat  BY MonitoringAssumption DEF MonLedgers
    <3>. QED  BY <3>1, <3>2
  <2>3. p \in Points /\ p.time = l /\ p.id = <<l, k>> /\ p.id[1] = l
    <3>1. funding[l] \in Seq(FundingAmounts)  BY DEF MonitoringInv
    <3>2. funding[l][k] \in FundingAmounts  BY <2>1, <2>2, <3>1
    <3>. QED  BY <2>2, <3>2 DEF Points, Point
  <2>. HIDE DEF k, p
  <2>4. /\ volWindow \in Seq(Points) /\ v \in Seq(Points) /\ Len(v) = Len(volWindow) + 1 /\ Len(volWindow) \in Nat
        /\ v[Len(v)] = p /\ \A i \in 1 .. Len(volWindow) : v[i] = volWindow[i]
    BY <2>3 DEF MonitoringInv
  <2>. HIDE DEF v
  <2>5. n \in 0 .. Len(v) /\ \A i \in 1 .. n : v[i].time + FundingWindow < l
    BY <2>2, <2>4, OutdatedFacts
  <2>. HIDE DEF n
  <2>6. \A i \in 1 .. Len(v) : v[i].time = v[i].id[1] /\ v[i].time \in Nat
    <3>1. \A i \in 1 .. Len(volWindow) : volWindow[i].time = volWindow[i].id[1] /\ volWindow[i].time \in Nat
      BY <2>4, PointTimes DEF MonitoringInv
    <3>2. ASSUME NEW i \in 1 .. Len(v) PROVE v[i].time = v[i].id[1] /\ v[i].time \in Nat
      <4>1. CASE i = Len(v)  BY <2>2, <2>3, <2>4, <4>1
      <4>2. CASE i # Len(v)
        <5>1. i \in 1 .. Len(volWindow)  BY <2>4, <4>2
        <5>. QED  BY <2>4, <3>1, <5>1
      <4>. QED  BY <4>1, <4>2
    <3>. QED  BY <3>2
  <2>7. n # Len(v)
    BY <2>2, <2>3, <2>4, <2>5, MonitoringAssumption
  <2>8. /\ volWindow' \in Seq(Points) /\ Len(volWindow') = Len(v) - n
        /\ \A i \in 1 .. Len(v) - n : volWindow'[i] = v[n + i]
    <3>1. Len(v) \in Nat /\ n \in Nat /\ n + 1 \in 1 .. Len(v)  BY <2>4, <2>5, <2>7
    <3>2. volWindow' = SubSeq(v, n + 1, Len(v)) /\ v \in Seq(Points)  BY <2>1, <2>4
    <3>3. SubSeq(v, n + 1, Len(v)) \in Seq(Points)  BY <3>1, <3>2
    <3>4. Len(SubSeq(v, n + 1, Len(v))) = Len(v) - n  BY <3>1, <3>2
    <3>5. \A i \in 1 .. Len(v) - n : SubSeq(v, n + 1, Len(v))[i] = v[n + i]  BY <3>1, <3>2
    <3>. QED  BY <3>2, <3>3, <3>4, <3>5
  <2>9. \A i \in DOMAIN volWindow' : volWindow'[i].time = volWindow'[i].id[1]
    <3>. SUFFICES ASSUME NEW i \in 1 .. Len(v) - n PROVE volWindow'[i].time = volWindow'[i].id[1]
      BY <2>8
    <3>1. n + i \in 1 .. Len(v)  BY <2>4, <2>5
    <3>. QED  BY <2>6, <2>8, <3>1
  <2>10. ASSUME NEW i \in 1 .. Len(v), v[i].time + FundingWindow >= l PROVE v[i].id \in InWindow'
    <3>1. i > n  BY <2>4, <2>5, <2>6, <2>10, <2>2, MonitoringAssumption
    <3>2. i - n \in 1 .. Len(v) - n /\ n + (i - n) = i  BY <2>4, <2>5, <3>1
    <3>3. i - n \in DOMAIN volWindow' /\ volWindow'[i - n] = v[i]  BY <2>8, <3>2
    <3>. QED  BY <3>3 DEF InWindow
  <2>11. WindowKeepsRecent'
    <3>. SUFFICES ASSUME NEW e \in seen', \A f \in seen' : f[1] <= e[1] + FundingWindow
                 PROVE  e \in InWindow'
      BY DEF WindowKeepsRecent
    <3>1. l <= e[1] + FundingWindow
      <4>1. <<l, k>> \in seen' /\ <<l, k>>[1] = l  BY <2>1
      <4>. QED  BY <4>1
    <3>2. CASE e = <<l, k>>
      <4>1. Len(v) \in 1 .. Len(v)  BY <2>4
      <4>2. p.time + FundingWindow >= l  BY <2>2, <2>3, MonitoringAssumption
      <4>. QED  BY <2>3, <2>4, <2>10, <3>2, <4>1, <4>2
    <3>3. CASE e \in seen
      <4>1. e \in InWindow  BY <2>1, <3>3 DEF MonitoringInv, WindowKeepsRecent
      <4>2. PICK i \in DOMAIN volWindow : volWindow[i].id = e  BY <4>1 DEF InWindow
      <4>3. i \in 1 .. Len(volWindow) /\ i \in 1 .. Len(v)  BY <2>4, <4>2
      <4>4. v[i].id = e /\ v[i].time = e[1]  BY <2>4, <2>6, <4>2, <4>3
      <4>5. v[i].time + FundingWindow >= l  BY <2>2, <2>6, <3>1, <4>3, <4>4, MonitoringAssumption
      <4>. QED  BY <2>10, <4>3, <4>4, <4>5
    <3>. QED  BY <2>1, <3>2, <3>3
  <2>12. lproc' \in [MonLedgers -> [at : {"future", "asked", "loop", "done"}, todo : Nat \ {0}]]
    <3>. DEFINE r == [lproc[l] EXCEPT !.todo = lproc[l].todo + 1]
    <3>1. lproc[l].todo + 1 \in Nat \ {0}  BY <2>2 DEF k
    <3>2. r \in [at : {"future", "asked", "loop", "done"}, todo : Nat \ {0}]  BY <3>1 DEF MonitoringInv
    <3>3. lproc' = [lproc EXCEPT ![l] = r]  BY <2>1 DEF MonitoringInv
    <3>. HIDE DEF r
    <3>. QED  BY <3>2, <3>3 DEF MonitoringInv
  <2>13. seen' \subseteq MonLedgers \X Nat
    BY <2>1, <2>2 DEF MonitoringInv
  <2>. QED  BY <2>1, <2>8, <2>9, <2>11, <2>12, <2>13 DEF MonitoringInv
<1>4. ASSUME NEW l \in MonLedgers, DispatchAlert(l) PROVE MonitoringInv'
  BY <1>1, <1>4 DEF DispatchAlert, MonitoringInv
<1>5. ASSUME NEW l \in MonLedgers, ProcessLedgerRejects(l) PROVE MonitoringInv'
  <2>1. /\ funding' = funding /\ volWindow' = << >> /\ seen' = {}
        /\ lproc' = [k \in MonLedgers |-> IF lproc[k].at = "future" THEN lproc[k]
                                          ELSE [lproc[k] EXCEPT !.at = "done"]]
    BY <1>5 DEF ProcessLedgerRejects
  <2>2. lproc' \in [MonLedgers -> [at : {"future", "asked", "loop", "done"}, todo : Nat \ {0}]]
    BY <2>1 DEF MonitoringInv
  <2>. QED  BY <2>1, <2>2 DEF MonitoringInv, WindowKeepsRecent
<1>6. CASE UNCHANGED monitoringVars
  BY <1>1, <1>6 DEF monitoringVars, MonitoringInv
<1>. QED
  BY <1>2, <1>3, <1>4, <1>5, <1>6 DEF MonitoringNext

(* No funding is evaluated twice: a ledger's next one lies after all of its   *)
(* that were, and the points of the window are those of different fundings.   *)
EvaluatedOnce ==
    /\ \A l \in MonLedgers : Len(funding[l]) <= MaxFundings
    /\ seen \subseteq MonLedgers \X (1 .. MaxFundings)
    /\ \A e \in seen : e[2] < lproc[e[1]].todo
    /\ InWindow \subseteq seen
    /\ \A i, j \in DOMAIN volWindow : volWindow[i].id = volWindow[j].id => i = j

(* Nothing has been evaluated yet.                                            *)
LEMMA EvaluatedOnceInit == MonitoringInit => EvaluatedOnce
<1>. SUFFICES ASSUME MonitoringInit PROVE EvaluatedOnce
  OBVIOUS
<1>1. ASSUME NEW l \in MonLedgers PROVE Len(funding[l]) <= MaxFundings
  <2>1. PICK m \in 0 .. MaxFundings : funding[l] \in [1 .. m -> FundingAmounts]
    <3>1. funding \in [MonLedgers -> BoundedSeq(FundingAmounts, MaxFundings)]  BY Zenon DEF MonitoringInit
    <3>2. funding[l] \in BoundedSeq(FundingAmounts, MaxFundings)  BY <3>1, Zenon
    <3>. QED  BY <3>2, Zenon DEF BoundedSeq, SeqOf
  <2>2. Len(funding[l]) = m  BY <2>1, MonitoringAssumption
  <2>. QED  BY <2>1, <2>2, MonitoringAssumption
<1>2. seen = {} /\ volWindow = << >>  BY DEF MonitoringInit
<1>. QED  BY <1>1, <1>2 DEF EvaluatedOnce, InWindow

(* What pushAndTrim leaves: the new point, and before it the end of the old   *)
(* window.                                                                    *)
LEMMA WindowAfterEvaluate ==
    ASSUME MonitoringInv, NEW l \in MonLedgers, Evaluate(l)
    PROVE  \E n \in 0 .. Len(volWindow) :
              /\ Len(volWindow') = Len(volWindow) + 1 - n /\ DOMAIN volWindow' = 1 .. Len(volWindow')
              /\ volWindow'[Len(volWindow')].id = <<l, lproc[l].todo>>
              /\ \A i \in 1 .. Len(volWindow) - n : volWindow'[i] = volWindow[n + i]
<1>. DEFINE k == lproc[l].todo
            p == Point(l, k)
            v == Append(volWindow, p)
            n == Outdated(v, l)
<1>1. k <= Len(funding[l]) /\ volWindow' = SubSeq(v, n + 1, Len(v))
  BY DEF Evaluate, PushAndTrim, Point
<1>2. k \in Nat \ {0} /\ l \in Nat
  BY MonitoringAssumption DEF MonitoringInv, MonLedgers
<1>3. p \in Points /\ p.time = l /\ p.id = <<l, k>>
  <2>1. funding[l] \in Seq(FundingAmounts)  BY DEF MonitoringInv
  <2>2. funding[l][k] \in FundingAmounts  BY <1>1, <1>2, <2>1
  <2>. QED  BY <1>2, <2>2 DEF Points, Point
<1>. HIDE DEF k, p
<1>4. /\ volWindow \in Seq(Points) /\ v \in Seq(Points) /\ Len(v) = Len(volWindow) + 1 /\ Len(volWindow) \in Nat
      /\ v[Len(v)] = p /\ \A i \in 1 .. Len(volWindow) : v[i] = volWindow[i]
  BY <1>3 DEF MonitoringInv
<1>. HIDE DEF v
<1>5. n \in 0 .. Len(v) /\ \A i \in 1 .. n : v[i].time + FundingWindow < l
  BY <1>2, <1>4, OutdatedFacts
<1>. HIDE DEF n
<1>6. n \in 0 .. Len(volWindow)
  BY <1>2, <1>3, <1>4, <1>5, MonitoringAssumption
<1>7. /\ volWindow' \in Seq(Points) /\ Len(volWindow') = Len(v) - n
      /\ \A i \in 1 .. Len(v) - n : volWindow'[i] = v[n + i]
  BY <1>1, <1>4, <1>6
<1>8. volWindow'[Len(volWindow')] = p
  <2>1. Len(v) - n \in 1 .. Len(v) - n /\ n + (Len(v) - n) = Len(v)  BY <1>4, <1>6
  <2>. QED  BY <1>4, <1>7, <2>1
<1>9. ASSUME NEW i \in 1 .. Len(volWindow) - n PROVE volWindow'[i] = volWindow[n + i]
  <2>1. i \in 1 .. Len(v) - n /\ n + i \in 1 .. Len(volWindow)  BY <1>4, <1>6
  <2>. QED  BY <1>4, <1>7, <2>1
<1>10. DOMAIN volWindow' = 1 .. Len(volWindow') /\ Len(volWindow') = Len(volWindow) + 1 - n
  BY <1>4, <1>6, <1>7
<1>11. volWindow'[Len(volWindow')].id = <<l, lproc[l].todo>>
  BY <1>3, <1>8 DEF k
<1>. QED  BY <1>6, <1>9, <1>10, <1>11

(* A ledger's loop goes through its fundings once (processLedger, evaluate).  *)
LEMMA EvaluatedOnceNext == MonitoringInv /\ EvaluatedOnce /\ [MonitoringNext]_monitoringVars => EvaluatedOnce'
<1>. SUFFICES ASSUME MonitoringInv, EvaluatedOnce, [MonitoringNext]_monitoringVars PROVE EvaluatedOnce'
  OBVIOUS
<1>1. ASSUME UNCHANGED <<funding, volWindow, seen>>, \A l \in MonLedgers : lproc'[l].todo = lproc[l].todo
      PROVE  EvaluatedOnce'
  <2>1. \A e \in seen : e[1] \in MonLedgers  BY DEF EvaluatedOnce
  <2>. QED  BY <1>1, <2>1 DEF EvaluatedOnce, InWindow
<1>2. ASSUME NEW l \in MonLedgers, LedgerArrives(l) \/ OperationsKnown(l) \/ LedgerDone(l) PROVE EvaluatedOnce'
  <2>1. /\ UNCHANGED <<funding, volWindow, seen>>
        /\ \E a \in {"asked", "loop", "done"} : lproc' = [lproc EXCEPT ![l].at = a]
    BY <1>2 DEF LedgerArrives, OperationsKnown, LedgerDone
  <2>2. \A k \in MonLedgers : lproc'[k].todo = lproc[k].todo  BY <2>1 DEF MonitoringInv
  <2>. QED  BY <1>1, <2>1, <2>2
<1>3. ASSUME NEW l \in MonLedgers, Evaluate(l) PROVE EvaluatedOnce'
  <2>. DEFINE k == lproc[l].todo
              new == <<l, k>>
  <2>1. /\ k <= Len(funding[l]) /\ seen' = seen \cup {new} /\ funding' = funding
        /\ lproc' = [lproc EXCEPT ![l].todo = @ + 1]
    BY <1>3 DEF Evaluate
  <2>2. k \in Nat \ {0} /\ new[1] = l /\ new[2] = k  BY DEF MonitoringInv
  <2>3. lproc'[l].todo = k + 1 /\ \A m \in MonLedgers : m # l => lproc'[m].todo = lproc[m].todo
    BY <2>1 DEF MonitoringInv
  <2>4. k \in 1 .. MaxFundings
    <3>1. Len(funding[l]) \in Nat /\ Len(funding[l]) <= MaxFundings  BY DEF MonitoringInv, EvaluatedOnce
    <3>. QED  BY <2>1, <2>2, <3>1, MonitoringAssumption
  <2>5. new \notin seen  BY <2>2 DEF EvaluatedOnce
  <2>6. \A e \in seen' : e[2] < lproc'[e[1]].todo
    <3>. SUFFICES ASSUME NEW e \in seen' PROVE e[2] < lproc'[e[1]].todo
      OBVIOUS
    <3>1. CASE e = new  BY <2>2, <2>3, <3>1
    <3>2. CASE e \in seen
      <4>1. e[1] \in MonLedgers /\ e[2] \in Nat /\ e[2] < lproc[e[1]].todo
        BY <3>2, MonitoringAssumption DEF EvaluatedOnce
      <4>. QED  BY <2>2, <2>3, <4>1
    <3>. QED  BY <2>1, <3>1, <3>2
  <2>7. PICK n \in 0 .. Len(volWindow) :
              /\ Len(volWindow') = Len(volWindow) + 1 - n /\ DOMAIN volWindow' = 1 .. Len(volWindow')
              /\ volWindow'[Len(volWindow')].id = new
              /\ \A i \in 1 .. Len(volWindow) - n : volWindow'[i] = volWindow[n + i]
    BY <1>3, WindowAfterEvaluate
  <2>. HIDE DEF k, new
  <2>8. Len(volWindow) \in Nat /\ DOMAIN volWindow = 1 .. Len(volWindow)  BY DEF MonitoringInv
  <2>9. \A i \in DOMAIN volWindow : volWindow[i].id \in seen  BY DEF EvaluatedOnce, InWindow
  <2>. DEFINE z == Len(volWindow')
  <2>10. ASSUME NEW i \in DOMAIN volWindow'
         PROVE  \/ i = z /\ volWindow'[i].id = new
                \/ i # z /\ n + i \in DOMAIN volWindow /\ volWindow'[i].id = volWindow[n + i].id /\ volWindow'[i].id \in seen
    <3>1. CASE i = z  BY <2>7, <3>1
    <3>2. CASE i # z
      <4>1. i \in 1 .. Len(volWindow) - n /\ n + i \in 1 .. Len(volWindow)  BY <2>7, <2>8, <3>2
      <4>. QED  BY <2>7, <2>8, <2>9, <3>2, <4>1
    <3>. QED  BY <3>1, <3>2
  <2>11. InWindow' \subseteq seen'  BY <2>1, <2>10 DEF InWindow
  <2>12. ASSUME NEW i \in DOMAIN volWindow', NEW j \in DOMAIN volWindow', volWindow'[i].id = volWindow'[j].id
         PROVE  i = j
    <3>1. CASE i = z \/ j = z  BY <2>5, <2>10, <2>12, <3>1
    <3>2. CASE i # z /\ j # z
      <4>1. n + i \in DOMAIN volWindow /\ n + j \in DOMAIN volWindow /\ volWindow[n + i].id = volWindow[n + j].id
        BY <2>10, <2>12, <3>2
      <4>2. n + i = n + j  BY <4>1 DEF EvaluatedOnce
      <4>3. i \in Nat /\ j \in Nat /\ n \in Nat  BY <2>7, <2>8
      <4>. QED  BY <4>2, <4>3
    <3>. QED  BY <3>1, <3>2
  <2>13. seen' \subseteq MonLedgers \X (1 .. MaxFundings)  BY <2>1, <2>4 DEF EvaluatedOnce, new
  <2>14. \A m \in MonLedgers : Len(funding'[m]) <= MaxFundings  BY <2>1 DEF EvaluatedOnce
  <2>. QED  BY <2>6, <2>11, <2>12, <2>13, <2>14 DEF EvaluatedOnce
<1>4. ASSUME NEW l \in MonLedgers, DispatchAlert(l) PROVE EvaluatedOnce'
  BY <1>1, <1>4 DEF DispatchAlert
<1>5. ASSUME NEW l \in MonLedgers, ProcessLedgerRejects(l) PROVE EvaluatedOnce'
  <2>1. funding' = funding /\ volWindow' = << >> /\ seen' = {}  BY <1>5 DEF ProcessLedgerRejects
  <2>. QED  BY <2>1 DEF EvaluatedOnce, InWindow
<1>6. CASE UNCHANGED monitoringVars
  BY <1>1, <1>6 DEF monitoringVars
<1>. QED  BY <1>2, <1>3, <1>4, <1>5, <1>6 DEF MonitoringNext

(* The window holds a funding at most once, so the fundings there are bound it.*)
LEMMA MonitoringTyped == MonitoringInv /\ EvaluatedOnce => MonitoringTypeOK
<1>. SUFFICES ASSUME MonitoringInv, EvaluatedOnce PROVE MonitoringTypeOK
  OBVIOUS
<1>. DEFINE D == 1 .. Len(volWindow)
            T == MonLedgers \X (1 .. MaxFundings)
            f == [i \in D |-> volWindow[i].id]
<1>1. Len(volWindow) \in Nat /\ DOMAIN volWindow = D  BY DEF MonitoringInv
<1>2. /\ IsFiniteSet(MonLedgers) /\ Cardinality(MonLedgers) = MaxMonLedger
      /\ IsFiniteSet(1 .. MaxFundings) /\ Cardinality(1 .. MaxFundings) = MaxFundings
      /\ IsFiniteSet(D) /\ Cardinality(D) = Len(volWindow)
  <2>1. \A m \in Nat : IsFiniteSet(1 .. m) /\ Cardinality(1 .. m) = m
    <3>. SUFFICES ASSUME NEW m \in Nat PROVE IsFiniteSet(1 .. m) /\ Cardinality(1 .. m) = m
      OBVIOUS
    <3>1. 1 \in Int /\ m \in Int  OBVIOUS
    <3>. QED  BY <3>1, FS_Interval
  <2>. QED  BY <1>1, <2>1, MonitoringAssumption DEF MonLedgers
<1>3. IsFiniteSet(T) /\ Cardinality(T) = MaxMonLedger * MaxFundings
  BY <1>2, FS_Product
<1>4. f \in [D -> T] /\ \A i, j \in D : f[i] = f[j] => i = j
  BY <1>1 DEF EvaluatedOnce, InWindow
<1>. HIDE DEF f, T, D
<1>5. f \in Injection(D, T)  BY <1>4 DEF Injection, IsInjective
<1>6. Cardinality(D) <= Cardinality(T)  BY <1>3, <1>5, FS_Injection
<1>. QED  BY <1>2, <1>3, <1>6 DEF MonitoringTypeOK, EvaluatedOnce

-----------------------------------------------------------------------------
(* The rate limiter.                                                          *)

(* The request has a slot of this counter, or Redis could not be asked.       *)
HasSlot(r, c) == \/ \E t \in 0 .. MaxClock : <<t, r>> \in granted[c]
                 \/ <<r, c>> \in waved

(* A script on its way belongs to the tier its request waits for, and a       *)
(* request in the second tier has passed the first.                           *)
ScriptOK(s) ==
    /\ phase[s.request] \in {"tier1", "tier2"}
    /\ phase[s.request] = "tier1" => s.counter = Tier1Counter(s.request)
    /\ phase[s.request] = "tier2" =>
         /\ s.counter = <<"wallet", caller[s.request]>>
         /\ HasSlot(s.request, Tier1Counter(s.request))

(* A request waits for one script at a time, on one instance.                 *)
OneScript ==
    \A i, j \in Instances : \A m \in DOMAIN channel[i], n \in DOMAIN channel[j] :
        channel[i][m].request = channel[j][n].request => i = j /\ m = n

Passed(r) ==
    phase[r] = "passed" =>
        /\ HasSlot(r, Tier1Counter(r))
        /\ WalletTierApplies(r) => HasSlot(r, <<"wallet", caller[r]>>)

RateTypes ==
    /\ clock \in 0 .. MaxClock
    /\ phase \in [HttpRequests -> Phases]
    /\ caller \in [HttpRequests -> Identity] /\ wallet \in [HttpRequests -> BOOLEAN]
    /\ channel \in [Instances -> Seq(Script)]
    /\ granted \in [Counter -> SUBSET ((0 .. MaxClock) \X HttpRequests)]

PassInv ==
    /\ RateTypes
    /\ \A i \in Instances : \A n \in DOMAIN channel[i] : ScriptOK(channel[i][n])
    /\ OneScript
    /\ \A r \in HttpRequests : Passed(r)

(* No request yet.                                                            *)
LEMMA PassInvInit == RateInit => PassInv
<1>. SUFFICES ASSUME RateInit PROVE PassInv
  OBVIOUS
<1>1. RateTypes
  BY RateAssumption DEF RateInit, RateTypes, Phases
<1>2. \A i \in Instances : channel[i] = << >>
  BY DEF RateInit
<1>3. \A r \in HttpRequests : phase[r] = "new"
  BY DEF RateInit
<1>. QED  BY <1>1, <1>2, <1>3 DEF PassInv, OneScript, Passed

(* Who is counted, and where.                                                 *)
LEMMA CounterTypes ==
    ASSUME RateTypes, NEW r \in HttpRequests
    PROVE  Tier1Counter(r) \in Counter /\ <<"wallet", caller[r]>> \in Counter
BY DEF RateTypes, Tier1Counter, Counter, Tier

(* An answered script leaves the channel; the next tier's may be appended.    *)
LEMMA ChannelAfterCheck ==
    ASSUME RateTypes, NEW i \in Instances, channel[i] # << >>, NEW allowed \in BOOLEAN,
           NEW r \in HttpRequests, AfterCheck(i, r, allowed)
    PROVE  /\ channel' \in [Instances -> Seq(Script)]
           /\ \A j \in Instances \ {i} : channel'[j] = channel[j]
           /\ \A n \in DOMAIN channel'[i] :
                \/ n + 1 \in DOMAIN channel[i] /\ channel'[i][n] = channel[i][n + 1]
                \/ /\ n = Len(channel[i]) /\ channel'[i][n] = NewScript(r, <<"wallet", caller[r]>>)
                   /\ allowed /\ phase[r] = "tier1" /\ WalletTierApplies(r) /\ phase'[r] = "tier2"
           /\ phase' \in [HttpRequests -> Phases]
           /\ \A q \in HttpRequests \ {r} : phase'[q] = phase[q]
           /\ phase'[r] \in {"tier2", "passed", "rejected"}
           /\ phase'[r] = "passed" => allowed /\ ~(phase[r] = "tier1" /\ WalletTierApplies(r))
<1>. DEFINE rest == Tail(channel[i])
            new == NewScript(r, <<"wallet", caller[r]>>)
<1>1. channel[i] \in Seq(Script) /\ rest \in Seq(Script) /\ Len(rest) = Len(channel[i]) - 1
      /\ \A n \in 1 .. Len(rest) : rest[n] = channel[i][n + 1]
  BY DEF RateTypes
<1>2. new \in Script
  BY CounterTypes DEF NewScript, Script, RateTypes
<1>3. CASE allowed /\ phase[r] = "tier1" /\ WalletTierApplies(r)
  <2>. DEFINE c == Append(rest, new)
  <2>1. phase' = [phase EXCEPT ![r] = "tier2"] /\ channel' = [channel EXCEPT ![i] = c]
    BY <1>3 DEF AfterCheck
  <2>. HIDE DEF rest, new
  <2>2. c \in Seq(Script) /\ Len(c) = Len(rest) + 1 /\ DOMAIN c = 1 .. Len(rest) + 1
        /\ c[Len(rest) + 1] = new /\ \A n \in 1 .. Len(rest) : c[n] = rest[n]
    BY <1>1, <1>2
  <2>. HIDE DEF c
  <2>3. channel' \in [Instances -> Seq(Script)] /\ channel'[i] = c /\ \A j \in Instances \ {i} : channel'[j] = channel[j]
    BY <2>1, <2>2 DEF RateTypes
  <2>4. phase' \in [HttpRequests -> Phases] /\ phase'[r] = "tier2" /\ \A q \in HttpRequests \ {r} : phase'[q] = phase[q]
    BY <2>1 DEF RateTypes, Phases
  <2>5. ASSUME NEW n \in DOMAIN c
        PROVE  \/ n + 1 \in DOMAIN channel[i] /\ c[n] = channel[i][n + 1]
               \/ n = Len(channel[i]) /\ c[n] = new
    <3>1. Len(channel[i]) \in Nat /\ DOMAIN channel[i] = 1 .. Len(channel[i])  BY <1>1
    <3>. DEFINE len == Len(channel[i])
    <3>. HIDE DEF len
    <3>2. Len(rest) = len - 1 /\ len \in Nat  BY <1>1, <3>1 DEF len
    <3>3. CASE n = Len(rest) + 1  BY <2>2, <3>2, <3>3 DEF len
    <3>4. CASE n # Len(rest) + 1
      <4>1. n \in 1 .. Len(rest) /\ n + 1 \in 1 .. len  BY <2>2, <3>2, <3>4
      <4>. QED  BY <1>1, <2>2, <3>1, <4>1 DEF len
    <3>. QED  BY <3>3, <3>4
  <2>. QED  BY <1>3, <2>3, <2>4, <2>5 DEF new
<1>4. CASE ~(allowed /\ phase[r] = "tier1" /\ WalletTierApplies(r))
  <2>. DEFINE a == IF allowed THEN "passed" ELSE "rejected"
  <2>1. phase' = [phase EXCEPT ![r] = a] /\ channel' = [channel EXCEPT ![i] = rest]
    BY <1>4 DEF AfterCheck
  <2>2. a \in {"passed", "rejected"} /\ (a = "passed" => allowed)  OBVIOUS
  <2>. HIDE DEF rest, a
  <2>3. channel' \in [Instances -> Seq(Script)] /\ channel'[i] = rest /\ \A j \in Instances \ {i} : channel'[j] = channel[j]
    BY <1>1, <2>1 DEF RateTypes
  <2>4. phase' \in [HttpRequests -> Phases] /\ phase'[r] = a /\ \A q \in HttpRequests \ {r} : phase'[q] = phase[q]
    BY <2>1, <2>2 DEF RateTypes, Phases
  <2>5. \A n \in DOMAIN rest : n + 1 \in DOMAIN channel[i] /\ rest[n] = channel[i][n + 1]
    <3>1. DOMAIN rest = 1 .. Len(rest) /\ DOMAIN channel[i] = 1 .. Len(channel[i]) /\ Len(channel[i]) \in Nat  BY <1>1
    <3>. QED  BY <1>1, <3>1
  <2>. QED  BY <1>4, <2>2, <2>3, <2>4, <2>5
<1>. QED  BY <1>3, <1>4

(* Whatever a check answers, it keeps the requests with their scripts: one    *)
(* that was allowed has its slot.                                             *)
LEMMA CheckKeepsPassing ==
    ASSUME PassInv, NEW i \in Instances, channel[i] # << >>, NEW allowed \in BOOLEAN,
           NEW s \in Script, s = Head(channel[i]),
           AfterCheck(i, s.request, allowed), UNCHANGED <<clock, caller, wallet>>,
           granted' \in [Counter -> SUBSET ((0 .. MaxClock) \X HttpRequests)],
           \A c \in Counter : granted[c] \subseteq granted'[c], waved \subseteq waved',
           allowed => HasSlot(s.request, s.counter)'
    PROVE  PassInv'
<1>. DEFINE r == s.request
<1>1. channel[i] \in Seq(Script) /\ s = channel[i][1] /\ 1 \in DOMAIN channel[i]
  BY DEF PassInv, RateTypes
<1>2. r \in HttpRequests /\ s.counter \in Counter
  BY DEF Script
<1>3. ScriptOK(s)
  BY <1>1 DEF PassInv
<1>4. /\ channel' \in [Instances -> Seq(Script)]
      /\ \A j \in Instances \ {i} : channel'[j] = channel[j]
      /\ \A n \in DOMAIN channel'[i] :
           \/ n + 1 \in DOMAIN channel[i] /\ channel'[i][n] = channel[i][n + 1]
           \/ /\ n = Len(channel[i]) /\ channel'[i][n] = NewScript(r, <<"wallet", caller[r]>>)
              /\ allowed /\ phase[r] = "tier1" /\ WalletTierApplies(r) /\ phase'[r] = "tier2"
      /\ phase' \in [HttpRequests -> Phases]
      /\ \A q \in HttpRequests \ {r} : phase'[q] = phase[q]
      /\ phase'[r] \in {"tier2", "passed", "rejected"}
      /\ phase'[r] = "passed" => allowed /\ ~(phase[r] = "tier1" /\ WalletTierApplies(r))
  <2>1. RateTypes /\ r \in HttpRequests /\ AfterCheck(i, r, allowed)
    BY <1>2 DEF PassInv
  <2>. HIDE DEF r
  <2>. QED  BY <2>1, ChannelAfterCheck
<1>5. \A q \in HttpRequests : Tier1Counter(q)' = Tier1Counter(q) /\ (WalletTierApplies(q)' <=> WalletTierApplies(q))
  BY DEF Tier1Counter, WalletTierApplies
<1>6. \A q \in HttpRequests, c \in Counter : HasSlot(q, c) => HasSlot(q, c)'
  BY DEF HasSlot
<1>7. \A q \in HttpRequests : Tier1Counter(q) \in Counter /\ <<"wallet", caller[q]>> \in Counter
  BY CounterTypes DEF PassInv
<1>. HIDE DEF r
<1>8. allowed => HasSlot(r, s.counter)'
  BY DEF r
<1>9. RateTypes'
  BY <1>4 DEF PassInv, RateTypes
\* The other scripts are those of other requests.
<1>10. ASSUME NEW j \in Instances, NEW n \in DOMAIN channel[j], ~(j = i /\ n = 1), NEW x \in Script, x = channel[j][n]
       PROVE  x.request \in HttpRequests \ {r} /\ ScriptOK(x)'
  <2>2. x.request \in HttpRequests  BY DEF Script
  <2>3. x.request # r  BY <1>1, <1>10 DEF PassInv, OneScript, r
  <2>4. ScriptOK(x)  BY <1>10 DEF PassInv
  <2>5. phase'[x.request] = phase[x.request]  BY <1>4, <2>2, <2>3
  <2>6. HasSlot(x.request, Tier1Counter(x.request)) => HasSlot(x.request, Tier1Counter(x.request))'
    <3>1. ASSUME NEW c \in Counter, c = Tier1Counter(x.request), HasSlot(x.request, c)
          PROVE  HasSlot(x.request, Tier1Counter(x.request))'
      <4>1. HasSlot(x.request, c)' /\ c = Tier1Counter(x.request)'  BY <1>5, <1>6, <2>2, <3>1
      <4>. QED  BY <4>1 DEF HasSlot
    <3>. QED  BY <1>7, <2>2, <3>1
  <2>. QED  BY <1>5, <2>2, <2>3, <2>4, <2>5, <2>6 DEF ScriptOK
<1>11. ASSUME NEW x \in Script, x = NewScript(r, <<"wallet", caller[r]>>),
              allowed, phase[r] = "tier1", phase'[r] = "tier2"
       PROVE  ScriptOK(x)' /\ x.request = r
  <2>1. x.request = r /\ x.counter = <<"wallet", caller[r]>>
    BY <1>11 DEF NewScript
  <2>2. s.counter = Tier1Counter(r)'  BY <1>2, <1>3, <1>5, <1>11 DEF ScriptOK, r
  <2>3. HasSlot(r, Tier1Counter(r))'  BY <1>8, <1>11, <2>2 DEF HasSlot
  <2>. QED  BY <1>11, <2>1, <2>3 DEF ScriptOK
\* Where a script of the new channels comes from.
<1>12. ASSUME NEW j \in Instances, NEW n \in DOMAIN channel'[j], NEW x \in Script, x = channel'[j][n]
       PROVE  \/ /\ x.request = r /\ j = i /\ n = Len(channel[i]) /\ ScriptOK(x)'
              \/ /\ x.request \in HttpRequests \ {r} /\ ScriptOK(x)'
                 /\ \/ j # i /\ n \in DOMAIN channel[j] /\ x = channel[j][n]
                    \/ j = i /\ n + 1 \in DOMAIN channel[i] /\ x = channel[i][n + 1]
  <2>0. DOMAIN channel'[j] = 1 .. Len(channel'[j]) /\ Len(channel'[j]) \in Nat  BY <1>4
  <2>1. CASE j # i  BY <1>4, <1>10, <1>12, <2>1
  <2>2. CASE j = i /\ n + 1 \in DOMAIN channel[i] /\ channel'[i][n] = channel[i][n + 1]
    <3>1. n + 1 # 1  BY <2>0
    <3>. QED  BY <1>10, <1>12, <2>2, <3>1
  <2>3. CASE /\ j = i /\ n = Len(channel[i]) /\ channel'[i][n] = NewScript(r, <<"wallet", caller[r]>>)
             /\ allowed /\ phase[r] = "tier1" /\ phase'[r] = "tier2"
    BY <1>11, <1>12, <2>3
  <2>. QED  BY <1>4, <1>12, <2>1, <2>2, <2>3
<1>13. \A j \in Instances : \A n \in DOMAIN channel'[j] : channel'[j][n] \in Script
  BY <1>4
<1>14. (\A j \in Instances : \A n \in DOMAIN channel[j] : ScriptOK(channel[j][n]))'
  <2>. SUFFICES ASSUME NEW j \in Instances, NEW n \in DOMAIN channel'[j], NEW x \in Script, x = channel'[j][n]
               PROVE  ScriptOK(x)'
    BY <1>13 DEF ScriptOK
  <2>. QED  BY <1>12
<1>15. OneScript'
  <2>. SUFFICES ASSUME NEW j \in Instances, NEW k \in Instances, NEW m \in DOMAIN channel'[j], NEW n \in DOMAIN channel'[k],
                      NEW x \in Script, x = channel'[j][m], NEW y \in Script, y = channel'[k][n], x.request = y.request
               PROVE  j = k /\ m = n
    <3>1. (\A j, k \in Instances : \A m \in DOMAIN channel[j], n \in DOMAIN channel[k] :
             channel[j][m].request = channel[k][n].request => j = k /\ m = n)'
      BY <1>13
    <3>. QED  BY <3>1 DEF OneScript
  <2>1. CASE x.request = r
    <3>1. j = i /\ m = Len(channel[i])  BY <1>12, <2>1
    <3>2. k = i /\ n = Len(channel[i])
      <4>1. y.request = r  BY <2>1
      <4>. QED  BY <1>12, <4>1
    <3>. QED  BY <3>1, <3>2
  <2>2. CASE x.request # r
    <3>1. \/ j # i /\ m \in DOMAIN channel[j] /\ x = channel[j][m]
          \/ j = i /\ m + 1 \in DOMAIN channel[i] /\ x = channel[i][m + 1]
      BY <1>12, <2>2
    <3>2. \/ k # i /\ n \in DOMAIN channel[k] /\ y = channel[k][n]
          \/ k = i /\ n + 1 \in DOMAIN channel[i] /\ y = channel[i][n + 1]
      BY <1>12, <2>2
    <3>3. m \in Nat /\ n \in Nat
      <4>1. DOMAIN channel'[j] = 1 .. Len(channel'[j]) /\ DOMAIN channel'[k] = 1 .. Len(channel'[k])  BY <1>4
      <4>. QED  BY <4>1
    <3>4. j = k  BY <3>1, <3>2 DEF PassInv, OneScript
    <3>5. CASE j # i  BY <3>1, <3>2, <3>4, <3>5 DEF PassInv, OneScript
    <3>6. CASE j = i
      <4>1. m + 1 = n + 1  BY <3>1, <3>2, <3>4, <3>6 DEF PassInv, OneScript
      <4>. QED  BY <3>3, <3>4, <4>1
    <3>. QED  BY <3>4, <3>5, <3>6
  <2>. QED  BY <2>1, <2>2
<1>16. ASSUME NEW q \in HttpRequests PROVE Passed(q)'
  <2>1. CASE q # r
    <3>1. Passed(q) /\ phase'[q] = phase[q]  BY <1>4, <2>1 DEF PassInv
    <3>2. ASSUME NEW c \in Counter, NEW d \in Counter, c = Tier1Counter(q), d = <<"wallet", caller[q]>>
          PROVE  Passed(q)'
      <4>1. c = Tier1Counter(q)' /\ d = <<"wallet", caller'[q]>> /\ (HasSlot(q, c) => HasSlot(q, c)')
            /\ (HasSlot(q, d) => HasSlot(q, d)')
        BY <1>5, <1>6, <3>2
      <4>2. phase'[q] = "passed" => HasSlot(q, c)' /\ (WalletTierApplies(q)' => HasSlot(q, d)')
        BY <1>5, <3>1, <3>2, <4>1 DEF Passed
      <4>. QED  BY <4>1, <4>2 DEF Passed, HasSlot
    <3>. QED  BY <1>7, <3>2
  <2>2. CASE q = r
    <3>. SUFFICES ASSUME phase'[r] = "passed" PROVE Passed(r)'
      BY <2>2 DEF Passed
    <3>1. allowed /\ ~(phase[r] = "tier1" /\ WalletTierApplies(r)) /\ HasSlot(r, s.counter)'
      BY <1>4, <1>8
    <3>2. CASE phase[r] = "tier1"
      <4>1. s.counter = Tier1Counter(r)' /\ ~WalletTierApplies(r)'
        BY <1>2, <1>3, <1>5, <3>1, <3>2 DEF ScriptOK, r
      <4>. QED  BY <3>1, <4>1 DEF Passed, HasSlot
    <3>3. CASE phase[r] = "tier2"
      <4>1. s.counter = <<"wallet", caller'[r]>>  BY <1>3, <3>3 DEF ScriptOK, r
      <4>2. ASSUME NEW c \in Counter, c = Tier1Counter(r) PROVE HasSlot(r, Tier1Counter(r))'
        <5>1. HasSlot(r, c)  BY <1>3, <3>3, <4>2 DEF ScriptOK, r
        <5>2. HasSlot(r, c)' /\ c = Tier1Counter(r)'  BY <1>2, <1>5, <1>6, <4>2, <5>1
        <5>. QED  BY <5>2 DEF HasSlot
      <4>3. HasSlot(r, Tier1Counter(r))'  BY <1>2, <1>7, <4>2
      <4>. QED  BY <3>1, <4>1, <4>3 DEF Passed, HasSlot
    <3>. QED  BY <1>3, <3>2, <3>3 DEF ScriptOK, r
  <2>. QED  BY <2>1, <2>2
<1>. QED  BY <1>9, <1>14, <1>15, <1>16 DEF PassInv

(* Requests, checks, failures of Redis, expiry and the clock keep requests    *)
(* with their scripts, on any number of instances (RateLimitMiddleware.use).  *)
LEMMA PassInvNext == PassInv /\ [RateNext]_rateVars => PassInv'
<1>. SUFFICES ASSUME PassInv, [RateNext]_rateVars PROVE PassInv'
  OBVIOUS
<1>0. ASSUME UNCHANGED <<phase, caller, wallet, channel, granted, waved>>, clock' \in 0 .. MaxClock PROVE PassInv'
  <2>1. RateTypes'
    BY <1>0 DEF PassInv, RateTypes
  <2>2. (\A j \in Instances : \A n \in DOMAIN channel[j] : ScriptOK(channel[j][n]))'
    <3>. SUFFICES ASSUME NEW j \in Instances, NEW n \in DOMAIN channel[j], NEW x \in Script, x = channel[j][n]
                 PROVE  ScriptOK(x)'
      BY <1>0 DEF ScriptOK, PassInv, RateTypes
    <3>1. ScriptOK(x)  BY DEF PassInv
    <3>. QED  BY <1>0, <3>1 DEF ScriptOK, HasSlot, Tier1Counter
  <2>3. OneScript'
    BY <1>0 DEF PassInv, OneScript
  <2>4. ASSUME NEW q \in HttpRequests PROVE Passed(q)'
    <3>1. Passed(q)  BY DEF PassInv
    <3>. QED  BY <1>0, <3>1 DEF Passed, HasSlot, Tier1Counter, WalletTierApplies
  <2>. QED  BY <2>1, <2>2, <2>3, <2>4 DEF PassInv
<1>1. ASSUME NEW i \in Instances, NEW r \in HttpRequests, StartRequest(i, r) PROVE PassInv'
  <2>. DEFINE new == NewScript(r, Tier1Counter(r))
              c == Append(channel[i], new)
  <2>1. /\ phase[r] = "new" /\ phase' = [phase EXCEPT ![r] = "tier1"] /\ channel' = [channel EXCEPT ![i] = c]
        /\ UNCHANGED <<clock, caller, wallet, granted, waved>>
    BY <1>1 DEF StartRequest, PassInv, RateTypes
  <2>2. new \in Script /\ new.request = r /\ new.counter = Tier1Counter(r)
    BY CounterTypes DEF NewScript, Script, PassInv, RateTypes
  <2>. HIDE DEF new
  <2>3. /\ channel[i] \in Seq(Script) /\ c \in Seq(Script) /\ DOMAIN c = 1 .. Len(channel[i]) + 1
        /\ DOMAIN channel[i] = 1 .. Len(channel[i]) /\ Len(channel[i]) \in Nat
        /\ c[Len(channel[i]) + 1] = new /\ \A n \in 1 .. Len(channel[i]) : c[n] = channel[i][n]
    BY <2>2 DEF PassInv, RateTypes
  <2>. HIDE DEF c
  <2>4. channel' \in [Instances -> Seq(Script)] /\ channel'[i] = c /\ \A j \in Instances \ {i} : channel'[j] = channel[j]
    BY <2>1, <2>3 DEF PassInv, RateTypes
  <2>5. phase' \in [HttpRequests -> Phases] /\ phase'[r] = "tier1" /\ \A q \in HttpRequests \ {r} : phase'[q] = phase[q]
    BY <2>1 DEF PassInv, RateTypes, Phases
  <2>6. RateTypes'
    BY <2>1, <2>4, <2>5 DEF PassInv, RateTypes
  <2>7. ASSUME NEW j \in Instances, NEW n \in DOMAIN channel[j], NEW x \in Script, x = channel[j][n]
        PROVE  x.request \in HttpRequests \ {r} /\ ScriptOK(x)'
    <3>1. x.request \in HttpRequests /\ ScriptOK(x)  BY <2>7 DEF PassInv, Script
    <3>2. x.request # r  BY <2>1, <3>1 DEF ScriptOK
    <3>3. phase'[x.request] = phase[x.request]  BY <2>5, <3>1, <3>2
    <3>. QED  BY <2>1, <3>1, <3>2, <3>3 DEF ScriptOK, HasSlot, Tier1Counter
  <2>8. ASSUME NEW j \in Instances, NEW n \in DOMAIN channel'[j], NEW x \in Script, x = channel'[j][n]
        PROVE  /\ ScriptOK(x)'
               /\ \/ x.request = r /\ j = i /\ n = Len(channel[i]) + 1
                  \/ x.request # r /\ n \in DOMAIN channel[j] /\ x = channel[j][n]
    <3>1. CASE j = i /\ n = Len(channel[i]) + 1
      <4>1. x = new  BY <2>3, <2>4, <2>8, <3>1
      <4>2. new.counter = Tier1Counter(r)'  BY <2>1, <2>2 DEF Tier1Counter
      <4>. QED  BY <2>2, <2>5, <3>1, <4>1, <4>2 DEF ScriptOK
    <3>2. CASE ~(j = i /\ n = Len(channel[i]) + 1)
      <4>1. n \in DOMAIN channel[j] /\ x = channel[j][n]  BY <2>3, <2>4, <2>8, <3>2
      <4>. QED  BY <2>7, <4>1
    <3>. QED  BY <3>1, <3>2
  <2>9. \A j \in Instances : \A n \in DOMAIN channel'[j] : channel'[j][n] \in Script
    BY <2>4
  <2>10. (\A j \in Instances : \A n \in DOMAIN channel[j] : ScriptOK(channel[j][n]))'
    <3>. SUFFICES ASSUME NEW j \in Instances, NEW n \in DOMAIN channel'[j], NEW x \in Script, x = channel'[j][n]
                 PROVE  ScriptOK(x)'
      BY <2>9 DEF ScriptOK
    <3>. QED  BY <2>8
  <2>11. OneScript'
    <3>. SUFFICES ASSUME NEW j \in Instances, NEW k \in Instances, NEW m \in DOMAIN channel'[j], NEW n \in DOMAIN channel'[k],
                        NEW x \in Script, x = channel'[j][m], NEW y \in Script, y = channel'[k][n], x.request = y.request
                 PROVE  j = k /\ m = n
      <4>1. (\A j, k \in Instances : \A m \in DOMAIN channel[j], n \in DOMAIN channel[k] :
               channel[j][m].request = channel[k][n].request => j = k /\ m = n)'
        BY <2>9
      <4>. QED  BY <4>1 DEF OneScript
    <3>1. \/ x.request = r /\ j = i /\ m = Len(channel[i]) + 1
          \/ x.request # r /\ m \in DOMAIN channel[j] /\ x = channel[j][m]
      BY <2>8
    <3>2. \/ y.request = r /\ k = i /\ n = Len(channel[i]) + 1
          \/ y.request # r /\ n \in DOMAIN channel[k] /\ y = channel[k][n]
      BY <2>8
    <3>. QED  BY <3>1, <3>2 DEF PassInv, OneScript
  <2>12. ASSUME NEW q \in HttpRequests PROVE Passed(q)'
    <3>1. phase'[q] = "passed" => phase[q] = "passed"  BY <2>5
    <3>2. Passed(q)  BY DEF PassInv
    <3>. QED  BY <2>1, <3>1, <3>2 DEF Passed, HasSlot, Tier1Counter, WalletTierApplies
  <2>. QED  BY <2>6, <2>10, <2>11, <2>12 DEF PassInv
<1>2. ASSUME NEW i \in Instances, EvalScript(i) PROVE PassInv'
  <2>. DEFINE h == Head(channel[i])
  <2>0. channel[i] # << >> /\ h \in Script  BY <1>2 DEF EvalScript, PassInv, RateTypes
  <2>1. PICK s \in Script : s = Head(channel[i])  BY <2>0
  <2>. DEFINE old == zset[s.counter]
              ok == CountAt(old, s.now) < MaxRequests[s.counter[1]]
              member == IF ok THEN {<<s.now, s.request>>} ELSE {}
  <2>2. /\ granted' = [granted EXCEPT ![s.counter] = granted[s.counter] \cup member]
        /\ AfterCheck(i, s.request, ok) /\ UNCHANGED <<clock, caller, wallet, waved>>
    BY <1>2, <2>1 DEF EvalScript, PassInv, RateTypes
  <2>3. ok \in BOOLEAN /\ (ok => <<s.now, s.request>> \in member) /\ member \subseteq (0 .. MaxClock) \X HttpRequests
    BY DEF Script
  <2>4. s.counter \in Counter /\ s.now \in 0 .. MaxClock  BY DEF Script
  <2>. HIDE DEF member, ok
  <2>5. /\ granted' \in [Counter -> SUBSET ((0 .. MaxClock) \X HttpRequests)]
        /\ \A c \in Counter : granted[c] \subseteq granted'[c]
        /\ member \subseteq granted'[s.counter]
    BY <2>2, <2>3, <2>4 DEF PassInv, RateTypes
  <2>6. ok => HasSlot(s.request, s.counter)'
    BY <2>3, <2>4, <2>5 DEF HasSlot
  <2>. QED  BY <2>0, <2>1, <2>2, <2>3, <2>5, <2>6, CheckKeepsPassing
<1>3. ASSUME NEW i \in Instances, EvalFails(i) PROVE PassInv'
  <2>0. channel[i] # << >> /\ Head(channel[i]) \in Script  BY <1>3 DEF EvalFails, PassInv, RateTypes
  <2>1. PICK s \in Script : s = Head(channel[i])  BY <2>0
  <2>2. /\ AfterCheck(i, s.request, TRUE) /\ UNCHANGED <<clock, caller, wallet, granted>>
        /\ waved' = waved \cup {<<s.request, s.counter>>}
    BY <1>3, <2>1 DEF EvalFails
  <2>3. HasSlot(s.request, s.counter)'  BY <2>2 DEF HasSlot
  <2>4. granted' \in [Counter -> SUBSET ((0 .. MaxClock) \X HttpRequests)]  BY <2>2 DEF PassInv, RateTypes
  <2>. QED  BY <2>0, <2>1, <2>2, <2>3, <2>4, CheckKeepsPassing
<1>4. ASSUME NEW c \in Counter, ExpireCounter(c) PROVE PassInv'
  BY <1>0, <1>4 DEF ExpireCounter, PassInv, RateTypes
<1>5. CASE Tick
  BY <1>0, <1>5, RateAssumption DEF Tick, PassInv, RateTypes
<1>6. CASE UNCHANGED rateVars
  BY <1>0, <1>6 DEF rateVars, PassInv, RateTypes
<1>. QED
  BY <1>1, <1>2, <1>3, <1>4, <1>5, <1>6 DEF RateNext

(* What it says of a request that has passed.                                 *)
LEMMA PassInvPasses == PassInv => PassedEveryTier
BY DEF PassInv, Passed, HasSlot, PassedEveryTier

(* The script of the next tier, and those of other instances, may be stamped  *)
(* before or after the one evaluated now.  A reading that is not older than   *)
(* any evaluated one still finds everything of its window in the set.         *)
Stamps == (0 .. MaxClock) \X HttpRequests

Behind(s) ==
    /\ s.now <= clock
    /\ newest[s.counter] <= s.now =>
         \A g \in granted[s.counter] \ zset[s.counter] : g[1] + WindowMs < s.now

Sets ==
    /\ zset \in [Counter -> SUBSET Stamps] /\ late \in [Counter -> SUBSET Stamps]
    /\ newest \in [Counter -> 0 .. MaxClock]
    /\ \A c \in Counter :
         /\ IsFiniteSet(granted[c]) /\ zset[c] \subseteq granted[c] /\ newest[c] <= clock
         /\ \A g \in granted[c] \ late[c] : g[1] <= newest[c]
         /\ \A g \in granted[c] \ zset[c] : g[1] + WindowMs < clock

WindowInv ==
    /\ PassInv /\ Sets
    /\ \A i \in Instances : \A n \in DOMAIN channel[i] : Behind(channel[i][n])
    /\ OrderedWindow

(* Nothing is granted yet.                                                    *)
LEMMA WindowInvInit == RateInit => WindowInv
<1>. SUFFICES ASSUME RateInit PROVE WindowInv
  OBVIOUS
<1>1. \A i \in Instances : channel[i] = << >>
  BY DEF RateInit
<1>2. \A c \in Counter : granted[c] = {} /\ zset[c] = {} /\ newest[c] = 0
  BY DEF RateInit
<1>3. Sets
  BY <1>2, FS_EmptySet, RateAssumption DEF RateInit, Sets
<1>4. OrderedWindow
  <2>. SUFFICES ASSUME NEW c \in Counter, NEW t \in 0 .. MaxClock
               PROVE  Cardinality({m \in granted[c] \ late[c] : WithinWindow(m, t)}) <= MaxRequests[c[1]]
    BY DEF OrderedWindow
  <2>1. {m \in granted[c] \ late[c] : WithinWindow(m, t)} = {}  BY <1>2
  <2>2. MaxRequests[c[1]] \in Nat  BY RateAssumption DEF Counter
  <2>. QED  BY <2>1, <2>2, FS_EmptySet
<1>. QED  BY <1>1, <1>3, <1>4, PassInvInit DEF WindowInv

(* When a script with the newest reading grants a slot, every window that     *)
(* contains the slot holds only members that the script has counted, besides  *)
(* those granted out of order (SLIDING_WINDOW_SCRIPT).                        *)
LEMMA GrantStaysInLimit ==
    ASSUME WindowInv, NEW s \in Script, Behind(s), newest[s.counter] <= s.now, NEW t \in 0 .. MaxClock,
           CountAt(zset[s.counter], s.now) < MaxRequests[s.counter[1]]
    PROVE  Cardinality({m \in (granted[s.counter] \cup {<<s.now, s.request>>}) \ late[s.counter] : WithinWindow(m, t)})
             <= MaxRequests[s.counter[1]]
<1>. DEFINE c == s.counter
            new == <<s.now, s.request>>
            W == {m \in granted[c] \ late[c] : WithinWindow(m, t)}
            V == {m \in (granted[c] \cup {new}) \ late[c] : WithinWindow(m, t)}
            K == {m \in Prune(zset[c], s.now) : m[1] <= s.now}
            max == MaxRequests[c[1]]
<1>1. c \in Counter /\ s.now \in Nat /\ t \in Nat /\ WindowMs \in Nat /\ new[1] = s.now
  BY RateAssumption DEF Script
<1>2. max \in Nat
  BY <1>1, RateAssumption DEF Counter
<1>3. IsFiniteSet(granted[c]) /\ zset[c] \subseteq granted[c] /\ granted[c] \subseteq Stamps /\ newest[c] \in Nat
  BY <1>1, RateAssumption DEF WindowInv, Sets, PassInv, RateTypes, Stamps
<1>4. \A m \in granted[c] \ late[c] : m[1] \in Nat /\ m[1] <= s.now /\ (m \notin zset[c] => m[1] + WindowMs < s.now)
  <2>1. \A m \in granted[c] \ late[c] : m[1] <= newest[c]  BY <1>1 DEF WindowInv, Sets
  <2>2. \A m \in granted[c] : m[1] \in Nat  BY <1>3 DEF Stamps
  <2>. QED  BY <1>1, <1>3, <2>1, <2>2 DEF Behind
<1>5. IsFiniteSet(K) /\ Cardinality(K) \in Nat /\ Cardinality(K) < max
  <2>1. K \subseteq granted[c]  BY <1>3 DEF Prune
  <2>2. Cardinality(K) < max  BY DEF CountAt
  <2>. QED  BY <1>3, <2>1, <2>2, FS_Subset, FS_CardinalityType
<1>6. CASE s.now <= t /\ s.now + WindowMs >= t
  <2>1. ASSUME NEW m \in V PROVE m \in K \cup {new}
    <3>1. CASE m = new  BY <3>1
    <3>2. CASE m \in granted[c] \ late[c]
      <4>1. m[1] \in Nat /\ m[1] <= s.now /\ m[1] + WindowMs >= t  BY <1>4, <3>2 DEF WithinWindow
      <4>2. m[1] + WindowMs >= s.now  BY <1>1, <1>6, <4>1
      <4>3. m \in zset[c]  BY <1>1, <1>4, <3>2, <4>1, <4>2
      <4>. QED  BY <4>1, <4>2, <4>3 DEF Prune
    <3>. QED  BY <3>1, <3>2
  <2>. HIDE DEF V, K, new
  <2>2. IsFiniteSet(K \cup {new}) /\ Cardinality(K \cup {new}) <= Cardinality(K) + 1
    <3>1. /\ IsFiniteSet(K \cup {new})
          /\ \/ new \in K /\ Cardinality(K \cup {new}) = Cardinality(K)
             \/ new \notin K /\ Cardinality(K \cup {new}) = Cardinality(K) + 1
      BY <1>5, FS_AddElement, Zenon
    <3>. QED  BY <1>5, <3>1
  <2>3. V \subseteq K \cup {new}  BY <2>1
  <2>4. IsFiniteSet(V) /\ Cardinality(V) <= Cardinality(K \cup {new})  BY <2>2, <2>3, FS_Subset
  <2>5. Cardinality(V) \in Nat /\ Cardinality(K \cup {new}) \in Nat  BY <2>2, <2>4, FS_CardinalityType
  <2>6. Cardinality(V) <= max
    <3>. DEFINE a == Cardinality(V)
                b == Cardinality(K \cup {new})
                d == Cardinality(K)
    <3>1. a \in Nat /\ b \in Nat /\ d \in Nat /\ a <= b /\ b <= d + 1 /\ d < max  BY <1>5, <2>2, <2>4, <2>5
    <3>. HIDE DEF a, b, d, max
    <3>2. a <= max  BY <1>2, <3>1
    <3>. QED  BY <3>2 DEF a
  <2>. QED  BY <2>6 DEF V, new
<1>7. CASE ~(s.now <= t /\ s.now + WindowMs >= t)
  <2>1. V = W  BY <1>1, <1>7 DEF WithinWindow
  <2>2. Cardinality(W) <= max  BY <1>1 DEF WindowInv, OrderedWindow
  <2>. QED  BY <2>1, <2>2
<1>. QED  BY <1>6, <1>7

(* A check keeps the scripts on their way behind nothing they would have to   *)
(* count, or behind a newer reading (AfterCheck: the script of the next tier  *)
(* is stamped now).                                                           *)
LEMMA CheckKeepsWindow ==
    ASSUME WindowInv, PassInv', NEW i \in Instances, channel[i] # << >>, NEW allowed \in BOOLEAN,
           NEW r \in HttpRequests, AfterCheck(i, r, allowed), clock' = clock,
           Sets',
           \A c \in Counter : newest[c] <= newest'[c],
           \A c \in Counter : \A g \in granted'[c] \ zset'[c] :
               g \in granted[c] \ zset[c] \/ g[1] + WindowMs < newest'[c],
           OrderedWindow'
    PROVE  WindowInv'
<1>2. clock \in Nat /\ clock' \in Nat /\ WindowMs \in Nat
  BY RateAssumption DEF WindowInv, PassInv, RateTypes
<1>3. /\ channel' \in [Instances -> Seq(Script)]
      /\ \A j \in Instances \ {i} : channel'[j] = channel[j]
      /\ \A n \in DOMAIN channel'[i] :
           \/ n + 1 \in DOMAIN channel[i] /\ channel'[i][n] = channel[i][n + 1]
           \/ n = Len(channel[i]) /\ channel'[i][n] = NewScript(r, <<"wallet", caller[r]>>)
  <2>1. RateTypes
    BY DEF WindowInv, PassInv
  <2>. QED  BY <2>1, ChannelAfterCheck
<1>4. /\ granted' \in [Counter -> SUBSET Stamps]
      /\ \A c \in Counter : newest[c] \in Nat /\ newest'[c] \in Nat /\ \A g \in granted'[c] : g[1] \in Nat
  <2>1. granted' \in [Counter -> SUBSET Stamps]  BY DEF PassInv, RateTypes, Stamps
  <2>. QED  BY <2>1, RateAssumption DEF WindowInv, Sets, Stamps
<1>6. ASSUME NEW j \in Instances, NEW n \in DOMAIN channel[j], NEW x \in Script, x = channel[j][n]
      PROVE  Behind(x)'
  <2>2. Behind(x)  BY <1>6 DEF WindowInv
  <2>3. x.now \in Nat /\ x.counter \in Counter  BY RateAssumption DEF Script
  <2>6. ASSUME newest'[x.counter] <= x.now, NEW g \in granted'[x.counter] \ zset'[x.counter]
        PROVE  g[1] + WindowMs < x.now
    <3>1. newest[x.counter] <= x.now  BY <1>4, <2>3, <2>6
    <3>2. CASE g \in granted[x.counter] \ zset[x.counter]  BY <2>2, <3>1, <3>2 DEF Behind
    <3>3. CASE g[1] + WindowMs < newest'[x.counter]
      <4>1. g[1] \in Nat  BY <1>4, <2>3
      <4>. QED  BY <1>2, <1>4, <2>3, <2>6, <3>3, <4>1
    <3>. QED  BY <2>3, <3>2, <3>3
  <2>. QED  BY <2>2, <2>6 DEF Behind
<1>7. ASSUME NEW x \in Script, x = NewScript(r, <<"wallet", caller[r]>>)
      PROVE  Behind(x)'
  <2>1. x.now = clock /\ x.counter \in Counter  BY <1>7 DEF NewScript, Script
  <2>. QED  BY <1>2, <2>1 DEF Behind, Sets
<1>8. ASSUME NEW j \in Instances, NEW n \in DOMAIN channel'[j], NEW x \in Script, x = channel'[j][n]
      PROVE  Behind(x)'
  <2>1. CASE j # i
    <3>1. n \in DOMAIN channel[j] /\ x = channel[j][n]  BY <1>3, <1>8, <2>1
    <3>. QED  BY <1>6, <3>1
  <2>2. CASE j = i
    <3>1. \/ n + 1 \in DOMAIN channel[i] /\ x = channel[i][n + 1]
          \/ x = NewScript(r, <<"wallet", caller[r]>>)
      BY <1>3, <1>8, <2>2
    <3>. QED  BY <1>6, <1>7, <3>1
  <2>. QED  BY <2>1, <2>2
<1>9. \A j \in Instances : \A n \in DOMAIN channel'[j] : channel'[j][n] \in Script
  BY <1>3
<1>10. (\A j \in Instances : \A n \in DOMAIN channel[j] : Behind(channel[j][n]))'
  <2>. SUFFICES ASSUME NEW j \in Instances, NEW n \in DOMAIN channel'[j], NEW x \in Script, x = channel'[j][n]
               PROVE  Behind(x)'
    BY <1>9 DEF Behind
  <2>. QED  BY <1>8
<1>. QED  BY <1>10 DEF WindowInv

(* On any number of backend processes a window holds no more than the limit   *)
(* of admissions in order, whatever waits on the connections while the clock  *)
(* runs (checkLimit).                                                         *)
LEMMA WindowInvNext == WindowInv /\ [RateNext]_rateVars => WindowInv'
<1>. SUFFICES ASSUME WindowInv, [RateNext]_rateVars PROVE WindowInv'
  OBVIOUS
<1>0. PassInv'
  BY PassInvNext DEF WindowInv
<1>t. /\ clock \in Nat /\ WindowMs \in Nat /\ channel \in [Instances -> Seq(Script)]
      /\ granted \in [Counter -> SUBSET Stamps] /\ zset \in [Counter -> SUBSET Stamps]
      /\ late \in [Counter -> SUBSET Stamps]
      /\ newest \in [Counter -> 0 .. MaxClock] /\ \A c \in Counter : newest[c] \in Nat
  BY RateAssumption DEF WindowInv, PassInv, RateTypes, Stamps, Sets
<1>s. \A c \in Counter : \A g \in granted[c] : g[1] \in Nat
  BY <1>t DEF Stamps
<1>1. ASSUME NEW i \in Instances, NEW r \in HttpRequests, StartRequest(i, r) PROVE WindowInv'
  <2>. DEFINE new == NewScript(r, Tier1Counter(r))
              c == Append(channel[i], new)
  <2>1. channel' = [channel EXCEPT ![i] = c] /\ UNCHANGED <<clock, zset, granted, newest, late>>
    BY <1>1, <1>t DEF StartRequest
  <2>2. new \in Script /\ new.now = clock
    BY CounterTypes DEF NewScript, Script, WindowInv, PassInv, RateTypes
  <2>. HIDE DEF new
  <2>3. /\ channel[i] \in Seq(Script) /\ c \in Seq(Script) /\ DOMAIN c = 1 .. Len(channel[i]) + 1
        /\ DOMAIN channel[i] = 1 .. Len(channel[i]) /\ Len(channel[i]) \in Nat
        /\ c[Len(channel[i]) + 1] = new /\ \A n \in 1 .. Len(channel[i]) : c[n] = channel[i][n]
    BY <1>t, <2>2
  <2>. HIDE DEF c
  <2>4. channel' \in [Instances -> Seq(Script)] /\ channel'[i] = c /\ \A j \in Instances \ {i} : channel'[j] = channel[j]
    BY <1>t, <2>1, <2>3
  <2>5. Sets' /\ OrderedWindow'
    BY <2>1 DEF WindowInv, Sets, OrderedWindow
  <2>6. ASSUME NEW j \in Instances, NEW n \in DOMAIN channel'[j], NEW x \in Script, x = channel'[j][n]
        PROVE  Behind(x)'
    <3>2. CASE n \in DOMAIN channel[j] /\ x = channel[j][n]
      <4>1. Behind(x)  BY <3>2 DEF WindowInv
      <4>. QED  BY <2>1, <4>1 DEF Behind
    <3>3. CASE x = new
      <4>1. x.counter \in Counter  BY DEF Script
      <4>2. \A g \in granted[x.counter] \ zset[x.counter] : g[1] + WindowMs < clock
        BY <4>1 DEF WindowInv, Sets
      <4>3. x.now = clock  BY <2>2, <3>3
      <4>. QED  BY <1>t, <2>1, <4>2, <4>3 DEF Behind
    <3>4. CASE j # i
      <4>1. channel'[j] = channel[j]  BY <2>4, <3>4
      <4>. QED  BY <2>6, <3>2, <4>1
    <3>5. CASE j = i
      <4>1. channel'[j] = c /\ channel[j] = channel[i]  BY <2>4, <3>5
      <4>2. n \in 1 .. Len(channel[i]) + 1 /\ x = c[n]  BY <2>3, <2>6, <4>1
      <4>3. n \in 1 .. Len(channel[i]) \/ n = Len(channel[i]) + 1  BY <2>3, <4>2
      <4>4. CASE n \in 1 .. Len(channel[i])
        <5>1. n \in DOMAIN channel[j] /\ x = channel[j][n]  BY <2>3, <4>1, <4>2, <4>4
        <5>. QED  BY <3>2, <5>1
      <4>5. CASE n = Len(channel[i]) + 1
        BY <2>3, <3>3, <4>2, <4>5
      <4>. QED  BY <4>3, <4>4, <4>5
    <3>. QED  BY <3>4, <3>5
  <2>7. \A j \in Instances : \A n \in DOMAIN channel'[j] : channel'[j][n] \in Script
    BY <2>4
  <2>8. (\A j \in Instances : \A n \in DOMAIN channel[j] : Behind(channel[j][n]))'
    <3>. SUFFICES ASSUME NEW j \in Instances, NEW n \in DOMAIN channel'[j], NEW x \in Script, x = channel'[j][n]
                 PROVE  Behind(x)'
      BY <2>7 DEF Behind
    <3>. QED  BY <2>6
  <2>. QED  BY <1>0, <2>5, <2>8 DEF WindowInv
<1>2. ASSUME NEW i \in Instances, EvalScript(i) PROVE WindowInv'
  <2>0. channel[i] # << >> /\ Head(channel[i]) \in Script /\ Head(channel[i]) = channel[i][1] /\ 1 \in DOMAIN channel[i]
    BY <1>2, <1>t DEF EvalScript
  <2>1. PICK s \in Script : s = Head(channel[i])  BY <2>0
  <2>. DEFINE k == s.counter
              old == zset[k]
              ok == CountAt(old, s.now) < MaxRequests[k[1]]
              new == <<s.now, s.request>>
              member == IF ok THEN {new} ELSE {}
              top == IF s.now > newest[k] THEN s.now ELSE newest[k]
              out == IF s.now < newest[k] THEN late[k] \cup member ELSE late[k]
  <2>2. /\ zset' = [zset EXCEPT ![k] = Prune(old, s.now) \cup member]
        /\ granted' = [granted EXCEPT ![k] = granted[k] \cup member]
        /\ newest' = [newest EXCEPT ![k] = top] /\ late' = [late EXCEPT ![k] = out]
        /\ AfterCheck(i, s.request, ok) /\ clock' = clock
    BY <1>2, <1>t, <2>1 DEF EvalScript
  <2>3. k \in Counter /\ s.now \in 0 .. MaxClock /\ s.request \in HttpRequests /\ s.now \in Nat
    BY RateAssumption DEF Script
  <2>4. Behind(s) /\ s.now <= clock /\ newest[k] \in 0 .. MaxClock /\ newest[k] \in Nat /\ newest[k] <= clock
    BY <1>t, <2>0, <2>1, <2>3 DEF WindowInv, Behind, Sets
  <2>5. ok \in BOOLEAN /\ member \subseteq {new} /\ new \in Stamps /\ new[1] = s.now /\ (member # {} => ok)
    BY <2>3 DEF Stamps
  <2>6. Prune(old, s.now) \subseteq old /\ \A m \in old \ Prune(old, s.now) : m[1] + WindowMs < s.now
    <3>1. \A m \in old : m[1] \in Nat  BY <1>t, <2>3 DEF Stamps
    <3>. QED  BY <1>t, <2>3, <3>1 DEF Prune
  <2>. DEFINE kept == Prune(old, s.now)
  <2>. HIDE DEF member, ok, new, kept
  <2>a. top \in 0 .. MaxClock /\ top \in Nat /\ newest[k] <= top /\ s.now <= top /\ top <= clock
    BY <1>t, <2>3, <2>4
  <2>b. out \subseteq Stamps /\ late[k] \subseteq out /\ (s.now < newest[k] => member \subseteq out)
        /\ (newest[k] <= s.now => out = late[k])
    BY <1>t, <2>3, <2>4, <2>5
  <2>. HIDE DEF top, out
  <2>7. /\ zset' \in [Counter -> SUBSET Stamps] /\ zset'[k] = kept \cup member
        /\ granted'[k] = granted[k] \cup member
        /\ newest' \in [Counter -> 0 .. MaxClock] /\ newest'[k] = top
        /\ late' \in [Counter -> SUBSET Stamps] /\ late'[k] = out
        /\ \A c \in Counter \ {k} : zset'[c] = zset[c] /\ granted'[c] = granted[c]
                                    /\ newest'[c] = newest[c] /\ late'[c] = late[c]
    BY <1>t, <2>2, <2>3, <2>5, <2>6, <2>a, <2>b DEF kept
  <2>8. \A c \in Counter : IsFiniteSet(granted[c]) /\ zset[c] \subseteq granted[c]
    BY DEF WindowInv, Sets
  <2>9. \A c \in Counter : IsFiniteSet(granted'[c]) /\ zset'[c] \subseteq granted'[c]
    <3>1. IsFiniteSet(granted[k] \cup member)
      <4>1. IsFiniteSet(member)  BY <2>5, FS_Singleton, FS_Subset
      <4>. QED  BY <2>3, <2>8, <4>1, FS_Union
    <3>. QED  BY <2>3, <2>6, <2>7, <2>8, <3>1 DEF kept
  <2>10. \A c \in Counter : newest[c] <= newest'[c] /\ newest'[c] <= clock' /\ newest'[c] \in Nat
    <3>1. \A c \in Counter : newest[c] <= clock  BY DEF WindowInv, Sets
    <3>. QED  BY <1>t, <2>2, <2>3, <2>7, <2>a, <3>1
  <2>11. ASSUME NEW c \in Counter, NEW g \in granted'[c] \ zset'[c]
         PROVE  g \in granted[c] \ zset[c] \/ g[1] + WindowMs < newest'[c]
    <3>1. CASE c # k  BY <2>7, <3>1
    <3>2. CASE c = k
      <4>1. g \in granted[k] /\ g \notin kept  BY <2>7, <3>2
      <4>2. CASE g \in old
        <5>1. g[1] + WindowMs < s.now /\ g[1] \in Nat  BY <1>s, <2>3, <2>6, <4>1, <4>2 DEF kept
        <5>. QED  BY <1>t, <2>3, <2>7, <2>a, <3>2, <5>1
      <4>. QED  BY <3>2, <4>1, <4>2
    <3>. QED  BY <3>1, <3>2
  <2>12. Sets'
    <3>1. \A c \in Counter : \A g \in granted'[c] : g[1] \in Nat
      <4>1. granted' \in [Counter -> SUBSET Stamps]  BY <1>0 DEF PassInv, RateTypes, Stamps
      <4>. QED  BY <4>1 DEF Stamps
    <3>2. ASSUME NEW c \in Counter, NEW g \in granted'[c] \ late'[c] PROVE g[1] <= newest'[c]
      <4>1. CASE g \in granted[c] \ late[c]
        <5>1. g[1] <= newest[c]  BY <4>1 DEF WindowInv, Sets
        <5>. QED  BY <1>t, <2>10, <3>1, <5>1
      <4>2. CASE ~(g \in granted[c] \ late[c])
        <5>1. c = k /\ g \in member
          <6>1. c = k  BY <2>7, <4>2
          <6>. QED  BY <2>7, <2>b, <4>2, <6>1
        <5>2. g[1] = s.now  BY <2>5, <5>1
        <5>. QED  BY <2>7, <2>a, <5>1, <5>2
      <4>. QED  BY <4>1, <4>2
    <3>3. ASSUME NEW c \in Counter, NEW g \in granted'[c] \ zset'[c] PROVE g[1] + WindowMs < clock'
      <4>1. CASE g \in granted[c] \ zset[c]  BY <2>2, <4>1 DEF WindowInv, Sets
      <4>2. CASE g[1] + WindowMs < newest'[c]
        <5>1. g[1] \in Nat  BY <3>1
        <5>. QED  BY <1>t, <2>2, <2>10, <4>2, <5>1
      <4>. QED  BY <2>11, <4>1, <4>2
    <3>. QED  BY <2>7, <2>9, <2>10, <3>2, <3>3 DEF Sets
  <2>13. OrderedWindow'
    <3>. SUFFICES ASSUME NEW c \in Counter, NEW t \in 0 .. MaxClock
                 PROVE  Cardinality({m \in granted'[c] \ late'[c] : WithinWindow(m, t)}) <= MaxRequests[c[1]]
      BY DEF OrderedWindow, WithinWindow
    <3>. DEFINE V == {m \in granted'[c] \ late'[c] : WithinWindow(m, t)}
                W == {m \in granted[c] \ late[c] : WithinWindow(m, t)}
    <3>1. CASE granted'[c] \ late'[c] \subseteq granted[c] \ late[c]
      <4>1. W \subseteq granted[c] /\ V \subseteq W  BY <3>1
      <4>2. IsFiniteSet(granted[c]) /\ Cardinality(W) <= MaxRequests[c[1]]  BY DEF WindowInv, OrderedWindow, Sets
      <4>3. MaxRequests[c[1]] \in Nat  BY RateAssumption DEF Counter
      <4>. HIDE DEF V, W
      <4>4. IsFiniteSet(W)  BY <4>1, <4>2, FS_Subset
      <4>5. IsFiniteSet(V) /\ Cardinality(V) <= Cardinality(W)  BY <4>1, <4>4, FS_Subset
      <4>6. Cardinality(V) \in Nat /\ Cardinality(W) \in Nat  BY <4>4, <4>5, FS_CardinalityType
      <4>7. Cardinality(V) <= MaxRequests[c[1]]  BY <4>2, <4>3, <4>5, <4>6
      <4>. QED  BY <4>7 DEF V
    <3>2. CASE ~(granted'[c] \ late'[c] \subseteq granted[c] \ late[c])
      <4>1. c = k  BY <2>7, <3>2
      <4>2. newest[k] <= s.now
        <5>1. ~(s.now < newest[k])  BY <2>7, <2>b, <3>2, <4>1
        <5>. QED  BY <2>3, <2>4, <5>1
      <4>3. member = {new} /\ out = late[k] /\ member # {}
        <5>1. member # {}  BY <2>7, <2>b, <3>2, <4>1
        <5>. QED  BY <2>5, <2>b, <4>2, <5>1
      <4>4. ok  BY <2>5, <4>3, Zenon
      <4>5. granted'[c] \ late'[c] = (granted[k] \cup {new}) \ late[k]  BY <2>7, <4>1, <4>3
      <4>6. Cardinality({m \in (granted[k] \cup {new}) \ late[k] : WithinWindow(m, t)}) <= MaxRequests[k[1]]
        BY <2>4, <4>2, <4>4, GrantStaysInLimit DEF ok, new
      <4>. QED  BY <4>1, <4>5, <4>6
    <3>. QED  BY <3>1, <3>2
  <2>14. ok \in BOOLEAN  BY <2>5
  <2>. HIDE DEF k, old
  <2>. QED  BY <1>0, <2>0, <2>2, <2>3, <2>10, <2>11, <2>12, <2>13, <2>14, CheckKeepsWindow
<1>3. ASSUME NEW i \in Instances, EvalFails(i) PROVE WindowInv'
  <2>0. channel[i] # << >> /\ Head(channel[i]) \in Script
    BY <1>3, <1>t DEF EvalFails
  <2>1. PICK s \in Script : s = Head(channel[i])  BY <2>0
  <2>2. AfterCheck(i, s.request, TRUE) /\ UNCHANGED <<clock, zset, granted, newest, late>> /\ s.request \in HttpRequests
    BY <1>3, <2>1 DEF EvalFails, Script
  <2>4. Sets' /\ OrderedWindow'
    BY <2>2 DEF WindowInv, Sets, OrderedWindow
  <2>5. \A c \in Counter : newest[c] <= newest'[c]
    BY <1>t, <2>2
  <2>6. \A c \in Counter : \A g \in granted'[c] \ zset'[c] : g \in granted[c] \ zset[c] \/ g[1] + WindowMs < newest'[c]
    BY <2>2
  <2>. QED  BY <1>0, <2>0, <2>2, <2>4, <2>5, <2>6, CheckKeepsWindow
<1>4. ASSUME NEW c \in Counter, ExpireCounter(c) PROVE WindowInv'
  <2>1. /\ \A m \in zset[c] : m[1] + WindowMs < clock
        /\ \A i \in Instances : \A n \in DOMAIN channel[i] : channel[i][n].counter # c
        /\ zset' = [zset EXCEPT ![c] = {}] /\ UNCHANGED <<clock, channel, granted, newest, late>>
    BY <1>4, <1>t DEF ExpireCounter
  <2>2. zset' \in [Counter -> SUBSET Stamps] /\ zset'[c] = {} /\ \A d \in Counter \ {c} : zset'[d] = zset[d]
    BY <1>t, <2>1
  <2>3. Sets'
    BY <2>1, <2>2 DEF WindowInv, Sets
  <2>4. OrderedWindow'
    BY <2>1 DEF WindowInv, OrderedWindow
  <2>5. (\A j \in Instances : \A n \in DOMAIN channel[j] : Behind(channel[j][n]))'
    <3>0. \A j \in Instances : \A n \in DOMAIN channel'[j] : channel'[j][n] \in Script
      BY <1>t, <2>1
    <3>. SUFFICES ASSUME NEW j \in Instances, NEW n \in DOMAIN channel'[j], NEW x \in Script, x = channel'[j][n]
                 PROVE  Behind(x)'
      BY <3>0 DEF Behind
    <3>1. Behind(x)  BY <2>1 DEF WindowInv
    <3>2. x.counter \in Counter /\ x.counter # c  BY <2>1 DEF Script
    <3>. QED  BY <2>1, <2>2, <3>1, <3>2 DEF Behind
  <2>. QED  BY <1>0, <2>3, <2>4, <2>5 DEF WindowInv
<1>5. CASE Tick
  <2>1. clock' = clock + 1 /\ UNCHANGED <<channel, zset, granted, newest, late>>
    BY <1>5 DEF Tick
  <2>2. Sets'
    BY <1>t, <1>s, <2>1 DEF WindowInv, Sets
  <2>3. OrderedWindow'
    BY <2>1 DEF WindowInv, OrderedWindow
  <2>4. (\A j \in Instances : \A n \in DOMAIN channel[j] : Behind(channel[j][n]))'
    <3>0. \A j \in Instances : \A n \in DOMAIN channel'[j] : channel'[j][n] \in Script
      BY <1>t, <2>1
    <3>. SUFFICES ASSUME NEW j \in Instances, NEW n \in DOMAIN channel'[j], NEW x \in Script, x = channel'[j][n]
                 PROVE  Behind(x)'
      BY <3>0 DEF Behind
    <3>1. Behind(x) /\ x.now \in Nat  BY <2>1 DEF WindowInv, Script
    <3>. QED  BY <1>t, <2>1, <3>1 DEF Behind
  <2>. QED  BY <1>0, <2>2, <2>3, <2>4 DEF WindowInv
<1>6. CASE UNCHANGED rateVars
  <2>1. UNCHANGED <<clock, channel, zset, granted, newest, late>>
    BY <1>6 DEF rateVars
  <2>2. Sets' /\ OrderedWindow'
    BY <2>1 DEF WindowInv, Sets, OrderedWindow
  <2>3. (\A j \in Instances : \A n \in DOMAIN channel[j] : Behind(channel[j][n]))'
    BY <2>1 DEF WindowInv, Behind
  <2>. QED  BY <1>0, <2>2, <2>3 DEF WindowInv
<1>. QED
  BY <1>1, <1>2, <1>3, <1>4, <1>5, <1>6 DEF RateNext

(* Scripts on their way are scripts, and what Redis holds was granted.        *)
LEMMA RateTyped == WindowInv => RateTypeOK
<1>. SUFFICES ASSUME WindowInv PROVE RateTypeOK
  OBVIOUS
<1>1. ASSUME NEW i \in Instances, NEW n \in 1 .. Len(channel[i]) PROVE channel[i][n] \in Script
  <2>1. channel[i] \in Seq(Script)  BY DEF WindowInv, PassInv, RateTypes
  <2>. QED  BY <2>1
<1>. QED  BY <1>1 DEF WindowInv, PassInv, RateTypes, Sets, RateTypeOK

-----------------------------------------------------------------------------
(* The offline queue.                                                         *)

(* Where a pass works on an item.                                             *)
QueueBusy == {"sending", "removing", "failing", "conflicting"}
QueueItem == [status : {"queued", "replaying", "failed", "conflict"}, attempts : 0 .. MaxReplayAttempts]
TodoItem == [id : Mutations, attempts : 0 .. MaxReplayAttempts]
PassRecord == [at : {"idle", "read", "loop"} \cup QueueBusy, todo : Seq(TodoItem),
               id : {0} \cup Mutations, attempts : 0 .. MaxReplayAttempts]

(* The stored state and what the pages hold in memory.                        *)
QueueTypes ==
    /\ open \in SUBSET Pages
    /\ made \in 0 .. NumMutations
    /\ store \in [Mutations -> QueueItem \cup {NoItem}]
    /\ pass \in [Pages -> PassRecord]
    /\ asked \in [Pages -> {0} \cup Mutations]
    /\ fixing \in [Pages -> Mutations \cup {NoItem}]
    /\ sends \in [Mutations -> Nat] /\ applied \in [Mutations -> Nat]

(* Mutations that were not made are not stored, sent or applied.              *)
NotBefore == \A i \in Mutations : i > made => store[i] = NoItem /\ applied[i] = 0 /\ sends[i] = 0

(* A page works on, shows and resolves mutations that were made, and removes  *)
(* from the store what the server has applied.                                *)
PageKnows(p) ==
    /\ \A k \in DOMAIN pass[p].todo : pass[p].todo[k].id <= made
    /\ pass[p].at \in QueueBusy => pass[p].id \in 1 .. made
    /\ asked[p] <= made
    /\ fixing[p] # NoItem => fixing[p] <= made
    /\ pass[p].at = "removing" => applied[pass[p].id] > 0

(* What holds however many pages replay the queue.                            *)
QueueCore ==
    /\ QueueTypes /\ NotBefore /\ (\A p \in Pages : PageKnows(p))
    /\ NothingIsLost /\ StuckOnlyByInterruption

(* With one page the snapshot of a pass is what the store holds: nobody else  *)
(* replays or resolves.                                                       *)
PassMatchesStore(p) ==
    /\ \A k, l \in DOMAIN pass[p].todo : k # l => pass[p].todo[k].id # pass[p].todo[l].id
    /\ \A k \in DOMAIN pass[p].todo :
         /\ Pending(pass[p].todo[k].id)
         /\ store[pass[p].todo[k].id].attempts = pass[p].todo[k].attempts
    /\ pass[p].at \in QueueBusy => store[pass[p].id] = Item("replaying", pass[p].attempts)

(* The conflict on screen is in the store, and one being resolved at most     *)
(* discarded meanwhile.                                                       *)
AskedMatchesStore(p) ==
    /\ asked[p] # 0 => store[asked[p]] # NoItem /\ store[asked[p]].status = "conflict"
    /\ fixing[p] # NoItem => store[fixing[p]] = NoItem \/ store[fixing[p]].status = "conflict"

(* A success that was seen is removed, or about to be, or stuck.              *)
SuccessIsFinal(p) ==
    \A i \in Mutations : applied[i] > 0 /\ i \notin doubtful =>
        /\ applied[i] = 1 /\ fixing[p] # i
        /\ store[i] = NoItem \/ store[i].status = "replaying"
        /\ (pass[p].id = i /\ pass[p].at \in QueueBusy) => pass[p].at = "removing"

(* An attempt is recorded before it is made.                                  *)
AttemptsAreRecorded ==
    \A i \in Mutations :
        /\ store[i] = NoItem => sends[i] <= MaxReplayAttempts
        /\ store[i] # NoItem => sends[i] <= store[i].attempts

(* What holds of the only page.                                               *)
Alone(p) == PassMatchesStore(p) /\ AskedMatchesStore(p) /\ SuccessIsFinal(p) /\ AttemptsAreRecorded

(* The inductive invariant.                                                   *)
QueueInv == QueueCore /\ (\A p \in Pages : open = {p} => Alone(p))

(* What holds of a set once it holds of every smaller one holds of all subsets of a*)
(* finite set.                                                                *)
LEMMA SubsetInduction ==
    ASSUME NEW A, IsFiniteSet(A), NEW G \in SUBSET SUBSET A,
           \A s \in SUBSET A : (\A t \in SUBSET s : t # s => t \in G) => s \in G
    PROVE  G = SUBSET A
<1>. DEFINE Bad == {n \in Nat : \E s \in SUBSET A : Cardinality(s) = n /\ s \notin G}
<1>1. \A s \in SUBSET A : IsFiniteSet(s) /\ Cardinality(s) \in Nat
  BY FS_Subset, FS_CardinalityType
<1>2. Bad = {}
  <2>. SUFFICES ASSUME Bad # {} PROVE FALSE
    OBVIOUS
  <2>1. Bad \in SUBSET Nat  OBVIOUS
  <2>2. PICK m \in Bad : \A k \in Bad : m <= k
    <3>. HIDE DEF Bad
    <3>. QED  BY <2>1, LeastElement
  <2>3. PICK s \in SUBSET A : Cardinality(s) = m /\ s \notin G  OBVIOUS
  <2>4. ASSUME NEW t \in SUBSET s, t # s PROVE t \in G
    <3>1. Cardinality(t) < Cardinality(s)  BY <1>1, <2>4, FS_Subset
    <3>2. Cardinality(t) \in Nat /\ Cardinality(t) \notin Bad  BY <1>1, <2>1, <2>2, <2>3, <3>1
    <3>. QED  BY <3>2
  <2>. QED  BY <2>3, <2>4
<1>. QED  BY <1>1, <1>2


(* What a step of page p has to keep for all pages to be right.               *)
LEMMA CoreStep ==
    ASSUME QueueCore, NEW p \in Pages, p \in open, open' = open, made' = made, QueueTypes',
           \A q \in Pages : q # p => pass'[q] = pass[q] /\ asked'[q] = asked[q] /\ fixing'[q] = fixing[q],
           PageKnows(p)',
           \A i \in Mutations : applied'[i] >= applied[i],
           \A i \in Mutations : i > made => store'[i] = store[i] /\ applied'[i] = applied[i] /\ sends'[i] = sends[i],
           \A i \in discarded : i \in discarded', \A i \in interrupted : i \in interrupted',
           \A i \in 1 .. made : store[i] # NoItem /\ store'[i] = NoItem => applied'[i] > 0 \/ i \in discarded',
           \A i \in Mutations : store'[i] # NoItem /\ store'[i].status = "replaying" =>
               \/ pass'[p].id = i /\ pass'[p].at \in QueueBusy
               \/ i \in interrupted'
               \/ store'[i] = store[i] /\ ~(pass[p].id = i /\ pass[p].at \in QueueBusy)
    PROVE  QueueCore'
<1>1. /\ applied \in [Mutations -> Nat] /\ applied' \in [Mutations -> Nat] /\ made \in 0 .. NumMutations
      /\ open \in SUBSET Pages /\ 1 .. made \subseteq Mutations
  BY QueueAssumption DEF QueueCore, QueueTypes, Mutations
<1>2. NotBefore'
  BY DEF QueueCore, NotBefore
<1>3. ASSUME NEW q \in Pages, q # p PROVE PageKnows(q)'
  <2>1. pass'[q] = pass[q] /\ asked'[q] = asked[q] /\ fixing'[q] = fixing[q] /\ made' = made  BY <1>3
  <2>2. PageKnows(q)  BY DEF QueueCore
  <2>3. ASSUME pass[q].at = "removing" PROVE applied'[pass[q].id] > 0
    <3>1. pass[q].id \in Mutations /\ applied[pass[q].id] > 0
      BY <1>1, <2>2, <2>3 DEF PageKnows, QueueBusy
    <3>2. /\ applied[pass[q].id] \in Nat /\ applied'[pass[q].id] \in Nat
          /\ applied'[pass[q].id] >= applied[pass[q].id]
      BY <1>1, <3>1
    <3>. QED  BY <3>1, <3>2
  <2>. QED  BY <2>1, <2>2, <2>3 DEF PageKnows
<1>4. NothingIsLost'
  <2>. SUFFICES ASSUME NEW i \in 1 .. made, store'[i] = NoItem, i \notin discarded' PROVE applied'[i] > 0
    BY DEF NothingIsLost
  <2>1. i \in Mutations /\ applied[i] \in Nat /\ applied'[i] \in Nat /\ applied'[i] >= applied[i]  BY <1>1
  <2>2. store[i] # NoItem \/ applied[i] > 0  BY DEF QueueCore, NothingIsLost
  <2>. QED  BY <2>1, <2>2
<1>5. StuckOnlyByInterruption'
  <2>. SUFFICES ASSUME NEW i \in Mutations, store'[i] # NoItem, store'[i].status = "replaying", i \notin interrupted'
               PROVE  InProgress(i)'
    BY DEF StuckOnlyByInterruption
  <2>1. CASE pass'[p].id = i /\ pass'[p].at \in QueueBusy
    BY <2>1 DEF InProgress, QueueBusy
  <2>2. CASE store'[i] = store[i] /\ ~(pass[p].id = i /\ pass[p].at \in QueueBusy)
    <3>1. PICK q \in open : pass[q].id = i /\ pass[q].at \in QueueBusy
      BY <2>2 DEF QueueCore, StuckOnlyByInterruption, InProgress, QueueBusy
    <3>2. q # p /\ q \in Pages /\ pass'[q] = pass[q] /\ q \in open'  BY <1>1, <2>2, <3>1
    <3>. QED  BY <3>1, <3>2 DEF InProgress, QueueBusy
  <2>. QED  BY <2>1, <2>2
<1>. QED  BY <1>2, <1>3, <1>4, <1>5 DEF QueueCore

(* With one page, the page that takes a step is that page.                    *)
LEMMA QueueInvStep ==
    ASSUME NEW p \in Pages, p \in open, open' = open, QueueCore', (open = {p} /\ Alone(p)) => Alone(p)', QueueInv
    PROVE  QueueInv'
<1>1. ASSUME NEW q \in Pages, open' = {q} PROVE Alone(q)'
  BY <1>1 DEF QueueInv
<1>. QED  BY <1>1 DEF QueueInv

(* What is written to the store is an item.                                   *)
LEMMA ItemFields ==
    ASSUME NEW s \in {"queued", "replaying", "failed", "conflict"}, NEW n \in 0 .. MaxReplayAttempts
    PROVE  /\ Item(s, n) \in QueueItem /\ Item(s, n) # NoItem
           /\ Item(s, n).status = s /\ Item(s, n).attempts = n
<1>1. Item(s, n) \in [status : {"queued", "replaying", "failed", "conflict"}, attempts : Nat]
  BY DEF Item
<1>2. Item(s, n) # NoItem  BY <1>1, QueueAssumption
<1>. QED  BY <1>2 DEF Item, QueueItem

(* A pass that goes on to another place keeps its item and its list.          *)
LEMMA PassMoves ==
    ASSUME NEW f \in [Pages -> PassRecord], NEW p \in Pages, NEW x \in {"loop"} \cup QueueBusy,
           NEW g, g = [f EXCEPT ![p].at = x]
    PROVE  /\ g \in [Pages -> PassRecord]
           /\ g[p].at = x /\ g[p].todo = f[p].todo /\ g[p].id = f[p].id /\ g[p].attempts = f[p].attempts
           /\ \A q \in Pages : q # p => g[q] = f[q]
<1>. DEFINE r == [f[p] EXCEPT !.at = x]
<1>1. f[p] \in PassRecord  OBVIOUS
<1>2. r \in PassRecord /\ r.at = x /\ r.todo = f[p].todo /\ r.id = f[p].id /\ r.attempts = f[p].attempts
  BY <1>1 DEF PassRecord
<1>3. g = [f EXCEPT ![p] = r]  OBVIOUS
<1>. HIDE DEF r
<1>. QED  BY <1>2, <1>3

(* The fields of a pass.                                                      *)
LEMMA PassFields ==
    ASSUME NEW r \in PassRecord
    PROVE  /\ r.at \in {"idle", "read", "loop"} \cup QueueBusy /\ r.todo \in Seq(TodoItem)
           /\ r.id \in {0} \cup Mutations /\ r.attempts \in 0 .. MaxReplayAttempts
BY DEF PassRecord

(* The fields of a listed item.                                               *)
LEMMA TodoFields ==
    ASSUME NEW s \in Seq(TodoItem), NEW k \in DOMAIN s
    PROVE  s[k] \in TodoItem /\ s[k].id \in Mutations /\ s[k].attempts \in 0 .. MaxReplayAttempts
<1>1. s[k] \in TodoItem  OBVIOUS
<1>. QED  BY <1>1 DEF TodoItem

(* What is known of the page that takes a step.                               *)
LEMMA PageFacts ==
    ASSUME QueueInv, NEW p \in open
    PROVE  /\ p \in Pages /\ QueueCore /\ QueueTypes /\ NotBefore /\ PageKnows(p)
           /\ pass \in [Pages -> PassRecord] /\ pass[p] \in PassRecord
           /\ pass[p].at \in {"idle", "read", "loop"} \cup QueueBusy /\ pass[p].todo \in Seq(TodoItem)
           /\ pass[p].id \in {0} \cup Mutations /\ pass[p].attempts \in 0 .. MaxReplayAttempts
           /\ 1 .. made \subseteq Mutations /\ made \in Nat
<1>1. QueueCore /\ QueueTypes /\ NotBefore /\ p \in Pages  BY DEF QueueInv, QueueCore, QueueTypes
<1>2. PageKnows(p) /\ pass \in [Pages -> PassRecord]  BY <1>1 DEF QueueCore, QueueTypes
<1>3. made \in Nat /\ 1 .. made \subseteq Mutations  BY <1>1, QueueAssumption DEF QueueTypes, Mutations
<1>4. pass[p] \in PassRecord  BY <1>1, <1>2
<1>. QED  BY <1>1, <1>2, <1>3, <1>4, PassFields

(* The answer of the server, or its absence, decides where the pass goes on.  *)
LEMMA OnReplayPreserves ==
    ASSUME QueueInv, NEW p \in open, OnReplay(p)
    PROVE  QueueInv'
<1>0. /\ p \in Pages /\ QueueCore /\ QueueTypes /\ PageKnows(p) /\ pass \in [Pages -> PassRecord]
      /\ 1 .. made \subseteq Mutations /\ made \in Nat /\ pass[p].attempts \in 0 .. MaxReplayAttempts
  BY PageFacts
<1>. DEFINE m == pass[p].id
<1>1. /\ pass[p].at = "sending" /\ m \in 1 .. made /\ m \in Mutations
      /\ UNCHANGED <<open, store, asked, fixing, made, sends, discarded, interrupted>>
  BY <1>0 DEF OnReplay, PageKnows, QueueBusy
<1>. HIDE DEF m
<1>2. /\ applied' \in [Mutations -> Nat] /\ \A i \in Mutations : applied'[i] >= applied[i]
      /\ \A i \in Mutations : i # m => applied'[i] = applied[i]
  BY <1>0 DEF OnReplay, QueueTypes, m
<1>3. PICK x \in QueueBusy : /\ pass' = [pass EXCEPT ![p].at = x]
                             /\ \/ x = "removing" /\ applied'[m] = applied[m] + 1 /\ doubtful' = doubtful
                                \/ x = "failing" /\ m \in doubtful' /\ doubtful' = doubtful \cup {m}
                                \/ x # "removing" /\ applied' = applied /\ doubtful' = doubtful
  BY <1>0, <1>1 DEF OnReplay, QueueBusy, QueueTypes, m
<1>4. /\ pass' \in [Pages -> PassRecord]
      /\ pass'[p].at = x /\ pass'[p].todo = pass[p].todo /\ pass'[p].id = m
      /\ pass'[p].attempts = pass[p].attempts
      /\ \A q \in Pages : q # p => pass'[q] = pass[q]
  BY <1>0, <1>3, PassMoves DEF m
<1>5. applied[m] \in Nat  BY <1>0, <1>1 DEF QueueTypes
<1>6. QueueTypes'
  BY <1>0, <1>1, <1>2, <1>4 DEF QueueTypes
<1>7. PageKnows(p)'
  BY <1>0, <1>1, <1>3, <1>4, <1>5 DEF PageKnows, QueueBusy
<1>8. QueueCore'
  <2>1. \A i \in Mutations : i > made => store'[i] = store[i] /\ applied'[i] = applied[i] /\ sends'[i] = sends[i]
    BY <1>0, <1>1, <1>2 DEF Mutations
  <2>2. \A q \in Pages : q # p => pass'[q] = pass[q] /\ asked'[q] = asked[q] /\ fixing'[q] = fixing[q]
    BY <1>1, <1>4
  <2>3. \A i \in Mutations : store'[i] # NoItem /\ store'[i].status = "replaying" =>
               \/ pass'[p].id = i /\ pass'[p].at \in QueueBusy
               \/ i \in interrupted'
               \/ store'[i] = store[i] /\ ~(pass[p].id = i /\ pass[p].at \in QueueBusy)
    BY <1>1, <1>3, <1>4 DEF m
  <2>. QED  BY <1>0, <1>1, <1>2, <1>6, <1>7, <2>1, <2>2, <2>3, CoreStep
<1>9. ASSUME Alone(p) PROVE Alone(p)'
  <2>1. PassMatchesStore(p)' /\ AskedMatchesStore(p)' /\ AttemptsAreRecorded'
    BY <1>1, <1>4, <1>9 DEF Alone, PassMatchesStore, AskedMatchesStore, AttemptsAreRecorded, Pending, m, QueueBusy
  <2>2. SuccessIsFinal(p)'
    <3>1. store[m] # NoItem /\ store[m].status = "replaying" /\ fixing[p] # m
      <4>1. store[m] = Item("replaying", pass[p].attempts)
        BY <1>1, <1>9 DEF Alone, PassMatchesStore, m, QueueBusy
      <4>2. m # NoItem  BY <1>1, QueueAssumption
      <4>. QED  BY <1>0, <1>9, <4>1, <4>2, ItemFields DEF Alone, AskedMatchesStore
    <3>2. m \in doubtful \/ applied[m] = 0
      BY <1>1, <1>5, <1>9 DEF Alone, SuccessIsFinal, m, QueueBusy
    <3>. SUFFICES ASSUME NEW i \in Mutations, applied'[i] > 0, i \notin doubtful'
                 PROVE /\ applied'[i] = 1 /\ fixing'[p] # i
                       /\ store'[i] = NoItem \/ store'[i].status = "replaying"
                       /\ (pass'[p].id = i /\ pass'[p].at \in QueueBusy) => pass'[p].at = "removing"
      BY DEF SuccessIsFinal
    <3>3. CASE i = m  BY <1>1, <1>3, <1>4, <1>5, <3>1, <3>2, <3>3
    <3>4. CASE i # m
      BY <1>1, <1>2, <1>3, <1>4, <1>9, <3>4 DEF Alone, SuccessIsFinal
    <3>. QED  BY <3>3, <3>4
  <2>. QED  BY <2>1, <2>2 DEF Alone
<1>. QED  BY <1>0, <1>1, <1>8, <1>9, QueueInvStep

(* A removal takes away what was applied, or leaves it in doubt.              *)
LEMMA RemoveItemPreserves ==
    ASSUME QueueInv, NEW p \in open, RemoveItem(p)
    PROVE  QueueInv'
<1>0. /\ p \in Pages /\ QueueCore /\ QueueTypes /\ PageKnows(p) /\ pass \in [Pages -> PassRecord]
      /\ 1 .. made \subseteq Mutations /\ made \in Nat /\ pass[p].attempts \in 0 .. MaxReplayAttempts
  BY PageFacts
<1>. DEFINE m == pass[p].id
<1>1. /\ pass[p].at = "removing" /\ m \in 1 .. made /\ m \in Mutations /\ applied[m] > 0
      /\ UNCHANGED <<open, asked, fixing, made, sends, applied, discarded, interrupted>>
  BY <1>0 DEF RemoveItem, PageKnows, QueueBusy
<1>2. PICK x \in {"loop", "failing"} :
        /\ pass' = [pass EXCEPT ![p].at = x]
        /\ \/ x = "loop" /\ store' = [store EXCEPT ![m] = NoItem] /\ doubtful' = doubtful
           \/ x = "failing" /\ store' = store /\ doubtful' = doubtful \cup {m}
  BY DEF RemoveItem
<1>. HIDE DEF m
<1>3. /\ store' \in [Mutations -> QueueItem \cup {NoItem}]
      /\ \A i \in Mutations : i # m => store'[i] = store[i]
      /\ store'[m] = NoItem \/ (x = "failing" /\ store'[m] = store[m])
  BY <1>0, <1>1, <1>2 DEF QueueTypes
<1>4. /\ pass' \in [Pages -> PassRecord]
      /\ pass'[p].at = x /\ pass'[p].todo = pass[p].todo /\ pass'[p].id = m
      /\ pass'[p].attempts = pass[p].attempts
      /\ \A q \in Pages : q # p => pass'[q] = pass[q]
  <2>1. x \in {"loop"} \cup QueueBusy  BY DEF QueueBusy
  <2>. QED  BY <1>0, <1>2, <2>1, PassMoves DEF m
<1>5. QueueTypes'
  BY <1>0, <1>1, <1>3, <1>4 DEF QueueTypes
<1>6. PageKnows(p)'
  BY <1>0, <1>1, <1>4 DEF PageKnows, QueueBusy
<1>7. QueueCore'
  <2>1. \A i \in Mutations : i > made => store'[i] = store[i] /\ applied'[i] = applied[i] /\ sends'[i] = sends[i]
    BY <1>0, <1>1, <1>3 DEF Mutations
  <2>2. \A q \in Pages : q # p => pass'[q] = pass[q] /\ asked'[q] = asked[q] /\ fixing'[q] = fixing[q]
    BY <1>1, <1>4
  <2>3. \A i \in Mutations : store'[i] # NoItem /\ store'[i].status = "replaying" =>
               \/ pass'[p].id = i /\ pass'[p].at \in QueueBusy
               \/ i \in interrupted'
               \/ store'[i] = store[i] /\ ~(pass[p].id = i /\ pass[p].at \in QueueBusy)
    BY <1>3, <1>4 DEF m, QueueBusy
  <2>4. \A i \in 1 .. made : store[i] # NoItem /\ store'[i] = NoItem => applied'[i] > 0 \/ i \in discarded'
    BY <1>0, <1>1, <1>3
  <2>5. \A i \in Mutations : applied'[i] >= applied[i]
    BY <1>0, <1>1 DEF QueueTypes
  <2>. QED  BY <1>0, <1>1, <1>5, <1>6, <2>1, <2>2, <2>3, <2>4, <2>5, CoreStep
<1>8. ASSUME Alone(p) PROVE Alone(p)'
  <2>1. store[m] = Item("replaying", pass[p].attempts)
    BY <1>1, <1>8 DEF Alone, PassMatchesStore, m, QueueBusy
  <2>2. store[m] # NoItem /\ store[m].status = "replaying" /\ store[m].attempts = pass[p].attempts /\ m # NoItem
    BY <1>0, <1>1, <2>1, ItemFields, QueueAssumption
  <2>3. \A k \in DOMAIN pass[p].todo : pass[p].todo[k].id # m /\ pass[p].todo[k].id \in Mutations
    <3>1. \A k \in DOMAIN pass[p].todo : pass[p].todo[k].id # m
      BY <1>8, <2>2 DEF Alone, PassMatchesStore, Pending
    <3>. QED  BY <3>1, PageFacts, TodoFields
  <2>4. PassMatchesStore(p)'
    BY <1>1, <1>2, <1>3, <1>4, <1>8, <2>1, <2>3 DEF Alone, PassMatchesStore, Pending, QueueBusy
  <2>5. AskedMatchesStore(p)'
    BY <1>0, <1>1, <1>3, <1>8, <2>2 DEF Alone, AskedMatchesStore, QueueTypes
  <2>6. AttemptsAreRecorded'
    <3>1. sends[m] \in Nat /\ sends[m] <= pass[p].attempts
      BY <1>0, <1>1, <1>8, <2>2 DEF Alone, AttemptsAreRecorded, QueueTypes
    <3>2. sends[m] <= MaxReplayAttempts  BY <1>0, <3>1, QueueAssumption
    <3>. QED  BY <1>1, <1>3, <1>8, <3>2 DEF Alone, AttemptsAreRecorded
  <2>7. SuccessIsFinal(p)'
    BY <1>1, <1>2, <1>3, <1>4, <1>8 DEF Alone, SuccessIsFinal, m, QueueBusy
  <2>. QED  BY <2>4, <2>5, <2>6, <2>7 DEF Alone
<1>. QED  BY <1>0, <1>1, <1>7, <1>8, QueueInvStep

(* What the catch block writes back is what the pass holds.                   *)
LEMMA PutBackPreserves ==
    ASSUME QueueInv, NEW p \in open, PutBack(p)
    PROVE  QueueInv'
<1>0. /\ p \in Pages /\ QueueCore /\ QueueTypes /\ PageKnows(p) /\ pass \in [Pages -> PassRecord]
      /\ 1 .. made \subseteq Mutations /\ made \in Nat /\ pass[p].attempts \in 0 .. MaxReplayAttempts
  BY PageFacts
<1>. DEFINE m == pass[p].id
            st == IF pass[p].at = "conflicting" THEN "conflict" ELSE AfterError(pass[p].attempts)
<1>1. /\ pass[p].at \in {"failing", "conflicting"} /\ m \in 1 .. made /\ m \in Mutations
      /\ UNCHANGED <<open, fixing, made, sends, applied, discarded, doubtful, interrupted>>
      /\ pass' = [pass EXCEPT ![p].at = "loop"]
      /\ store' = [store EXCEPT ![m] = Item(st, pass[p].attempts)]
      /\ asked' = IF pass[p].at = "conflicting" THEN [asked EXCEPT ![p] = m] ELSE asked
  BY <1>0 DEF PutBack, PageKnows, QueueBusy, ghostVars
<1>2. st \in {"conflict", "failed", "queued"} /\ (pass[p].at = "conflicting" => st = "conflict")
  BY DEF AfterError
<1>. HIDE DEF m, st
<1>3. /\ store' \in [Mutations -> QueueItem \cup {NoItem}]
      /\ \A i \in Mutations : i # m => store'[i] = store[i]
      /\ store'[m] = Item(st, pass[p].attempts) /\ store'[m] # NoItem /\ store'[m].status = st
      /\ store'[m].attempts = pass[p].attempts
  <2>1. /\ Item(st, pass[p].attempts) \in QueueItem /\ Item(st, pass[p].attempts) # NoItem
        /\ Item(st, pass[p].attempts).status = st /\ Item(st, pass[p].attempts).attempts = pass[p].attempts
    BY <1>0, <1>2, ItemFields
  <2>. QED  BY <1>0, <1>1, <2>1 DEF QueueTypes
<1>4. /\ pass' \in [Pages -> PassRecord]
      /\ pass'[p].at = "loop" /\ pass'[p].todo = pass[p].todo /\ pass'[p].id = m
      /\ \A q \in Pages : q # p => pass'[q] = pass[q]
  BY <1>0, <1>1, PassMoves DEF m
<1>5. /\ asked' \in [Pages -> {0} \cup Mutations] /\ \A q \in Pages : q # p => asked'[q] = asked[q]
      /\ asked'[p] = asked[p] \/ (st = "conflict" /\ asked'[p] = m)
  BY <1>0, <1>1, <1>2 DEF QueueTypes
<1>6. QueueTypes'
  BY <1>0, <1>1, <1>3, <1>4, <1>5 DEF QueueTypes
<1>7. PageKnows(p)'
  BY <1>0, <1>1, <1>4, <1>5 DEF PageKnows, QueueBusy
<1>8. QueueCore'
  <2>1. \A i \in Mutations : i > made => store'[i] = store[i] /\ applied'[i] = applied[i] /\ sends'[i] = sends[i]
    BY <1>0, <1>1, <1>3 DEF Mutations
  <2>2. \A q \in Pages : q # p => pass'[q] = pass[q] /\ asked'[q] = asked[q] /\ fixing'[q] = fixing[q]
    BY <1>1, <1>4, <1>5
  <2>3. \A i \in Mutations : store'[i] # NoItem /\ store'[i].status = "replaying" =>
               \/ pass'[p].id = i /\ pass'[p].at \in QueueBusy
               \/ i \in interrupted'
               \/ store'[i] = store[i] /\ ~(pass[p].id = i /\ pass[p].at \in QueueBusy)
    BY <1>2, <1>3 DEF m
  <2>4. \A i \in 1 .. made : store[i] # NoItem /\ store'[i] = NoItem => applied'[i] > 0 \/ i \in discarded'
    BY <1>0, <1>3
  <2>5. \A i \in Mutations : applied'[i] >= applied[i]
    BY <1>0, <1>1 DEF QueueTypes
  <2>. QED  BY <1>0, <1>1, <1>6, <1>7, <2>1, <2>2, <2>3, <2>4, <2>5, CoreStep
<1>9. ASSUME Alone(p) PROVE Alone(p)'
  <2>1. store[m] = Item("replaying", pass[p].attempts)
    BY <1>1, <1>9 DEF Alone, PassMatchesStore, m, QueueBusy
  <2>2. store[m] # NoItem /\ store[m].status = "replaying" /\ store[m].attempts = pass[p].attempts /\ m # NoItem
    BY <1>0, <1>1, <2>1, ItemFields, QueueAssumption
  <2>3. \A k \in DOMAIN pass[p].todo : pass[p].todo[k].id # m /\ pass[p].todo[k].id \in Mutations
    <3>1. \A k \in DOMAIN pass[p].todo : pass[p].todo[k].id # m
      BY <1>9, <2>2 DEF Alone, PassMatchesStore, Pending
    <3>. QED  BY <3>1, PageFacts, TodoFields
  <2>4. PassMatchesStore(p)'
    BY <1>1, <1>3, <1>4, <1>9, <2>3 DEF Alone, PassMatchesStore, Pending, QueueBusy
  <2>5. AskedMatchesStore(p)'
    <3>1. asked'[p] # 0 => store'[asked'[p]] # NoItem /\ store'[asked'[p]].status = "conflict"
      BY <1>0, <1>1, <1>3, <1>5, <1>9, <2>2 DEF Alone, AskedMatchesStore, QueueTypes
    <3>2. fixing[p] # NoItem => fixing[p] # m /\ fixing[p] \in Mutations
      BY <1>0, <1>9, <2>2 DEF Alone, AskedMatchesStore, QueueTypes
    <3>. QED  BY <1>1, <1>3, <1>9, <3>1, <3>2 DEF Alone, AskedMatchesStore
  <2>6. AttemptsAreRecorded'
    BY <1>1, <1>3, <1>9, <2>2 DEF Alone, AttemptsAreRecorded
  <2>7. SuccessIsFinal(p)'
    <3>1. ~(applied[m] > 0 /\ m \notin doubtful)
      BY <1>1, <1>9 DEF Alone, SuccessIsFinal, m, QueueBusy
    <3>. QED  BY <1>1, <1>3, <1>4, <1>9, <3>1 DEF Alone, SuccessIsFinal, QueueBusy
  <2>. QED  BY <2>4, <2>5, <2>6, <2>7 DEF Alone
<1>. QED  BY <1>0, <1>1, <1>8, <1>9, QueueInvStep

(* A pass that ends, by itself, by an error or with its page, leaves the store *)
(* as it is and the item it worked on interrupted.                            *)
LEMMA PassStops ==
    ASSUME QueueInv, NEW p \in open, PassThrows(p) \/ PassEnds(p) \/ ClosePage(p)
    PROVE  QueueInv'
<1>0. /\ p \in Pages /\ QueueCore /\ QueueTypes /\ PageKnows(p) /\ pass \in [Pages -> PassRecord]
      /\ 1 .. made \subseteq Mutations /\ made \in Nat
  BY PageFacts
<1>1. /\ UNCHANGED <<open, store, made, sends, applied, discarded, doubtful>>
      /\ pass' = [pass EXCEPT ![p] = Idle]
      /\ (asked' = asked /\ fixing' = fixing) \/
         (asked' = [asked EXCEPT ![p] = 0] /\ fixing' = [fixing EXCEPT ![p] = NoItem])
  BY DEF PassThrows, PassEnds, ClosePage, ghostVars
<1>2. /\ \A i \in interrupted : i \in interrupted'
      /\ pass[p].at \in QueueBusy => pass[p].id \in interrupted'
  BY DEF PassThrows, PassEnds, ClosePage, ghostVars, QueueBusy
<1>3. /\ Idle \in PassRecord /\ Idle.at = "idle" /\ Idle.todo = <<>> /\ Idle.id = 0
  BY QueueAssumption DEF Idle, PassRecord
<1>4. /\ pass' \in [Pages -> PassRecord] /\ pass'[p] = Idle
      /\ \A q \in Pages : q # p => pass'[q] = pass[q]
  BY <1>0, <1>1, <1>3
<1>5. /\ asked' \in [Pages -> {0} \cup Mutations] /\ fixing' \in [Pages -> Mutations \cup {NoItem}]
      /\ \A q \in Pages : q # p => asked'[q] = asked[q] /\ fixing'[q] = fixing[q]
      /\ (asked'[p] = asked[p] /\ fixing'[p] = fixing[p]) \/ (asked'[p] = 0 /\ fixing'[p] = NoItem)
  BY <1>0, <1>1 DEF QueueTypes
<1>6. QueueTypes'
  BY <1>0, <1>1, <1>4, <1>5 DEF QueueTypes
<1>7. PageKnows(p)'
  BY <1>0, <1>1, <1>3, <1>4, <1>5 DEF PageKnows, QueueBusy
<1>8. QueueCore'
  <2>1. \A i \in Mutations : i > made => store'[i] = store[i] /\ applied'[i] = applied[i] /\ sends'[i] = sends[i]
    BY <1>1
  <2>2. \A q \in Pages : q # p => pass'[q] = pass[q] /\ asked'[q] = asked[q] /\ fixing'[q] = fixing[q]
    BY <1>4, <1>5
  <2>3. \A i \in Mutations : store'[i] # NoItem /\ store'[i].status = "replaying" =>
               \/ pass'[p].id = i /\ pass'[p].at \in QueueBusy
               \/ i \in interrupted'
               \/ store'[i] = store[i] /\ ~(pass[p].id = i /\ pass[p].at \in QueueBusy)
    BY <1>1, <1>2
  <2>4. \A i \in 1 .. made : store[i] # NoItem /\ store'[i] = NoItem => applied'[i] > 0 \/ i \in discarded'
    BY <1>1
  <2>5. \A i \in Mutations : applied'[i] >= applied[i]
    BY <1>0, <1>1 DEF QueueTypes
  <2>. QED  BY <1>0, <1>1, <1>2, <1>6, <1>7, <2>1, <2>2, <2>3, <2>4, <2>5, CoreStep
<1>9. ASSUME Alone(p) PROVE Alone(p)'
  <2>1. PassMatchesStore(p)' /\ AskedMatchesStore(p)' /\ AttemptsAreRecorded'
    BY <1>1, <1>3, <1>4, <1>5, <1>9
       DEF Alone, PassMatchesStore, AskedMatchesStore, AttemptsAreRecorded, QueueBusy
  <2>2. SuccessIsFinal(p)'
    BY <1>1, <1>3, <1>4, <1>5, <1>9, QueueAssumption DEF Alone, SuccessIsFinal, QueueBusy, Mutations
  <2>. QED  BY <2>1, <2>2 DEF Alone
<1>. QED  BY <1>0, <1>1, <1>8, <1>9, QueueInvStep

(* The rest of a list that is not empty.                                      *)
LEMMA TailFacts ==
    ASSUME NEW S, NEW s \in Seq(S), s # <<>>
    PROVE  /\ Tail(s) \in Seq(S) /\ 1 \in DOMAIN s /\ Head(s) = s[1] /\ Head(s) \in S
           /\ \A k \in DOMAIN Tail(s) : k \in Nat /\ k + 1 \in DOMAIN s /\ k + 1 # 1 /\ Tail(s)[k] = s[k + 1]
<1>1. Len(s) \in Nat /\ Len(s) # 0 /\ DOMAIN s = 1 .. Len(s)  OBVIOUS
<1>2. Tail(s) \in Seq(S) /\ Len(Tail(s)) = Len(s) - 1 /\ DOMAIN Tail(s) = 1 .. Len(s) - 1  BY <1>1
<1>3. \A k \in DOMAIN Tail(s) : Tail(s)[k] = s[k + 1]  BY <1>1, <1>2
<1>. QED  BY <1>1, <1>2, <1>3

(* An item with no attempts left is passed over.                              *)
LEMMA SkipItemPreserves ==
    ASSUME QueueInv, NEW p \in open, SkipItem(p)
    PROVE  QueueInv'
<1>0. /\ p \in Pages /\ QueueCore /\ QueueTypes /\ PageKnows(p) /\ pass \in [Pages -> PassRecord]
      /\ pass[p] \in PassRecord /\ pass[p].todo \in Seq(TodoItem)
  BY PageFacts
<1>. DEFINE t == Tail(pass[p].todo)
            r == [pass[p] EXCEPT !.todo = t]
<1>1. /\ pass[p].at = "loop" /\ pass[p].todo # <<>> /\ pass' = [pass EXCEPT ![p] = r]
      /\ UNCHANGED <<open, store, asked, fixing, made, sends, applied, discarded, doubtful, interrupted>>
  BY DEF SkipItem, ghostVars
<1>2. /\ t \in Seq(TodoItem)
      /\ \A k \in DOMAIN t : k \in Nat /\ k + 1 \in DOMAIN pass[p].todo /\ t[k] = pass[p].todo[k + 1]
  BY <1>0, <1>1, TailFacts
<1>. HIDE DEF t
<1>3. r \in PassRecord /\ r.at = "loop" /\ r.todo = t
  BY <1>0, <1>1, <1>2 DEF PassRecord
<1>. HIDE DEF r
<1>4. /\ pass' \in [Pages -> PassRecord] /\ pass'[p].at = "loop" /\ pass'[p].todo = t
      /\ \A q \in Pages : q # p => pass'[q] = pass[q]
  BY <1>0, <1>1, <1>3
<1>5. QueueTypes'
  BY <1>0, <1>1, <1>4 DEF QueueTypes
<1>6. PageKnows(p)'
  BY <1>0, <1>1, <1>2, <1>4 DEF PageKnows, QueueBusy
<1>7. QueueCore'
  <2>1. \A i \in Mutations : i > made => store'[i] = store[i] /\ applied'[i] = applied[i] /\ sends'[i] = sends[i]
    BY <1>1
  <2>2. \A q \in Pages : q # p => pass'[q] = pass[q] /\ asked'[q] = asked[q] /\ fixing'[q] = fixing[q]
    BY <1>1, <1>4
  <2>3. \A i \in Mutations : store'[i] # NoItem /\ store'[i].status = "replaying" =>
               \/ pass'[p].id = i /\ pass'[p].at \in QueueBusy
               \/ i \in interrupted'
               \/ store'[i] = store[i] /\ ~(pass[p].id = i /\ pass[p].at \in QueueBusy)
    BY <1>1 DEF QueueBusy
  <2>4. \A i \in 1 .. made : store[i] # NoItem /\ store'[i] = NoItem => applied'[i] > 0 \/ i \in discarded'
    BY <1>1
  <2>5. \A i \in Mutations : applied'[i] >= applied[i]
    BY <1>0, <1>1 DEF QueueTypes
  <2>. QED  BY <1>0, <1>1, <1>5, <1>6, <2>1, <2>2, <2>3, <2>4, <2>5, CoreStep
<1>8. ASSUME Alone(p) PROVE Alone(p)'
  <2>1. PassMatchesStore(p)'
    <3>1. ASSUME NEW k \in DOMAIN t, NEW l \in DOMAIN t, k # l PROVE t[k].id # t[l].id
      <4>1. k + 1 # l + 1 /\ k + 1 \in DOMAIN pass[p].todo /\ l + 1 \in DOMAIN pass[p].todo  BY <1>2, <3>1
      <4>2. pass[p].todo[k + 1].id # pass[p].todo[l + 1].id  BY <1>8, <4>1 DEF Alone, PassMatchesStore
      <4>. QED  BY <1>2, <4>2
    <3>2. \A k \in DOMAIN t : Pending(t[k].id) /\ store[t[k].id].attempts = t[k].attempts
      BY <1>2, <1>8 DEF Alone, PassMatchesStore
    <3>. QED  BY <1>1, <1>4, <3>1, <3>2 DEF PassMatchesStore, Pending, QueueBusy
  <2>2. AskedMatchesStore(p)' /\ AttemptsAreRecorded' /\ SuccessIsFinal(p)'
    BY <1>1, <1>4, <1>8 DEF Alone, AskedMatchesStore, AttemptsAreRecorded, SuccessIsFinal, QueueBusy
  <2>. QED  BY <2>1, <2>2 DEF Alone
<1>. QED  BY <1>0, <1>1, <1>7, <1>8, QueueInvStep

(* An attempt is written to the store before the request is sent.             *)
LEMMA MarkReplayingPreserves ==
    ASSUME QueueInv, NEW p \in open, MarkReplaying(p)
    PROVE  QueueInv'
<1>0. /\ p \in Pages /\ QueueCore /\ QueueTypes /\ PageKnows(p) /\ pass \in [Pages -> PassRecord]
      /\ pass[p] \in PassRecord /\ pass[p].todo \in Seq(TodoItem) /\ 1 .. made \subseteq Mutations /\ made \in Nat
  BY PageFacts
<1>. DEFINE t == Tail(pass[p].todo)
            item == Head(pass[p].todo)
            m == item.id
            n == item.attempts + 1
            r == [at |-> "sending", todo |-> t, id |-> m, attempts |-> n]
<1>1. /\ pass[p].at = "loop" /\ pass[p].todo # <<>> /\ pass' = [pass EXCEPT ![p] = r]
      /\ item.attempts < MaxReplayAttempts
      /\ store' = [store EXCEPT ![m] = Item("replaying", n)] /\ sends' = [sends EXCEPT ![m] = sends[m] + 1]
      /\ UNCHANGED <<open, asked, fixing, made, applied, discarded, doubtful, interrupted>>
  BY DEF MarkReplaying
<1>2. /\ t \in Seq(TodoItem) /\ 1 \in DOMAIN pass[p].todo /\ item = pass[p].todo[1] /\ item \in TodoItem
      /\ \A k \in DOMAIN t : /\ k \in Nat /\ k + 1 \in DOMAIN pass[p].todo /\ k + 1 # 1
                             /\ t[k] = pass[p].todo[k + 1]
  BY <1>0, <1>1, TailFacts
<1>3. m \in Mutations /\ m \in 1 .. made /\ item.attempts \in Nat /\ n \in 0 .. MaxReplayAttempts
  <2>1. m \in Mutations /\ item.attempts \in 0 .. MaxReplayAttempts  BY <1>2 DEF TodoItem
  <2>2. m <= made  BY <1>0, <1>2 DEF PageKnows
  <2>. QED  BY <1>0, <1>1, <2>1, <2>2, QueueAssumption DEF Mutations
<1>. HIDE DEF t, m, n
<1>4. r \in PassRecord /\ r.at = "sending" /\ r.todo = t /\ r.id = m /\ r.attempts = n
  BY <1>2, <1>3 DEF PassRecord, QueueBusy
<1>. HIDE DEF r
<1>5. /\ pass' \in [Pages -> PassRecord]
      /\ pass'[p].at = "sending" /\ pass'[p].todo = t /\ pass'[p].id = m /\ pass'[p].attempts = n
      /\ \A q \in Pages : q # p => pass'[q] = pass[q]
  BY <1>0, <1>1, <1>4
<1>6. /\ Item("replaying", n) \in QueueItem /\ Item("replaying", n) # NoItem
      /\ Item("replaying", n).status = "replaying" /\ Item("replaying", n).attempts = n
  BY <1>3, ItemFields
<1>7. /\ store' \in [Mutations -> QueueItem \cup {NoItem}] /\ sends' \in [Mutations -> Nat]
      /\ \A i \in Mutations : i # m => store'[i] = store[i] /\ sends'[i] = sends[i]
      /\ store'[m] = Item("replaying", n) /\ sends'[m] = sends[m] + 1 /\ sends[m] \in Nat
  BY <1>0, <1>1, <1>3, <1>6 DEF QueueTypes
<1>8. QueueTypes'
  BY <1>0, <1>1, <1>5, <1>7 DEF QueueTypes
<1>9. PageKnows(p)'
  BY <1>0, <1>1, <1>2, <1>3, <1>5 DEF PageKnows, QueueBusy
<1>10. QueueCore'
  <2>1. \A i \in Mutations : i > made => store'[i] = store[i] /\ applied'[i] = applied[i] /\ sends'[i] = sends[i]
    BY <1>0, <1>1, <1>3, <1>7 DEF Mutations
  <2>2. \A q \in Pages : q # p => pass'[q] = pass[q] /\ asked'[q] = asked[q] /\ fixing'[q] = fixing[q]
    BY <1>1, <1>5
  <2>3. \A i \in Mutations : store'[i] # NoItem /\ store'[i].status = "replaying" =>
               \/ pass'[p].id = i /\ pass'[p].at \in QueueBusy
               \/ i \in interrupted'
               \/ store'[i] = store[i] /\ ~(pass[p].id = i /\ pass[p].at \in QueueBusy)
    BY <1>1, <1>5, <1>7 DEF QueueBusy
  <2>4. \A i \in 1 .. made : store[i] # NoItem /\ store'[i] = NoItem => applied'[i] > 0 \/ i \in discarded'
    BY <1>0, <1>6, <1>7
  <2>5. \A i \in Mutations : applied'[i] >= applied[i]
    BY <1>0, <1>1 DEF QueueTypes
  <2>. QED  BY <1>0, <1>1, <1>8, <1>9, <2>1, <2>2, <2>3, <2>4, <2>5, CoreStep
<1>11. ASSUME Alone(p) PROVE Alone(p)'
  <2>1. /\ store[m] # NoItem /\ store[m].status \in {"queued", "failed"} /\ store[m].attempts = item.attempts
    BY <1>2, <1>11 DEF Alone, PassMatchesStore, Pending, m
  <2>2. \A k \in DOMAIN t : t[k].id # m /\ t[k].id \in Mutations
    <3>1. \A k \in DOMAIN t : t[k].id # m  BY <1>2, <1>11 DEF Alone, PassMatchesStore, m
    <3>. QED  BY <1>2, <3>1, TodoFields
  <2>3. PassMatchesStore(p)'
    <3>1. ASSUME NEW k \in DOMAIN t, NEW l \in DOMAIN t, k # l PROVE t[k].id # t[l].id
      <4>1. k + 1 # l + 1 /\ k + 1 \in DOMAIN pass[p].todo /\ l + 1 \in DOMAIN pass[p].todo  BY <1>2, <3>1
      <4>2. pass[p].todo[k + 1].id # pass[p].todo[l + 1].id  BY <1>11, <4>1 DEF Alone, PassMatchesStore
      <4>. QED  BY <1>2, <4>2
    <3>2. \A k \in DOMAIN t : Pending(t[k].id) /\ store[t[k].id].attempts = t[k].attempts
      BY <1>2, <1>11 DEF Alone, PassMatchesStore
    <3>3. \A k \in DOMAIN t : /\ store'[t[k].id] # NoItem /\ store'[t[k].id].status \in {"queued", "failed"}
                              /\ store'[t[k].id].attempts = t[k].attempts
      BY <1>7, <2>2, <3>2 DEF Pending
    <3>. QED  BY <1>5, <1>7, <3>1, <3>3 DEF PassMatchesStore, Pending
  <2>4. AskedMatchesStore(p)'
    BY <1>0, <1>1, <1>7, <1>11, <2>1 DEF Alone, AskedMatchesStore, QueueTypes
  <2>5. AttemptsAreRecorded'
    <3>1. sends[m] <= item.attempts  BY <1>3, <1>11, <2>1 DEF Alone, AttemptsAreRecorded
    <3>2. sends'[m] <= n  BY <1>3, <1>7, <3>1 DEF n
    <3>. QED  BY <1>6, <1>7, <1>11, <3>2 DEF Alone, AttemptsAreRecorded
  <2>6. SuccessIsFinal(p)'
    <3>1. ~(applied[m] > 0 /\ m \notin doubtful)
      BY <1>3, <1>11, <2>1 DEF Alone, SuccessIsFinal
    <3>. QED  BY <1>1, <1>5, <1>7, <1>11, <3>1 DEF Alone, SuccessIsFinal
  <2>. QED  BY <2>3, <2>4, <2>5, <2>6 DEF Alone
<1>. QED  BY <1>0, <1>1, <1>10, <1>11, QueueInvStep

(* Starting a pass leaves one that runs alone.                                *)
LEMMA ReplayingFields ==
    ASSUME NEW p \in Pages, pass[p] \in PassRecord
    PROVE  /\ Replaying(p) \in PassRecord
           /\ pass[p].at # "idle" => Replaying(p) = pass[p]
           /\ pass[p].at = "idle" => /\ Replaying(p).at = "read" /\ Replaying(p).todo = <<>>
                                     /\ Replaying(p).id = 0
<1>. DEFINE r == [Idle EXCEPT !.at = "read"]
<1>1. r = [at |-> "read", todo |-> <<>>, id |-> 0, attempts |-> 0]  BY DEF Idle
<1>2. <<>> \in Seq(TodoItem) /\ 0 \in 0 .. MaxReplayAttempts  BY QueueAssumption
<1>3. r \in PassRecord /\ r.at = "read" /\ r.todo = <<>> /\ r.id = 0  BY <1>1, <1>2 DEF PassRecord
<1>4. Replaying(p) = IF pass[p].at = "idle" THEN r ELSE pass[p]  BY DEF Replaying
<1>. HIDE DEF r
<1>. QED  BY <1>3, <1>4

(* Taking the server's version removes the conflict on screen and nothing else. *)
LEMMA UseLatestDataPreserves ==
    ASSUME QueueInv, NEW p \in open, UseLatestData(p)
    PROVE  QueueInv'
<1>0. /\ p \in Pages /\ QueueCore /\ QueueTypes /\ PageKnows(p) /\ pass \in [Pages -> PassRecord]
      /\ 1 .. made \subseteq Mutations /\ made \in Nat
  BY PageFacts
<1>. DEFINE a == asked[p]
<1>1. /\ a # 0 /\ store' = [store EXCEPT ![a] = NoItem] /\ asked' = [asked EXCEPT ![p] = 0]
      /\ discarded' = discarded \cup {a}
      /\ UNCHANGED <<open, pass, fixing, made, sends, applied, doubtful, interrupted>>
  BY DEF UseLatestData
<1>2. a \in Mutations /\ a \in 1 .. made
  BY <1>0, <1>1 DEF QueueTypes, PageKnows, Mutations
<1>. HIDE DEF a
<1>3. /\ store' \in [Mutations -> QueueItem \cup {NoItem}] /\ store'[a] = NoItem
      /\ \A i \in Mutations : i # a => store'[i] = store[i]
  BY <1>0, <1>1, <1>2 DEF QueueTypes
<1>4. /\ asked' \in [Pages -> {0} \cup Mutations] /\ asked'[p] = 0 /\ \A q \in Pages : q # p => asked'[q] = asked[q]
  BY <1>0, <1>1 DEF QueueTypes
<1>5. QueueTypes'
  BY <1>0, <1>1, <1>3, <1>4 DEF QueueTypes
<1>6. PageKnows(p)'
  BY <1>0, <1>1, <1>4 DEF PageKnows
<1>7. QueueCore'
  <2>1. \A i \in Mutations : i > made => store'[i] = store[i] /\ applied'[i] = applied[i] /\ sends'[i] = sends[i]
    BY <1>0, <1>1, <1>2, <1>3 DEF Mutations
  <2>2. \A q \in Pages : q # p => pass'[q] = pass[q] /\ asked'[q] = asked[q] /\ fixing'[q] = fixing[q]
    BY <1>1, <1>4
  <2>3. \A i \in Mutations : store'[i] # NoItem /\ store'[i].status = "replaying" =>
               \/ pass'[p].id = i /\ pass'[p].at \in QueueBusy
               \/ i \in interrupted'
               \/ store'[i] = store[i] /\ ~(pass[p].id = i /\ pass[p].at \in QueueBusy)
    BY <1>1, <1>3
  <2>4. \A i \in 1 .. made : store[i] # NoItem /\ store'[i] = NoItem => applied'[i] > 0 \/ i \in discarded'
    BY <1>0, <1>1, <1>3
  <2>5. \A i \in Mutations : applied'[i] >= applied[i]
    BY <1>0, <1>1 DEF QueueTypes
  <2>. QED  BY <1>0, <1>1, <1>5, <1>6, <2>1, <2>2, <2>3, <2>4, <2>5, CoreStep
<1>8. ASSUME Alone(p) PROVE Alone(p)'
  <2>1. store[a] # NoItem /\ store[a].status = "conflict" /\ store[a] \in QueueItem
    BY <1>0, <1>1, <1>2, <1>8 DEF Alone, AskedMatchesStore, QueueTypes, a
  <2>2. \A k \in DOMAIN pass[p].todo : pass[p].todo[k].id # a /\ pass[p].todo[k].id \in Mutations
    <3>1. \A k \in DOMAIN pass[p].todo : pass[p].todo[k].id # a
      BY <1>8, <2>1 DEF Alone, PassMatchesStore, Pending
    <3>. QED  BY <3>1, PageFacts, TodoFields
  <2>3. pass[p].at \in QueueBusy => pass[p].id # a /\ pass[p].id \in Mutations
    <3>1. pass[p].at \in QueueBusy => store[pass[p].id].status = "replaying"
      BY <1>8, PageFacts, ItemFields DEF Alone, PassMatchesStore
    <3>. QED  BY <1>0, <2>1, <3>1 DEF PageKnows
  <2>4. PassMatchesStore(p)'
    BY <1>1, <1>3, <1>8, <2>2, <2>3 DEF Alone, PassMatchesStore, Pending
  <2>5. AskedMatchesStore(p)'
    BY <1>0, <1>1, <1>3, <1>4, <1>8 DEF Alone, AskedMatchesStore, QueueTypes
  <2>6. AttemptsAreRecorded'
    <3>1. sends[a] \in Nat /\ sends[a] <= store[a].attempts /\ store[a].attempts \in 0 .. MaxReplayAttempts
      BY <1>0, <1>2, <1>8, <2>1 DEF Alone, AttemptsAreRecorded, QueueTypes, QueueItem
    <3>2. sends[a] <= MaxReplayAttempts  BY <3>1, QueueAssumption
    <3>. QED  BY <1>1, <1>3, <1>8, <3>2 DEF Alone, AttemptsAreRecorded
  <2>7. SuccessIsFinal(p)'
    BY <1>1, <1>3, <1>8 DEF Alone, SuccessIsFinal
  <2>. QED  BY <2>4, <2>5, <2>6, <2>7 DEF Alone
<1>. QED  BY <1>0, <1>1, <1>7, <1>8, QueueInvStep

(* Reading the conflict to resolve changes nothing in the store.              *)
LEMMA ReadConflictPreserves ==
    ASSUME QueueInv, NEW p \in open, ReadConflict(p)
    PROVE  QueueInv'
<1>0. /\ p \in Pages /\ QueueCore /\ QueueTypes /\ PageKnows(p) /\ pass \in [Pages -> PassRecord]
  BY PageFacts
<1>. DEFINE a == asked[p]
<1>1. /\ a # 0 /\ fixing' = [fixing EXCEPT ![p] = a]
      /\ UNCHANGED <<open, store, pass, asked, made, sends, applied, discarded, doubtful, interrupted>>
  BY DEF ReadConflict, ghostVars
<1>2. a \in Mutations /\ a <= made /\ asked[p] = a
  BY <1>0, <1>1 DEF QueueTypes, PageKnows
<1>. HIDE DEF a
<1>3. /\ fixing' \in [Pages -> Mutations \cup {NoItem}] /\ fixing'[p] = a
      /\ \A q \in Pages : q # p => fixing'[q] = fixing[q]
  BY <1>0, <1>1, <1>2 DEF QueueTypes
<1>4. QueueTypes'
  BY <1>0, <1>1, <1>3 DEF QueueTypes
<1>5. PageKnows(p)'
  BY <1>0, <1>1, <1>2, <1>3 DEF PageKnows
<1>6. QueueCore'
  <2>1. \A i \in Mutations : i > made => store'[i] = store[i] /\ applied'[i] = applied[i] /\ sends'[i] = sends[i]
    BY <1>1
  <2>2. \A q \in Pages : q # p => pass'[q] = pass[q] /\ asked'[q] = asked[q] /\ fixing'[q] = fixing[q]
    BY <1>1, <1>3
  <2>3. \A i \in Mutations : store'[i] # NoItem /\ store'[i].status = "replaying" =>
               \/ pass'[p].id = i /\ pass'[p].at \in QueueBusy
               \/ i \in interrupted'
               \/ store'[i] = store[i] /\ ~(pass[p].id = i /\ pass[p].at \in QueueBusy)
    BY <1>1
  <2>4. \A i \in 1 .. made : store[i] # NoItem /\ store'[i] = NoItem => applied'[i] > 0 \/ i \in discarded'
    BY <1>1
  <2>5. \A i \in Mutations : applied'[i] >= applied[i]
    BY <1>0, <1>1 DEF QueueTypes
  <2>. QED  BY <1>0, <1>1, <1>4, <1>5, <2>1, <2>2, <2>3, <2>4, <2>5, CoreStep
<1>7. ASSUME Alone(p) PROVE Alone(p)'
  <2>1. store[a] # NoItem /\ store[a].status = "conflict"
    BY <1>1, <1>2, <1>7 DEF Alone, AskedMatchesStore
  <2>2. PassMatchesStore(p)' /\ AskedMatchesStore(p)' /\ AttemptsAreRecorded'
    BY <1>1, <1>3, <1>7, <2>1 DEF Alone, PassMatchesStore, AskedMatchesStore, AttemptsAreRecorded, Pending
  <2>3. SuccessIsFinal(p)'
    BY <1>1, <1>3, <1>7, <2>1 DEF Alone, SuccessIsFinal
  <2>. QED  BY <2>2, <2>3 DEF Alone
<1>. QED  BY <1>0, <1>1, <1>6, <1>7, QueueInvStep

(* A conflict that another page has removed is taken off the screen.          *)
LEMMA ConflictIsGonePreserves ==
    ASSUME QueueInv, NEW p \in open, ConflictIsGone(p)
    PROVE  QueueInv'
<1>0. /\ p \in Pages /\ QueueCore /\ QueueTypes /\ PageKnows(p) /\ pass \in [Pages -> PassRecord]
      /\ pass[p] \in PassRecord /\ made \in Nat
  BY PageFacts
<1>. DEFINE r == Replaying(p)
<1>1. /\ asked[p] # 0 /\ store[asked[p]] = NoItem /\ asked' = [asked EXCEPT ![p] = 0] /\ pass' = [pass EXCEPT ![p] = r]
      /\ UNCHANGED <<open, store, fixing, made, sends, applied, discarded, doubtful, interrupted>>
  BY DEF ConflictIsGone, ghostVars
<1>2. /\ r \in PassRecord /\ (pass[p].at # "idle" => r = pass[p])
      /\ pass[p].at = "idle" => r.at = "read" /\ r.todo = <<>> /\ r.id = 0
  BY <1>0, ReplayingFields
<1>. HIDE DEF r
<1>3. /\ pass' \in [Pages -> PassRecord] /\ pass'[p] = r /\ \A q \in Pages : q # p => pass'[q] = pass[q]
      /\ asked' \in [Pages -> {0} \cup Mutations] /\ asked'[p] = 0 /\ \A q \in Pages : q # p => asked'[q] = asked[q]
  BY <1>0, <1>1, <1>2 DEF QueueTypes
<1>4. QueueTypes'
  BY <1>0, <1>1, <1>3 DEF QueueTypes
<1>5. PageKnows(p)'
  BY <1>0, <1>1, <1>2, <1>3 DEF PageKnows, QueueBusy
<1>6. QueueCore'
  <2>1. \A i \in Mutations : i > made => store'[i] = store[i] /\ applied'[i] = applied[i] /\ sends'[i] = sends[i]
    BY <1>1
  <2>2. \A q \in Pages : q # p => pass'[q] = pass[q] /\ asked'[q] = asked[q] /\ fixing'[q] = fixing[q]
    BY <1>1, <1>3
  <2>3. \A i \in Mutations : store'[i] # NoItem /\ store'[i].status = "replaying" =>
               \/ pass'[p].id = i /\ pass'[p].at \in QueueBusy
               \/ i \in interrupted'
               \/ store'[i] = store[i] /\ ~(pass[p].id = i /\ pass[p].at \in QueueBusy)
    BY <1>1, <1>2, <1>3 DEF QueueBusy
  <2>4. \A i \in 1 .. made : store[i] # NoItem /\ store'[i] = NoItem => applied'[i] > 0 \/ i \in discarded'
    BY <1>1
  <2>5. \A i \in Mutations : applied'[i] >= applied[i]
    BY <1>0, <1>1 DEF QueueTypes
  <2>. QED  BY <1>0, <1>1, <1>4, <1>5, <2>1, <2>2, <2>3, <2>4, <2>5, CoreStep
<1>7. ~Alone(p)
  BY <1>1 DEF Alone, AskedMatchesStore
<1>. QED  BY <1>0, <1>1, <1>6, <1>7, QueueInvStep

(* Keeping the local version queues the mutation again, with its attempts and *)
(* requests counted anew.                                                     *)
LEMMA KeepLocalPreserves ==
    ASSUME QueueInv, NEW p \in open, KeepLocal(p)
    PROVE  QueueInv'
<1>0. /\ p \in Pages /\ QueueCore /\ QueueTypes /\ PageKnows(p) /\ pass \in [Pages -> PassRecord]
      /\ pass[p] \in PassRecord /\ made \in Nat /\ 1 .. made \subseteq Mutations
  BY PageFacts
<1>. DEFINE r == Replaying(p)
            m == fixing[p]
<1>1. /\ m # NoItem /\ store' = [store EXCEPT ![m] = Item("queued", 0)] /\ sends' = [sends EXCEPT ![m] = 0]
      /\ fixing' = [fixing EXCEPT ![p] = NoItem]
      /\ asked' = [asked EXCEPT ![p] = 0] /\ pass' = [pass EXCEPT ![p] = r]
      /\ UNCHANGED <<open, made, applied, discarded, doubtful, interrupted>>
  BY DEF KeepLocal
<1>2. /\ r \in PassRecord /\ (pass[p].at # "idle" => r = pass[p])
      /\ pass[p].at = "idle" => r.at = "read" /\ r.todo = <<>> /\ r.id = 0
  BY <1>0, ReplayingFields
<1>3. m \in Mutations /\ m <= made /\ fixing[p] = m
  BY <1>0, <1>1 DEF QueueTypes, PageKnows
<1>. HIDE DEF r, m
<1>4. /\ Item("queued", 0) \in QueueItem /\ Item("queued", 0) # NoItem
      /\ Item("queued", 0).status = "queued" /\ Item("queued", 0).attempts = 0
  BY ItemFields, QueueAssumption
<1>5. /\ pass' \in [Pages -> PassRecord] /\ pass'[p] = r /\ \A q \in Pages : q # p => pass'[q] = pass[q]
      /\ asked' \in [Pages -> {0} \cup Mutations] /\ asked'[p] = 0 /\ \A q \in Pages : q # p => asked'[q] = asked[q]
      /\ fixing' \in [Pages -> Mutations \cup {NoItem}] /\ fixing'[p] = NoItem
      /\ \A q \in Pages : q # p => fixing'[q] = fixing[q]
  BY <1>0, <1>1, <1>2 DEF QueueTypes
<1>6. /\ store' \in [Mutations -> QueueItem \cup {NoItem}] /\ sends' \in [Mutations -> Nat]
      /\ store'[m] = Item("queued", 0) /\ sends'[m] = 0
      /\ \A i \in Mutations : i # m => store'[i] = store[i] /\ sends'[i] = sends[i]
  BY <1>0, <1>1, <1>3, <1>4 DEF QueueTypes
<1>7. QueueTypes'
  BY <1>0, <1>1, <1>5, <1>6 DEF QueueTypes
<1>8. PageKnows(p)'
  BY <1>0, <1>1, <1>2, <1>5 DEF PageKnows, QueueBusy
<1>9. QueueCore'
  <2>1. \A i \in Mutations : i > made => store'[i] = store[i] /\ applied'[i] = applied[i] /\ sends'[i] = sends[i]
    BY <1>0, <1>1, <1>3, <1>6 DEF Mutations
  <2>2. \A q \in Pages : q # p => pass'[q] = pass[q] /\ asked'[q] = asked[q] /\ fixing'[q] = fixing[q]
    BY <1>5
  <2>3. \A i \in Mutations : store'[i] # NoItem /\ store'[i].status = "replaying" =>
               \/ pass'[p].id = i /\ pass'[p].at \in QueueBusy
               \/ i \in interrupted'
               \/ store'[i] = store[i] /\ ~(pass[p].id = i /\ pass[p].at \in QueueBusy)
    BY <1>2, <1>4, <1>5, <1>6 DEF QueueBusy
  <2>4. \A i \in 1 .. made : store[i] # NoItem /\ store'[i] = NoItem => applied'[i] > 0 \/ i \in discarded'
    BY <1>0, <1>4, <1>6
  <2>5. \A i \in Mutations : applied'[i] >= applied[i]
    BY <1>0, <1>1 DEF QueueTypes
  <2>. QED  BY <1>0, <1>1, <1>7, <1>8, <2>1, <2>2, <2>3, <2>4, <2>5, CoreStep
<1>10. ASSUME Alone(p) PROVE Alone(p)'
  <2>1. store[m] = NoItem \/ store[m].status = "conflict"
    BY <1>1, <1>3, <1>10 DEF Alone, AskedMatchesStore
  <2>2. \A k \in DOMAIN pass[p].todo : pass[p].todo[k].id # m /\ pass[p].todo[k].id \in Mutations
    <3>1. \A k \in DOMAIN pass[p].todo : pass[p].todo[k].id # m
      BY <1>10, <2>1 DEF Alone, PassMatchesStore, Pending
    <3>. QED  BY <3>1, PageFacts, TodoFields
  <2>3. pass[p].at \in QueueBusy => pass[p].id # m /\ pass[p].id \in Mutations
    <3>1. pass[p].at \in QueueBusy => store[pass[p].id].status = "replaying" /\ store[pass[p].id] # NoItem
      BY <1>10, PageFacts, ItemFields DEF Alone, PassMatchesStore
    <3>. QED  BY <1>0, <2>1, <3>1 DEF PageKnows
  <2>4. PassMatchesStore(p)'
    <3>1. CASE pass[p].at = "idle"
      BY <1>2, <1>5, <3>1 DEF PassMatchesStore, QueueBusy
    <3>2. CASE pass[p].at # "idle"
      BY <1>2, <1>5, <1>6, <1>10, <2>2, <2>3, <3>2 DEF Alone, PassMatchesStore, Pending
    <3>. QED  BY <3>1, <3>2
  <2>5. AskedMatchesStore(p)'
    BY <1>5 DEF AskedMatchesStore
  <2>6. AttemptsAreRecorded'
    BY <1>4, <1>6, <1>10 DEF Alone, AttemptsAreRecorded
  <2>7. SuccessIsFinal(p)'
    <3>1. ~(applied[m] > 0 /\ m \notin doubtful)
      BY <1>3, <1>10 DEF Alone, SuccessIsFinal
    <3>2. (r.id = 0 \/ r = pass[p]) /\ (r.at \in QueueBusy => r = pass[p])
      BY <1>2 DEF QueueBusy
    <3>3. \A i \in Mutations : NoItem # i  BY QueueAssumption DEF Mutations
    <3>. QED  BY <1>1, <1>5, <1>6, <1>10, <3>1, <3>2, <3>3 DEF Alone, SuccessIsFinal
  <2>. QED  BY <2>4, <2>5, <2>6, <2>7 DEF Alone
<1>. QED  BY <1>0, <1>1, <1>9, <1>10, QueueInvStep

(* A mutation that is made is in the store.                                   *)
LEMMA EnqueuePreserves ==
    ASSUME QueueInv, NEW p \in open, EnqueueMutation(p)
    PROVE  QueueInv'
<1>0. /\ QueueCore /\ QueueTypes /\ NotBefore /\ made \in Nat /\ 1 .. made \subseteq Mutations
  BY PageFacts
<1>. DEFINE m == made + 1
<1>1. /\ made' = m /\ store' = [store EXCEPT ![m] = Item("queued", 0)] /\ made < NumMutations
      /\ UNCHANGED <<open, pass, asked, fixing, sends, applied, discarded, doubtful, interrupted>>
  BY <1>0, QueueAssumption DEF EnqueueMutation, NewItem
<1>2. m \in Mutations /\ m > made /\ made' \in 0 .. NumMutations /\ made' \in Nat /\ \A i \in Mutations : i > m => i > made
  BY <1>0, <1>1, QueueAssumption DEF Mutations
<1>3. \A i \in 1 .. made' : i = m \/ i \in 1 .. made
  BY <1>0, <1>1
<1>4. /\ Item("queued", 0) \in QueueItem /\ Item("queued", 0) # NoItem
      /\ Item("queued", 0).status = "queued" /\ Item("queued", 0).attempts = 0
  BY ItemFields, QueueAssumption
<1>. HIDE DEF m
<1>5. /\ store' \in [Mutations -> QueueItem \cup {NoItem}] /\ store'[m] = Item("queued", 0)
      /\ \A i \in Mutations : i # m => store'[i] = store[i]
  BY <1>0, <1>1, <1>2, <1>4 DEF QueueTypes
<1>6. applied[m] = 0 /\ sends[m] = 0 /\ store[m] = NoItem
  BY <1>0, <1>2 DEF NotBefore
<1>7. QueueTypes'
  BY <1>0, <1>1, <1>2, <1>5 DEF QueueTypes
<1>8. NotBefore'
  <2>1. \A i \in Mutations : i > made' => i > made /\ i # m  BY <1>1, <1>2 DEF Mutations
  <2>. QED  BY <1>0, <1>1, <1>5, <2>1 DEF NotBefore
<1>9. ASSUME NEW q \in Pages PROVE PageKnows(q)'
  <2>1. PageKnows(q) /\ pass \in [Pages -> PassRecord]  BY <1>0 DEF QueueCore, QueueTypes
  <2>2. /\ pass[q].todo \in Seq(TodoItem) /\ asked[q] \in {0} \cup Mutations
        /\ fixing[q] \in Mutations \cup {NoItem} /\ pass[q].id \in {0} \cup Mutations
    BY <1>0, <2>1, PassFields DEF QueueTypes
  <2>3. \A i \in {0} \cup Mutations : i <= made => i <= made'
    BY <1>0, <1>1, <1>2 DEF Mutations
  <2>4. \A k \in DOMAIN pass[q].todo : pass[q].todo[k].id \in Mutations  BY <2>2, TodoFields
  <2>5. \A k \in DOMAIN pass[q].todo : pass[q].todo[k].id <= made'
    BY <2>1, <2>3, <2>4 DEF PageKnows
  <2>6. pass[q].at \in QueueBusy => pass[q].id \in 1 .. made'
    BY <1>0, <1>1, <1>2, <2>1 DEF PageKnows, Mutations, m
  <2>7. asked[q] <= made' /\ (fixing[q] # NoItem => fixing[q] <= made')
    BY <2>1, <2>2, <2>3 DEF PageKnows
  <2>. QED  BY <1>1, <2>1, <2>5, <2>6, <2>7 DEF PageKnows
<1>10. NothingIsLost'
  BY <1>0, <1>1, <1>3, <1>4, <1>5 DEF QueueCore, NothingIsLost
<1>11. StuckOnlyByInterruption'
  BY <1>1, <1>4, <1>5 DEF QueueInv, QueueCore, StuckOnlyByInterruption, InProgress
<1>12. ASSUME NEW q \in Pages, open' = {q} PROVE Alone(q)'
  <2>0. Alone(q) /\ PageKnows(q) /\ pass \in [Pages -> PassRecord]
    BY <1>1, <1>12 DEF QueueInv, QueueCore, QueueTypes
  <2>1. \A k \in DOMAIN pass[q].todo : pass[q].todo[k].id # m /\ pass[q].todo[k].id \in Mutations
    <3>1. \A k \in DOMAIN pass[q].todo : pass[q].todo[k].id # m
      BY <1>6, <2>0 DEF Alone, PassMatchesStore, Pending
    <3>. QED  BY <2>0, <3>1, PassFields, TodoFields
  <2>2. pass[q].at \in QueueBusy => pass[q].id # m /\ pass[q].id \in Mutations
    BY <1>0, <1>2, <2>0 DEF PageKnows, Mutations
  <2>3. PassMatchesStore(q)'
    BY <1>1, <1>5, <2>0, <2>1, <2>2 DEF Alone, PassMatchesStore, Pending
  <2>4. AskedMatchesStore(q)'
    <3>1. asked[q] # 0 => asked[q] # m /\ asked[q] \in Mutations
      BY <1>0, <1>6, <2>0 DEF Alone, AskedMatchesStore, QueueTypes
    <3>2. fixing[q] # NoItem => fixing[q] # m /\ fixing[q] \in Mutations
      BY <1>0, <1>2, <2>0 DEF PageKnows, QueueTypes, Mutations
    <3>. QED  BY <1>1, <1>5, <2>0, <3>1, <3>2 DEF Alone, AskedMatchesStore
  <2>5. AttemptsAreRecorded'
    BY <1>1, <1>4, <1>5, <1>6, <2>0 DEF Alone, AttemptsAreRecorded
  <2>6. SuccessIsFinal(q)'
    BY <1>1, <1>5, <1>6, <2>0 DEF Alone, SuccessIsFinal
  <2>. QED  BY <2>3, <2>4, <2>5, <2>6 DEF Alone
<1>. QED  BY <1>7, <1>8, <1>9, <1>10, <1>11, <1>12 DEF QueueInv, QueueCore

(* A finite set of numbers can be put in order.                               *)
LEMMA InOrderExists ==
    ASSUME NEW A \in SUBSET Nat, IsFiniteSet(A), NEW ids \in SUBSET A
    PROVE  \E s \in [1 .. Cardinality(ids) -> ids] : \A k, l \in DOMAIN s : k < l => s[k] < s[l]
<1>. DEFINE Sorts(s, P) == s \in [1 .. Cardinality(P) -> P] /\ \A k, l \in 1 .. Cardinality(P) : k < l => s[k] < s[l]
            G == {P \in SUBSET A : \E s : Sorts(s, P)}
<1>1. ASSUME NEW P \in SUBSET A, \A t \in SUBSET P : t # P => t \in G PROVE P \in G
  <2>1. CASE P = {}
    <3>1. Cardinality(P) = 0  BY <2>1, FS_EmptySet
    <3>2. Sorts([k \in {} |-> 0], P)  BY <3>1
    <3>. QED  BY <3>2
  <2>2. CASE P # {}
    <3>1. PICK x \in P : \A y \in P : x <= y  BY <2>2, LeastElement
    <3>. DEFINE Q == P \ {x}
                n == Cardinality(Q)
    <3>2. IsFiniteSet(P) /\ IsFiniteSet(Q)  BY FS_Subset
    <3>3. n \in Nat /\ Cardinality(P) = n + 1
      BY <3>2, FS_RemoveElement, FS_CardinalityType
    <3>4. PICK s : Sorts(s, Q)  BY <1>1
    <3>5. \A y \in Q : y \in Nat /\ x < y /\ x \in Nat  BY <3>1
    <3>6. Q \subseteq P  OBVIOUS
    <3>. HIDE DEF Q, n
    <3>. DEFINE z == [k \in 1 .. n + 1 |-> IF k = 1 THEN x ELSE s[k - 1]]
    <3>7. \A k \in 1 .. n : s[k] \in Q  BY <3>4 DEF n
    <3>8. \A k \in 1 .. n + 1 : k # 1 => k - 1 \in 1 .. n  BY <3>3
    <3>9. z \in [1 .. n + 1 -> P]  BY <3>6, <3>7, <3>8
    <3>10. ASSUME NEW k \in 1 .. n + 1, NEW l \in 1 .. n + 1, k < l PROVE z[k] < z[l]
      <4>1. l # 1 /\ l - 1 \in 1 .. n /\ z[l] = s[l - 1]  BY <3>3, <3>8, <3>10
      <4>2. CASE k = 1  BY <3>5, <3>7, <4>1, <4>2
      <4>3. CASE k # 1
        <5>1. k - 1 \in 1 .. n /\ z[k] = s[k - 1] /\ k - 1 < l - 1  BY <3>3, <3>8, <3>10, <4>3
        <5>. QED  BY <3>4, <4>1, <5>1 DEF n
      <4>. QED  BY <4>2, <4>3
    <3>11. Sorts(z, P)
      <4>. HIDE DEF z
      <4>. QED  BY <3>3, <3>9, <3>10
    <3>. QED  BY <3>11
  <2>. QED  BY <2>1, <2>2
<1>2. G = SUBSET A
  <2>1. G \in SUBSET SUBSET A  OBVIOUS
  <2>. HIDE DEF G
  <2>. QED  BY <1>1, <2>1, SubsetInduction
<1>3. PICK s : Sorts(s, ids)  BY <1>2
<1>. QED  BY <1>3

(* getAllQueuedItems: every item is listed once, as the store has it.         *)
LEMMA GetAllQueuedItemsPreserves ==
    ASSUME QueueInv, NEW p \in open, GetAllQueuedItems(p)
    PROVE  QueueInv'
<1>0. /\ p \in Pages /\ QueueCore /\ QueueTypes /\ NotBefore /\ PageKnows(p) /\ pass \in [Pages -> PassRecord]
      /\ made \in Nat
  BY PageFacts
<1>. DEFINE ids == {i \in Mutations : Pending(i)}
            n == Cardinality(ids)
            s == InOrder(ids)
            t == [k \in DOMAIN s |-> [id |-> s[k], attempts |-> store[s[k]].attempts]]
            r == [at |-> "loop", todo |-> t, id |-> 0, attempts |-> 0]
<1>1. /\ pass[p].at = "read" /\ pass' = [pass EXCEPT ![p] = r]
      /\ UNCHANGED <<open, store, asked, fixing, made, sends, applied, discarded, doubtful, interrupted>>
  BY DEF GetAllQueuedItems, ghostVars
<1>2. IsFiniteSet(Mutations) /\ Mutations \in SUBSET Nat
  <2>1. 1 \in Int /\ NumMutations \in Int  BY QueueAssumption
  <2>2. IsFiniteSet(1 .. NumMutations)  BY <2>1, FS_Interval
  <2>. QED  BY <2>1, <2>2 DEF Mutations
<1>3. ids \in SUBSET Mutations /\ IsFiniteSet(ids) /\ n \in Nat
  BY <1>2, FS_Subset, FS_CardinalityType
<1>4. \A i \in ids : /\ i \in Mutations /\ Pending(i) /\ store[i].attempts \in 0 .. MaxReplayAttempts /\ i <= made
                     /\ i \in Nat
  BY <1>0, <1>2 DEF Pending, QueueTypes, QueueItem, NotBefore
<1>. HIDE DEF ids
<1>5. s \in [1 .. n -> ids] /\ \A k, l \in DOMAIN s : k < l => s[k] < s[l]
  <2>1. \E z \in [1 .. n -> ids] : \A k, l \in DOMAIN z : k < l => z[k] < z[l]
    BY <1>2, <1>3, InOrderExists
  <2>. QED  BY <2>1 DEF InOrder
<1>. HIDE DEF s, n
<1>6. \A k, l \in 1 .. n : k # l => s[k] # s[l]
  <2>. SUFFICES ASSUME NEW k \in 1 .. n, NEW l \in 1 .. n, k # l PROVE s[k] # s[l]
    OBVIOUS
  <2>1. k < l \/ l < k  BY <1>3
  <2>2. s[k] \in Nat /\ s[l] \in Nat /\ (s[k] < s[l] \/ s[l] < s[k])  BY <1>4, <1>5, <2>1
  <2>. QED  BY <2>2
<1>7. DOMAIN s = 1 .. n /\ \A k \in 1 .. n : s[k] \in ids  BY <1>5
<1>8. /\ DOMAIN t = 1 .. n
      /\ \A k \in 1 .. n : t[k].id = s[k] /\ t[k].attempts = store[s[k]].attempts /\ t[k] \in TodoItem
  BY <1>4, <1>7 DEF TodoItem
<1>9. t \in Seq(TodoItem)
  <2>1. t \in [1 .. n -> TodoItem]
    BY <1>4, <1>7 DEF TodoItem
  <2>. HIDE DEF t
  <2>. QED  BY <1>3, <2>1
<1>. HIDE DEF t
<1>10. r \in PassRecord /\ r.at = "loop" /\ r.todo = t
  BY <1>9, QueueAssumption DEF PassRecord
<1>. HIDE DEF r
<1>11. /\ pass' \in [Pages -> PassRecord] /\ pass'[p].at = "loop" /\ pass'[p].todo = t
       /\ \A q \in Pages : q # p => pass'[q] = pass[q]
  BY <1>0, <1>1, <1>10
<1>12. QueueTypes'
  BY <1>0, <1>1, <1>11 DEF QueueTypes
<1>13. PageKnows(p)'
  <2>1. \A k \in DOMAIN t : t[k].id <= made  BY <1>4, <1>7, <1>8
  <2>2. "loop" \notin QueueBusy  BY DEF QueueBusy
  <2>. QED  BY <1>0, <1>1, <1>11, <2>1, <2>2 DEF PageKnows
<1>14. QueueCore'
  <2>1. \A i \in Mutations : i > made => store'[i] = store[i] /\ applied'[i] = applied[i] /\ sends'[i] = sends[i]
    BY <1>1
  <2>2. \A q \in Pages : q # p => pass'[q] = pass[q] /\ asked'[q] = asked[q] /\ fixing'[q] = fixing[q]
    BY <1>1, <1>11
  <2>3. \A i \in Mutations : store'[i] # NoItem /\ store'[i].status = "replaying" =>
               \/ pass'[p].id = i /\ pass'[p].at \in QueueBusy
               \/ i \in interrupted'
               \/ store'[i] = store[i] /\ ~(pass[p].id = i /\ pass[p].at \in QueueBusy)
    BY <1>1 DEF QueueBusy
  <2>4. \A i \in 1 .. made : store[i] # NoItem /\ store'[i] = NoItem => applied'[i] > 0 \/ i \in discarded'
    BY <1>1
  <2>5. \A i \in Mutations : applied'[i] >= applied[i]
    BY <1>0, <1>1 DEF QueueTypes
  <2>. QED  BY <1>0, <1>1, <1>12, <1>13, <2>1, <2>2, <2>3, <2>4, <2>5, CoreStep
<1>15. ASSUME Alone(p) PROVE Alone(p)'
  <2>1. \A k, l \in DOMAIN t : k # l => t[k].id # t[l].id
    BY <1>6, <1>8
  <2>2. \A k \in DOMAIN t : Pending(t[k].id) /\ store[t[k].id].attempts = t[k].attempts
    BY <1>4, <1>7, <1>8
  <2>3. PassMatchesStore(p)'
    BY <1>1, <1>11, <2>1, <2>2 DEF PassMatchesStore, Pending, QueueBusy
  <2>4. AskedMatchesStore(p)' /\ AttemptsAreRecorded' /\ SuccessIsFinal(p)'
    BY <1>1, <1>11, <1>15 DEF Alone, AskedMatchesStore, AttemptsAreRecorded, SuccessIsFinal, QueueBusy
  <2>. QED  BY <2>3, <2>4 DEF Alone
<1>. QED  BY <1>0, <1>1, <1>14, <1>15, QueueInvStep

(* Coming online starts a pass on the pages that knew they were offline.      *)
LEMMA GoOnlinePreserves ==
    ASSUME QueueInv, GoOnline
    PROVE  QueueInv'
<1>0. /\ QueueCore /\ QueueTypes /\ pass \in [Pages -> PassRecord] /\ made \in Nat
  BY QueueAssumption DEF QueueInv, QueueCore, QueueTypes
<1>1. /\ UNCHANGED <<open, store, asked, fixing, made, sends, applied, discarded, doubtful, interrupted>>
      /\ pass' = [p \in Pages |-> IF believes[p] THEN pass[p] ELSE Replaying(p)]
  BY DEF GoOnline, ghostVars
<1>2. ASSUME NEW q \in Pages
      PROVE  /\ pass'[q] \in PassRecord
             /\ \/ pass'[q] = pass[q]
                \/ pass[q].at = "idle" /\ pass'[q].at = "read" /\ pass'[q].todo = <<>> /\ pass'[q].id = 0
  <2>1. pass[q] \in PassRecord  BY <1>0
  <2>2. pass'[q] = pass[q] \/ pass'[q] = Replaying(q)  BY <1>1
  <2>. QED  BY <2>1, <2>2, ReplayingFields
<1>3. pass' \in [Pages -> PassRecord]
  BY <1>1, <1>2
<1>4. QueueTypes' /\ NotBefore' /\ NothingIsLost'
  BY <1>0, <1>1, <1>3 DEF QueueTypes, QueueCore, NotBefore, NothingIsLost
<1>5. \A q \in Pages : PageKnows(q)'
  <2>. SUFFICES ASSUME NEW q \in Pages PROVE PageKnows(q)'
    OBVIOUS
  <2>1. PageKnows(q)  BY <1>0 DEF QueueCore
  <2>. QED  BY <1>1, <1>2, <2>1 DEF PageKnows, QueueBusy
<1>6. StuckOnlyByInterruption'
  <2>. SUFFICES ASSUME NEW i \in Mutations, store[i] # NoItem, store[i].status = "replaying", i \notin interrupted
               PROVE  InProgress(i)'
    BY <1>1 DEF StuckOnlyByInterruption
  <2>1. PICK q \in open : pass[q].id = i /\ pass[q].at \in QueueBusy
    BY <1>0 DEF QueueCore, StuckOnlyByInterruption, InProgress, QueueBusy
  <2>2. q \in Pages /\ pass'[q] = pass[q]
    BY <1>0, <1>2, <2>1 DEF QueueTypes, QueueBusy
  <2>. QED  BY <1>1, <2>1, <2>2 DEF InProgress, QueueBusy
<1>7. ASSUME NEW q \in Pages, open' = {q} PROVE Alone(q)'
  <2>1. Alone(q)  BY <1>1, <1>7 DEF QueueInv
  <2>2. PassMatchesStore(q)'
    BY <1>1, <1>2, <2>1 DEF Alone, PassMatchesStore, Pending, QueueBusy
  <2>3. AskedMatchesStore(q)' /\ AttemptsAreRecorded'
    BY <1>1, <2>1 DEF Alone, AskedMatchesStore, AttemptsAreRecorded
  <2>4. SuccessIsFinal(q)'
    BY <1>1, <1>2, <2>1 DEF Alone, SuccessIsFinal, QueueBusy
  <2>. QED  BY <2>2, <2>3, <2>4 DEF Alone
<1>. QED  BY <1>4, <1>5, <1>6, <1>7 DEF QueueInv, QueueCore

(* The network and its timers do not touch the queue.                         *)
LEMMA QueueInvUnchanged ==
    ASSUME QueueInv,
           UNCHANGED <<open, store, pass, asked, fixing, made, sends, applied, discarded, doubtful, interrupted>>
    PROVE  QueueInv'
<1>1. QueueTypes' /\ NotBefore' /\ NothingIsLost' /\ StuckOnlyByInterruption'
  BY DEF QueueInv, QueueCore, QueueTypes, NotBefore, NothingIsLost, StuckOnlyByInterruption, InProgress
<1>2. \A p \in Pages : PageKnows(p)'
  BY DEF QueueInv, QueueCore, PageKnows
<1>3. \A p \in Pages : open' = {p} => Alone(p)'
  BY DEF QueueInv, Alone, PassMatchesStore, AskedMatchesStore, SuccessIsFinal, AttemptsAreRecorded, Pending
<1>. QED  BY <1>1, <1>2, <1>3 DEF QueueInv, QueueCore

(* The queue starts empty.                                                    *)
LEMMA QueueInvInit == QueueInit => QueueInv
<1>. SUFFICES ASSUME QueueInit PROVE QueueInv
  OBVIOUS
<1>1. Idle \in PassRecord /\ Idle.at = "idle" /\ Idle.todo = <<>> /\ Idle.id = 0
  BY QueueAssumption DEF Idle, PassRecord
<1>2. open \in SUBSET Pages
  BY QueueAssumption DEF QueueInit
<1>3. QueueTypes
  BY <1>1, <1>2, QueueAssumption DEF QueueInit, QueueTypes
<1>4. NotBefore /\ NothingIsLost /\ StuckOnlyByInterruption
  BY DEF QueueInit, NotBefore, NothingIsLost, StuckOnlyByInterruption
<1>5. \A p \in Pages : PageKnows(p)
  BY <1>1 DEF QueueInit, PageKnows, QueueBusy
<1>6. \A p \in Pages : Alone(p)
  <2>1. \A p \in Pages : PassMatchesStore(p) /\ AskedMatchesStore(p)
    BY <1>1 DEF QueueInit, PassMatchesStore, AskedMatchesStore, QueueBusy
  <2>2. AttemptsAreRecorded /\ \A p \in Pages : SuccessIsFinal(p)
    BY QueueAssumption DEF QueueInit, AttemptsAreRecorded, SuccessIsFinal
  <2>. QED  BY <2>1, <2>2 DEF Alone
<1>. QED  BY <1>3, <1>4, <1>5, <1>6 DEF QueueInv, QueueCore

(* Every step of the queue preserves the inductive invariant.                 *)
LEMMA QueueInvNext == QueueInv /\ [QueueNext]_queueVars => QueueInv'
<1>. SUFFICES ASSUME QueueInv, [QueueNext]_queueVars PROVE QueueInv'
  OBVIOUS
<1>1. CASE GoOffline \/ UNCHANGED queueVars
  BY <1>1, QueueInvUnchanged DEF GoOffline, queueVars, ghostVars
<1>2. CASE GoOnline
  BY <1>2, GoOnlinePreserves
<1>3. ASSUME NEW p \in open, OfflineTimer(p) PROVE QueueInv'
  BY <1>3, QueueInvUnchanged DEF OfflineTimer, ghostVars
<1>4. ASSUME NEW p \in open,
             \/ EnqueueMutation(p) \/ GetAllQueuedItems(p) \/ SkipItem(p) \/ MarkReplaying(p) \/ OnReplay(p)
             \/ RemoveItem(p) \/ PutBack(p)
      PROVE  QueueInv'
  BY <1>4, EnqueuePreserves, GetAllQueuedItemsPreserves, SkipItemPreserves, MarkReplayingPreserves,
     OnReplayPreserves, RemoveItemPreserves, PutBackPreserves
<1>5. ASSUME NEW p \in open,
             \/ PassThrows(p) \/ PassEnds(p) \/ UseLatestData(p) \/ ReadConflict(p) \/ ConflictIsGone(p)
             \/ KeepLocal(p) \/ ClosePage(p)
      PROVE  QueueInv'
  BY <1>5, PassStops, UseLatestDataPreserves, ReadConflictPreserves, ConflictIsGonePreserves, KeepLocalPreserves
<1>. QED  BY <1>1, <1>2, <1>3, <1>4, <1>5 DEF QueueNext

(* The inductive invariant is what the queue promises, and its types.         *)
LEMMA QueueInvSafe == QueueInv => ReplayIsSafe /\ QueueTypeOK
<1>. SUFFICES ASSUME QueueInv PROVE ReplayIsSafe /\ QueueTypeOK
  OBVIOUS
<1>1. NothingIsLost /\ StuckOnlyByInterruption /\ QueueTypes /\ NotBefore
  BY DEF QueueInv, QueueCore
<1>2. ASSUME Cardinality(open) = 1
      PROVE  \A i \in Mutations : (applied[i] > 1 => i \in doubtful) /\ sends[i] <= MaxReplayAttempts
  <2>1. IsFiniteSet(open)  BY <1>1, FS_Subset, QueueAssumption DEF QueueTypes
  <2>2. PICK p : open = {p}  BY <1>2, <2>1, FS_Singleton
  <2>3. p \in Pages /\ Alone(p)  BY <1>1, <2>2 DEF QueueInv, QueueTypes
  <2>. SUFFICES ASSUME NEW i \in Mutations
               PROVE  (applied[i] > 1 => i \in doubtful) /\ sends[i] <= MaxReplayAttempts
    OBVIOUS
  <2>4. applied[i] \in Nat /\ sends[i] \in Nat  BY <1>1 DEF QueueTypes
  <2>5. applied[i] > 1 => i \in doubtful
    BY <2>3, <2>4 DEF Alone, SuccessIsFinal
  <2>6. CASE store[i] = NoItem
    BY <2>3, <2>5, <2>6 DEF Alone, AttemptsAreRecorded
  <2>7. CASE store[i] # NoItem
    <3>1. store[i].attempts \in 0 .. MaxReplayAttempts  BY <1>1, <2>7 DEF QueueTypes, QueueItem
    <3>2. sends[i] <= store[i].attempts  BY <2>3, <2>7 DEF Alone, AttemptsAreRecorded
    <3>. QED  BY <2>4, <2>5, <3>1, <3>2, QueueAssumption
  <2>. QED  BY <2>6, <2>7
<1>3. QueueTypeOK
  <2>1. \A i \in Mutations : store[i] # NoItem => i <= made
    <3>1. made \in Nat /\ Mutations \subseteq Nat  BY <1>1, QueueAssumption DEF QueueTypes, Mutations
    <3>. QED  BY <1>1, <3>1 DEF NotBefore
  <2>. QED  BY <1>1, <2>1 DEF QueueTypes, QueueTypeOK, QueueItem
<1>. QED  BY <1>1, <1>2, <1>3 DEF ReplayIsSafe, AppliedOnceUnlessInDoubt, AttemptsAreBounded

-----------------------------------------------------------------------------
(* Compliance exports.  Totals of the investor report are sums over sets,     *)
(* which a few lemmas about sums by some order of the elements make usable.   *)

(* Some element of a set that has one, as MapThenSumSet takes them.           *)
Pick(s) == CHOOSE x \in s : TRUE

(* f has the sums of b over the sets of D; sets shrink to sets of D.          *)
IsSum(f, b, D) ==
    f = [s \in D |-> IF s = {} THEN 0 ELSE b[Pick(s)] + f[s \ {Pick(s)}]]

(* Taking an element out of a finite set.                                     *)
LEMMA PickFacts ==
    ASSUME NEW A, IsFiniteSet(A), NEW s \in SUBSET A, s # {}
    PROVE  /\ Pick(s) \in s /\ s \ {Pick(s)} \in SUBSET A
           /\ IsFiniteSet(s) /\ Cardinality(s) \in Nat \ {0}
           /\ Cardinality(s \ {Pick(s)}) = Cardinality(s) - 1
<1>1. Pick(s) \in s  BY DEF Pick
<1>2. IsFiniteSet(s)  BY FS_Subset
<1>3. Cardinality(s) \in Nat /\ Cardinality(s) # 0  BY <1>2, FS_CardinalityType, FS_EmptySet
<1>. HIDE DEF Pick
<1>4. Cardinality(s \ {Pick(s)}) = Cardinality(s) - 1  BY <1>1, <1>2, FS_RemoveElement
<1>. QED  BY <1>1, <1>2, <1>3, <1>4

(* The sums can be computed, for the sets of one size after another.          *)
LEMMA SumExists ==
    ASSUME NEW A, IsFiniteSet(A), NEW b \in [A -> Int]
    PROVE  \E f \in [SUBSET A -> Int] : IsSum(f, b, SUBSET A)
<1>. DEFINE D(n) == {s \in SUBSET A : Cardinality(s) <= n}
            Bad == {n \in Nat : ~ \E f \in [D(n) -> Int] : IsSum(f, b, D(n))}
<1>1. \A s \in SUBSET A : IsFiniteSet(s) /\ Cardinality(s) \in Nat /\ (Cardinality(s) = 0 <=> s = {})
  BY FS_Subset, FS_CardinalityType, FS_EmptySet
<1>2. 0 \notin Bad
  <2>. DEFINE f == [s \in D(0) |-> 0]
  <2>1. D(0) = {{}}  BY <1>1, FS_EmptySet
  <2>2. f \in [D(0) -> Int] /\ IsSum(f, b, D(0))
    <3>1. \A s \in D(0) : s = {}  BY <2>1
    <3>. HIDE DEF D
    <3>2. \A s \in D(0) : 0 = IF s = {} THEN 0 ELSE b[Pick(s)] + f[s \ {Pick(s)}]
      BY <3>1
    <3>3. f = [s \in D(0) |-> IF s = {} THEN 0 ELSE b[Pick(s)] + f[s \ {Pick(s)}]]
      BY <3>2
    <3>4. f \in [D(0) -> Int]  OBVIOUS
    <3>. HIDE DEF f
    <3>. QED  BY <3>3, <3>4 DEF IsSum
  <2>. QED  BY <2>2
<1>3. ASSUME NEW n \in Nat, n \notin Bad PROVE n + 1 \notin Bad
  <2>1. PICK f \in [D(n) -> Int] : IsSum(f, b, D(n))  BY <1>3
  <2>. DEFINE g == [s \in D(n + 1) |-> IF s = {} THEN 0 ELSE b[Pick(s)] + f[s \ {Pick(s)}]]
  <2>2. ASSUME NEW s \in D(n + 1), s # {} PROVE s \ {Pick(s)} \in D(n) /\ Pick(s) \in A
    BY <2>2, PickFacts
  <2>3. g \in [D(n + 1) -> Int]
    <3>1. ASSUME NEW s \in D(n + 1), s # {} PROVE b[Pick(s)] + f[s \ {Pick(s)}] \in Int
      <4>1. b[Pick(s)] \in Int /\ f[s \ {Pick(s)}] \in Int  BY <2>2, <3>1
      <4>. QED  BY <4>1
    <3>. QED  BY <3>1
  <2>4. ASSUME NEW s \in D(n) PROVE g[s] = f[s]
    <3>1. s \in D(n + 1)  BY <1>1
    <3>2. f[s] = IF s = {} THEN 0 ELSE b[Pick(s)] + f[s \ {Pick(s)}]
      BY <2>1, Zenon DEF IsSum
    <3>. QED  BY <3>1, <3>2
  <2>5. g = [s \in D(n + 1) |-> IF s = {} THEN 0 ELSE b[Pick(s)] + g[s \ {Pick(s)}]]
    <3>. SUFFICES ASSUME NEW s \in D(n + 1), s # {} PROVE f[s \ {Pick(s)}] = g[s \ {Pick(s)}]
      OBVIOUS
    <3>. QED  BY <2>2, <2>4
  <2>6. IsSum(g, b, D(n + 1))  BY <2>5 DEF IsSum
  <2>. QED  BY <2>3, <2>6
<1>4. Bad = {}
  <2>. SUFFICES ASSUME Bad # {} PROVE FALSE
    OBVIOUS
  <2>1. Bad \in SUBSET Nat  OBVIOUS
  <2>. HIDE DEF Bad
  <2>2. PICK m \in Bad : \A k \in Bad : m <= k  BY <2>1, LeastElement
  <2>3. m - 1 \in Nat /\ m - 1 \notin Bad  BY <1>2, <2>1, <2>2
  <2>4. (m - 1) + 1 \notin Bad  BY <1>3, <2>3
  <2>. QED  BY <2>1, <2>2, <2>4
<1>5. D(Cardinality(A)) = SUBSET A
  BY <1>1, FS_Subset
<1>6. Cardinality(A) \in Nat  BY FS_CardinalityType
<1>7. \E f \in [D(Cardinality(A)) -> Int] : IsSum(f, b, D(Cardinality(A)))
  BY <1>4, <1>6
<1>. QED  BY <1>5, <1>7

(* The empty sum is zero.                                                     *)
LEMMA SumEmpty ==
    ASSUME NEW A, NEW b, NEW f, IsSum(f, b, SUBSET A)
    PROVE  f[{}] = 0
BY Zenon DEF IsSum

(* Some element of a set, which is what the sum is computed from.             *)
LEMMA PickSmaller ==
    ASSUME NEW s, s # {}
    PROVE  Pick(s) \in s /\ s \ {Pick(s)} \in SUBSET s /\ s \ {Pick(s)} # s
BY DEF Pick

(* There is one function of the sums.                                         *)
LEMMA SumUnique ==
    ASSUME NEW A, IsFiniteSet(A), NEW b, NEW f, IsSum(f, b, SUBSET A), NEW g, IsSum(g, b, SUBSET A)
    PROVE  f = g
<1>. DEFINE G == {s \in SUBSET A : f[s] = g[s]}
<1>1. ASSUME NEW s \in SUBSET A, \A t \in SUBSET s : t # s => t \in G PROVE s \in G
  <2>1. CASE s = {}
    <3>1. f[s] = 0 /\ g[s] = 0  BY <2>1, SumEmpty, Zenon
    <3>. QED  BY <3>1
  <2>2. CASE s # {}
    <3>1. f[s] = b[Pick(s)] + f[s \ {Pick(s)}] /\ g[s] = b[Pick(s)] + g[s \ {Pick(s)}]
      BY <2>2, Zenon DEF IsSum
    <3>2. f[s \ {Pick(s)}] = g[s \ {Pick(s)}]  BY <1>1, <2>2, PickSmaller
    <3>. QED  BY <3>1, <3>2
  <2>. QED  BY <2>1, <2>2
<1>2. G = SUBSET A
  <2>1. G \in SUBSET SUBSET A  OBVIOUS
  <2>. HIDE DEF G
  <2>. QED  BY <1>1, <2>1, SubsetInduction
<1>3. \A s \in SUBSET A : f[s] = g[s]  BY <1>2
<1>. DEFINE F == [s \in SUBSET A |-> IF s = {} THEN 0 ELSE b[Pick(s)] + f[s \ {Pick(s)}]]
            H == [s \in SUBSET A |-> IF s = {} THEN 0 ELSE b[Pick(s)] + g[s \ {Pick(s)}]]
<1>4. f = F /\ g = H  BY Zenon DEF IsSum
<1>5. F = [s \in SUBSET A |-> F[s]] /\ H = [s \in SUBSET A |-> H[s]]  BY Zenon
<1>. HIDE DEF F, H, G
<1>. QED  BY <1>3, <1>4, <1>5

(* f has the sums of b over the subsets of A, all of them integers.           *)
SumOf(f, b, A) ==
    IsFiniteSet(A) /\ b \in [A -> Int] /\ f \in [SUBSET A -> Int] /\ IsSum(f, b, SUBSET A)

(* Any element of a set may be taken out of its sum.                          *)
Separable(f, b, A) == \A s \in SUBSET A : \A x \in s : f[s] = b[x] + f[s \ {x}]

(* A sum is that of any of its elements and the rest.                         *)
LEMMA SumOfOne ==
    ASSUME NEW A, NEW b, NEW f, SumOf(f, b, A)
    PROVE  Separable(f, b, A)
<1>. IsFiniteSet(A) /\ b \in [A -> Int] /\ f \in [SUBSET A -> Int] /\ IsSum(f, b, SUBSET A)  BY DEF SumOf
<1>. DEFINE G == {u \in SUBSET A : \A y \in u : f[u] = b[y] + f[u \ {y}]}
<1>1. ASSUME NEW u \in SUBSET A, \A v \in SUBSET u : v # u => v \in G PROVE u \in G
  <2>. SUFFICES ASSUME NEW y \in u PROVE f[u] = b[y] + f[u \ {y}]
    OBVIOUS
  <2>. DEFINE z == Pick(u)
  <2>1. z \in u /\ u # {}  BY PickSmaller
  <2>2. f[u] = b[z] + f[u \ {z}]  BY <2>1, Zenon DEF IsSum
  <2>. HIDE DEF z
  <2>3. CASE y = z  BY <2>2, <2>3
  <2>4. CASE y # z
    <3>1. u \ {z} \in G /\ u \ {y} \in G /\ y \in u \ {z} /\ z \in u \ {y}  BY <1>1, <2>1, <2>4
    <3>2. f[u \ {z}] = b[y] + f[(u \ {z}) \ {y}] /\ f[u \ {y}] = b[z] + f[(u \ {y}) \ {z}]  BY <3>1
    <3>3. (u \ {z}) \ {y} = (u \ {y}) \ {z} /\ (u \ {z}) \ {y} \in SUBSET A  OBVIOUS
    <3>4. b[y] \in Int /\ b[z] \in Int /\ f[(u \ {z}) \ {y}] \in Int  BY <2>1, <3>3
    <3>. DEFINE r == f[(u \ {z}) \ {y}]
    <3>5. f[u \ {z}] = b[y] + r /\ f[u \ {y}] = b[z] + r /\ r \in Int  BY <3>2, <3>3, <3>4
    <3>. HIDE DEF r
    <3>. QED  BY <2>2, <3>4, <3>5
  <2>. QED  BY <2>3, <2>4
<1>2. G = SUBSET A
  <2>1. G \in SUBSET SUBSET A  OBVIOUS
  <2>. HIDE DEF G
  <2>. QED  BY <1>1, <2>1, SubsetInduction
<1>. QED  BY <1>2 DEF Separable

(* Sums of two sets that share nothing add up.                                *)
Additive(f, A) ==
    \A s \in SUBSET A : \A t \in SUBSET A : s \cap t = {} => f[s \cup t] = f[s] + f[t]

(* The sum of two sets that share nothing is the sum of their sums.           *)
LEMMA SumOfUnion ==
    ASSUME NEW A, NEW b, NEW f, SumOf(f, b, A)
    PROVE  Additive(f, A)
<1>. SUFFICES ASSUME NEW s \in SUBSET A, NEW t \in SUBSET A, s \cap t = {}
              PROVE  f[s \cup t] = f[s] + f[t]
  BY DEF Additive
<1>. IsFiniteSet(A) /\ b \in [A -> Int] /\ f \in [SUBSET A -> Int] /\ IsSum(f, b, SUBSET A)  BY DEF SumOf
<1>0. Separable(f, b, A)  BY SumOfOne, Zenon
<1>. DEFINE G == {u \in SUBSET A : u \cap t = {} => f[u \cup t] = f[u] + f[t]}
<1>1. ASSUME NEW u \in SUBSET A, \A v \in SUBSET u : v # u => v \in G PROVE u \in G
  <2>. SUFFICES ASSUME u \cap t = {} PROVE f[u \cup t] = f[u] + f[t]
    OBVIOUS
  <2>1. CASE u = {}
    <3>1. f[{}] = 0  BY SumEmpty
    <3>2. u \cup t = t /\ f[t] \in Int  BY <2>1
    <3>. QED  BY <2>1, <3>1, <3>2
  <2>2. CASE u # {}
    <3>1. PICK x \in u : TRUE  BY <2>2
    <3>2. u \ {x} \in G /\ (u \ {x}) \cap t = {}  BY <1>1
    <3>3. f[(u \ {x}) \cup t] = f[u \ {x}] + f[t]  BY <3>2
    <3>4. (u \cup t) \ {x} = (u \ {x}) \cup t /\ u \cup t \in SUBSET A /\ x \in u \cup t  OBVIOUS
    <3>5. f[u \cup t] = b[x] + f[(u \cup t) \ {x}]
      <4>. HIDE DEF G
      <4>. QED  BY <1>0, <3>4, Zenon DEF Separable
    <3>6. f[u] = b[x] + f[u \ {x}]  BY <1>0, Zenon DEF Separable
    <3>7. b[x] \in Int /\ f[u \ {x}] \in Int /\ f[t] \in Int  OBVIOUS
    <3>8. f[u \cup t] = b[x] + (f[u \ {x}] + f[t])  BY <3>3, <3>4, <3>5
    <3>. QED  BY <3>6, <3>7, <3>8
  <2>. QED  BY <2>1, <2>2
<1>2. G = SUBSET A
  <2>1. G \in SUBSET SUBSET A  OBVIOUS
  <2>. HIDE DEF G
  <2>. QED  BY <1>1, <2>1, SubsetInduction
<1>. QED  BY <1>2

(* A total of the report is a sum in that sense.                              *)
LEMMA TotalIsSum ==
    ASSUME NEW A, NEW b, NEW f, SumOf(f, b, A), NEW S \in SUBSET A
    PROVE  Total(b, S) = f[S] /\ f[S] \in Int
<1>. IsFiniteSet(A) /\ f \in [SUBSET A -> Int] /\ IsSum(f, b, SUBSET A)  BY DEF SumOf
<1>. DEFINE g == [s \in SUBSET S |-> f[s]]
            h == CHOOSE k : IsSum(k, b, SUBSET S)
<1>1. ASSUME NEW s \in SUBSET S PROVE g[s] = IF s = {} THEN 0 ELSE b[Pick(s)] + g[s \ {Pick(s)}]
  <2>1. s \in SUBSET A /\ s \ {Pick(s)} \in SUBSET S  OBVIOUS
  <2>2. f[s] = IF s = {} THEN 0 ELSE b[Pick(s)] + f[s \ {Pick(s)}]  BY <2>1, Zenon DEF IsSum
  <2>. QED  BY <2>1, <2>2
<1>2. g = [s \in SUBSET S |-> g[s]] /\ g[S] = f[S] /\ f[S] \in Int  OBVIOUS
<1>. HIDE DEF g
<1>3. g = [s \in SUBSET S |-> IF s = {} THEN 0 ELSE b[Pick(s)] + g[s \ {Pick(s)}]]
  BY <1>1, <1>2
<1>4. IsSum(g, b, SUBSET S)  BY <1>3, Zenon DEF IsSum
<1>5. IsSum(h, b, SUBSET S)  BY <1>4
<1>6. Total(b, S) = h[S]
  BY Zenon DEF Total, MapThenSumSet, MapThenFoldSet, IsSum, Pick
<1>. HIDE DEF h
<1>7. IsFiniteSet(S)  BY FS_Subset
<1>8. h = g  BY <1>4, <1>5, <1>7, SumUnique
<1>. QED  BY <1>2, <1>6, <1>8

(* A total over three parts.                                                  *)
AddsUp(b, S, R, D, F) ==
    /\ Total(b, S) = (Total(b, R) + Total(b, D)) + Total(b, F)
    /\ Total(b, R) \in Int /\ Total(b, D) \in Int /\ Total(b, F) \in Int

(* What buildInvestorReport splits by status adds up to the whole.            *)
LEMMA TotalOfThree ==
    ASSUME NEW A, IsFiniteSet(A), NEW b \in [A -> Int],
           NEW S \in SUBSET A, NEW R \in SUBSET A, NEW D \in SUBSET A, NEW F \in SUBSET A,
           S = (R \cup D) \cup F, R \cap D = {}, (R \cup D) \cap F = {}
    PROVE  AddsUp(b, S, R, D, F)
<1>1. PICK f : SumOf(f, b, A)
  <2>1. PICK f \in [SUBSET A -> Int] : IsSum(f, b, SUBSET A)  BY SumExists
  <2>. QED  BY <2>1 DEF SumOf
<1>2. Additive(f, A)  BY <1>1, SumOfUnion
<1>3. \A s \in SUBSET A : Total(b, s) = f[s] /\ f[s] \in Int  BY <1>1, TotalIsSum
<1>4. f[R \cup D] = f[R] + f[D]  BY <1>2 DEF Additive
<1>5. f[(R \cup D) \cup F] = f[R \cup D] + f[F]
  <2>1. R \cup D \in SUBSET A  OBVIOUS
  <2>. QED  BY <1>2, <2>1 DEF Additive
<1>. QED  BY <1>3, <1>4, <1>5 DEF AddsUp

(* The invoice table: a pending invoice has no investor.                      *)
RowsOK(R) ==
    /\ R \in [ExpInvoices -> [status : {"PENDING", "FUNDED", "REPAID", "DEFAULTED"},
                              farmer : Wallets, investor : Subjects, funder : Subjects,
                              faceValue : FaceValues, fundedAmount : FaceValues \cup FundedAmounts]]
    /\ \A i \in ExpInvoices : R[i].status = "PENDING" => R[i].investor = NoWallet

(* What the builders report of a table.                                       *)
TransactionsOf(R, s, t) ==
    UNION {{[ref |-> i, rec |-> x, status |-> R[i].status] : x \in {u \in FatfOf(R[i]) : u.amount >= t}} :
              i \in {k \in ExpInvoices : InScope(s, R[k])}}
InvestorOf(R, s) ==
    {[ref |-> i, rec |-> Financing(R[i]), status |-> R[i].status] : i \in {k \in ExpInvoices : R[k].investor = s}}

(* A document that belongs to a job: within the job's scope and, if it is a   *)
(* FATF export, still reported by the builder.                                *)
DocOK(d, e, R) ==
    /\ e.subject \in Wallets => \A x \in d : e.subject \in {x.rec.from, x.rec.to}
    /\ e.type = "TRANSACTIONS" => \A x \in d : StillReported(x, TransactionsOf(R, e.subject, e.threshold))

(* A job is asked for within the requester's rights, its suspended processJob *)
(* is at the place its row says, and its documents belong to it.              *)
JobOK(e, r, d, R) ==
    /\ e \in [status : {e.status}, type : {e.type}, requestedBy : {e.requestedBy}, subject : {e.subject},
              threshold : {e.threshold}, content : {e.content}]
    /\ r \in {"none", "scheduled", "building", "built"}
    /\ e.subject \in Subjects /\ e.type \in {"TRANSACTIONS", "INVESTOR_REPORT"}
    /\ r = "scheduled" => e.status = "PENDING"
    /\ r \in {"building", "built"} => e.status = "PROCESSING"
    /\ r = "built" => DocOK(d, e, R)
    /\ e.status = "COMPLETED" => DocOK(e.content, e, R)
    /\ e.type = "INVESTOR_REPORT" => e.subject \in Wallets
    /\ e.status # "absent" /\ e.requestedBy \notin ComplianceAdmins => e.subject = e.requestedBy /\ e.subject \in Wallets

ComplianceInv ==
    /\ RowsOK(rows)
    /\ exportJob = [j \in ExpJobs |-> exportJob[j]]
    /\ runner = [j \in ExpJobs |-> runner[j]]
    /\ built = [j \in ExpJobs |-> built[j]]
    /\ \A j \in ExpJobs : JobOK(exportJob[j], runner[j], built[j], rows)
    /\ ReportsAreScoped

(* The builders of the model, on the table as it is.                          *)
LEMMA BuildersOf ==
    ASSUME NEW s, NEW t
    PROVE  BuildTransactions(s, t) = TransactionsOf(rows, s, t) /\ BuildInvestor(s) = InvestorOf(rows, s)
BY DEF BuildTransactions, TransactionsOf, BuildInvestor, InvestorOf

(* What a builder reports of a wallet's invoices, the wallet is a party of.   *)
LEMMA BuiltDocument ==
    ASSUME NEW R, RowsOK(R), NEW s \in Subjects, NEW t
    PROVE  /\ s \in Wallets => \A x \in TransactionsOf(R, s, t) : s \in {x.rec.from, x.rec.to}
           /\ \A x \in InvestorOf(R, s) : s \in {x.rec.from, x.rec.to}
<1>1. ASSUME s \in Wallets, NEW x \in TransactionsOf(R, s, t) PROVE s \in {x.rec.from, x.rec.to}
  <2>1. PICK i \in ExpInvoices : \E u \in FatfOf(R[i]) :
            InScope(s, R[i]) /\ x = [ref |-> i, rec |-> u, status |-> R[i].status]
    BY <1>1 DEF TransactionsOf
  <2>0. PICK u \in FatfOf(R[i]) : x = [ref |-> i, rec |-> u, status |-> R[i].status]  BY <2>1
  <2>2. s \in {R[i].farmer, R[i].investor}
    BY <1>1, <2>1, ComplianceAssumption DEF InScope
  <2>3. {u.from, u.to} = {R[i].farmer, R[i].investor}
    BY <2>0 DEF FatfOf, Financing, Repayment
  <2>. QED  BY <2>0, <2>2, <2>3
<1>2. ASSUME NEW x \in InvestorOf(R, s) PROVE s \in {x.rec.from, x.rec.to}
  BY DEF InvestorOf, Financing
<1>. QED  BY <1>1, <1>2

(* What a table reports, another reports still.                               *)
Grows(R, Q) ==
    \A s, t : \A x \in TransactionsOf(R, s, t) : StillReported(x, TransactionsOf(Q, s, t))

(* A table that keeps the parties of its invoices, the transfers of each and  *)
(* the status of those that are financed and not open keeps every FATF        *)
(* export.                                                                    *)
LEMMA ReportsGrow ==
    ASSUME NEW R, NEW Q,
           \A i \in ExpInvoices :
              /\ R[i].farmer = Q[i].farmer /\ R[i].investor = Q[i].investor
              /\ FatfOf(R[i]) \subseteq FatfOf(Q[i])
              /\ R[i].investor # NoWallet /\ R[i].status # "FUNDED" => Q[i].status = R[i].status
    PROVE  Grows(R, Q)
<1>. SUFFICES ASSUME NEW s, NEW t, NEW x \in TransactionsOf(R, s, t)
              PROVE  StillReported(x, TransactionsOf(Q, s, t))
  BY DEF Grows
<1>1. PICK i \in ExpInvoices : \E u \in FatfOf(R[i]) :
        InScope(s, R[i]) /\ u.amount >= t /\ x = [ref |-> i, rec |-> u, status |-> R[i].status]
  BY DEF TransactionsOf
<1>2. PICK u \in FatfOf(R[i]) : u.amount >= t /\ x = [ref |-> i, rec |-> u, status |-> R[i].status]
  BY <1>1
<1>. DEFINE y == [ref |-> i, rec |-> u, status |-> Q[i].status]
<1>3. InScope(s, Q[i]) /\ u \in FatfOf(Q[i])
  BY <1>1, <1>2 DEF InScope
<1>4. y \in TransactionsOf(Q, s, t)
  BY <1>2, <1>3 DEF TransactionsOf
<1>5. R[i].investor # NoWallet
  BY <1>2 DEF FatfOf
<1>6. y.ref = x.ref /\ y.rec = x.rec /\ (x.status # "FUNDED" => y.status = x.status)
  BY <1>2, <1>5
<1>. QED  BY <1>4, <1>6 DEF StillReported

(* A table that grows in this sense keeps jobs and their documents right.     *)
LEMMA JobKept ==
    ASSUME NEW e, NEW r, NEW d, NEW R, NEW Q, JobOK(e, r, d, R), Grows(R, Q)
    PROVE  JobOK(e, r, d, Q)
<1>1. \A s, t, x : StillReported(x, TransactionsOf(R, s, t)) => StillReported(x, TransactionsOf(Q, s, t))
  BY DEF Grows, StillReported
<1>. QED  BY <1>1 DEF JobOK, DocOK

(* The sums of the investor report.                                           *)
LEMMA ReportBalances ==
    ASSUME RowsOK(rows)
    PROVE  PnlBalances
<1>. SUFFICES ASSUME NEW w \in Wallets
              PROVE  TotalCost(Positions(w)) = RealizedProceeds(w) - RealizedPnl(w) + TotalCost(PositionsIn(w, "FUNDED"))
  BY DEF PnlBalances
<1>. DEFINE S == Positions(w)
            P == PositionsIn(w, "REPAID")
            D == PositionsIn(w, "DEFAULTED")
            F == PositionsIn(w, "FUNDED")
<1>1. S \in SUBSET ExpInvoices /\ P \in SUBSET ExpInvoices /\ D \in SUBSET ExpInvoices /\ F \in SUBSET ExpInvoices
  BY DEF Positions, PositionsIn
<1>2. \A i \in S : rows[i].status \in {"FUNDED", "REPAID", "DEFAULTED"}
  BY ComplianceAssumption DEF Positions, RowsOK
<1>3. S = (P \cup D) \cup F /\ P \cap D = {} /\ (P \cup D) \cap F = {}
  BY <1>2 DEF PositionsIn
<1>4. CostBasis \in [ExpInvoices -> Int] /\ Proceeds \in [ExpInvoices -> Int] /\ IsFiniteSet(ExpInvoices)
  BY ComplianceAssumption DEF RowsOK, CostBasis, Proceeds
<1>. HIDE DEF S, P, D, F
<1>5. AddsUp(CostBasis, S, P, D, F) /\ AddsUp(Proceeds, S, P, D, F)
  BY <1>1, <1>3, <1>4, TotalOfThree
<1>. QED  BY <1>5 DEF AddsUp, TotalCost, RealizedProceeds, RealizedPnl, S, P, D, F

(* At the start there are no jobs, and pending and backfilled rows.           *)
LEMMA ComplianceInvInit ==
    ASSUME ComplianceInit
    PROVE  ComplianceInv
<1>1. RowsOK(rows)
  BY ComplianceAssumption DEF ComplianceInit, RowsOK, LegacyRows, Subjects
<1>2. ASSUME NEW j \in ExpJobs PROVE JobOK(exportJob[j], runner[j], built[j], rows)
  <2>1. exportJob[j] = NoExport /\ runner[j] = "none"  BY DEF ComplianceInit
  <2>. QED  BY <2>1 DEF JobOK, NoExport, Subjects
<1>3. ReportsAreScoped  BY DEF ComplianceInit, ReportsAreScoped
<1>4. exportJob = [j \in ExpJobs |-> exportJob[j]] /\ runner = [j \in ExpJobs |-> runner[j]]
      /\ built = [j \in ExpJobs |-> built[j]]
  BY DEF ComplianceInit
<1>. QED  BY <1>1, <1>2, <1>3, <1>4 DEF ComplianceInv

(* What a request is answered with, and what a job builds: the requester's    *)
(* own transfers, unless an admin asked (ResolveSubject).                     *)
LEMMA SubjectResolved ==
    ASSUME NEW p \in Principals, NEW s \in Subjects, NEW q \in Queries, MayAsk(p, q[1], s)
    PROVE  /\ q[1] \in {"TRANSACTIONS", "INVESTOR_REPORT"}
           /\ ResolveSubject(p, s) \in Subjects
           /\ q[1] = "INVESTOR_REPORT" => ResolveSubject(p, s) \in Wallets
           /\ p \notin ComplianceAdmins => ResolveSubject(p, s) = p /\ p \in Wallets
<1>1. q[1] \in {"TRANSACTIONS", "INVESTOR_REPORT"}  BY DEF Queries
<1>2. p \notin ComplianceAdmins => ResolveSubject(p, s) = p /\ p \in Wallets
  BY DEF ResolveSubject, Principals
<1>3. p \in ComplianceAdmins => ResolveSubject(p, s) = s /\ (q[1] = "TRANSACTIONS" \/ s \in Wallets)
  BY DEF ResolveSubject, MayAsk, Subjects
<1>. QED  BY <1>1, <1>2, <1>3 DEF Subjects

(* An export answered at once (exportTransactions, exportInvestorReport).     *)
LEMMA InlineKeeps ==
    ASSUME ComplianceInv, NEW p \in Principals, NEW s \in Subjects, NEW q \in Queries, ExportInline(p, q[1], s, q[2])
    PROVE  ComplianceInv'
<1>. DEFINE u == ResolveSubject(p, s)
            d == Build(q[1], u, q[2])
<1>1. /\ MayAsk(p, q[1], s) /\ answer' = [to |-> p, doc |-> d]
      /\ UNCHANGED <<rows, exportJob, runner, built>>
  BY DEF ExportInline
<1>2. q[1] \in {"TRANSACTIONS", "INVESTOR_REPORT"} /\ u \in Subjects /\ (p \notin ComplianceAdmins => u = p /\ p \in Wallets)
  BY <1>1, SubjectResolved
<1>3. d = TransactionsOf(rows, u, q[2]) \/ d = InvestorOf(rows, u)
  BY <1>2, BuildersOf DEF Build
<1>. HIDE DEF u, d
<1>4. p \notin ComplianceAdmins => \A x \in d : p \in {x.rec.from, x.rec.to}
  BY <1>2, <1>3, BuiltDocument DEF ComplianceInv
<1>5. ReportsAreScoped'  BY <1>1, <1>4 DEF ReportsAreScoped
<1>. QED  BY <1>1, <1>5 DEF ComplianceInv

(* A finished job is sent to whoever may load it (loadAuthorizedJob).         *)
LEMMA DownloadKeeps ==
    ASSUME ComplianceInv, NEW p \in Principals, NEW j \in ExpJobs, DownloadJob(p, j)
    PROVE  ComplianceInv'
<1>1. /\ p \in ComplianceAdmins \/ exportJob[j].requestedBy = p
      /\ exportJob[j].status = "COMPLETED" /\ answer' = [to |-> p, doc |-> exportJob[j].content]
      /\ UNCHANGED <<rows, exportJob, runner, built>>
  BY DEF DownloadJob, Authorized
<1>2. JobOK(exportJob[j], runner[j], built[j], rows)  BY DEF ComplianceInv
<1>3. p \notin ComplianceAdmins => \A x \in exportJob[j].content : p \in {x.rec.from, x.rec.to}
  BY <1>1, <1>2 DEF JobOK, DocOK
<1>4. ReportsAreScoped'  BY <1>1, <1>3 DEF ReportsAreScoped
<1>. QED  BY <1>1, <1>4 DEF ComplianceInv

(* A step of one job that leaves the table, the answer and the others alone.  *)
LEMMA JobStep ==
    ASSUME ComplianceInv, NEW j \in ExpJobs, NEW e, NEW r, NEW d,
           exportJob' = [exportJob EXCEPT ![j] = e], runner' = [runner EXCEPT ![j] = r],
           built' = [built EXCEPT ![j] = d], UNCHANGED <<rows, answer>>, JobOK(e, r, d, rows)
    PROVE  ComplianceInv'
<1>1. /\ exportJob' = [k \in ExpJobs |-> exportJob'[k]] /\ runner' = [k \in ExpJobs |-> runner'[k]]
      /\ built' = [k \in ExpJobs |-> built'[k]]
  BY DEF ComplianceInv
<1>2. ASSUME NEW k \in ExpJobs PROVE JobOK(exportJob'[k], runner'[k], built'[k], rows')
  <2>1. CASE k = j
    <3>1. exportJob'[k] = e /\ runner'[k] = r /\ built'[k] = d /\ rows' = rows
      BY <2>1 DEF ComplianceInv
    <3>. QED  BY <3>1
  <2>2. CASE k # j
    <3>1. exportJob'[k] = exportJob[k] /\ runner'[k] = runner[k] /\ built'[k] = built[k] /\ rows' = rows
      BY <2>2 DEF ComplianceInv
    <3>. QED  BY <3>1 DEF ComplianceInv
  <2>. QED  BY <2>1, <2>2
<1>3. RowsOK(rows') /\ ReportsAreScoped'  BY DEF ComplianceInv, ReportsAreScoped
<1>. QED  BY <1>1, <1>2, <1>3 DEF ComplianceInv

(* A job is created for a subject the requester may ask for (enqueue).        *)
LEMMA EnqueueKeeps ==
    ASSUME ComplianceInv, NEW p \in Principals, NEW s \in Subjects, NEW q \in Queries, NEW j \in ExpJobs,
           EnqueueExport(j, p, q[1], s, q[2])
    PROVE  ComplianceInv'
<1>. DEFINE u == ResolveSubject(p, s)
            e == [status |-> "PENDING", type |-> q[1], requestedBy |-> p, subject |-> u, threshold |-> q[2], content |-> NoDoc]
<1>1. /\ MayAsk(p, q[1], s) /\ exportJob' = [exportJob EXCEPT ![j] = e]
      /\ runner' = [runner EXCEPT ![j] = "scheduled"] /\ UNCHANGED <<rows, built, answer>>
  BY DEF EnqueueExport
<1>2. /\ u \in Subjects /\ (q[1] = "INVESTOR_REPORT" => u \in Wallets) /\ q[1] \in {"TRANSACTIONS", "INVESTOR_REPORT"}
      /\ (p \notin ComplianceAdmins => u = p /\ p \in Wallets)
  BY <1>1, SubjectResolved
<1>3. built' = [built EXCEPT ![j] = built[j]]  BY <1>1 DEF ComplianceInv
<1>. HIDE DEF u
<1>4. JobOK(e, "scheduled", built[j], rows)  BY <1>2 DEF JobOK
<1>. HIDE DEF e
<1>. QED  BY <1>1, <1>3, <1>4, JobStep

(* The row a job's status and content are written into.                       *)
LEMMA RowWritten ==
    ASSUME NEW A, NEW B, NEW C, NEW D, NEW F, NEW G, NEW s, NEW x, NEW o,
           NEW e \in [status : A, type : B, requestedBy : C, subject : D, threshold : F, content : G],
           o = [e EXCEPT !.status = s, !.content = x]
    PROVE  /\ o.status = s /\ o.content = x /\ o.type = e.type /\ o.requestedBy = e.requestedBy
           /\ o.subject = e.subject /\ o.threshold = e.threshold
           /\ o \in [status : {o.status}, type : {o.type}, requestedBy : {o.requestedBy}, subject : {o.subject},
                     threshold : {o.threshold}, content : {o.content}]
OBVIOUS

(* processJob, from its first update to its last or to its failure.           *)
LEMMA ProcessKeeps ==
    ASSUME ComplianceInv, NEW j \in ExpJobs, MarkProcessing(j) \/ BuildExport(j) \/ CompleteJob(j) \/ FailJob(j)
    PROVE  ComplianceInv'
<1>. DEFINE o == exportJob[j]
            At(s, c) == [o EXCEPT !.status = s, !.content = c]
<1>1. JobOK(o, runner[j], built[j], rows)  BY DEF ComplianceInv
<1>2. /\ exportJob = [k \in ExpJobs |-> exportJob[k]]
      /\ runner = [k \in ExpJobs |-> runner[k]] /\ built = [k \in ExpJobs |-> built[k]]
  BY <1>1 DEF JobOK, ComplianceInv
<1>3. CASE MarkProcessing(j)
  <2>. DEFINE e == At("PROCESSING", o.content)
  <2>0. /\ e.status = "PROCESSING" /\ e.content = o.content /\ e.type = o.type /\ e.requestedBy = o.requestedBy
        /\ e.subject = o.subject /\ e.threshold = o.threshold
        /\ e \in [status : {e.status}, type : {e.type}, requestedBy : {e.requestedBy}, subject : {e.subject},
                  threshold : {e.threshold}, content : {e.content}]
    BY <1>1, RowWritten DEF JobOK
  <2>1. runner[j] = "scheduled" /\ runner' = [runner EXCEPT ![j] = "building"] /\ UNCHANGED <<rows, built, answer>>
    BY <1>3 DEF MarkProcessing
  <2>2. exportJob' = [exportJob EXCEPT ![j] = e]
    <3>1. [o EXCEPT !.status = "PROCESSING"] = e  BY <1>1 DEF JobOK
    <3>2. exportJob' = [exportJob EXCEPT ![j] = [o EXCEPT !.status = "PROCESSING"]]
      BY <1>2, <1>3 DEF MarkProcessing
    <3>. QED  BY <3>1, <3>2
  <2>. HIDE DEF e
  <2>3. JobOK(e, "building", built[j], rows)  BY <1>1, <2>0, <2>1 DEF JobOK
  <2>4. built' = [built EXCEPT ![j] = built[j]]  BY <1>2, <2>1
  <2>. HIDE DEF e
  <2>. QED  BY <2>1, <2>2, <2>3, <2>4, JobStep
<1>4. CASE BuildExport(j)
  <2>. DEFINE d == Build(o.type, o.subject, o.threshold)
  <2>1. /\ runner[j] = "building" /\ built' = [built EXCEPT ![j] = d] /\ runner' = [runner EXCEPT ![j] = "built"]
        /\ UNCHANGED <<rows, exportJob, answer>>
    BY <1>4 DEF BuildExport
  <2>2. exportJob' = [exportJob EXCEPT ![j] = o]  BY <1>2, <2>1
  <2>3. DocOK(d, o, rows)
    <3>1. CASE o.type = "TRANSACTIONS"
      <4>1. d = TransactionsOf(rows, o.subject, o.threshold)  BY <3>1, BuildersOf DEF Build
      <4>. HIDE DEF d
      <4>2. \A x \in d : StillReported(x, TransactionsOf(rows, o.subject, o.threshold))  BY <4>1 DEF StillReported
      <4>. HIDE DEF d
      <4>. QED  BY <1>1, <4>1, <4>2, BuiltDocument DEF DocOK, JobOK, ComplianceInv
    <3>2. CASE o.type # "TRANSACTIONS"
      <4>1. d = InvestorOf(rows, o.subject)  BY <3>2, BuildersOf DEF Build
      <4>. HIDE DEF d
      <4>. QED  BY <1>1, <3>2, <4>1, BuiltDocument DEF DocOK, JobOK, ComplianceInv
    <3>. QED  BY <3>1, <3>2
  <2>. HIDE DEF d
  <2>4. JobOK(o, "built", d, rows)  BY <1>1, <2>1, <2>3 DEF JobOK
  <2>. HIDE DEF o
  <2>. QED  BY <2>1, <2>2, <2>4, JobStep
<1>5. CASE CompleteJob(j)
  <2>. DEFINE e == At("COMPLETED", built[j])
  <2>0. /\ e.status = "COMPLETED" /\ e.content = built[j] /\ e.type = o.type /\ e.requestedBy = o.requestedBy
        /\ e.subject = o.subject /\ e.threshold = o.threshold
        /\ e \in [status : {e.status}, type : {e.type}, requestedBy : {e.requestedBy}, subject : {e.subject},
                  threshold : {e.threshold}, content : {e.content}]
    BY <1>1, RowWritten DEF JobOK
  <2>1. /\ runner[j] = "built" /\ built' = [built EXCEPT ![j] = NoDoc] /\ runner' = [runner EXCEPT ![j] = "none"]
        /\ UNCHANGED <<rows, answer>>
    BY <1>5 DEF CompleteJob
  <2>2. exportJob' = [exportJob EXCEPT ![j] = e]
    BY <1>2, <1>5 DEF CompleteJob
  <2>. HIDE DEF e
  <2>3. DocOK(built[j], e, rows)  BY <1>1, <2>0, <2>1 DEF JobOK, DocOK
  <2>4. JobOK(e, "none", NoDoc, rows)  BY <1>1, <2>0, <2>1, <2>3 DEF JobOK
  <2>. HIDE DEF e
  <2>. QED  BY <2>1, <2>2, <2>4, JobStep
<1>6. CASE FailJob(j)
  <2>. DEFINE e == At("FAILED", o.content)
  <2>0. /\ e.status = "FAILED" /\ e.content = o.content /\ e.type = o.type /\ e.requestedBy = o.requestedBy
        /\ e.subject = o.subject /\ e.threshold = o.threshold
        /\ e \in [status : {e.status}, type : {e.type}, requestedBy : {e.requestedBy}, subject : {e.subject},
                  threshold : {e.threshold}, content : {e.content}]
    BY <1>1, RowWritten DEF JobOK
  <2>1. /\ runner[j] \in {"building", "built"} /\ built' = [built EXCEPT ![j] = NoDoc]
        /\ runner' = [runner EXCEPT ![j] = "none"] /\ UNCHANGED <<rows, answer>>
    BY <1>6 DEF FailJob
  <2>2. exportJob' = [exportJob EXCEPT ![j] = e]
    <3>1. [o EXCEPT !.status = "FAILED"] = e  BY <1>1 DEF JobOK
    <3>2. exportJob' = [exportJob EXCEPT ![j] = [o EXCEPT !.status = "FAILED"]]
      BY <1>2, <1>6 DEF FailJob
    <3>. QED  BY <3>1, <3>2
  <2>. HIDE DEF e
  <2>3. JobOK(e, "none", NoDoc, rows)  BY <1>1, <2>0, <2>1 DEF JobOK
  <2>. HIDE DEF e
  <2>. QED  BY <2>1, <2>2, <2>3, JobStep
<1>. QED  BY <1>3, <1>4, <1>5, <1>6

(* A crash leaves the rows of the jobs as they are.                           *)
LEMMA CrashExportsKeeps ==
    ASSUME ComplianceInv, CrashExports
    PROVE  ComplianceInv'
<1>1. /\ runner' = [j \in ExpJobs |-> "none"] /\ built' = [j \in ExpJobs |-> NoDoc]
      /\ UNCHANGED <<rows, exportJob, answer>>
  BY DEF CrashExports
<1>2. ASSUME NEW j \in ExpJobs PROVE JobOK(exportJob'[j], runner'[j], built'[j], rows')
  <2>1. JobOK(exportJob[j], runner[j], built[j], rows)  BY DEF ComplianceInv
  <2>2. runner'[j] = "none" /\ exportJob' = exportJob /\ rows' = rows  BY <1>1
  <2>3. JobOK(exportJob[j], "none", built'[j], rows)  BY <2>1 DEF JobOK
  <2>. QED  BY <2>2, <2>3
<1>3. RowsOK(rows') /\ ReportsAreScoped'  BY <1>1 DEF ComplianceInv, ReportsAreScoped
<1>4. /\ exportJob' = [j \in ExpJobs |-> exportJob'[j]] /\ runner' = [j \in ExpJobs |-> runner'[j]]
      /\ built' = [j \in ExpJobs |-> built'[j]]
  BY <1>1 DEF ComplianceInv
<1>. QED  BY <1>2, <1>3, <1>4 DEF ComplianceInv

(* What the funding service and the settlement listener write takes nothing   *)
(* out of any FATF export.                                                    *)
LEMMA TableWriteKeeps ==
    ASSUME ComplianceInv, NEW i \in ExpInvoices, FundRow(i) \/ SettleRow(i)
    PROVE  ComplianceInv'
<1>1. UNCHANGED <<exportJob, runner, built, answer>>  BY DEF FundRow, SettleRow
<1>2. /\ RowsOK(rows')
      /\ \A k \in ExpInvoices : /\ rows[k].farmer = rows'[k].farmer /\ rows[k].investor = rows'[k].investor
                                /\ FatfOf(rows[k]) \subseteq FatfOf(rows'[k])
                                /\ rows[k].investor # NoWallet /\ rows[k].status # "FUNDED" =>
                                     rows'[k].status = rows[k].status
  <2>0. RowsOK(rows)  BY DEF ComplianceInv
  <2>1. CASE FundRow(i)
    <3>1. PICK w \in Wallets, a \in FundedAmounts :
            rows' = [rows EXCEPT ![i].status = "FUNDED", ![i].funder = w, ![i].fundedAmount = a]
      BY <2>1 DEF FundRow
    <3>2. rows[i].status = "PENDING" /\ rows[i].investor = NoWallet  BY <2>0, <2>1 DEF FundRow, RowsOK
    <3>3. /\ rows'[i].status = "FUNDED" /\ rows'[i].funder = w /\ rows'[i].fundedAmount = a
          /\ rows'[i].farmer = rows[i].farmer /\ rows'[i].investor = rows[i].investor
          /\ rows'[i].faceValue = rows[i].faceValue
          /\ \A k \in ExpInvoices : k # i => rows'[k] = rows[k]
      BY <2>0, <3>1 DEF RowsOK
    <3>4. RowsOK(rows')
      <4>. DEFINE Row == [status : {"PENDING", "FUNDED", "REPAID", "DEFAULTED"},
                              farmer : Wallets, investor : Subjects, funder : Subjects,
                              faceValue : FaceValues, fundedAmount : FaceValues \cup FundedAmounts]
      <4>1. rows' \in [ExpInvoices -> Row]
        <5>1. rows \in [ExpInvoices -> Row]  BY <2>0 DEF RowsOK
        <5>2. w \in Subjects /\ a \in FaceValues \cup FundedAmounts  BY DEF Subjects
        <5>3. rows' = [rows EXCEPT ![i] = [rows[i] EXCEPT !.status = "FUNDED", !.funder = w, !.fundedAmount = a]]
          BY <3>1
        <5>4. [rows[i] EXCEPT !.status = "FUNDED", !.funder = w, !.fundedAmount = a] \in Row
          BY <5>1, <5>2
        <5>. HIDE DEF Row
        <5>. QED  BY <5>1, <5>3, <5>4
      <4>2. \A k \in ExpInvoices : rows'[k].status = "PENDING" => rows'[k].investor = NoWallet
        BY <2>0, <3>3 DEF RowsOK
      <4>. QED  BY <4>1, <4>2 DEF RowsOK
    <3>5. FatfOf(rows[i]) = {} /\ FatfOf(rows'[i]) = {}  BY <3>2, <3>3 DEF FatfOf
    <3>. QED  BY <3>2, <3>3, <3>4, <3>5
  <2>2. CASE SettleRow(i)
    <3>1. rows' = [rows EXCEPT ![i].status = "REPAID"] /\ rows[i].status = "FUNDED"
      BY <2>2 DEF SettleRow
    <3>3. /\ rows'[i].status = "REPAID" /\ rows'[i].fundedAmount = rows[i].fundedAmount
          /\ rows'[i].farmer = rows[i].farmer /\ rows'[i].investor = rows[i].investor
          /\ rows'[i].faceValue = rows[i].faceValue
          /\ \A k \in ExpInvoices : k # i => rows'[k] = rows[k]
      BY <2>0, <3>1 DEF RowsOK
    <3>4. RowsOK(rows')  BY <2>0, <3>1 DEF RowsOK
    <3>5. FatfOf(rows[i]) \subseteq FatfOf(rows'[i])  BY <3>1, <3>3 DEF FatfOf, Financing
    <3>. QED  BY <3>1, <3>3, <3>4, <3>5
  <2>. QED  BY <2>1, <2>2
<1>3. Grows(rows, rows')
  BY <1>2, ReportsGrow
<1>4. ASSUME NEW j \in ExpJobs PROVE JobOK(exportJob'[j], runner'[j], built'[j], rows')
  <2>1. JobOK(exportJob[j], runner[j], built[j], rows)  BY DEF ComplianceInv
  <2>. QED  BY <1>1, <1>3, <2>1, JobKept
<1>5. ReportsAreScoped'  BY <1>1 DEF ComplianceInv, ReportsAreScoped
<1>6. /\ exportJob' = [j \in ExpJobs |-> exportJob'[j]] /\ runner' = [j \in ExpJobs |-> runner'[j]]
      /\ built' = [j \in ExpJobs |-> built'[j]]
  BY <1>1 DEF ComplianceInv
<1>. QED  BY <1>2, <1>4, <1>5, <1>6 DEF ComplianceInv

(* Every step of the exports keeps the invariant.                             *)
LEMMA ComplianceInvNext ==
    ASSUME ComplianceInv, [ComplianceNext]_complianceVars
    PROVE  ComplianceInv'
<1>1. CASE UNCHANGED complianceVars
  BY <1>1 DEF complianceVars, ComplianceInv, ReportsAreScoped
<1>2. CASE ComplianceNext
  BY <1>2, InlineKeeps, EnqueueKeeps, ProcessKeeps, DownloadKeeps, TableWriteKeeps, CrashExportsKeeps DEF ComplianceNext
<1>. QED  BY <1>1, <1>2

(* The invariant gives the three properties of the exports.                   *)
LEMMA ComplianceInvSound ==
    ASSUME ComplianceInv
    PROVE  ExportsAreSound
<1>1. SignedStaysTrue
  BY BuildersOf DEF SignedStaysTrue, ComplianceInv, JobOK, DocOK
<1>2. PnlBalances  BY ReportBalances DEF ComplianceInv
<1>. QED  BY <1>1, <1>2 DEF ExportsAreSound, ComplianceInv

(* The documents the builders can produce: sets of transfers between wallets. *)
Transfers == [type : {"FINANCING", "REPAYMENT"}, from : Wallets, to : Wallets, amount : FaceValues \cup FundedAmounts]
Documents == SUBSET [ref : ExpInvoices, rec : Transfers, status : {"PENDING", "FUNDED", "REPAID", "DEFAULTED"}]

(* The builders produce documents.                                            *)
LEMMA BuildersMakeDocuments ==
    ASSUME NEW R, RowsOK(R), NEW s \in Subjects, NEW t
    PROVE  TransactionsOf(R, s, t) \in Documents /\ (s \in Wallets => InvestorOf(R, s) \in Documents)
<1>0. ASSUME NEW i \in ExpInvoices
      PROVE  /\ R[i].farmer \in Wallets /\ R[i].investor \in Wallets \cup {NoWallet}
             /\ R[i].faceValue \in FaceValues /\ R[i].fundedAmount \in FaceValues \cup FundedAmounts
  BY DEF RowsOK, Subjects
<1>f. ASSUME NEW i \in ExpInvoices, R[i].investor # NoWallet
      PROVE  Financing(R[i]) \in Transfers /\ Repayment(R[i]) \in Transfers
  BY <1>0, <1>f DEF Financing, Repayment, Transfers
<1>. DEFINE Status == {"PENDING", "FUNDED", "REPAID", "DEFAULTED"}
<1>s. \A i \in ExpInvoices : R[i].status \in Status  BY DEF RowsOK
<1>. HIDE DEF Status
<1>1. ASSUME NEW x \in TransactionsOf(R, s, t) PROVE x \in [ref : ExpInvoices, rec : Transfers, status : Status]
  <2>1. PICK i \in ExpInvoices : \E u \in FatfOf(R[i]) : x = [ref |-> i, rec |-> u, status |-> R[i].status]
    BY <1>1 DEF TransactionsOf
  <2>2. PICK u \in FatfOf(R[i]) : x = [ref |-> i, rec |-> u, status |-> R[i].status]  BY <2>1
  <2>3. u \in Transfers  BY <1>f, <2>2 DEF FatfOf
  <2>. QED  BY <1>s, <2>2, <2>3
<1>2. ASSUME s \in Wallets, NEW x \in InvestorOf(R, s)
      PROVE  x \in [ref : ExpInvoices, rec : Transfers, status : Status]
  <2>1. PICK i \in ExpInvoices :
          R[i].investor = s /\ x = [ref |-> i, rec |-> Financing(R[i]), status |-> R[i].status]
    BY <1>2 DEF InvestorOf
  <2>2. Financing(R[i]) \in Transfers  BY <1>2, <1>f, <2>1, ComplianceAssumption
  <2>. QED  BY <1>s, <2>1, <2>2
<1>. QED  BY <1>1, <1>2 DEF Documents, Status

(* A job has a document once it is completed, and holds one when it was built.*)
ContentOK(e, r, d) == (e.status = "COMPLETED" <=> e.content # NoDoc) /\ (r = "built" => d # NoDoc)

JobsHaveDocuments == \A j \in ExpJobs : ContentOK(exportJob[j], runner[j], built[j])

(* No job, no document.                                                       *)
LEMMA JobsHaveDocumentsInit == ComplianceInit => JobsHaveDocuments
<1>. SUFFICES ASSUME ComplianceInit, NEW j \in ExpJobs PROVE ContentOK(exportJob[j], runner[j], built[j])
  BY DEF JobsHaveDocuments
<1>1. exportJob[j] = NoExport /\ runner[j] = "none"  BY DEF ComplianceInit
<1>2. NoExport.status = "absent" /\ NoExport.content = NoDoc  BY DEF NoExport
<1>. QED  BY <1>1, <1>2 DEF ContentOK

(* A step of one job.                                                         *)
LEMMA ContentStep ==
    ASSUME ComplianceInv, JobsHaveDocuments, NEW j \in ExpJobs, NEW e, NEW r, NEW d, ContentOK(e, r, d),
           exportJob' = [exportJob EXCEPT ![j] = e], runner' = [runner EXCEPT ![j] = r], built' = [built EXCEPT ![j] = d]
    PROVE  JobsHaveDocuments'
<1>. SUFFICES ASSUME NEW k \in ExpJobs PROVE ContentOK(exportJob'[k], runner'[k], built'[k])
  BY DEF JobsHaveDocuments
<1>1. CASE k = j
  <2>1. exportJob'[k] = e /\ runner'[k] = r /\ built'[k] = d  BY <1>1 DEF ComplianceInv
  <2>. QED  BY <2>1
<1>2. CASE k # j
  <2>1. exportJob'[k] = exportJob[k] /\ runner'[k] = runner[k] /\ built'[k] = built[k]  BY <1>2 DEF ComplianceInv
  <2>. QED  BY <2>1 DEF JobsHaveDocuments
<1>. QED  BY <1>1, <1>2

(* A job's document is written together with its completion, and a failure or *)
(* a crash leaves none behind (processJob).                                   *)
LEMMA JobsHaveDocumentsNext ==
    ASSUME NoDoc \notin Documents, ComplianceInv, JobsHaveDocuments, [ComplianceNext]_complianceVars
    PROVE  JobsHaveDocuments'
<1>1. ASSUME UNCHANGED <<exportJob, runner, built>> PROVE JobsHaveDocuments'
  BY <1>1 DEF JobsHaveDocuments
<1>2. ASSUME NEW p \in Principals, NEW s \in Subjects, NEW q \in Queries, NEW j \in ExpJobs,
             EnqueueExport(j, p, q[1], s, q[2])
      PROVE  JobsHaveDocuments'
  <2>. DEFINE u == ResolveSubject(p, s)
              e == [status |-> "PENDING", type |-> q[1], requestedBy |-> p, subject |-> u, threshold |-> q[2], content |-> NoDoc]
  <2>1. /\ exportJob' = [exportJob EXCEPT ![j] = e]
        /\ runner' = [runner EXCEPT ![j] = "scheduled"] /\ built' = built
    BY <1>2 DEF EnqueueExport
  <2>2. built' = [built EXCEPT ![j] = built[j]]  BY <2>1 DEF ComplianceInv
  <2>3. ContentOK(e, "scheduled", built[j])  BY DEF ContentOK
  <2>. HIDE DEF e
  <2>. QED  BY <2>1, <2>2, <2>3, ContentStep
<1>3. ASSUME NEW j \in ExpJobs, MarkProcessing(j) \/ BuildExport(j) \/ CompleteJob(j) \/ FailJob(j)
      PROVE  JobsHaveDocuments'
  <2>. DEFINE o == exportJob[j]
              At(s, c) == [o EXCEPT !.status = s, !.content = c]
  <2>1. /\ JobOK(o, runner[j], built[j], rows) /\ ContentOK(o, runner[j], built[j]) /\ RowsOK(rows)
        /\ exportJob = [k \in ExpJobs |-> exportJob[k]]
        /\ runner = [k \in ExpJobs |-> runner[k]] /\ built = [k \in ExpJobs |-> built[k]]
    BY DEF ComplianceInv, JobsHaveDocuments
  <2>2. CASE MarkProcessing(j)
    <3>. DEFINE e == At("PROCESSING", o.content)
    <3>1. /\ runner[j] = "scheduled" /\ o.status = "PENDING"
          /\ runner' = [runner EXCEPT ![j] = "building"] /\ built' = [built EXCEPT ![j] = built[j]]
      BY <2>1, <2>2 DEF MarkProcessing
    <3>2. e.status = "PROCESSING" /\ e.content = o.content  BY <2>1, RowWritten DEF JobOK
    <3>3. exportJob' = [exportJob EXCEPT ![j] = e]
      <4>1. [o EXCEPT !.status = "PROCESSING"] = e  BY <2>1 DEF JobOK
      <4>2. exportJob' = [exportJob EXCEPT ![j] = [o EXCEPT !.status = "PROCESSING"]]
        BY <2>1, <2>2 DEF MarkProcessing
      <4>. QED  BY <4>1, <4>2
    <3>. HIDE DEF e
    <3>4. ContentOK(e, "building", built[j])  BY <2>1, <3>1, <3>2 DEF ContentOK
    <3>. QED  BY <3>1, <3>3, <3>4, ContentStep
  <2>3. CASE BuildExport(j)
    <3>. DEFINE d == Build(o.type, o.subject, o.threshold)
    <3>1. /\ runner[j] = "building" /\ built' = [built EXCEPT ![j] = d] /\ runner' = [runner EXCEPT ![j] = "built"]
          /\ exportJob' = [exportJob EXCEPT ![j] = o]
      BY <2>1, <2>3 DEF BuildExport
    <3>2. d \in Documents
      <4>1. o.subject \in Subjects /\ (o.type # "TRANSACTIONS" => o.type = "INVESTOR_REPORT" /\ o.subject \in Wallets)
        BY <2>1 DEF JobOK
      <4>2. d = TransactionsOf(rows, o.subject, o.threshold) \/ (o.subject \in Wallets /\ d = InvestorOf(rows, o.subject))
        BY <4>1, BuildersOf DEF Build
      <4>. HIDE DEF d
      <4>. QED  BY <2>1, <4>1, <4>2, BuildersMakeDocuments
    <3>. HIDE DEF d
    <3>3. ContentOK(o, "built", d)  BY <2>1, <3>1, <3>2 DEF ContentOK
    <3>. HIDE DEF o
    <3>. QED  BY <3>1, <3>3, ContentStep
  <2>4. CASE CompleteJob(j)
    <3>. DEFINE e == At("COMPLETED", built[j])
    <3>1. /\ runner[j] = "built" /\ built' = [built EXCEPT ![j] = NoDoc] /\ runner' = [runner EXCEPT ![j] = "none"]
          /\ exportJob' = [exportJob EXCEPT ![j] = e]
      BY <2>1, <2>4 DEF CompleteJob
    <3>2. e.status = "COMPLETED" /\ e.content = built[j]  BY <2>1, RowWritten DEF JobOK
    <3>. HIDE DEF e
    <3>3. ContentOK(e, "none", NoDoc)  BY <2>1, <3>1, <3>2 DEF ContentOK
    <3>. QED  BY <3>1, <3>3, ContentStep
  <2>5. CASE FailJob(j)
    <3>. DEFINE e == At("FAILED", o.content)
    <3>1. /\ runner[j] \in {"building", "built"} /\ built' = [built EXCEPT ![j] = NoDoc]
          /\ runner' = [runner EXCEPT ![j] = "none"]
      BY <2>5 DEF FailJob
    <3>2. e.status = "FAILED" /\ e.content = o.content  BY <2>1, RowWritten DEF JobOK
    <3>3. exportJob' = [exportJob EXCEPT ![j] = e]
      <4>1. [o EXCEPT !.status = "FAILED"] = e  BY <2>1 DEF JobOK
      <4>2. exportJob' = [exportJob EXCEPT ![j] = [o EXCEPT !.status = "FAILED"]]
        BY <2>1, <2>5 DEF FailJob
      <4>. QED  BY <4>1, <4>2
    <3>4. o.status = "PROCESSING"  BY <2>1, <3>1 DEF JobOK
    <3>. HIDE DEF e
    <3>5. ContentOK(e, "none", NoDoc)  BY <2>1, <3>2, <3>4 DEF ContentOK
    <3>. QED  BY <3>1, <3>3, <3>5, ContentStep
  <2>. QED  BY <1>3, <2>2, <2>3, <2>4, <2>5
<1>4. CASE CrashExports
  <2>1. exportJob' = exportJob /\ \A j \in ExpJobs : runner'[j] = "none"  BY <1>4 DEF CrashExports
  <2>. QED  BY <2>1 DEF JobsHaveDocuments, ContentOK
<1>5. CASE UNCHANGED complianceVars
  BY <1>1, <1>5 DEF complianceVars
<1>6. ASSUME NEW i \in ExpInvoices, FundRow(i) \/ SettleRow(i) PROVE JobsHaveDocuments'
  BY <1>1, <1>6 DEF FundRow, SettleRow
<1>7. ASSUME NEW p, NEW type, NEW s, NEW t, ExportInline(p, type, s, t) PROVE JobsHaveDocuments'
  BY <1>1, <1>7 DEF ExportInline
<1>8. ASSUME NEW p, NEW j, DownloadJob(p, j) PROVE JobsHaveDocuments'
  BY <1>1, <1>8 DEF DownloadJob
<1>. QED  BY <1>2, <1>3, <1>4, <1>5, <1>6, <1>7, <1>8 DEF ComplianceNext

(* The row of a job, its content and its suspended processJob agree.          *)
LEMMA ComplianceTyped == ComplianceInv /\ JobsHaveDocuments => ComplianceTypeOK
<1>. SUFFICES ASSUME ComplianceInv, JobsHaveDocuments, NEW j \in ExpJobs
             PROVE  /\ exportJob[j].status = "COMPLETED" <=> exportJob[j].content # NoDoc
                    /\ runner[j] = "scheduled" => exportJob[j].status = "PENDING"
                    /\ runner[j] \in {"building", "built"} => exportJob[j].status = "PROCESSING"
  BY DEF ComplianceTypeOK
<1>1. JobOK(exportJob[j], runner[j], built[j], rows) /\ ContentOK(exportJob[j], runner[j], built[j])
  BY DEF ComplianceInv, JobsHaveDocuments
<1>. QED  BY <1>1 DEF JobOK, ContentOK

-----------------------------------------------------------------------------
(* The portfolio table.                                                       *)

(* Once the effect of the render on the screen has run, a page beyond the     *)
(* last is on the screen only while a change of the page waits to be rendered *)
(* (the setPage of the effect, or one that came after it).                    *)
TableInv ==
    /\ TableTypeOK
    /\ ~EffectPending /\ committed.page > committed.pageCount => page # committed.page

(* pageCount: the last page starts at or before the last invoice.             *)
LEMMA PagesCover ==
    ASSUME NEW n \in Nat \ {0}, NEW m \in Nat \ {0}
    PROVE  /\ (n + m - 1) \div m \in Nat \ {0}
           /\ \A p \in Nat \ {0} : p <= (n + m - 1) \div m => (p - 1) * m < n
<1>. DEFINE c == (n + m - 1) \div m
            r == (n + m - 1) % m
<1>1. c \in Int /\ r \in 0 .. m - 1 /\ n + m - 1 = m * c + r
  OBVIOUS
<1>. HIDE DEF c, r
<1>2. c >= 1
  BY <1>1, Z3
<1>3. ASSUME NEW p \in Nat \ {0}, p <= c PROVE (p - 1) * m < n
  <2>1. (c - p) * m >= 0 /\ (c - p) * m = m * c - p * m /\ (p - 1) * m = p * m - m
    BY <1>1, <1>3
  <2>. QED  BY <1>1, <2>1
<1>. QED  BY <1>1, <1>2, <1>3 DEF c

(* There is at least one page, and none but the only one is empty.            *)
LEMMA PageCounted ==
    ASSUME NEW n \in Nat
    PROVE  /\ PageCount(n) \in Nat \ {0}
           /\ n > 0 => \A p \in 1 .. PageCount(n) : (p - 1) * PAGE_SIZE < n
<1>1. CASE n = 0  BY <1>1 DEF PageCount
<1>2. CASE n # 0
  <2>1. PageCount(n) = (n + PAGE_SIZE - 1) \div PAGE_SIZE  BY <1>2 DEF PageCount
  <2>2. /\ PageCount(n) \in Nat \ {0}
        /\ \A p \in Nat \ {0} : p <= PageCount(n) => (p - 1) * PAGE_SIZE < n
    BY <1>2, <2>1, TableAssumption, PagesCover
  <2>. QED  BY <2>2
<1>. QED  BY <1>1, <1>2

(* A render is on the screen before its effect runs.                          *)
LEMMA RenderTyped ==
    ASSUME TableTypeOK
    PROVE  Render \in [listed : Nat, page : Nat \ {0}, pageCount : Nat \ {0}]
<1>1. matching \in Nat /\ listed \in Nat /\ page \in Nat \ {0}
  BY TableAssumption DEF TableTypeOK
<1>2. PageCount(matching) \in Nat \ {0}  BY <1>1, PageCounted
<1>. QED  BY <1>1, <1>2 DEF Render

(* The first render shows the first page; its effect is still to run.         *)
LEMMA TableInvInit ==
    ASSUME TableInit
    PROVE  TableInv
<1>1. listed \in 0 .. MaxListed /\ matching \in 0 .. listed /\ page = 1
  BY TableAssumption DEF TableInit
<1>2. PageCount(matching) \in Nat \ {0}  BY <1>1, TableAssumption, PageCounted
<1>3. /\ committed \in [listed : Nat, page : Nat \ {0}, pageCount : Nat \ {0}]
      /\ committed.page = 1
  BY <1>1, <1>2, TableAssumption DEF TableInit, Render
<1>4. committed.pageCount \in Nat \ {0}  BY <1>3
<1>. QED  BY <1>1, <1>3, <1>4 DEF TableInv, TableTypeOK

(* Every event between a commit and its effect, or between the effect and the *)
(* next commit, keeps the invariant.                                          *)
LEMMA TableInvNext ==
    ASSUME TableInv, [TableNext]_tableVars
    PROVE  TableInv'
<1>1. /\ listed \in 0 .. MaxListed /\ matching \in 0 .. listed /\ page \in Nat \ {0}
      /\ committed \in [listed : Nat, page : Nat \ {0}, pageCount : Nat \ {0}]
  BY DEF TableInv, TableTypeOK
<1>2. committed.page \in Nat \ {0} /\ committed.pageCount \in Nat \ {0}
  BY <1>1
<1>3. CASE CommitRender
  <2>1. ~EffectPending /\ committed # Render /\ committed' = Render
        /\ UNCHANGED <<listed, matching, page, effectRan>>
    BY <1>3 DEF CommitRender
  <2>2. committed' \in [listed : Nat, page : Nat \ {0}, pageCount : Nat \ {0}]
    BY <2>1, RenderTyped DEF TableInv
  <2>3. committed'.page = page /\ committed'.pageCount = PageCount(matching)
    BY <2>1 DEF Render
  <2>4. ASSUME ~EffectPending' PROVE committed'.page <= committed'.pageCount
    <3>1. committed.page = committed'.page /\ committed.pageCount = committed'.pageCount
      BY <2>1, <2>4 DEF EffectPending, Dependencies
    <3>2. ~(committed.page > committed.pageCount)  BY <2>1, <2>3, <3>1 DEF TableInv
    <3>. QED  BY <1>2, <3>1, <3>2
  <2>5. committed'.page \in Nat /\ committed'.pageCount \in Nat  BY <2>2
  <2>6. ~(~EffectPending' /\ committed'.page > committed'.pageCount)  BY <2>4, <2>5
  <2>. QED  BY <1>1, <2>1, <2>2, <2>6 DEF TableInv, TableTypeOK
<1>4. CASE SnapToLastPage
  <2>1. UNCHANGED <<listed, matching, committed>>
        /\ page' = IF committed.page > committed.pageCount THEN committed.pageCount ELSE page
    BY <1>4 DEF SnapToLastPage
  <2>. QED  BY <1>1, <1>2, <2>1 DEF TableInv, TableTypeOK
<1>5. CASE RefreshInvoices
  <2>1. listed' \in 0 .. MaxListed /\ matching' \in 0 .. listed' /\ UNCHANGED <<page, committed, effectRan>>
    BY <1>5 DEF RefreshInvoices
  <2>. QED  BY <1>1, <2>1 DEF TableInv, TableTypeOK, EffectPending
<1>6. CASE SelectFilter
  <2>1. matching' \in 0 .. listed /\ page' = 1 /\ UNCHANGED <<listed, committed, effectRan>>
    BY <1>6 DEF SelectFilter
  <2>. QED  BY <1>1, <1>2, <2>1 DEF TableInv, TableTypeOK
<1>7. CASE PreviousPage \/ NextPage
  <2>1. UNCHANGED <<listed, matching, committed, effectRan>>
        /\ page' \in Nat \ {0} /\ page' # committed.page
    BY <1>2, <1>7 DEF PreviousPage, NextPage
  <2>. QED  BY <1>1, <2>1 DEF TableInv, TableTypeOK
<1>8. CASE UNCHANGED tableVars
  BY <1>8 DEF TableInv, TableTypeOK, EffectPending, tableVars
<1>. QED  BY <1>3, <1>4, <1>5, <1>6, <1>7, <1>8 DEF TableNext

(* When nothing is left to render, the page on the screen is the page of the  *)
(* state, so the invariant puts it within the pages there are.                *)
LEMMA TableInvCurrent ==
    ASSUME TableInv
    PROVE  NoStrandedPage
<1>. SUFFICES ASSUME ~EffectPending, committed = Render
              PROVE  page \in 1 .. PageCount(matching) /\ (matching > 0 => PageInvoices # {})
  BY DEF NoStrandedPage
<1>1. matching \in Nat /\ page \in Nat \ {0}  BY TableAssumption DEF TableInv, TableTypeOK
<1>2. PageCount(matching) \in Nat \ {0}  BY <1>1, PageCounted
<1>3. committed.page = page /\ committed.pageCount = PageCount(matching)  BY DEF Render
<1>4. page \in 1 .. PageCount(matching)  BY <1>1, <1>2, <1>3 DEF TableInv
<1>5. ASSUME matching > 0 PROVE PageInvoices # {}
  <2>. DEFINE a == (page - 1) * PAGE_SIZE
              z == page * PAGE_SIZE
  <2>1. a < matching  BY <1>1, <1>4, <1>5, PageCounted
  <2>2. a \in Nat /\ z = a + PAGE_SIZE /\ a + 1 <= z  BY <1>1, TableAssumption
  <2>. HIDE DEF a, z
  <2>3. a + 1 \in 1 .. matching /\ a < a + 1 /\ a + 1 <= z  BY <1>1, <2>1, <2>2
  <2>4. PageInvoices = {k \in 1 .. matching : a < k /\ k <= z}  BY DEF PageInvoices, a, z
  <2>. QED  BY <2>3, <2>4
<1>. QED  BY <1>4, <1>5

-----------------------------------------------------------------------------
(* The application.                                                           *)

(* The parts share no variable: a step of the application is a step of a part *)
(* or leaves that part alone.                                                 *)
LEMMA StepOfThePart ==
    [ApplicationNext]_applicationVars =>
        /\ [BreakerNext]_breakerVars /\ [SubsNext]_subsVars /\ [OracleNext]_oracleVars
        /\ [RotationNext]_rotationVars /\ [WizardNext]_wizardVars /\ [ReminderNext]_reminderVars
        /\ [MonitoringNext]_monitoringVars /\ [RateNext]_rateVars /\ [QueueNext]_queueVars
        /\ [ComplianceNext]_complianceVars /\ [TableNext]_tableVars
<1>. SUFFICES ASSUME [ApplicationNext]_applicationVars
             PROVE  /\ [BreakerNext]_breakerVars /\ [SubsNext]_subsVars /\ [OracleNext]_oracleVars
                    /\ [RotationNext]_rotationVars /\ [WizardNext]_wizardVars /\ [ReminderNext]_reminderVars
                    /\ [MonitoringNext]_monitoringVars /\ [RateNext]_rateVars /\ [QueueNext]_queueVars
                    /\ [ComplianceNext]_complianceVars /\ [TableNext]_tableVars
  OBVIOUS
<1>. USE DEF limitVars, jobVars, frontendVars
<1>1. CASE RateStep \/ BreakerStep \/ SubsStep
  BY <1>1 DEF RateStep, BreakerStep, SubsStep
<1>2. CASE OracleStep \/ ReminderStep \/ RotationStep \/ ComplianceStep \/ MonitoringStep
  BY <1>2 DEF OracleStep, ReminderStep, RotationStep, ComplianceStep, MonitoringStep
<1>3. CASE QueueStep \/ WizardStep \/ TableStep
  BY <1>3 DEF QueueStep, WizardStep, TableStep
<1>4. CASE UNCHANGED applicationVars
  BY <1>4 DEF applicationVars
<1>. QED  BY <1>1, <1>2, <1>3, <1>4 DEF ApplicationNext

(* Calls that overlap share the circuit: whatever their outcomes and the      *)
(* order in which they arrive, a closed circuit is below its thresholds and   *)
(* an open one stays open for exactly its timeout (CircuitBreakerService).    *)
THEOREM CircuitTripsOnTime == ApplicationSpec => []TripsOnTime
<1>1. ApplicationInit => BreakerInv
  BY BreakerInvInit DEF ApplicationInit
<1>2. BreakerInv /\ [ApplicationNext]_applicationVars => BreakerInv'
  BY StepOfThePart, BreakerInvNext
<1>3. BreakerInv => TripsOnTime
  BY DEF BreakerInv
<1>. QED  BY <1>1, <1>2, <1>3, PTL DEF ApplicationSpec

(* No number of overlapping polls and no slow answer makes a feed look stale  *)
(* or sends an alert (checkFeed, evaluateFeed).                               *)
THEOREM NoFeedLooksStale == ApplicationSpec => []NoFalseStaleness
<1>1. ApplicationInit => OracleInv
  BY OracleInvInit DEF ApplicationInit
<1>2. OracleInv /\ [ApplicationNext]_applicationVars => OracleInv'
  BY StepOfThePart, OracleInvNext
<1>3. OracleInv => NoFalseStaleness
  BY DEF OracleInv, NoFalseStaleness, FeedRecord, PollRecord
<1>. QED  BY <1>1, <1>2, <1>3, PTL DEF ApplicationSpec

(* An operation during which no credentials were rotated fails for its        *)
(* credentials only if other operations put outdated ones back as often as it *)
(* retries, however many operations are in flight (withRetry,                 *)
(* reconnectWithNewCredentials).                                              *)
THEOREM OnlyRotationOrOverwritingFails == ApplicationSpec => []OnlyRotationFailsAuth
<1>1. ApplicationInit => RotationInv
  BY RotationInvInit DEF ApplicationInit
<1>2. RotationInv /\ [ApplicationNext]_applicationVars => RotationInv'
  BY StepOfThePart, RotationInvNext
<1>3. RotationInv => OnlyRotationFailsAuth
  BY DEF RotationInv, UnrotatedOK, OnlyRotationFailsAuth
<1>. QED  BY <1>1, <1>2, <1>3, PTL DEF ApplicationSpec

(* What the wallet is asked to sign was built from a valid form and, unless   *)
(* confirmations overlapped, is what the preview showed (onFinalConfirm,      *)
(* handleSignTransaction).                                                    *)
THEOREM WalletSignsWhatIsShown == ApplicationSpec => []SigningIsSound
<1>1. ApplicationInit => WizardInv
  BY WizardInvInit DEF ApplicationInit
<1>2. WizardInv /\ [ApplicationNext]_applicationVars => WizardInv'
  BY StepOfThePart, WizardInvNext
<1>. QED  BY <1>1, <1>2, WizardInvSound, PTL DEF ApplicationSpec

(* A wallet exceeds its limit of subscriptions by no more than the requests   *)
(* that can be between their count and their insert (register).               *)
THEOREM SubscriptionsStayBounded == ApplicationSpec => []OverrunIsBounded
<1>1. ApplicationInit => SubsInv
  BY SubsInvInit DEF ApplicationInit
<1>2. SubsInv /\ [ApplicationNext]_applicationVars => SubsInv'
  BY StepOfThePart, SubsInvNext
<1>3. SubsInv => OverrunIsBounded
  BY DEF SubsInv
<1>. QED  BY <1>1, <1>2, <1>3, PTL DEF ApplicationSpec

(* With any number of schedulers an invoice gets one job per window while the *)
(* queue remembers that job, and the job reaches the dead letters once, when  *)
(* it is not tried again; the processor must allow for at least the attempts  *)
(* of the queue (scheduleInvoiceReminders, onFailed).                         *)
THEOREM RemindersCountedOnce ==
    ASSUME MaxAttempts >= QueueAttempts
    PROVE  ApplicationSpec => []RemindersAreCounted
<1>1. ApplicationInit => ReminderInv
  BY ReminderInvInit DEF ApplicationInit
<1>2. ReminderInv /\ [ApplicationNext]_applicationVars => ReminderInv'
  BY StepOfThePart, ReminderInvNext
<1>3. ReminderInv => RemindersAreCounted
  BY DEF ReminderInv
<1>. QED  BY <1>1, <1>2, <1>3, PTL DEF ApplicationSpec

(* Whatever the order in which the ledgers are answered, the window of the    *)
(* volume rule holds every funding that is recent enough (pushAndTrim).       *)
THEOREM NoRecentFundingIsTrimmed == ApplicationSpec => []WindowKeepsRecent
<1>1. ApplicationInit => MonitoringInv
  BY MonitoringInvInit DEF ApplicationInit
<1>2. MonitoringInv /\ [ApplicationNext]_applicationVars => MonitoringInv'
  BY StepOfThePart, MonitoringInvNext
<1>3. MonitoringInv => WindowKeepsRecent
  BY DEF MonitoringInv
<1>. QED  BY <1>1, <1>2, <1>3, PTL DEF ApplicationSpec

(* On any number of backend processes, in the readings of any clock, no       *)
(* window of a counter holds more admissions than its limit, leaving out      *)
(* those whose script reached Redis after one with a later reading; and a     *)
(* request that passes has a slot of every tier that applies to it, or Redis  *)
(* was down (checkLimit, RateLimitMiddleware).                                *)
THEOREM OrderedScriptsKeepLimits == ApplicationSpec => []LimitsHold
<1>1. ApplicationInit => WindowInv
  BY WindowInvInit DEF ApplicationInit
<1>2. WindowInv /\ [ApplicationNext]_applicationVars => WindowInv'
  BY StepOfThePart, WindowInvNext
<1>3. WindowInv => LimitsHold
  BY PassInvPasses DEF WindowInv, LimitsHold
<1>. QED  BY <1>1, <1>2, <1>3, PTL DEF ApplicationSpec

(* Changes made offline survive failed requests, lost replies, failed writes, *)
(* conflicts and closed pages: nothing is lost however many pages replay the  *)
(* queue, and one page repeats no success it has seen and gives up in time    *)
(* (replayQueue, resolveConflict).                                            *)
THEOREM OfflineChangesAreSafe == ApplicationSpec => []ReplayIsSafe
<1>1. ApplicationInit => QueueInv
  BY QueueInvInit DEF ApplicationInit
<1>2. QueueInv /\ [ApplicationNext]_applicationVars => QueueInv'
  BY StepOfThePart, QueueInvNext
<1>3. QueueInv => ReplayIsSafe
  BY QueueInvSafe
<1>. QED  BY <1>1, <1>2, <1>3, PTL DEF ApplicationSpec

(* Whoever receives an export, at once or from a job of any age, is a party   *)
(* of all that is in it unless an admin; what a finished FATF export says     *)
(* stays true whatever is funded and settled after it; and the sums of the    *)
(* investor report balance (resolveTransactionSubject, loadAuthorizedJob,     *)
(* buildFatfRecords, buildInvestorReport).                                    *)
THEOREM ExportsStaySound == ApplicationSpec => []ExportsAreSound
<1>1. ApplicationInit => ComplianceInv
  BY ComplianceInvInit DEF ApplicationInit
<1>2. ComplianceInv /\ [ApplicationNext]_applicationVars => ComplianceInv'
  BY StepOfThePart, ComplianceInvNext
<1>3. ComplianceInv => ExportsAreSound
  BY ComplianceInvSound
<1>. QED  BY <1>1, <1>2, <1>3, PTL DEF ApplicationSpec

(* However the list is refreshed, filtered and paged between a commit, its    *)
(* effect and the next commit, the investor is left on a page there is, with  *)
(* rows as long as any invoice matches (pageCount, the snapping effect).      *)
THEOREM NoPageIsStranded == ApplicationSpec => []NoStrandedPage
<1>1. ApplicationInit => TableInv
  BY TableInvInit DEF ApplicationInit
<1>2. TableInv /\ [ApplicationNext]_applicationVars => TableInv'
  BY StepOfThePart, TableInvNext
<1>3. TableInv => NoStrandedPage
  BY TableInvCurrent
<1>. QED  BY <1>1, <1>2, <1>3, PTL DEF ApplicationSpec

(* The parts' inductive invariants, with what their types need.               *)
LimitsInv == (BreakerInv /\ LateOutcomes) /\ SubsInv /\ WindowInv
JobsInv ==
    /\ OracleInv /\ FailuresCounted /\ AttemptsBounded /\ RotationInv
    /\ ComplianceInv /\ JobsHaveDocuments /\ MonitoringInv /\ EvaluatedOnce
FrontendInv == QueueInv /\ (WizardInv /\ StepsKnown) /\ TableInv

(* The stored state of every part stays well formed, whatever the number of   *)
(* calls, polls, jobs and operations that overlap: in particular the circuit  *)
(* and the poll counters stay within their bounds, no job is tried more often *)
(* than the queue allows and a completed export has its document.  What       *)
(* stands for a missing document must not be one.                             *)
THEOREM StateStaysWellFormed ==
    ASSUME NoDoc \notin Documents
    PROVE  ApplicationSpec => []ApplicationTypeOK
<1>1. ApplicationInit => LimitsInv
  BY BreakerInvInit, LateOutcomesInit, SubsInvInit, WindowInvInit DEF ApplicationInit, LimitsInv
<1>2. ApplicationInit => JobsInv
  <2>1. RotationInit => RotationInv  BY RotationInvInit
  <2>2. ComplianceInit => ComplianceInv  BY ComplianceInvInit
  <2>. QED
    BY <2>1, <2>2, OracleInvInit, FailuresCountedInit, AttemptsBoundedInit, JobsHaveDocumentsInit,
       MonitoringInvInit, EvaluatedOnceInit
    DEF ApplicationInit, JobsInv
<1>3. ApplicationInit => FrontendInv
  <2>1. TableInit => TableInv  BY TableInvInit
  <2>. QED  BY <2>1, QueueInvInit, WizardInvInit, StepsKnownInit DEF ApplicationInit, FrontendInv
<1>4. LimitsInv /\ [ApplicationNext]_applicationVars => LimitsInv'
  <2>. SUFFICES ASSUME LimitsInv, [ApplicationNext]_applicationVars PROVE LimitsInv'
    OBVIOUS
  <2>1. [BreakerNext]_breakerVars /\ [SubsNext]_subsVars /\ [RateNext]_rateVars  BY StepOfThePart
  <2>2. BreakerInv' /\ LateOutcomes'  BY <2>1, BreakerInvNext, LateOutcomesNext DEF LimitsInv
  <2>3. SubsInv'  BY <2>1, SubsInvNext DEF LimitsInv
  <2>4. WindowInv'  BY <2>1, WindowInvNext DEF LimitsInv
  <2>. QED  BY <2>2, <2>3, <2>4 DEF LimitsInv
<1>5. JobsInv /\ [ApplicationNext]_applicationVars => JobsInv'
  <2>. SUFFICES ASSUME JobsInv, [ApplicationNext]_applicationVars PROVE JobsInv'
    OBVIOUS
  <2>1. /\ [OracleNext]_oracleVars /\ [ReminderNext]_reminderVars /\ [RotationNext]_rotationVars
        /\ [ComplianceNext]_complianceVars /\ [MonitoringNext]_monitoringVars
    BY StepOfThePart
  <2>2. OracleInv' /\ FailuresCounted'  BY <2>1, OracleInvNext, FailuresCountedNext DEF JobsInv
  <2>3. AttemptsBounded'  BY <2>1, AttemptsBoundedNext DEF JobsInv
  <2>4. RotationInv'  BY <2>1, RotationInvNext DEF JobsInv
  <2>5. ComplianceInv'  BY <2>1, ComplianceInvNext DEF JobsInv
  <2>6. JobsHaveDocuments'  BY <2>1, JobsHaveDocumentsNext DEF JobsInv
  <2>7. MonitoringInv' /\ EvaluatedOnce'  BY <2>1, MonitoringInvNext, EvaluatedOnceNext DEF JobsInv
  <2>. QED  BY <2>2, <2>3, <2>4, <2>5, <2>6, <2>7 DEF JobsInv
<1>6. FrontendInv /\ [ApplicationNext]_applicationVars => FrontendInv'
  <2>. SUFFICES ASSUME FrontendInv, [ApplicationNext]_applicationVars PROVE FrontendInv'
    OBVIOUS
  <2>1. [QueueNext]_queueVars /\ [WizardNext]_wizardVars /\ [TableNext]_tableVars  BY StepOfThePart
  <2>2. QueueInv'  BY <2>1, QueueInvNext DEF FrontendInv
  <2>3. WizardInv' /\ StepsKnown'  BY <2>1, WizardInvNext, StepsKnownNext DEF FrontendInv
  <2>4. TableInv'  BY <2>1, TableInvNext DEF FrontendInv
  <2>. QED  BY <2>2, <2>3, <2>4 DEF FrontendInv
<1>7. LimitsInv /\ JobsInv /\ FrontendInv => ApplicationTypeOK
  <2>. SUFFICES ASSUME LimitsInv, JobsInv, FrontendInv PROVE ApplicationTypeOK
    OBVIOUS
  <2>1. BreakerTypeOK /\ SubsTypeOK  BY BreakerTyped DEF LimitsInv, SubsInv
  <2>2. RateTypeOK  BY RateTyped DEF LimitsInv
  <2>3. OracleTypeOK /\ ReminderTypeOK /\ RotationTypeOK
    BY OracleTyped, ReminderTyped DEF JobsInv, RotationInv
  <2>4. ComplianceTypeOK /\ MonitoringTypeOK  BY ComplianceTyped, MonitoringTyped DEF JobsInv
  <2>5. QueueTypeOK  BY QueueInvSafe DEF FrontendInv
  <2>6. WizardTypeOK  BY WizardTyped DEF FrontendInv
  <2>7. TableTypeOK  BY DEF FrontendInv, TableInv
  <2>. QED  BY <2>1, <2>2, <2>3, <2>4, <2>5, <2>6, <2>7 DEF ApplicationTypeOK
<1>. QED  BY <1>1, <1>2, <1>3, <1>4, <1>5, <1>6, <1>7, PTL DEF ApplicationSpec
=============================================================================
