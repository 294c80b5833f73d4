---------------------------- MODULE CircuitBreaker ----------------------------
(***************************************************************************)
(* CircuitBreakerService: one named circuit, shared by calls that overlap. *)
(* execute decides at its start whether the call may go, and accounts for  *)
(* the outcome in whatever state the circuit is by then.                   *)
(*                                                                         *)
(* nextAttemptTime is kept as the time left until it (wait).               *)
(***************************************************************************)
EXTENDS Naturals, FiniteSets

CONSTANTS
    Calls,
    FailureThreshold, StalenessFailureThreshold, SuccessThresholdHalfOpen,
    ResetTimeoutMs

ASSUME BreakerAssumption ==
    /\ FailureThreshold \in Nat \ {0} /\ StalenessFailureThreshold \in Nat \ {0}
    /\ SuccessThresholdHalfOpen \in Nat \ {0} /\ ResetTimeoutMs \in Nat \ {0}
    /\ IsFiniteSet(Calls)

VARIABLES
    circuit,   \* CircuitBreakerInstance
    inflight,  \* the calls whose fn() is being awaited
    sinceTrip  \* history: time since the circuit last opened, up to the timeout

breakerVars == <<circuit, inflight, sinceTrip>>

(* getOrCreateCircuit.                                                     *)
FreshCircuit == [state |-> "CLOSED", failures |-> 0, successes |-> 0,
                 staleness |-> 0, wait |-> 0]

BreakerInit == circuit = FreshCircuit /\ inflight = {} /\ sinceTrip = 0

BreakerTypeOK ==
    /\ circuit \in [state : {"CLOSED", "OPEN", "HALF_OPEN"},
                    failures : 0 .. FailureThreshold + Cardinality(Calls),
                    successes : 0 .. SuccessThresholdHalfOpen - 1,
                    staleness : 0 .. StalenessFailureThreshold + Cardinality(Calls),
                    wait : 0 .. ResetTimeoutMs]
    /\ inflight \subseteq Calls
    /\ sinceTrip \in 0 .. ResetTimeoutMs

(* execute, up to the await: an open circuit becomes half-open for the     *)
(* first call after the timeout and turns the earlier ones away (to the    *)
(* fallback or with an error, either way without a trace).                 *)
Execute(c) ==
    /\ c \notin inflight
    /\ circuit.state = "OPEN" => circuit.wait = 0
    /\ circuit' = IF circuit.state = "OPEN"
                  THEN [FreshCircuit EXCEPT !.state = "HALF_OPEN"]
                  ELSE circuit
    /\ inflight' = inflight \cup {c}
    /\ UNCHANGED sinceTrip

AfterSuccessOffByOne(k) ==
    CASE k.state = "HALF_OPEN" /\ k.successes + 1 > SuccessThresholdHalfOpen ->
            [FreshCircuit EXCEPT !.wait = k.wait]
      [] k.state = "HALF_OPEN" /\ k.successes + 1 <= SuccessThresholdHalfOpen ->
            [k EXCEPT !.successes = @ + 1, !.staleness = 0]
      [] k.state = "CLOSED" -> [k EXCEPT !.failures = 0, !.staleness = 0]
      [] OTHER -> [k EXCEPT !.staleness = 0]

(* The circuit after fn() has returned.                                    *)
AfterSuccess(k) ==
    CASE k.state = "HALF_OPEN" /\ k.successes + 1 >= SuccessThresholdHalfOpen ->
            [FreshCircuit EXCEPT !.wait = k.wait]
      [] k.state = "HALF_OPEN" /\ k.successes + 1 < SuccessThresholdHalfOpen ->
            [k EXCEPT !.successes = @ + 1, !.staleness = 0]
      [] k.state = "CLOSED" -> [k EXCEPT !.failures = 0, !.staleness = 0]
      [] OTHER -> [k EXCEPT !.staleness = 0]

Counted(k, stale) ==
    [k EXCEPT !.failures = @ + 1, !.staleness = IF stale THEN @ + 1 ELSE 0]

Opened(k) == [k EXCEPT !.state = "OPEN", !.wait = ResetTimeoutMs]

AfterLateFailure(k, stale) ==
    LET n == Counted(k, stale) IN
    IF \/ k.state = "HALF_OPEN" \/ n.staleness >= StalenessFailureThreshold
       \/ n.failures >= FailureThreshold
    THEN Opened(n) ELSE n

(* The circuit after fn() has thrown.                                      *)
AfterFailure(k, stale) ==
    LET n == Counted(k, stale) IN
    IF \/ k.state = "HALF_OPEN"
       \/ /\ k.state = "CLOSED"
          /\ \/ stale /\ n.staleness >= StalenessFailureThreshold
             \/ n.failures >= FailureThreshold
    THEN Opened(n)
    ELSE n

Succeed(c) ==
    /\ c \in inflight
    /\ circuit' = AfterSuccess(circuit)
    /\ inflight' = inflight \ {c}
    /\ UNCHANGED sinceTrip

Fail(c, stale) ==
    /\ c \in inflight
    /\ circuit' = AfterFailure(circuit, stale)
    /\ inflight' = inflight \ {c}
    /\ sinceTrip' = IF circuit.state # "OPEN" /\ circuit'.state = "OPEN"
                    THEN 0 ELSE sinceTrip

Reset ==
    /\ circuit' = FreshCircuit
    /\ UNCHANGED <<inflight, sinceTrip>>

BreakerTick ==
    /\ circuit.wait > 0
    /\ circuit' = [circuit EXCEPT !.wait = @ - 1]
    /\ sinceTrip' = IF sinceTrip < ResetTimeoutMs THEN sinceTrip + 1 ELSE sinceTrip
    /\ UNCHANGED inflight

BreakerNext ==
    \/ \E c \in Calls : Execute(c) \/ Succeed(c)
    \/ \E c \in Calls, stale \in BOOLEAN : Fail(c, stale)
    \/ Reset
    \/ BreakerTick

BreakerSpec == BreakerInit /\ [][BreakerNext]_breakerVars

-----------------------------------------------------------------------------
(* A closed circuit is below both thresholds, whatever outcomes of earlier *)
(* states arrive in it; it never lets calls through that should trip it.   *)
ClosedMeansHealthy ==
    circuit.state = "CLOSED" =>
        /\ circuit.failures < FailureThreshold
        /\ circuit.staleness < StalenessFailureThreshold

(* An open circuit stays open for exactly the reset timeout counted from   *)
(* the moment it tripped: outcomes of calls that started before, which     *)
(* arrive while it is open, neither prolong nor shorten it.                *)
OpenForExactlyTheTimeout ==
    circuit.state = "OPEN" => circuit.wait + sinceTrip = ResetTimeoutMs
(* The circuit opens when it should and stays open as long as it should,   *)
(* whatever late outcomes arrive.                                          *)
TripsOnTime == ClosedMeansHealthy /\ OpenForExactlyTheTimeout
=============================================================================
