---------------------------- MODULE OracleMonitor ----------------------------
(* The oracle monitor of the backend (oracle-monitor/): it polls the price   *)
(* feeds, marks them healthy, stale or unknown, counts the polls that found  *)
(* something wrong and switches the fallback strategy on.  The timer starts  *)
(* a poll whether or not the last one has ended, and POST /oracle/poll       *)
(* starts one at any time, so polls overlap at every await.                  *)
(* The two fetches never throw: fetchLedgerInfo makes up a ledger and        *)
(* fetchOraclePrice answers null, so an answer and a failure are one step.   *)
(* lastKnownPrice and lastUpdateLedger are reported and decide nothing.      *)
EXTENDS Integers, FiniteSetsExt

CONSTANTS NumFeeds,               \* feeds are polled in the order 1 .. NumFeeds
          Polls,                  \* polls that may overlap
          MaxPolls,               \* bound: polls started
          MaxOracleClock,         \* bound: ticks of the monitor's clock
          StalenessThreshold, WarningThreshold,
          MaxConsecutiveFailures,
          FallbackRiskPremiumBps, MaxRiskPremiumBps,
          NoFallback

ASSUME OracleAssumption ==
    /\ NumFeeds \in Nat \ {0} /\ StalenessThreshold \in Nat /\ WarningThreshold \in Nat
    /\ IsFiniteSet(Polls) /\ MaxPolls \in Nat

Feeds == 1 .. NumFeeds
FeedStatus == {"healthy", "stale", "unknown"}
FallbackMode == {"none", "last_known_good", "halt"}

VARIABLES
    addressed,     \* the feeds that have a contractAddress
    configured,    \* config.fallbackMode
    feed,          \* feed -> its status, fallbackActive and lastUpdatedAt
    failures,      \* consecutiveFailures
    monitorMode,   \* OracleMonitorService.fallbackMode
    strategy,      \* FallbackStrategyService.state
    poll,          \* poll -> where it is suspended, and its local variables
    polled,        \* polls started
    oracleClock,
    staleStreak    \* history: polls in a row that asked for a price which was
                   \* too old; the prices were last submitted at time 0

oracleVars == <<addressed, configured, feed, failures, monitorMode, strategy, poll, polled,
                oracleClock, staleStreak>>

NoPoll == [at |-> "idle", feed |-> 1, now |-> 0, allHealthy |-> TRUE, alerts |-> 0]

OracleInit ==
    /\ addressed \in SUBSET Feeds
    /\ configured \in FallbackMode
    /\ feed = [f \in Feeds |-> [status |-> "unknown", fallbackActive |-> FALSE, lastUpdatedAt |-> 0]]
    /\ failures = 0
    /\ monitorMode = configured
    /\ strategy = NoFallback
    /\ poll = [p \in Polls |-> NoPoll]
    /\ polled = 0
    /\ oracleClock = 1
    /\ staleStreak = 0

(* evaluateFeed: an alert when a feed becomes stale, one when it recovers.   *)
EvaluateFeed(fd) ==
    CASE fd.status = "stale" /\ ~fd.fallbackActive -> [fd EXCEPT !.fallbackActive = TRUE]
      [] fd.status = "healthy" /\ fd.fallbackActive -> [fd EXCEPT !.fallbackActive = FALSE]
      [] OTHER -> fd

(* The rest of the loop's body once checkFeed has set the status s.          *)
Evaluated(p, s) ==
    LET q == poll[p]
        f == q.feed
        old == [feed[f] EXCEPT !.status = s]
        new == EvaluateFeed(old)
    IN /\ feed' = [feed EXCEPT ![f] = new]
       /\ poll' = [poll EXCEPT ![p] =
                     [q EXCEPT !.at = IF f = NumFeeds THEN "done" ELSE "check",
                               !.feed = IF f = NumFeeds THEN f ELSE f + 1,
                               !.allHealthy = q.allHealthy /\ s = "healthy",
                               !.alerts = q.alerts + (IF new # old THEN 1 ELSE 0)]]

StartPoll(p) ==
    /\ poll[p].at = "idle"
    /\ polled < MaxPolls
    /\ polled' = polled + 1
    /\ poll' = [poll EXCEPT ![p] = [NoPoll EXCEPT !.at = "check"]]
    /\ UNCHANGED <<addressed, configured, feed, failures, monitorMode, strategy, oracleClock, staleStreak>>

CheckUnaddressed(p) ==
    /\ poll[p].at = "check"
    /\ poll[p].feed \notin addressed
    /\ Evaluated(p, "unknown")
    /\ UNCHANGED <<addressed, configured, failures, monitorMode, strategy, polled, oracleClock, staleStreak>>

(* fetchLedgerInfo has answered: the feed is stamped before its price is     *)
(* asked for.                                                                *)
LedgerKnown(p) ==
    /\ poll[p].at = "check"
    /\ poll[p].feed \in addressed
    /\ feed' = [feed EXCEPT ![poll[p].feed].lastUpdatedAt = oracleClock]
    /\ poll' = [poll EXCEPT ![p].at = "price", ![p].now = oracleClock]
    /\ UNCHANGED <<addressed, configured, failures, monitorMode, strategy, polled, oracleClock, staleStreak>>

(* Mutant of StaleMs: the age is measured when the price has come.           *)
StaleMsAtAnswer(p) == oracleClock - feed[poll[p].feed].lastUpdatedAt

(* How old a feed looks to the poll: measured at the instant it was stamped. *)
StaleMs(p) == poll[p].now - feed[poll[p].feed].lastUpdatedAt

CheckedStatus(p) ==
    IF StaleMs(p) > StalenessThreshold \/ StaleMs(p) > WarningThreshold THEN "stale" ELSE "healthy"

PriceKnown(p) ==
    /\ poll[p].at = "price"
    /\ Evaluated(p, CheckedStatus(p))
    /\ UNCHANGED <<addressed, configured, failures, monitorMode, strategy, polled, oracleClock, staleStreak>>

(* FallbackStrategyService.activate ignores an activation while one lasts.   *)
Activate(mode) ==
    IF strategy # NoFallback THEN strategy
    ELSE [mode |-> mode, riskPremiumBps |-> Min({FallbackRiskPremiumBps, MaxRiskPremiumBps}),
          activatedAt |-> oracleClock]

ActivateFallback ==
    /\ monitorMode' = configured
    /\ strategy' = Activate(configured)

(* The end of poll: the streak is counted and, from MaxConsecutiveFailures   *)
(* on, the fallback activated -- while the monitor's own mode is "none".     *)
EndPoll(p) ==
    LET n == IF poll[p].allHealthy THEN 0 ELSE failures + 1
    IN /\ poll[p].at = "done"
       /\ failures' = n
       /\ IF n >= MaxConsecutiveFailures /\ monitorMode = "none"
          THEN ActivateFallback
          ELSE UNCHANGED <<monitorMode, strategy>>
       /\ poll' = [poll EXCEPT ![p] = NoPoll]
       /\ staleStreak' = IF poll[p].now > StalenessThreshold THEN staleStreak + 1 ELSE 0
       /\ UNCHANGED <<addressed, configured, feed, polled, oracleClock>>

OracleTick ==
    /\ oracleClock < MaxOracleClock
    /\ oracleClock' = oracleClock + 1
    /\ UNCHANGED <<addressed, configured, feed, failures, monitorMode, strategy, poll, polled, staleStreak>>

OracleNext ==
    \/ \E p \in Polls : StartPoll(p) \/ CheckUnaddressed(p) \/ LedgerKnown(p) \/ PriceKnown(p) \/ EndPoll(p)
    \/ OracleTick

OracleTypeOK ==
    /\ feed \in [Feeds -> [status : FeedStatus, fallbackActive : BOOLEAN, lastUpdatedAt : Nat]]
    /\ failures \in 0 .. MaxPolls
    /\ monitorMode \in FallbackMode
    /\ strategy # NoFallback => strategy.mode \in FallbackMode
    /\ staleStreak \in Nat

-----------------------------------------------------------------------------
(* A slow answer of the RPC node, or a poll overtaken by another, never makes *)
(* a feed look stale: the monitor stamps a feed itself when it reads it and   *)
(* measures the age at that instant, so no staleness alert is ever pending    *)
(* (checkFeed, oracle-monitor.service.ts:113-129).  The other side of it is   *)
(* that no price is ever too old for the monitor: StalenessActivatesFallback. *)
NoFalseStaleness ==
    /\ \A f \in Feeds : feed[f].status # "stale" /\ ~feed[f].fallbackActive
    /\ \A p \in Polls : poll[p].alerts = 0

(* "Oracle monitor service activates fallback mode on staleness"              *)
(* (docs/oracle-architecture.md:138): when a fallback is configured and as    *)
(* many polls in a row as it takes asked for a price that was too old, the    *)
(* fallback is active.                                                        *)
StalenessActivatesFallback ==
    configured # "none" /\ staleStreak >= MaxConsecutiveFailures => strategy # NoFallback
=============================================================================
