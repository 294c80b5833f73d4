----------------------------- MODULE RateLimiter -----------------------------
(***************************************************************************)
(* RateLimitMiddleware and RateLimiterService: a request passes the user   *)
(* tier or, when no identity was resolved, the IP tier, and on the routes  *)
(* that reach the chain also the wallet tier.  A check reads the clock in  *)
(* its backend instance and is then evaluated by Redis as one script over  *)
(* the sorted set of the counter.  An instance sends its scripts over one  *)
(* connection, in order; the scripts of two instances meet in any order.   *)
(*                                                                         *)
(* A counter is a pair <<tier, identifier>>, one tick of the clock is the  *)
(* resolution of the scores.                                               *)
(***************************************************************************)
EXTENDS Naturals, Sequences, FiniteSets

CONSTANTS
    HttpRequests,
    Instances,      \* backend processes
    Identity,       \* the resolved caller: an IP, or a user with his wallet
    Users,          \* those of Identity that are authenticated
    WindowMs,
    MaxRequests,    \* the limit of each tier
    MaxClock        \* bound on the clock of the instance

Tier == {"ip", "user", "wallet"}

ASSUME RateAssumption ==
    /\ Users \subseteq Identity
    /\ WindowMs \in Nat /\ MaxClock \in Nat
    /\ MaxRequests \in [Tier -> Nat \ {0}]

VARIABLES
    clock,     \* Date.now(), the same on every instance
    phase,     \* of each request: "new", "tier1", "tier2", "passed", "rejected"
    caller, wallet, \* its identity, and whether the wallet tier applies to it
    channel,   \* per instance: scripts sent and not yet evaluated
    zset,      \* per counter: the members of the sorted set
    granted,   \* history: per counter, all <<stamp, request>> ever admitted
    newest,    \* history: per counter, the latest clock reading evaluated
    late,      \* history: of granted, those evaluated after a later reading
    waved      \* history: the <<request, counter>> let through without Redis

rateVars == <<clock, phase, caller, wallet, channel, zset, granted, newest, late, waved>>

Counter == Tier \X Identity
Phases == {"new", "tier1", "tier2", "passed", "rejected"}
Script == [request : HttpRequests, counter : Counter, now : 0 .. MaxClock]

RateTypeOK ==
    /\ clock \in 0 .. MaxClock
    /\ phase \in [HttpRequests -> Phases]
    /\ caller \in [HttpRequests -> Identity] /\ wallet \in [HttpRequests -> BOOLEAN]
    /\ \A i \in Instances : \A n \in 1 .. Len(channel[i]) : channel[i][n] \in Script
    /\ \A c \in Counter : zset[c] \subseteq granted[c] /\ newest[c] \in 0 .. MaxClock

RateInit ==
    /\ clock = 0
    /\ phase = [r \in HttpRequests |-> "new"]
    /\ caller \in [HttpRequests -> Identity]
    /\ wallet \in [HttpRequests -> BOOLEAN]
    /\ channel = [i \in Instances |-> << >>]
    /\ zset = [c \in Counter |-> {}]
    /\ granted = [c \in Counter |-> {}]
    /\ newest = [c \in Counter |-> 0]
    /\ late = [c \in Counter |-> {}]
    /\ waved = {}

(* getClientIp and resolveIdentity: who is counted in the first tier.      *)
Tier1Counter(r) == <<IF caller[r] \in Users THEN "user" ELSE "ip", caller[r]>>

(* isWalletEndpoint with a resolved wallet: the second tier applies.       *)
WalletTierApplies(r) == wallet[r] /\ caller[r] \in Users

(* checkLimit up to the eval: the time-stamp is taken, the script is sent. *)
NewScript(r, c) == [request |-> r, counter |-> c, now |-> clock]

(* RateLimitMiddleware.use.                                                *)
StartRequest(i, r) ==
    /\ phase[r] = "new"
    /\ phase' = [phase EXCEPT ![r] = "tier1"]
    /\ channel' = [channel EXCEPT ![i] = Append(@, NewScript(r, Tier1Counter(r)))]
    /\ UNCHANGED <<clock, caller, wallet, zset, granted, newest, late, waved>>

(* What follows an answer: on to the wallet tier, passed, or rejected.     *)
AfterCheck(i, r, allowed) ==
    IF allowed /\ phase[r] = "tier1" /\ WalletTierApplies(r)
    THEN /\ phase' = [phase EXCEPT ![r] = "tier2"]
         /\ channel' = [channel EXCEPT ![i] =
               Append(Tail(@), NewScript(r, <<"wallet", caller[r]>>))]
    ELSE /\ phase' = [phase EXCEPT ![r] = IF allowed THEN "passed" ELSE "rejected"]
         /\ channel' = [channel EXCEPT ![i] = Tail(@)]

(* The script prunes what lies before the window ...                       *)
PruneTooMuch(set, now) == {m \in set : m[1] + WindowMs > now}

Prune(set, now) == {m \in set : m[1] + WindowMs >= now}

(* ... and counts what lies in it, up to the caller's own time.            *)
CountAt(set, now) == Cardinality({m \in Prune(set, now) : m[1] <= now})

(* SLIDING_WINDOW_SCRIPT: prune, count and reserve in one step.            *)
EvalScript(i) ==
    /\ channel[i] # << >>
    /\ LET s == Head(channel[i])
           old == zset[s.counter]
           allowed == CountAt(old, s.now) < MaxRequests[s.counter[1]]
           member == IF allowed THEN {<<s.now, s.request>>} ELSE {}
       IN /\ zset' = [zset EXCEPT ![s.counter] = Prune(old, s.now) \cup member]
          /\ granted' = [granted EXCEPT ![s.counter] = @ \cup member]
          /\ newest' = [newest EXCEPT ![s.counter] = IF s.now > @ THEN s.now ELSE @]
          /\ late' = [late EXCEPT ![s.counter] =
                IF s.now < newest[s.counter] THEN @ \cup member ELSE @]
          /\ AfterCheck(i, s.request, allowed)
    /\ UNCHANGED <<clock, caller, wallet, waved>>

(* The eval throws (Redis is down): fail-open, nothing is recorded.        *)
EvalFails(i) ==
    /\ channel[i] # << >>
    /\ LET s == Head(channel[i]) IN
          /\ AfterCheck(i, s.request, TRUE)
          /\ waved' = waved \cup {<<s.request, s.counter>>}
    /\ UNCHANGED <<clock, caller, wallet, zset, granted, newest, late>>

(* EXPIRE: the key goes more than a window after the last member was added. *)
ExpireCounter(c) ==
    /\ zset[c] # {}
    /\ \A m \in zset[c] : m[1] + WindowMs < clock
    /\ \A i \in Instances : \A n \in 1 .. Len(channel[i]) :
          channel[i][n].counter # c
    /\ zset' = [zset EXCEPT ![c] = {}]
    /\ UNCHANGED <<clock, phase, caller, wallet, channel, granted, newest, late, waved>>

Tick ==
    /\ clock < MaxClock
    /\ clock' = clock + 1
    /\ UNCHANGED <<phase, caller, wallet, channel, zset, granted, newest, late, waved>>

RateNext ==
    \/ \E i \in Instances, r \in HttpRequests : StartRequest(i, r)
    \/ \E i \in Instances : EvalScript(i) \/ EvalFails(i)
    \/ \E c \in Counter : ExpireCounter(c)
    \/ Tick

RateSpec == RateInit /\ [][RateNext]_rateVars

-----------------------------------------------------------------------------
(* "At any point in time the count of events within the past `windowMs`    *)
(* milliseconds never exceeds `maxRequests`" (the comment of checkLimit):   *)
(* no closed window of any counter holds more admissions than its limit.   *)
WithinWindow(m, t) == m[1] <= t /\ m[1] + WindowMs >= t

RollingWindow ==
    \A c \in Counter, t \in 0 .. MaxClock :
        Cardinality({m \in granted[c] : WithinWindow(m, t)}) <= MaxRequests[c[1]]

(* What the script keeps of it on any number of instances, whose scripts   *)
(* meet in any order: the admissions that were evaluated in the order of   *)
(* their clock readings stay within the limit, so a window is exceeded by  *)
(* no more than the admissions of it that were evaluated out of order.     *)
OrderedWindow ==
    \A c \in Counter, t \in 0 .. MaxClock :
        Cardinality({m \in granted[c] \ late[c] : WithinWindow(m, t)}) <= MaxRequests[c[1]]

(* A request passes only when each counter that applies to it has given it *)
(* a slot of its own, or could not be asked; on the routes that reach the  *)
(* chain that is the user's and the wallet's.                              *)
PassedEveryTier ==
    \A r \in HttpRequests : phase[r] = "passed" =>
        \A c \in {Tier1Counter(r)} \cup
                 (IF WalletTierApplies(r) THEN {<<"wallet", caller[r]>>} ELSE {}) :
            \/ \E t \in 0 .. MaxClock : <<t, r>> \in granted[c]
            \/ <<r, c>> \in waved

(* On any number of backend instances a window exceeds its limit only by   *)
(* admissions evaluated out of order, and no tier is skipped unless Redis  *)
(* is down (RateLimitMiddleware.use, checkLimit).                          *)
LimitsHold == OrderedWindow /\ PassedEveryTier
=============================================================================
