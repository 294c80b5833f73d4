------------------------- MODULE WebhookSubscriptions -------------------------
(***************************************************************************)
(* WebhookSubscriptionsService: register counts the active subscriptions   *)
(* of the wallet, and creates the new one in a second statement; revoke    *)
(* deactivates one the caller owns.                                        *)
(***************************************************************************)
EXTENDS Naturals, FiniteSets

CONSTANTS
    Owners, Admins,   \* wallets, and the principals with the admin role
    SubIds,           \* subscriptions that can be created
    Sessions,         \* requests that can run at once
    MAX_SUBSCRIPTIONS_PER_OWNER

ASSUME SubsAssumption == MAX_SUBSCRIPTIONS_PER_OWNER \in Nat \ {0} /\ IsFiniteSet(Sessions)

VARIABLES
    subs,      \* the table: owner and active flag by id
    session    \* per request: <<>>, or the wallet whose count was low enough

subsVars == <<subs, session>>

SubsTypeOK ==
    /\ DOMAIN subs \subseteq SubIds
    /\ \A s \in DOMAIN subs : subs[s] \in [owner : Owners, active : BOOLEAN]
    /\ session \in [Sessions -> {<< >>} \cup {<<o>> : o \in Owners}]

SubsInit == subs = << >> /\ session = [s \in Sessions |-> << >>]

ActiveOf(o) == {s \in DOMAIN subs : subs[s].owner = o /\ subs[s].active}

CountAllowsOneMore(n, o) ==
    /\ session[n] = << >>
    /\ Cardinality(ActiveOf(o)) <= MAX_SUBSCRIPTIONS_PER_OWNER
    /\ session' = [session EXCEPT ![n] = <<o>>]
    /\ UNCHANGED subs

(* register: URL and event types are valid, and the count is below the     *)
(* limit (otherwise the request ends here).                                *)
CountSubscriptions(n, o) ==
    /\ session[n] = << >>
    /\ Cardinality(ActiveOf(o)) < MAX_SUBSCRIPTIONS_PER_OWNER
    /\ session' = [session EXCEPT ![n] = <<o>>]
    /\ UNCHANGED subs

(* register: the row is created.                                           *)
CreateSubscription(n, s) ==
    /\ session[n] # << >>
    /\ s \notin DOMAIN subs
    /\ subs' = [x \in DOMAIN subs \cup {s} |->
                   IF x = s THEN [owner |-> session[n][1], active |-> TRUE]
                   ELSE subs[x]]
    /\ session' = [session EXCEPT ![n] = << >>]

(* revoke, with findOwned: by the owner or an admin, idempotent.           *)
RevokeSubscription(p, s) ==
    /\ s \in DOMAIN subs
    /\ p \in Admins \/ p = subs[s].owner
    /\ subs[s].active
    /\ subs' = [subs EXCEPT ![s].active = FALSE]
    /\ UNCHANGED session

SubsNext ==
    \/ \E n \in Sessions, o \in Owners : CountSubscriptions(n, o)
    \/ \E n \in Sessions, s \in SubIds : CreateSubscription(n, s)
    \/ \E p \in Owners \cup Admins, s \in SubIds : RevokeSubscription(p, s)

SubsSpec == SubsInit /\ [][SubsNext]_subsVars

-----------------------------------------------------------------------------
(* The limit per wallet is not exact, because counting and creating are    *)
(* two statements; but a wallet exceeds it by at most the registrations    *)
(* that run at once, however often it registers and revokes.               *)
OverrunIsBounded ==
    \A o \in Owners :
        Cardinality(ActiveOf(o)) + Cardinality({n \in Sessions : session[n] = <<o>>})
            <= MAX_SUBSCRIPTIONS_PER_OWNER - 1 + Cardinality(Sessions)
=============================================================================
