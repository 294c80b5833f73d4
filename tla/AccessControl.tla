---------------------------- MODULE AccessControl ----------------------------
(***************************************************************************)
(* The access-control crate (contracts/access-control/src/lib.rs): the     *)
(* storage and the operations that the invoice, financing-pool and         *)
(* settlement contracts each embed for roles, the emergency pause and the  *)
(* time-locked n-of-m change of the admin signer set.                      *)
(*                                                                         *)
(* A Soroban call that returns Err or traps is rolled back by the host, so *)
(* every early return of the code is a guard of the action.  The address   *)
(* named `caller' is the one whose require_auth succeeded.  Contract       *)
(* modules EXTEND this one, hence the AC prefix on Init, Next and Spec.    *)
(***************************************************************************)
EXTENDS Integers, Sequences, FiniteSets, Functions

CONSTANTS
    Address,        \* every account that can sign a call
    SignerVecs,     \* the Vec<Address> arguments callers may pass as a signer set
    Timelocks,      \* the timelock_ledgers arguments callers may pass
    RoleGrants,     \* the (role, grantee) arguments of grant_role and revoke_role
    MIN_ADMIN_TRANSFER_TIMELOCK_LEDGERS,
    U32Max,         \* u32::MAX, where saturating_add stops
    MaxLedger       \* bound: the last ledger the model closes

ASSUME AddressAssumption == IsFiniteSet(Address)
ASSUME SignerVecsAssumption == SignerVecs \subseteq Seq(Address)
ASSUME TimelocksAssumption == Timelocks \subseteq Nat
ASSUME RoleGrantsAssumption ==
    RoleGrants \subseteq {"Admin", "OracleWriter", "Pauser", "LiquidityManager"} \X Address
ASSUME LedgerAssumption ==
    /\ MIN_ADMIN_TRANSFER_TIMELOCK_LEDGERS \in Nat
    /\ U32Max \in Nat
    /\ MaxLedger \in Nat
    /\ MaxLedger <= U32Max

VARIABLES
    multisig,        \* AcKey::Multisig, NoMultisig while absent
    timelockLedgers, \* AcKey::TimelockLedgers
    paused,          \* AcKey::Paused
    pendingTransfer, \* AcKey::PendingTransfer, NoTransfer while absent
    roleHolders,     \* the AcKey::RoleHolder(role, addr) entries present
    ledger           \* env.ledger().sequence()

acVars == <<multisig, timelockLedgers, paused, pendingTransfer, roleHolders, ledger>>

OperationalRole == {"OracleWriter", "Pauser", "LiquidityManager"}
Role == OperationalRole \cup {"Admin"}

MultisigConfig == [signers : Seq(Address), threshold : Nat]
NoMultisig == [signers |-> <<>>, threshold |-> 0]

PendingAdminTransfer ==
    [new_signers : Seq(Address), new_threshold : Nat,
     proposed_at : Nat, confirmations : Seq(Address)]
NoTransfer ==
    [new_signers |-> <<>>, new_threshold |-> 0, proposed_at |-> 0, confirmations |-> <<>>]

SaturatingAdd(a, b) == IF a + b > U32Max THEN U32Max ELSE a + b

-----------------------------------------------------------------------------
(* Queries and guards used by every operation. *)

IsInitialized == multisig # NoMultisig

IsSigner(addr) == addr \in Range(multisig.signers)

HasRole(role, addr) ==
    IF role = "Admin" THEN IsSigner(addr) ELSE <<role, addr>> \in roleHolders

RequireRole(role, caller) == IsSigner(caller) \/ HasRole(role, caller)

RequireAdmin(caller) == IsSigner(caller)

RequireNotPaused == ~paused

\* Mutant of ValidSignerSet: the check for repeated signers is lost.
ValidSignerSetNoDup(signers, threshold) ==
    /\ signers # <<>>
    /\ threshold # 0
    /\ threshold <= Len(signers)

\* Non-empty, a threshold between 1 and the length, no address twice.
ValidSignerSet(signers, threshold) ==
    /\ signers # <<>>
    /\ threshold # 0
    /\ threshold <= Len(signers)
    /\ IsInjective(signers)

-----------------------------------------------------------------------------
(* Operations. *)

ACInitialize(signers, threshold, timelock) ==
    /\ ~IsInitialized
    /\ ValidSignerSet(signers, threshold)
    /\ timelock >= MIN_ADMIN_TRANSFER_TIMELOCK_LEDGERS
    /\ multisig' = [signers |-> signers, threshold |-> threshold]
    /\ timelockLedgers' = timelock
    /\ paused' = FALSE
    /\ UNCHANGED <<pendingTransfer, roleHolders, ledger>>

\* Mutant of GrantRole: Role::Admin can be granted like the other roles.
GrantAnyRole(caller, role, grantee) ==
    /\ RequireAdmin(caller)
    /\ roleHolders' = roleHolders \cup {<<role, grantee>>}
    /\ UNCHANGED <<multisig, timelockLedgers, paused, pendingTransfer, ledger>>

GrantRole(caller, role, grantee) ==
    /\ RequireAdmin(caller)
    /\ role # "Admin"
    /\ roleHolders' = roleHolders \cup {<<role, grantee>>}
    /\ UNCHANGED <<multisig, timelockLedgers, paused, pendingTransfer, ledger>>

RevokeRole(caller, role, grantee) ==
    /\ RequireAdmin(caller)
    /\ roleHolders' = roleHolders \ {<<role, grantee>>}
    /\ UNCHANGED <<multisig, timelockLedgers, paused, pendingTransfer, ledger>>

Pause(caller) ==
    /\ RequireRole("Pauser", caller)
    /\ ~paused
    /\ paused' = TRUE
    /\ UNCHANGED <<multisig, timelockLedgers, pendingTransfer, roleHolders, ledger>>

Unpause(caller) ==
    /\ RequireRole("Pauser", caller)
    /\ paused
    /\ paused' = FALSE
    /\ UNCHANGED <<multisig, timelockLedgers, pendingTransfer, roleHolders, ledger>>

\* Replaces any earlier proposal; the proposer's confirmation is implied.
ProposeAdminTransfer(caller, newSigners, newThreshold) ==
    /\ RequireAdmin(caller)
    /\ ValidSignerSet(newSigners, newThreshold)
    /\ pendingTransfer' = [new_signers |-> newSigners, new_threshold |-> newThreshold,
                           proposed_at |-> ledger, confirmations |-> <<caller>>]
    /\ UNCHANGED <<multisig, timelockLedgers, paused, roleHolders, ledger>>

\* Mutant of ConfirmAdminTransfer: a signer may confirm again.
ConfirmAgain(caller) ==
    /\ RequireAdmin(caller)
    /\ pendingTransfer # NoTransfer
    /\ Len(pendingTransfer.confirmations) < 3
    /\ pendingTransfer' = [pendingTransfer EXCEPT !.confirmations = Append(@, caller)]
    /\ UNCHANGED <<multisig, timelockLedgers, paused, roleHolders, ledger>>

ConfirmAdminTransfer(caller) ==
    /\ RequireAdmin(caller)
    /\ pendingTransfer # NoTransfer
    /\ caller \notin Range(pendingTransfer.confirmations)
    /\ pendingTransfer' = [pendingTransfer EXCEPT !.confirmations = Append(@, caller)]
    /\ UNCHANGED <<multisig, timelockLedgers, paused, roleHolders, ledger>>

\* Mutant of ExecuteAdminTransfer: the executed proposal stays pending.
ExecuteKeepsPending(caller) ==
    /\ RequireAdmin(caller)
    /\ pendingTransfer # NoTransfer
    /\ Len(pendingTransfer.confirmations) >= multisig.threshold
    /\ ledger >= SaturatingAdd(pendingTransfer.proposed_at, timelockLedgers)
    /\ multisig' = [signers |-> pendingTransfer.new_signers,
                    threshold |-> pendingTransfer.new_threshold]
    /\ UNCHANGED <<timelockLedgers, paused, pendingTransfer, roleHolders, ledger>>

\* Counts the confirmations recorded, whoever gave them, against the threshold
\* in force now.
ExecuteAdminTransfer(caller) ==
    /\ RequireAdmin(caller)
    /\ pendingTransfer # NoTransfer
    /\ Len(pendingTransfer.confirmations) >= multisig.threshold
    /\ ledger >= SaturatingAdd(pendingTransfer.proposed_at, timelockLedgers)
    /\ multisig' = [signers |-> pendingTransfer.new_signers,
                    threshold |-> pendingTransfer.new_threshold]
    /\ pendingTransfer' = NoTransfer
    /\ UNCHANGED <<timelockLedgers, paused, roleHolders, ledger>>

CancelAdminTransfer(caller) ==
    /\ RequireAdmin(caller)
    /\ pendingTransfer # NoTransfer
    /\ pendingTransfer' = NoTransfer
    /\ UNCHANGED <<multisig, timelockLedgers, paused, roleHolders, ledger>>

\* The network closes a ledger (external).
CloseLedger ==
    /\ ledger < MaxLedger
    /\ ledger' = ledger + 1
    /\ UNCHANGED <<multisig, timelockLedgers, paused, pendingTransfer, roleHolders>>

-----------------------------------------------------------------------------

ACInit ==
    /\ multisig = NoMultisig
    /\ timelockLedgers = MIN_ADMIN_TRANSFER_TIMELOCK_LEDGERS
    /\ paused = FALSE
    /\ pendingTransfer = NoTransfer
    /\ roleHolders = {}
    /\ ledger = 0

\* The thresholds worth passing for a vector: every valid one and both errors.
Thresholds(signers) == 0 .. (Len(signers) + 1)

\* The operations available once the embedding contract is initialised.
ACOps ==
    \/ \E caller \in Address :
         \/ \E g \in RoleGrants :
              GrantRole(caller, g[1], g[2]) \/ RevokeRole(caller, g[1], g[2])
         \/ Pause(caller)
         \/ Unpause(caller)
         \/ \E signers \in SignerVecs : \E threshold \in Thresholds(signers) :
              ProposeAdminTransfer(caller, signers, threshold)
         \/ ConfirmAdminTransfer(caller)
         \/ ExecuteAdminTransfer(caller)
         \/ CancelAdminTransfer(caller)
    \/ CloseLedger

ACNext ==
    \/ \E signers \in SignerVecs, timelock \in Timelocks :
         \E threshold \in Thresholds(signers) :
           ACInitialize(signers, threshold, timelock)
    \/ ACOps

ACSpec == ACInit /\ [][ACNext]_acVars

-----------------------------------------------------------------------------
(* Properties. *)

\* Type invariant of the access-control storage.  Role::Admin is never stored as
\* a RoleHolder entry (grant_role), and the time-lock in force is never below
\* the minimum (initialize).
ACTypeOK ==
    /\ multisig \in MultisigConfig
    /\ timelockLedgers \in Nat
    /\ timelockLedgers >= MIN_ADMIN_TRANSFER_TIMELOCK_LEDGERS
    /\ paused \in BOOLEAN
    /\ pendingTransfer \in PendingAdminTransfer
    /\ roleHolders \subseteq OperationalRole \X Address
    /\ ledger \in Nat

\* Every confirmation counted for the pending signer-set change was given by a
\* signer who is still a signer, and no signer is counted twice
\* (confirm_admin_transfer checks both against the storage of its own call;
\* execute_admin_transfer only looks at the length of the list).
ConfirmersAreCurrentSigners ==
    /\ Range(pendingTransfer.confirmations) \subseteq Range(multisig.signers)
    /\ IsInjective(pendingTransfer.confirmations)

\* The contract can never be left with a threshold that its distinct signers
\* cannot reach, which would freeze the signer set for ever: neither the set in
\* force nor the one about to replace it (validate_signer_set).
QuorumStaysReachable ==
    /\ IsInitialized =>
         1 <= multisig.threshold /\ multisig.threshold <= Cardinality(Range(multisig.signers))
    /\ pendingTransfer # NoTransfer =>
         /\ 1 <= pendingTransfer.new_threshold
         /\ pendingTransfer.new_threshold <= Cardinality(Range(pendingTransfer.new_signers))

\* What a step that replaces the signer set in force must satisfy.
SignerSetChangeHasQuorum ==
    IsInitialized /\ multisig' # multisig =>
        /\ multisig' = [signers |-> pendingTransfer.new_signers,
                        threshold |-> pendingTransfer.new_threshold]
        /\ Cardinality(Range(pendingTransfer.confirmations) \cap Range(multisig.signers))
             >= multisig.threshold
        /\ ledger >= SaturatingAdd(pendingTransfer.proposed_at,
                                   MIN_ADMIN_TRANSFER_TIMELOCK_LEDGERS)

\* A signer set in force is only ever replaced by the pending one, with the
\* support of at least `threshold' distinct addresses that are signers at that
\* moment, and not before the time-lock after the proposal has run out
\* (execute_admin_transfer): "a takeover requires both a quorum of the current
\* signers and the delay window", docs/access-control.md.
SignerSetChangesByQuorum == [][SignerSetChangeHasQuorum]_acVars
=============================================================================
