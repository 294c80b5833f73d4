------------------------- MODULE AccessControlProofs -------------------------
(***************************************************************************)
(* Proofs about AccessControl, for every set of accounts, signer vectors,  *)
(* time-locks and role grants.                                             *)
(***************************************************************************)
EXTENDS AccessControl, FiniteSetTheorems, TLAPS

\* A sequence without repetitions has as many members as elements.
LEMMA InjectiveSeqCardinality ==
    ASSUME NEW S, NEW s \in Seq(S), IsInjective(s)
    PROVE  IsFiniteSet(Range(s)) /\ Cardinality(Range(s)) = Len(s)
<1>1. s \in Bijection(1 .. Len(s), Range(s))
  BY DEF Bijection, Injection, Surjection, Range
<1>2. ExistsBijection(1 .. Len(s), Range(s))
  BY <1>1 DEF ExistsBijection
<1>3. Len(s) \in Nat
  OBVIOUS
<1>4. Cardinality(Range(s)) = Len(s)
  BY <1>2, <1>3, FS_CountingElements
<1>5. IsFiniteSet(Range(s))
  BY <1>2, <1>3, FS_NatBijection
<1>. QED
  BY <1>4, <1>5

\* Appending adds one member.
LEMMA RangeAppend ==
    ASSUME NEW S, NEW s \in Seq(S), NEW x \in S
    PROVE  Range(Append(s, x)) = Range(s) \cup {x}
<1>1. DOMAIN Append(s, x) = 1 .. (Len(s) + 1) /\ DOMAIN s = 1 .. Len(s)
  OBVIOUS
<1>2. \A i \in 1 .. Len(s) : Append(s, x)[i] = s[i]
  OBVIOUS
<1>3. Append(s, x)[Len(s) + 1] = x
  OBVIOUS
<1>4. 1 .. (Len(s) + 1) = (1 .. Len(s)) \cup {Len(s) + 1}
  OBVIOUS
<1>. QED
  BY <1>1, <1>2, <1>3, <1>4 DEF Range

-----------------------------------------------------------------------------

\* Nothing is pending before a signer set is in force, and whatever is in force
\* or pending went through validate_signer_set.
SignerSetsValidated ==
    /\ IsInitialized => ValidSignerSet(multisig.signers, multisig.threshold)
    /\ pendingTransfer # NoTransfer =>
         ValidSignerSet(pendingTransfer.new_signers, pendingTransfer.new_threshold)

\* The inductive invariant.
ACInv == ACTypeOK /\ SignerSetsValidated /\ ConfirmersAreCurrentSigners

\* The initial state satisfies the inductive invariant.
LEMMA ACInvInit == ACInit => ACInv
<1>. SUFFICES ASSUME ACInit PROVE ACInv
  OBVIOUS
<1>1. <<>> \in Seq(Address)
  OBVIOUS
<1>2. ACTypeOK
  <2>1. multisig \in MultisigConfig /\ pendingTransfer \in PendingAdminTransfer
    BY <1>1 DEF ACInit, MultisigConfig, NoMultisig, PendingAdminTransfer, NoTransfer
  <2>2. timelockLedgers \in Nat /\ timelockLedgers >= MIN_ADMIN_TRANSFER_TIMELOCK_LEDGERS
    BY LedgerAssumption DEF ACInit
  <2>3. paused \in BOOLEAN /\ roleHolders \subseteq OperationalRole \X Address
    BY DEF ACInit
  <2>4. ledger \in Nat
    BY DEF ACInit
  <2>. QED
    BY <2>1, <2>2, <2>3, <2>4 DEF ACTypeOK
<1>3. SignerSetsValidated
  BY DEF ACInit, SignerSetsValidated, IsInitialized
<1>4. ConfirmersAreCurrentSigners
  BY DEF ACInit, ConfirmersAreCurrentSigners, NoTransfer, NoMultisig, Range, IsInjective
<1>. QED
  BY <1>2, <1>3, <1>4 DEF ACInv

\* Confirmations and validity depend on the two records only.
LEMMA SignerFactsUnchanged ==
    ASSUME SignerSetsValidated, ConfirmersAreCurrentSigners,
           UNCHANGED <<multisig, pendingTransfer>>
    PROVE  SignerSetsValidated' /\ ConfirmersAreCurrentSigners'
BY DEF SignerSetsValidated, ConfirmersAreCurrentSigners, IsInitialized

\* With nothing pending there is no confirmation.
LEMMA NoTransferConfirmers ==
    ASSUME pendingTransfer' = NoTransfer
    PROVE  ConfirmersAreCurrentSigners'
BY DEF NoTransfer, ConfirmersAreCurrentSigners, Range, IsInjective

\* Every operation preserves the inductive invariant.
LEMMA ACInvNext == ACInv /\ [ACNext]_acVars => ACInv'
<1>. SUFFICES ASSUME ACInv, [ACNext]_acVars PROVE ACInv'
  OBVIOUS
<1>. USE DEF ACInv
<1>1. ASSUME NEW signers \in SignerVecs, NEW timelock \in Timelocks,
             NEW threshold \in Thresholds(signers), ACInitialize(signers, threshold, timelock)
      PROVE  ACInv'
  <2>1. signers \in Seq(Address) /\ threshold \in Nat /\ timelock \in Nat
    BY SignerVecsAssumption, TimelocksAssumption DEF Thresholds
  <2>2. multisig' \in MultisigConfig
    BY <1>1, <2>1 DEF ACInitialize, MultisigConfig
  <2>3. ACTypeOK'
    BY <1>1, <2>1, <2>2 DEF ACInitialize, ACTypeOK
  <2>4. SignerSetsValidated'
    BY <1>1 DEF ACInitialize, SignerSetsValidated
  <2>5. Range(pendingTransfer.confirmations) = {}
    <3>1. multisig.signers = <<>>
      BY <1>1 DEF ACInitialize, IsInitialized, NoMultisig
    <3>2. Range(<<>>) = {}
      BY DEF Range
    <3>. QED
      BY <3>1, <3>2 DEF ConfirmersAreCurrentSigners
  <2>6. ConfirmersAreCurrentSigners'
    BY <1>1, <2>5 DEF ACInitialize, ConfirmersAreCurrentSigners
  <2>. QED
    BY <2>3, <2>4, <2>6
<1>2. ASSUME NEW caller \in Address, NEW g \in RoleGrants,
             GrantRole(caller, g[1], g[2]) \/ RevokeRole(caller, g[1], g[2])
      PROVE  ACInv'
  <2>1. g = <<g[1], g[2]>> /\ g[1] \in Role /\ g[2] \in Address
    BY RoleGrantsAssumption DEF Role, OperationalRole
  <2>2. roleHolders' \subseteq OperationalRole \X Address
    BY <1>2, <2>1 DEF GrantRole, RevokeRole, ACTypeOK, Role
  <2>3. UNCHANGED <<multisig, timelockLedgers, paused, pendingTransfer, ledger>>
    BY <1>2 DEF GrantRole, RevokeRole
  <2>. QED
    BY <2>2, <2>3, SignerFactsUnchanged DEF ACTypeOK
<1>3. ASSUME NEW caller \in Address, Pause(caller) \/ Unpause(caller)
      PROVE  ACInv'
  <2>1. paused' \in BOOLEAN /\ UNCHANGED <<multisig, timelockLedgers, pendingTransfer, roleHolders, ledger>>
    BY <1>3 DEF Pause, Unpause
  <2>. QED
    BY <2>1, SignerFactsUnchanged DEF ACTypeOK
<1>4. ASSUME NEW caller \in Address, NEW signers \in SignerVecs,
             NEW threshold \in Thresholds(signers),
             ProposeAdminTransfer(caller, signers, threshold)
      PROVE  ACInv'
  <2>1. signers \in Seq(Address) /\ threshold \in Nat /\ ledger \in Nat
    BY SignerVecsAssumption DEF Thresholds, ACTypeOK
  <2>2. pendingTransfer' \in PendingAdminTransfer
    BY <1>4, <2>1 DEF ProposeAdminTransfer, PendingAdminTransfer
  <2>3. ACTypeOK'
    BY <1>4, <2>2 DEF ProposeAdminTransfer, ACTypeOK
  <2>4. SignerSetsValidated'
    BY <1>4 DEF ProposeAdminTransfer, SignerSetsValidated, IsInitialized
  <2>5. caller \in Range(multisig.signers) /\ multisig' = multisig
    BY <1>4 DEF ProposeAdminTransfer, RequireAdmin, IsSigner
  <2>6. pendingTransfer'.confirmations = <<caller>>
    BY <1>4 DEF ProposeAdminTransfer
  <2>7. Range(<<caller>>) = {caller} /\ IsInjective(<<caller>>)
    BY DEF Range, IsInjective
  <2>8. ConfirmersAreCurrentSigners'
    BY <2>5, <2>6, <2>7 DEF ConfirmersAreCurrentSigners
  <2>. QED
    BY <2>3, <2>4, <2>8
<1>5. ASSUME NEW caller \in Address, ConfirmAdminTransfer(caller)
      PROVE  ACInv'
  <2>. DEFINE conf == pendingTransfer.confirmations
  <2>1. pendingTransfer \in PendingAdminTransfer /\ conf \in Seq(Address)
    BY DEF ACTypeOK, PendingAdminTransfer
  <2>2. /\ pendingTransfer'.confirmations = Append(conf, caller)
        /\ pendingTransfer'.new_signers = pendingTransfer.new_signers
        /\ pendingTransfer'.new_threshold = pendingTransfer.new_threshold
        /\ pendingTransfer' \in PendingAdminTransfer
    <3>1. pendingTransfer' = [pendingTransfer EXCEPT !.confirmations = Append(conf, caller)]
      BY <1>5 DEF ConfirmAdminTransfer
    <3>2. Append(conf, caller) \in Seq(Address)
      BY <2>1
    <3>. QED
      BY <2>1, <3>1, <3>2 DEF PendingAdminTransfer
  <2>3. ACTypeOK'
    BY <1>5, <2>2 DEF ConfirmAdminTransfer, ACTypeOK
  <2>4. SignerSetsValidated'
    BY <1>5, <2>2 DEF ConfirmAdminTransfer, SignerSetsValidated, IsInitialized, ValidSignerSet
  <2>5. Range(Append(conf, caller)) \subseteq Range(multisig.signers)
    <3>1. Range(Append(conf, caller)) = Range(conf) \cup {caller}
      BY <2>1, RangeAppend
    <3>. QED
      BY <1>5, <3>1 DEF ConfirmAdminTransfer, RequireAdmin, IsSigner, ConfirmersAreCurrentSigners
  <2>6. IsInjective(Append(conf, caller))
    BY <1>5, <2>1 DEF ConfirmAdminTransfer, ConfirmersAreCurrentSigners, Range, IsInjective
  <2>7. ConfirmersAreCurrentSigners'
    BY <1>5, <2>2, <2>5, <2>6 DEF ConfirmAdminTransfer, ConfirmersAreCurrentSigners
  <2>. QED
    BY <2>3, <2>4, <2>7
<1>6. ASSUME NEW caller \in Address, ExecuteAdminTransfer(caller)
      PROVE  ACInv'
  <2>1. multisig' \in MultisigConfig /\ NoTransfer \in PendingAdminTransfer
    BY <1>6 DEF ExecuteAdminTransfer, ACTypeOK, MultisigConfig, PendingAdminTransfer, NoTransfer
  <2>2. ACTypeOK'
    BY <1>6, <2>1 DEF ExecuteAdminTransfer, ACTypeOK
  <2>3. SignerSetsValidated'
    BY <1>6 DEF ExecuteAdminTransfer, SignerSetsValidated, ValidSignerSet
  <2>4. ConfirmersAreCurrentSigners'
    BY <1>6, NoTransferConfirmers DEF ExecuteAdminTransfer
  <2>. QED
    BY <2>2, <2>3, <2>4
<1>7. ASSUME NEW caller \in Address, CancelAdminTransfer(caller)
      PROVE  ACInv'
  <2>1. NoTransfer \in PendingAdminTransfer
    BY DEF PendingAdminTransfer, NoTransfer
  <2>2. ACTypeOK'
    BY <1>7, <2>1 DEF CancelAdminTransfer, ACTypeOK
  <2>3. SignerSetsValidated'
    BY <1>7 DEF CancelAdminTransfer, SignerSetsValidated, IsInitialized
  <2>4. ConfirmersAreCurrentSigners'
    BY <1>7, NoTransferConfirmers DEF CancelAdminTransfer
  <2>. QED
    BY <2>2, <2>3, <2>4
<1>8. CASE CloseLedger
  <2>1. ledger' \in Nat
    BY <1>8 DEF CloseLedger, ACTypeOK
  <2>. QED
    BY <1>8, <2>1, SignerFactsUnchanged DEF CloseLedger, ACTypeOK
<1>9. CASE UNCHANGED acVars
  BY <1>9, SignerFactsUnchanged DEF acVars, ACTypeOK
<1>. QED
  BY <1>1, <1>2, <1>3, <1>4, <1>5, <1>6, <1>7, <1>8, <1>9 DEF ACNext, ACOps

\* A contract once initialised stays so: no admin operation can empty the signer
\* set, so initialize of the embedding contract cannot run a second time.
LEMMA InitializedStays ==
    ASSUME ACInv, ACOps, IsInitialized
    PROVE  IsInitialized'
<1>1. CASE \E caller \in Address : ExecuteAdminTransfer(caller)
  <2>1. pendingTransfer.new_signers # <<>>
    BY <1>1 DEF ACInv, SignerSetsValidated, ValidSignerSet, ExecuteAdminTransfer
  <2>2. multisig'.signers # <<>>
    BY <1>1, <2>1 DEF ExecuteAdminTransfer
  <2>. QED
    BY <2>2 DEF IsInitialized, NoMultisig
<1>2. CASE UNCHANGED multisig
  BY <1>2 DEF IsInitialized
<1>. QED
  BY <1>1, <1>2 DEF ACOps, GrantRole, RevokeRole, Pause, Unpause, ProposeAdminTransfer,
                    ConfirmAdminTransfer, CancelAdminTransfer, CloseLedger

-----------------------------------------------------------------------------
(* The theorems. *)

\* The inductive invariant holds in every reachable state.
THEOREM ACInvariance == ACSpec => []ACInv
<1>1. ACInit => ACInv
  BY ACInvInit
<1>2. ACInv /\ [ACNext]_acVars => ACInv'
  BY ACInvNext
<1>. QED
  BY <1>1, <1>2, PTL DEF ACSpec

\* The access-control storage keeps its types, Role::Admin is never stored as a
\* role entry, and the time-lock never falls below the minimum.
THEOREM ACTypeCorrect == ACSpec => []ACTypeOK
<1>1. ACInv => ACTypeOK
  BY DEF ACInv
<1>. QED
  BY <1>1, ACInvariance, PTL

\* Confirmations counted towards a change of signers are those of distinct
\* current signers, although execute_admin_transfer compares a length only.
THEOREM ConfirmersAreSigners == ACSpec => []ConfirmersAreCurrentSigners
<1>1. ACInv => ConfirmersAreCurrentSigners
  BY DEF ACInv
<1>. QED
  BY <1>1, ACInvariance, PTL

\* Neither the signer set in force nor the pending one has a threshold beyond its
\* distinct signers: validate_signer_set cannot be got around.
THEOREM QuorumReachable == ACSpec => []QuorumStaysReachable
<1>1. ACInv => QuorumStaysReachable
  <2>. SUFFICES ASSUME ACInv PROVE QuorumStaysReachable
    OBVIOUS
  <2>1. /\ multisig.signers \in Seq(Address) /\ multisig.threshold \in Nat
        /\ pendingTransfer.new_signers \in Seq(Address) /\ pendingTransfer.new_threshold \in Nat
    BY DEF ACInv, ACTypeOK, MultisigConfig, PendingAdminTransfer
  <2>2. ASSUME NEW s \in Seq(Address), NEW t \in Nat, ValidSignerSet(s, t)
        PROVE  1 <= t /\ t <= Cardinality(Range(s))
    <3>1. Cardinality(Range(s)) = Len(s)
      BY <2>2, InjectiveSeqCardinality DEF ValidSignerSet
    <3>. QED
      BY <2>2, <3>1 DEF ValidSignerSet
  <2>. QED
    BY <2>1, <2>2 DEF ACInv, SignerSetsValidated, QuorumStaysReachable
<1>. QED
  BY <1>1, ACInvariance, PTL

\* Replacing the signers needs a quorum of the current ones and the time-lock.
THEOREM TakeoverNeedsQuorum == ACSpec => SignerSetChangesByQuorum
<1>1. ACInv /\ [ACNext]_acVars => [SignerSetChangeHasQuorum]_acVars
  <2>. SUFFICES ASSUME ACInv, [ACNext]_acVars, IsInitialized, multisig' # multisig
                PROVE  SignerSetChangeHasQuorum
    BY DEF SignerSetChangeHasQuorum
  <2>. DEFINE conf == pendingTransfer.confirmations
  <2>1. PICK caller \in Address : ExecuteAdminTransfer(caller)
    BY DEF ACNext, ACOps, acVars, ACInitialize, GrantRole, RevokeRole, Pause, Unpause,
           ProposeAdminTransfer, ConfirmAdminTransfer, CancelAdminTransfer, CloseLedger
  <2>2. /\ conf \in Seq(Address) /\ pendingTransfer.proposed_at \in Nat
        /\ multisig.threshold \in Nat /\ timelockLedgers \in Nat /\ ledger \in Nat
    BY DEF ACInv, ACTypeOK, MultisigConfig, PendingAdminTransfer
  <2>3. Cardinality(Range(conf)) = Len(conf)
    BY <2>2, InjectiveSeqCardinality DEF ACInv, ConfirmersAreCurrentSigners
  <2>4. Range(conf) \cap Range(multisig.signers) = Range(conf)
    BY DEF ACInv, ConfirmersAreCurrentSigners
  <2>5. Cardinality(Range(conf) \cap Range(multisig.signers)) >= multisig.threshold
    BY <2>1, <2>3, <2>4 DEF ExecuteAdminTransfer
  <2>6. ledger >= SaturatingAdd(pendingTransfer.proposed_at, MIN_ADMIN_TRANSFER_TIMELOCK_LEDGERS)
    <3>1. timelockLedgers >= MIN_ADMIN_TRANSFER_TIMELOCK_LEDGERS
      BY DEF ACInv, ACTypeOK
    <3>2. ledger >= SaturatingAdd(pendingTransfer.proposed_at, timelockLedgers)
      BY <2>1 DEF ExecuteAdminTransfer
    <3>. QED
      BY <2>2, <3>1, <3>2, LedgerAssumption DEF SaturatingAdd
  <2>. QED
    BY <2>1, <2>5, <2>6 DEF SignerSetChangeHasQuorum, ExecuteAdminTransfer
<1>. QED
  BY <1>1, ACInvariance, PTL DEF ACSpec, SignerSetChangesByQuorum
=============================================================================
