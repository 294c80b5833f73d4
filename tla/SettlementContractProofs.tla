---------------------- MODULE SettlementContractProofs ----------------------
(***************************************************************************)
(* Proofs about SettlementContract, for every set of accounts, invoices,   *)
(* nonces, amounts and fee rates, and every width of the integers.         *)
(***************************************************************************)
EXTENDS SettlementContract, AccessControlProofs

\* The fee of a payment, floor(amount * rate / 10000), is not negative, and at a
\* rate of at most 100% it is not more than the payment (settle_invoice).
LEMMA FeeBounds ==
    ASSUME NEW amount \in Nat, NEW rate \in Nat
    PROVE  /\ (amount * rate) \div 10000 \in Nat
           /\ rate <= 10000 => (amount * rate) \div 10000 <= amount
<1>. DEFINE fee == (amount * rate) \div 10000
<1>1. amount * rate \in Nat
  OBVIOUS
<1>2. fee \in Nat /\ fee * 10000 <= amount * rate
  <2>. HIDE DEF fee
  <2>. DEFINE p == amount * rate
  <2>1. p \in Nat
    BY <1>1
  <2>2. fee = p \div 10000
    BY DEF fee
  <2>3. p \div 10000 \in Nat /\ (p \div 10000) * 10000 <= p
    <3>. HIDE DEF p
    <3>. QED
      BY <2>1
  <2>. QED
    BY <2>2, <2>3
<1>3. ASSUME rate <= 10000 PROVE fee <= amount
  <2>. HIDE DEF fee
  <2>1. amount * rate <= amount * 10000
    BY <1>3
  <2>. QED
    BY <1>2, <2>1
<1>. QED
  BY <1>2, <1>3

\* A sequence has finitely many members.
LEMMA RangeIsFinite ==
    ASSUME NEW S, NEW s \in Seq(S)
    PROVE  IsFiniteSet(Range(s))
<1>1. s \in Surjection(1 .. Len(s), Range(s))
  BY DEF Surjection, Range
<1>2. IsFiniteSet(1 .. Len(s))
  BY FS_Interval
<1>. QED
  BY <1>1, <1>2, FS_Surjection

\* Every step of the settlement contract is a step of its embedded access control,
\* or leaves that storage alone.
LEMMA SCStepIsACStep == [SCNext]_scVars => [ACNext]_acVars
<1>. SUFFICES ASSUME [SCNext]_scVars PROVE [ACNext]_acVars
  OBVIOUS
<1>1. CASE \E signers \in SignerVecs, timelock \in Timelocks :
             \E threshold \in Thresholds(signers) : SCInitialize(signers, threshold, timelock)
  BY <1>1 DEF SCInitialize, ACNext
<1>2. CASE SCOps
  <2>1. ASSUME NEW caller, NEW id, NEW b, NEW f, NEW amount, NEW dueDate,
               SetInvoiceData(caller, id, b, f, amount, dueDate)
        PROVE  UNCHANGED acVars
    BY <2>1 DEF SetInvoiceData
  <2>2. ASSUME NEW caller, NEW id, NEW x,
               \/ SetFeeRate(caller, x) \/ SetConfigured(caller, x)
               \/ RequestSettlementAuth(caller, id) \/ WithdrawFees(caller, x)
        PROVE  UNCHANGED acVars
    BY <2>2 DEF SetFeeRate, SetConfigured, RequestSettlementAuth, WithdrawFees
  <2>3. ASSUME NEW id, NEW x, NEW y, NEW z, SettlementAuth(id, x, y, z) \/ SettleInvoice(id, x, y)
        PROVE  UNCHANGED acVars
    BY <2>3 DEF SettlementAuth, SettleInvoice
  <2>4. CASE TickClock
    BY <2>4 DEF TickClock
  <2>. QED
    BY <1>2, <2>1, <2>2, <2>3, <2>4 DEF SCOps
<1>3. CASE ACOps
  BY <1>3 DEF ACNext
<1>4. CASE UNCHANGED scVars
  BY <1>4 DEF scVars
<1>. QED
  BY <1>1, <1>2, <1>3, <1>4 DEF SCNext

-----------------------------------------------------------------------------

\* Before init no invoice is registered and no fee was charged or withdrawn, so
\* that the counters init resets are the ones the history agrees with.
PotEmptyBeforeInit ==
    ~IsInitialized =>
        /\ DOMAIN records = {}
        /\ collectedFees = 0 /\ withdrawnFees = 0
        /\ fees = [charged |-> 0, paidOut |-> 0]

\* What the inductive invariant says of the contract's own storage.
PotInv == SCTypeOK /\ PotEmptyBeforeInit /\ PaymentsAreAccounted /\ NonceSingleUse

\* The inductive invariant.
SCInv == ACInv /\ PotInv

\* The initial state satisfies the inductive invariant.
LEMMA SCInvInit == SCInit => SCInv
<1>. SUFFICES ASSUME SCInit PROVE SCInv
  OBVIOUS
<1>1. ACInv
  BY ACInvInit DEF SCInit
<1>2. SCTypeOK
  BY DEF SCInit, SCTypeOK, EmptyStore
<1>3. PotEmptyBeforeInit /\ PaymentsAreAccounted
  BY DEF SCInit, PotEmptyBeforeInit, PaymentsAreAccounted, EmptyStore
<1>4. NonceSingleUse
  <2>1. Cardinality(Range(<<>>)) = 0
    <3>1. Range(<<>>) = {}
      BY DEF Range
    <3>. QED
      BY <3>1, FS_EmptySet
  <2>2. \A id \in SInvoiceIds : LoadNonceMeta(id).used_nonces = <<>>
    BY DEF SCInit, LoadNonceMeta, GetOr, EmptyStore
  <2>. QED
    BY <2>1, <2>2 DEF SCInit, NonceSingleUse
<1>. QED
  BY <1>1, <1>2, <1>3, <1>4 DEF SCInv, PotInv

\* The nonces on record depend on two variables only.
LEMMA NoncesUnchanged ==
    ASSUME NonceSingleUse, UNCHANGED <<nonceMeta, accepted>>
    PROVE  NonceSingleUse'
BY DEF NonceSingleUse, LoadNonceMeta, GetOr

\* init runs once, and the counters it resets are at zero already.
LEMMA SCInitializePreserves ==
    ASSUME PotInv, NEW signers \in SignerVecs, NEW timelock \in Timelocks,
           NEW threshold \in Thresholds(signers), SCInitialize(signers, threshold, timelock)
    PROVE  PotInv'
<1>1. /\ DOMAIN records = {} /\ collectedFees = 0 /\ withdrawnFees = 0
      /\ fees = [charged |-> 0, paidOut |-> 0]
  BY DEF PotInv, PotEmptyBeforeInit, SCInitialize, ACInitialize
<1>2. /\ feeRate' = 0 /\ collectedFees' = 0 /\ withdrawnFees' = 0 /\ settleGuard' = "Unlocked"
      /\ UNCHANGED <<records, nonceMeta, configured, now, accepted, paid, fees>>
  BY DEF SCInitialize
<1>3. SCTypeOK'
  BY <1>2 DEF PotInv, SCTypeOK
<1>4. PotEmptyBeforeInit' /\ PaymentsAreAccounted'
  BY <1>1, <1>2 DEF PotInv, PotEmptyBeforeInit, PaymentsAreAccounted
<1>5. NonceSingleUse'
  BY <1>2, NoncesUnchanged DEF PotInv
<1>. QED
  BY <1>3, <1>4, <1>5 DEF PotInv

\* A signer exists only once the contract is initialised.
LEMMA AdminImpliesInitialized ==
    ASSUME NEW caller, RequireAdmin(caller)
    PROVE  IsInitialized
<1>1. Range(<<>>) = {}
  BY DEF Range
<1>. QED
  BY <1>1 DEF RequireAdmin, IsSigner, IsInitialized, NoMultisig

\* Registering an invoice starts its principal and its payments at zero and keeps
\* its used nonces.
LEMMA SetInvoiceDataPreserves ==
    ASSUME PotInv, NEW caller \in Address, NEW id \in SInvoiceIds,
           NEW borrower \in Address, NEW financier \in Address,
           NEW amount \in RecordAmounts, NEW dueDate \in RecordDueDates,
           SetInvoiceData(caller, id, borrower, financier, amount, dueDate)
    PROVE  PotInv'
<1>. DEFINE rec == [borrower |-> borrower, financier |-> financier, amount |-> amount,
          due_date |-> dueDate, principal_paid |-> 0, status |-> "ApprovedForSettlement",
          lender_approved |-> FALSE, payer_approved |-> FALSE,
          lender_allowed |-> TRUE, payer_allowed |-> FALSE]
<1>1. /\ records' = Put(records, id, rec)
      /\ paid' = [paid EXCEPT ![id] = [amount |-> 0, fee |-> 0]]
      /\ UNCHANGED <<nonceMeta, feeRate, collectedFees, withdrawnFees, configured,
                     settleGuard, now, accepted, fees, multisig>>
  BY DEF SetInvoiceData, acVars
<1>2. rec \in InvoiceRecord /\ rec.principal_paid = 0
  BY SettlementInputsAssumption DEF InvoiceRecord, SettlementStatus
<1>3. /\ DOMAIN records' = DOMAIN records \cup {id}
      /\ records'[id] = rec
      /\ \A k \in DOMAIN records : k # id => records'[k] = records[k]
  BY <1>1 DEF Put
<1>4. paid \in [SInvoiceIds -> [amount : Int, fee : Int]] /\ DOMAIN records \subseteq SInvoiceIds
  BY DEF PotInv, SCTypeOK
<1>5. /\ paid' \in [SInvoiceIds -> [amount : Int, fee : Int]]
      /\ paid'[id].amount = 0 /\ paid'[id].fee = 0
      /\ \A k \in SInvoiceIds : k # id => paid'[k] = paid[k]
  BY <1>1, <1>4
<1>6. SCTypeOK'
  BY <1>1, <1>2, <1>3, <1>5 DEF PotInv, SCTypeOK
<1>7. PotEmptyBeforeInit'
  <2>1. IsInitialized
    BY AdminImpliesInitialized DEF SetInvoiceData
  <2>. QED
    BY <1>1, <2>1 DEF PotEmptyBeforeInit, IsInitialized
<1>8. PaymentsAreAccounted'
  <2>. HIDE DEF rec
  <2>1. \A k \in DOMAIN records' : records'[k].principal_paid = paid'[k].amount - paid'[k].fee
    BY <1>2, <1>3, <1>4, <1>5 DEF PotInv, PaymentsAreAccounted
  <2>. QED
    BY <1>1, <2>1 DEF PotInv, PaymentsAreAccounted
<1>9. NonceSingleUse'
  BY <1>1, NoncesUnchanged DEF PotInv
<1>. QED
  BY <1>6, <1>7, <1>8, <1>9 DEF PotInv

\* Approvals change neither the principal nor the amount owed.
LEMMA AuthorisationPreserves ==
    ASSUME PotInv, NEW id \in SInvoiceIds, Has(records, id),
           NEW rec \in InvoiceRecord, rec.principal_paid = records[id].principal_paid,
           records' = [records EXCEPT ![id] = rec],
           UNCHANGED <<nonceMeta, feeRate, collectedFees, withdrawnFees, configured,
                       settleGuard, now, accepted, paid, fees, multisig>>
    PROVE  PotInv'
<1>1. DOMAIN records \subseteq SInvoiceIds /\ id \in DOMAIN records
  BY DEF PotInv, SCTypeOK, Has
<1>2. /\ DOMAIN records' = DOMAIN records
      /\ \A k \in DOMAIN records : k # id => records'[k] = records[k]
      /\ records'[id] = rec
  BY <1>1
<1>3. SCTypeOK'
  BY <1>1, <1>2 DEF PotInv, SCTypeOK
<1>4. PotEmptyBeforeInit' /\ PaymentsAreAccounted'
  BY <1>2 DEF PotInv, PotEmptyBeforeInit, PaymentsAreAccounted, IsInitialized
<1>5. NonceSingleUse'
  BY NoncesUnchanged DEF PotInv
<1>. QED
  BY <1>3, <1>4, <1>5 DEF PotInv

\* A withdrawal moves fees out of the pot and never more than it holds.
LEMMA WithdrawFeesPreserves ==
    ASSUME PotInv, NEW caller \in Address, NEW amount \in FeeWithdrawals,
           WithdrawFees(caller, amount)
    PROVE  PotInv'
<1>1. amount \in Int /\ amount <= collectedFees /\ collectedFees \in Int /\ withdrawnFees \in Int
  BY SettlementInputsAssumption DEF PotInv, SCTypeOK, WithdrawFees
<1>2. /\ collectedFees' = collectedFees - amount /\ withdrawnFees' = withdrawnFees + amount
      /\ fees' = [fees EXCEPT !.paidOut = IF amount > 0 THEN @ + amount ELSE @]
      /\ UNCHANGED <<records, nonceMeta, feeRate, configured,
                     settleGuard, now, accepted, paid, multisig>>
  BY DEF WithdrawFees, acVars
<1>3. fees \in [charged : Int, paidOut : Int]
  BY DEF PotInv, SCTypeOK
<1>4. fees' \in [charged : Int, paidOut : Int] /\ fees'.charged = fees.charged
  BY <1>1, <1>2, <1>3
<1>5. SCTypeOK'
  BY <1>1, <1>2, <1>4 DEF PotInv, SCTypeOK
<1>6. PotEmptyBeforeInit'
  BY <1>2, AdminImpliesInitialized DEF WithdrawFees, PotEmptyBeforeInit, IsInitialized
<1>7. PaymentsAreAccounted'
  BY <1>1, <1>2, <1>3, <1>4 DEF PotInv, PaymentsAreAccounted
<1>8. NonceSingleUse'
  BY <1>2, NoncesUnchanged DEF PotInv
<1>. QED
  BY <1>5, <1>6, <1>7, <1>8 DEF PotInv

\* An accepted settlement adds its fee to the pot, its net amount to the principal
\* and one fresh nonce to those on record.
LEMMA SettleInvoicePreserves ==
    ASSUME PotInv, NEW id \in SInvoiceIds, NEW nonce \in Nonces, NEW amount \in PayAmounts,
           SettleInvoice(id, nonce, amount)
    PROVE  PotInv'
<1>. DEFINE fee == (amount * feeRate) \div 10000
            principal == records[id].principal_paid + (amount - fee)
            status == IF principal >= records[id].amount THEN "Settled" ELSE records[id].status
            meta == LoadNonceMeta(id)
<1>1. /\ feeRate \in Nat /\ collectedFees \in Int /\ withdrawnFees \in Int
      /\ accepted \in [SInvoiceIds -> Nat]
      /\ paid \in [SInvoiceIds -> [amount : Int, fee : Int]]
      /\ fees \in [charged : Int, paidOut : Int]
      /\ DOMAIN records \subseteq SInvoiceIds /\ DOMAIN nonceMeta \subseteq SInvoiceIds
      /\ \A k \in DOMAIN records : records[k] \in InvoiceRecord
      /\ \A k \in DOMAIN nonceMeta : nonceMeta[k] \in NonceMeta
  BY DEF PotInv, SCTypeOK
<1>2. amount \in Nat /\ id \in DOMAIN records /\ records[id] \in InvoiceRecord
  BY <1>1, SettlementInputsAssumption DEF SettleInvoice, Has
<1>3. fee \in Nat
  <2>1. feeRate \in Nat /\ amount \in Nat  BY <1>1, <1>2, Zenon
  <2>. QED  BY <2>1, FeeBounds
<1>4. /\ collectedFees' = collectedFees + fee
      /\ records' = [records EXCEPT ![id].principal_paid = principal, ![id].status = status]
      /\ paid' = [paid EXCEPT ![id] = [amount |-> @.amount + amount, fee |-> @.fee + fee]]
      /\ fees' = [fees EXCEPT !.charged = @ + fee]
      /\ nonceMeta' = Put(nonceMeta, id, MarkUsed(meta, nonce))
      /\ accepted' = [accepted EXCEPT ![id] = @ + 1]
      /\ settleGuard' = "Unlocked"
      /\ UNCHANGED <<feeRate, withdrawnFees, configured, now, multisig>>
      /\ nonce \notin Range(meta.used_nonces)
  BY DEF SettleInvoice, NonceIsValid, acVars
<1>. HIDE DEF fee
<1>5. principal \in Int /\ status \in SettlementStatus
  BY <1>2, <1>3 DEF InvoiceRecord, SettlementStatus
<1>. HIDE DEF status
<1>6. /\ DOMAIN records' = DOMAIN records
      /\ \A k \in DOMAIN records : k # id => records'[k] = records[k]
      /\ records'[id] = [records[id] EXCEPT !.principal_paid = principal, !.status = status]
  BY <1>2, <1>4
<1>7. records'[id] \in InvoiceRecord /\ records'[id].principal_paid = principal
  <2>. HIDE DEF principal
  <2>. QED
    BY <1>2, <1>5, <1>6 DEF InvoiceRecord
<1>8. /\ paid' \in [SInvoiceIds -> [amount : Int, fee : Int]]
      /\ paid'[id].amount = paid[id].amount + amount
      /\ paid'[id].fee = paid[id].fee + fee
      /\ \A k \in SInvoiceIds : k # id => paid'[k] = paid[k]
  BY <1>1, <1>2, <1>3, <1>4
<1>9. fees' \in [charged : Int, paidOut : Int] /\ fees'.charged = fees.charged + fee
  BY <1>1, <1>3, <1>4
<1>10. meta \in NonceMeta /\ MarkUsed(meta, nonce) \in NonceMeta
       /\ MarkUsed(meta, nonce).used_nonces = Append(meta.used_nonces, nonce)
  <2>1. meta \in NonceMeta
    BY <1>1 DEF LoadNonceMeta, GetOr, NonceMeta
  <2>. HIDE DEF meta
  <2>. QED
    BY <2>1 DEF MarkUsed, NonceMeta
<1>. HIDE DEF meta
<1>11. /\ DOMAIN nonceMeta' = DOMAIN nonceMeta \cup {id}
       /\ nonceMeta'[id] = MarkUsed(meta, nonce)
       /\ \A k \in DOMAIN nonceMeta : k # id => nonceMeta'[k] = nonceMeta[k]
  BY <1>4 DEF Put
<1>12. accepted' \in [SInvoiceIds -> Nat] /\ accepted'[id] = accepted[id] + 1
       /\ \A k \in SInvoiceIds : k # id => accepted'[k] = accepted[k]
  BY <1>1, <1>4
<1>13. SCTypeOK'
  <2>1. /\ DOMAIN records' \subseteq SInvoiceIds
        /\ \A k \in DOMAIN records' : records'[k] \in InvoiceRecord
    BY <1>1, <1>6, <1>7
  <2>2. /\ DOMAIN nonceMeta' \subseteq SInvoiceIds
        /\ \A k \in DOMAIN nonceMeta' : nonceMeta'[k] \in NonceMeta
    BY <1>1, <1>10, <1>11
  <2>3. collectedFees' \in Int /\ withdrawnFees' \in Int /\ feeRate' \in Nat
    BY <1>1, <1>3, <1>4
  <2>. QED
    BY <1>4, <1>8, <1>9, <1>12, <2>1, <2>2, <2>3 DEF PotInv, SCTypeOK
<1>14. PotEmptyBeforeInit'
  BY <1>2, <1>4 DEF PotInv, PotEmptyBeforeInit, IsInitialized
<1>15. PaymentsAreAccounted'
  <2>1. records'[id].principal_paid = paid'[id].amount - paid'[id].fee
    BY <1>1, <1>2, <1>3, <1>7, <1>8 DEF PotInv, PaymentsAreAccounted, InvoiceRecord
  <2>2. \A k \in DOMAIN records' : records'[k].principal_paid = paid'[k].amount - paid'[k].fee
    BY <1>1, <1>6, <1>8, <2>1 DEF PotInv, PaymentsAreAccounted
  <2>3. fees'.charged = collectedFees' + withdrawnFees' /\ collectedFees' >= 0
    BY <1>1, <1>3, <1>4, <1>9 DEF PotInv, PaymentsAreAccounted
  <2>. QED
    BY <2>2, <2>3 DEF PaymentsAreAccounted
<1>16. NonceSingleUse'
  <2>1. ASSUME NEW k \in SInvoiceIds, k # id
        PROVE  accepted'[k] = Cardinality(Range(LoadNonceMeta(k).used_nonces)')
    BY <1>11, <1>12, <2>1 DEF PotInv, NonceSingleUse, LoadNonceMeta, GetOr
  <2>2. accepted'[id] = Cardinality(Range(LoadNonceMeta(id).used_nonces)')
    <3>1. LoadNonceMeta(id)' = MarkUsed(meta, nonce)
      BY <1>11 DEF LoadNonceMeta, GetOr
    <3>2. meta.used_nonces \in Seq(Nonces)
      BY <1>10 DEF NonceMeta
    <3>3. Range(Append(meta.used_nonces, nonce)) = Range(meta.used_nonces) \cup {nonce}
      BY <3>2, RangeAppend
    <3>4. Cardinality(Range(meta.used_nonces) \cup {nonce}) = Cardinality(Range(meta.used_nonces)) + 1
      BY <1>4, <3>2, RangeIsFinite, FS_AddElement
    <3>5. accepted[id] = Cardinality(Range(meta.used_nonces))
      BY DEF PotInv, NonceSingleUse, meta
    <3>. QED
      BY <1>10, <1>12, <3>1, <3>3, <3>4, <3>5
  <2>. QED
    BY <2>1, <2>2 DEF NonceSingleUse
<1>. QED
  BY <1>13, <1>14, <1>15, <1>16 DEF PotInv

\* Steps of the access control, the clock and the stored settings leave the ledger
\* of payments alone.
LEMMA PaymentsUnchanged ==
    ASSUME PotInv, SCTypeOK', IsInitialized => IsInitialized',
           UNCHANGED <<records, nonceMeta, collectedFees, withdrawnFees, accepted, paid, fees>>
    PROVE  PotInv'
<1>1. PotEmptyBeforeInit' /\ PaymentsAreAccounted'
  BY DEF PotInv, PotEmptyBeforeInit, PaymentsAreAccounted
<1>. QED
  BY <1>1, NoncesUnchanged DEF PotInv

\* Every step preserves the inductive invariant.
LEMMA SCInvNext == SCInv /\ [SCNext]_scVars => SCInv'
<1>. SUFFICES ASSUME SCInv, [SCNext]_scVars PROVE SCInv'
  OBVIOUS
<1>1. ACInv'
  BY SCStepIsACStep, ACInvNext DEF SCInv
<1>. SUFFICES PotInv'
  BY <1>1 DEF SCInv
<1>2. PotInv /\ ACInv
  BY DEF SCInv
<1>3. ASSUME NEW signers \in SignerVecs, NEW timelock \in Timelocks,
             NEW threshold \in Thresholds(signers), SCInitialize(signers, threshold, timelock)
      PROVE  PotInv'
  BY <1>2, <1>3, SCInitializePreserves
<1>4. ASSUME NEW caller \in Address, NEW id \in SInvoiceIds, NEW p \in Parties,
             NEW amount \in RecordAmounts, NEW dueDate \in RecordDueDates,
             SetInvoiceData(caller, id, p[1], p[2], amount, dueDate)
      PROVE  PotInv'
  <2>1. p[1] \in Address /\ p[2] \in Address
    BY SettlementInputsAssumption
  <2>. QED
    BY <1>2, <1>4, <2>1, SetInvoiceDataPreserves
<1>5. ASSUME NEW caller \in Address, NEW rate \in FeeRates, SetFeeRate(caller, rate)
      PROVE  PotInv'
  <2>1. rate \in Nat
    BY SettlementInputsAssumption
  <2>2. SCTypeOK'
    BY <1>2, <1>5, <2>1 DEF SetFeeRate, PotInv, SCTypeOK
  <2>. QED
    BY <1>2, <1>5, <2>2, PaymentsUnchanged DEF SetFeeRate, acVars, IsInitialized
<1>6. ASSUME NEW caller \in Address, NEW key \in ConfigKeys, SetConfigured(caller, key)
      PROVE  PotInv'
  <2>1. SCTypeOK'
    BY <1>2, <1>6 DEF SetConfigured, PotInv, SCTypeOK
  <2>. QED
    BY <1>2, <1>6, <2>1, PaymentsUnchanged DEF SetConfigured, acVars, IsInitialized
<1>7. ASSUME NEW caller \in Address, NEW id \in SInvoiceIds, RequestSettlementAuth(caller, id)
      PROVE  PotInv'
  <2>. DEFINE r == records[id]
              payer == r.payer_approved \/ caller = r.borrower
              lender == r.lender_approved \/ caller = r.financier
  <2>1. Has(records, id) /\ id \in DOMAIN records /\ r \in InvoiceRecord
    BY <1>2, <1>7 DEF RequestSettlementAuth, Has, PotInv, SCTypeOK
  <2>2. /\ records' = [records EXCEPT ![id].payer_approved = payer, ![id].lender_approved = lender]
        /\ UNCHANGED <<nonceMeta, feeRate, collectedFees, withdrawnFees, configured,
                       settleGuard, now, accepted, paid, fees, multisig>>
    BY <1>7 DEF RequestSettlementAuth, acVars
  <2>3. payer \in BOOLEAN /\ lender \in BOOLEAN
    BY <2>1 DEF InvoiceRecord
  <2>. HIDE DEF payer, lender
  <2>4. PICK rec : rec = [r EXCEPT !.payer_approved = payer, !.lender_approved = lender]
    OBVIOUS
  <2>5. rec \in InvoiceRecord /\ rec.principal_paid = r.principal_paid
    BY <2>1, <2>3, <2>4 DEF InvoiceRecord
  <2>6. records' = [records EXCEPT ![id] = rec]
    BY <2>1, <2>2, <2>4
  <2>. QED
    BY <1>2, <2>1, <2>2, <2>5, <2>6, AuthorisationPreserves
<1>8. ASSUME NEW caller \in Address, NEW amount \in FeeWithdrawals, WithdrawFees(caller, amount)
      PROVE  PotInv'
  BY <1>2, <1>8, WithdrawFeesPreserves
<1>9. ASSUME NEW id \in SInvoiceIds, NEW f \in AuthFlags, SettlementAuth(id, f[1], f[2], f[3])
      PROVE  PotInv'
  <2>. DEFINE r == records[id]
              payer == r.payer_approved \/ (f[2] /\ ~f[1])
              lenderAllowed == r.lender_allowed \/ (f[2] /\ ~f[1])
              lender == r.lender_approved \/ (f[3] /\ f[1])
              payerAllowed == r.payer_allowed \/ (f[3] /\ f[1])
  <2>1. Has(records, id) /\ id \in DOMAIN records /\ r \in InvoiceRecord
    BY <1>2, <1>9 DEF SettlementAuth, Has, PotInv, SCTypeOK
  <2>2. /\ records' = [records EXCEPT ![id].payer_approved = payer,
                                      ![id].lender_allowed = lenderAllowed,
                                      ![id].lender_approved = lender,
                                      ![id].payer_allowed = payerAllowed]
        /\ UNCHANGED <<nonceMeta, feeRate, collectedFees, withdrawnFees, configured,
                       settleGuard, now, accepted, paid, fees, multisig>>
    BY <1>9, <2>1 DEF SettlementAuth, acVars
  <2>3. payer \in BOOLEAN /\ lender \in BOOLEAN
        /\ payerAllowed \in BOOLEAN /\ lenderAllowed \in BOOLEAN
    BY <2>1 DEF InvoiceRecord
  <2>. HIDE DEF payer, lender, payerAllowed, lenderAllowed
  <2>4. PICK rec : rec = [r EXCEPT !.payer_approved = payer, !.lender_allowed = lenderAllowed,
                                   !.lender_approved = lender, !.payer_allowed = payerAllowed]
    OBVIOUS
  <2>5. rec \in InvoiceRecord /\ rec.principal_paid = r.principal_paid
    BY <2>1, <2>3, <2>4 DEF InvoiceRecord
  <2>6. records' = [records EXCEPT ![id] = rec]
    BY <2>1, <2>2, <2>4
  <2>. QED
    BY <1>2, <2>1, <2>2, <2>5, <2>6, AuthorisationPreserves
<1>10. ASSUME NEW id \in SInvoiceIds, NEW nonce \in Nonces, NEW amount \in PayAmounts,
              SettleInvoice(id, nonce, amount)
       PROVE  PotInv'
  BY <1>2, <1>10, SettleInvoicePreserves
<1>11. CASE TickClock
  <2>1. SCTypeOK'
    BY <1>2, <1>11, ClockAssumption DEF TickClock, PotInv, SCTypeOK
  <2>. QED
    BY <1>2, <1>11, <2>1, PaymentsUnchanged DEF TickClock, acVars, IsInitialized
<1>12. CASE ACOps /\ UNCHANGED settlementVars
  <2>1. SCTypeOK'
    BY <1>2, <1>12 DEF settlementVars, PotInv, SCTypeOK
  <2>2. IsInitialized => IsInitialized'
    BY <1>2, <1>12, InitializedStays
  <2>. QED
    BY <1>2, <1>12, <2>1, <2>2, PaymentsUnchanged DEF settlementVars
<1>13. CASE UNCHANGED scVars
  <2>1. SCTypeOK'
    BY <1>2, <1>13 DEF scVars, settlementVars, PotInv, SCTypeOK
  <2>. QED
    BY <1>2, <1>13, <2>1, PaymentsUnchanged DEF scVars, settlementVars, acVars, IsInitialized
<1>. QED
  BY <1>3, <1>4, <1>5, <1>6, <1>7, <1>8, <1>9, <1>10, <1>11, <1>12, <1>13 DEF SCNext, SCOps

-----------------------------------------------------------------------------
(* The theorems. *)

\* The inductive invariant holds in every reachable state.
THEOREM SCInvariance == SCSpec => []SCInv
<1>1. SCInit => SCInv
  BY SCInvInit
<1>2. SCInv /\ [SCNext]_scVars => SCInv'
  BY SCInvNext
<1>. QED
  BY <1>1, <1>2, PTL DEF SCSpec

\* Every nonce settles an invoice at most once, however often set_invoice_data
\* registers that invoice again: there are as many distinct nonces on record as
\* accepted settlements.
THEOREM NoncesAreSingleUse == SCSpec => []NonceSingleUse
<1>1. SCInv => NonceSingleUse
  BY DEF SCInv, PotInv
<1>. QED
  BY <1>1, SCInvariance, PTL

\* Every payment is split into a fee, charged once, and principal; the fees charged
\* are the pot and the withdrawn total together and the pot is never overdrawn, for
\* amounts of either sign passed to withdraw_fees; and the reentrancy guard is never
\* left locked.
THEOREM SettlementInvHolds == SCSpec => []SettlementInv
<1>1. SCInv => SettlementInv
  BY DEF SCInv, PotInv, SettlementInv
<1>. QED
  BY <1>1, SCInvariance, PTL

\* An accepted settlement never lowers the principal paid while the fee rate is at
\* most 100%, and turns an invoice Settled only once its principal covers the
\* amount owed.
THEOREM SettledNeedsPrincipal == SCSpec => PrincipalGatesSettled
<1>. DEFINE Gate == \A id \in SInvoiceIds : accepted'[id] # accepted[id] =>
         /\ feeRate <= 10000 => records'[id].principal_paid >= records[id].principal_paid
         /\ (records[id].status # "Settled" /\ records'[id].status = "Settled") =>
              records'[id].principal_paid >= records'[id].amount
<1>1. ASSUME SCInv, SCNext PROVE Gate
  <2>1. CASE UNCHANGED accepted
    BY <2>1
  <2>2. ASSUME NEW id \in SInvoiceIds, NEW nonce \in Nonces, NEW amount \in PayAmounts,
               SettleInvoice(id, nonce, amount)
        PROVE  Gate
    <3>. DEFINE fee == (amount * feeRate) \div 10000
                principal == records[id].principal_paid + (amount - fee)
                status == IF principal >= records[id].amount THEN "Settled" ELSE records[id].status
    <3>1. /\ feeRate \in Nat /\ accepted \in [SInvoiceIds -> Nat]
          /\ id \in DOMAIN records /\ records[id] \in InvoiceRecord
      BY <1>1, <2>2 DEF SCInv, PotInv, SCTypeOK, SettleInvoice, Has
    <3>2. amount \in Nat
      BY <2>2, <3>1, SettlementInputsAssumption DEF SettleInvoice
    <3>3. fee \in Nat /\ (feeRate <= 10000 => fee <= amount)
      BY <3>1, <3>2, FeeBounds
    <3>4. /\ records' = [records EXCEPT ![id].principal_paid = principal, ![id].status = status]
          /\ accepted' = [accepted EXCEPT ![id] = @ + 1]
      BY <2>2 DEF SettleInvoice
    <3>. HIDE DEF fee
    <3>5. /\ records'[id].principal_paid = principal
          /\ records'[id].status = status
          /\ records'[id].amount = records[id].amount
      BY <3>1, <3>4 DEF InvoiceRecord
    <3>6. \A k \in SInvoiceIds : accepted'[k] # accepted[k] => k = id
      BY <3>1, <3>4
    <3>7. records[id].principal_paid \in Int
      BY <3>1 DEF InvoiceRecord
    <3>8. feeRate <= 10000 => records'[id].principal_paid >= records[id].principal_paid
      BY <3>2, <3>3, <3>5, <3>7
    <3>9. (records[id].status # "Settled" /\ records'[id].status = "Settled") =>
              records'[id].principal_paid >= records'[id].amount
      BY <3>5
    <3>. QED
      BY <3>6, <3>8, <3>9
  <2>3. ASSUME NEW caller, NEW id, NEW b, NEW f, NEW amount, NEW dueDate,
               \/ SCInitialize(caller, id, b)
               \/ SetInvoiceData(caller, id, b, f, amount, dueDate)
               \/ SetFeeRate(caller, amount) \/ SetConfigured(caller, amount)
               \/ RequestSettlementAuth(caller, id) \/ WithdrawFees(caller, amount)
               \/ SettlementAuth(id, b, f, amount) \/ TickClock
        PROVE  UNCHANGED accepted
    BY <2>3 DEF SCInitialize, SetInvoiceData, SetFeeRate, SetConfigured, RequestSettlementAuth,
                WithdrawFees, SettlementAuth, TickClock
  <2>4. CASE UNCHANGED settlementVars
    BY <2>1, <2>4 DEF settlementVars
  <2>. HIDE DEF Gate
  <2>. QED
    BY <1>1, <2>1, <2>2, <2>3, <2>4 DEF SCNext, SCOps
<1>. QED
  BY <1>1, SCInvariance, PTL DEF SCSpec, PrincipalGatesSettled

\* The settlement contract keeps everything the access-control crate promises.
THEOREM SCImplementsAC == SCSpec => ACSpec
<1>1. SCInit => ACInit
  BY DEF SCInit
<1>2. [SCNext]_scVars => [ACNext]_acVars
  BY SCStepIsACStep
<1>. QED
  BY <1>1, <1>2, PTL DEF SCSpec, ACSpec
=============================================================================
