------------------------- MODULE SettlementContract -------------------------
(***************************************************************************)
(* The settlement contract (contracts/settlement/src/lib.rs, types.rs):    *)
(* repayments of registered invoices, each under a nonce that may be used  *)
(* once, split into a protocol fee and a net amount that counts towards    *)
(* the principal; the fee pot; and the parties' settlement approvals.      *)
(*                                                                         *)
(* set_authorized_payers, set_financiers and submit_attestation only       *)
(* publish events and are left out.  The reentrancy guard is kept as the   *)
(* value each call leaves behind (settle_invoice sets and releases it      *)
(* around the place of a future cross-contract call).                      *)
(***************************************************************************)
EXTENDS AccessControl, Storage, CheckedMath

CONSTANTS
    SInvoiceIds,      \* the invoice ids (symbols) callers pass
    Parties,          \* the (borrower, financier) pairs passed to set_invoice_data
    RecordAmounts,    \* the amounts passed to set_invoice_data
    RecordDueDates,   \* the due dates passed to set_invoice_data
    FeeRates,         \* the rates passed to set_fee_rate
    Nonces,           \* the nonces passed to settle_invoice, only ever compared
    PayAmounts,       \* the amounts passed to settle_invoice
    FeeWithdrawals,   \* the amounts passed to withdraw_fees, also negative ones
    MaxPot, MaxPaidOut, \* bounds: how far a negative withdrawal raises the pot, and
                        \* how much the model pays out of it
    ConfigKeys,       \* of EscrowPubKey and FinancingPoolAddress, the ones set
    AuthFlags,        \* the (did_pay, is_buyer, is_payee) passed to settlement_auth
    Clock,            \* the ledger timestamps the model visits, in seconds
    NONCE_WINDOW      \* 2592000 seconds, 30 days

ASSUME SettlementInputsAssumption ==
    /\ Parties \subseteq Address \X Address
    /\ RecordAmounts \subseteq Int
    /\ RecordDueDates \subseteq Nat
    /\ FeeRates \subseteq Nat
    /\ ConfigKeys \subseteq {"EscrowPubKey", "FinancingPoolAddress"}
    /\ PayAmounts \subseteq Int
    /\ FeeWithdrawals \subseteq Int /\ MaxPot \in Nat /\ MaxPaidOut \in Nat
    /\ AuthFlags \subseteq BOOLEAN \X BOOLEAN \X BOOLEAN
ASSUME ClockAssumption == Clock \subseteq Nat /\ 0 \in Clock /\ NONCE_WINDOW \in Nat

VARIABLES
    records,          \* StorageKey::InvoiceData(id)
    nonceMeta,        \* StorageKey::NonceMeta(id)
    feeRate,          \* StorageKey::FeeRate
    collectedFees,    \* StorageKey::CollectedFees: fees not yet withdrawn
    withdrawnFees,    \* StorageKey::WithdrawnFees
    configured,       \* which of EscrowPubKey, FinancingPoolAddress are stored
    settleGuard,      \* StorageKey::ReentrancyGuard
    now,              \* env.ledger().timestamp()
    accepted,         \* history: settle_invoice calls accepted for each id
    paid,             \* history: amount and fee paid for each id since registered
    fees              \* history: fees ever charged, and ever paid out

settlementVars == <<records, nonceMeta, feeRate, collectedFees, withdrawnFees,
                    configured, settleGuard, now, accepted, paid, fees>>
scVars == <<acVars, settlementVars>>

SettlementStatus == {"ApprovedForSettlement", "Settled"}
InvoiceRecord ==
    [borrower : Address, financier : Address, amount : Int, due_date : Nat,
     principal_paid : Int, status : SettlementStatus,
     lender_approved : BOOLEAN, payer_approved : BOOLEAN,
     lender_allowed : BOOLEAN, payer_allowed : BOOLEAN]
NonceMeta == [used_nonces : Seq(Nonces), due_date : Nat]

-----------------------------------------------------------------------------
(* NonceMeta of types.rs. *)

\* load: a nonce record that is not stored yet starts with due date 0.
LoadNonceMeta(id) == GetOr(nonceMeta, id, [used_nonces |-> <<>>, due_date |-> 0])

NonceIsValid(nm, nonce) ==
    /\ nonce \notin Range(nm.used_nonces)
    /\ now <= nm.due_date + NONCE_WINDOW

MarkUsed(nm, nonce) == [nm EXCEPT !.used_nonces = Append(@, nonce)]

-----------------------------------------------------------------------------
(* Operations. *)

SCInitialize(signers, threshold, timelock) ==
    /\ ACInitialize(signers, threshold, timelock)
    /\ feeRate' = 0
    /\ collectedFees' = 0
    /\ withdrawnFees' = 0
    /\ settleGuard' = "Unlocked"
    /\ UNCHANGED <<records, nonceMeta, configured, now, accepted, paid, fees>>

\* Mutant of SetInvoiceData: registering an invoice also forgets its nonces.
SetInvoiceDataAndNonces(caller, id, borrower, financier, amount, dueDate) ==
    /\ RequireAdmin(caller)
    /\ records' = Put(records, id,
         [borrower |-> borrower, financier |-> financier, amount |-> amount,
          due_date |-> dueDate, principal_paid |-> 0, status |-> "ApprovedForSettlement",
          lender_approved |-> FALSE, payer_approved |-> FALSE,
          lender_allowed |-> TRUE, payer_allowed |-> FALSE])
    /\ nonceMeta' = Put(nonceMeta, id, [used_nonces |-> <<>>, due_date |-> dueDate])
    /\ paid' = [paid EXCEPT ![id] = [amount |-> 0, fee |-> 0]]
    /\ UNCHANGED <<feeRate, collectedFees, withdrawnFees, configured,
                   settleGuard, now, accepted, fees, acVars>>

\* Registers the invoice, or replaces its record: the principal starts again at
\* zero while the used nonces stay.
SetInvoiceData(caller, id, borrower, financier, amount, dueDate) ==
    /\ RequireAdmin(caller)
    /\ records' = Put(records, id,
         [borrower |-> borrower, financier |-> financier, amount |-> amount,
          due_date |-> dueDate, principal_paid |-> 0, status |-> "ApprovedForSettlement",
          lender_approved |-> FALSE, payer_approved |-> FALSE,
          lender_allowed |-> TRUE, payer_allowed |-> FALSE])
    /\ paid' = [paid EXCEPT ![id] = [amount |-> 0, fee |-> 0]]
    /\ UNCHANGED <<nonceMeta, feeRate, collectedFees, withdrawnFees, configured,
                   settleGuard, now, accepted, fees, acVars>>

SetFeeRate(caller, rate) ==
    /\ RequireAdmin(caller)
    /\ feeRate' = rate
    /\ UNCHANGED <<records, nonceMeta, collectedFees, withdrawnFees, configured,
                   settleGuard, now, accepted, paid, fees, acVars>>

\* set_escrow_pubkey and set_financing_pool_address.
SetConfigured(caller, key) ==
    /\ RequireAdmin(caller)
    /\ configured' = configured \cup {key}
    /\ UNCHANGED <<records, nonceMeta, feeRate, collectedFees, withdrawnFees,
                   settleGuard, now, accepted, paid, fees, acVars>>

\* Any authenticated caller may record either side's approval.
SettlementAuth(id, didPay, isBuyer, isPayee) ==
    /\ Has(records, id)
    /\ records' = [records EXCEPT
         ![id].payer_approved  = @ \/ (isBuyer /\ ~didPay),
         ![id].lender_allowed  = @ \/ (isBuyer /\ ~didPay),
         ![id].lender_approved = @ \/ (isPayee /\ didPay),
         ![id].payer_allowed   = @ \/ (isPayee /\ didPay)]
    /\ UNCHANGED <<nonceMeta, feeRate, collectedFees, withdrawnFees, configured,
                   settleGuard, now, accepted, paid, fees, acVars>>

RequestSettlementAuth(caller, id) ==
    /\ Has(records, id)
    /\ LET payer  == records[id].payer_approved \/ caller = records[id].borrower
           lender == records[id].lender_approved \/ caller = records[id].financier
       IN  /\ payer \/ lender
           /\ records' = [records EXCEPT ![id].payer_approved = payer,
                                         ![id].lender_approved = lender]
    /\ UNCHANGED <<nonceMeta, feeRate, collectedFees, withdrawnFees, configured,
                   settleGuard, now, accepted, paid, fees, acVars>>

\* Mutant of WithdrawFees: what is paid out stays in the pot.
WithdrawFeesTwice(caller, amount) ==
    /\ RequireAdmin(caller)
    /\ RequireNotPaused
    /\ amount <= collectedFees
    /\ fees.paidOut + amount <= MaxPaidOut
    /\ withdrawnFees' = withdrawnFees + amount
    /\ fees' = [fees EXCEPT !.paidOut = IF amount > 0 THEN @ + amount ELSE @]
    /\ UNCHANGED <<records, nonceMeta, feeRate, collectedFees, configured,
                   settleGuard, now, accepted, paid, acVars>>

\* collectedFees is what is left in the pot.  The amount has no lower bound, and
\* a negative one raises the pot by as much as it lowers the withdrawn total.
WithdrawFees(caller, amount) ==
    /\ IF amount > 0 THEN fees.paidOut + amount <= MaxPaidOut ELSE collectedFees - amount <= MaxPot
    /\ RequireAdmin(caller)
    /\ RequireNotPaused
    /\ amount <= collectedFees
    /\ CheckedSub(collectedFees, amount)
    /\ CheckedAdd(withdrawnFees, amount)
    /\ collectedFees' = collectedFees - amount
    /\ withdrawnFees' = withdrawnFees + amount
    /\ fees' = [fees EXCEPT !.paidOut = IF amount > 0 THEN @ + amount ELSE @]
    /\ UNCHANGED <<records, nonceMeta, feeRate, configured,
                   settleGuard, now, accepted, paid, acVars>>

\* Mutant of SettleInvoice: settled as soon as the payments, not the principal,
\* reach the amount owed.
SettleInvoiceEarly(id, nonce, amount) ==
    /\ RequireNotPaused
    /\ settleGuard = "Unlocked"
    /\ NonceIsValid(LoadNonceMeta(id), nonce)
    /\ Has(records, id)
    /\ 0 < amount /\ amount <= records[id].amount
    /\ LET fee       == (amount * feeRate) \div 10000
           principal == records[id].principal_paid + amount - fee
       IN  /\ collectedFees' = collectedFees + fee
           /\ records' = [records EXCEPT
                ![id].principal_paid = principal,
                ![id].status = IF principal + fee >= records[id].amount THEN "Settled" ELSE @]
           /\ paid' = [paid EXCEPT ![id] = [amount |-> @.amount + amount, fee |-> @.fee + fee]]
           /\ fees' = [fees EXCEPT !.charged = @ + fee]
    /\ nonceMeta' = Put(nonceMeta, id, MarkUsed(LoadNonceMeta(id), nonce))
    /\ settleGuard' = "Unlocked"
    /\ accepted' = [accepted EXCEPT ![id] = @ + 1]
    /\ UNCHANGED <<feeRate, withdrawnFees, configured, now, acVars>>

\* A settled invoice still accepts payments: no status is looked at.
SettleInvoice(id, nonce, amount) ==
    /\ RequireNotPaused
    /\ settleGuard = "Unlocked"
    /\ NonceIsValid(LoadNonceMeta(id), nonce)
    /\ Has(records, id)
    /\ 0 < amount /\ amount <= records[id].amount
    /\ CheckedMul(amount, feeRate)
    /\ LET fee       == (amount * feeRate) \div 10000
           net       == amount - fee
           principal == records[id].principal_paid + net
       IN  /\ CheckedSub(amount, fee)
           /\ CheckedAdd(collectedFees, fee)
           /\ CheckedAdd(records[id].principal_paid, net)
           /\ collectedFees' = collectedFees + fee
           /\ records' = [records EXCEPT
                ![id].principal_paid = principal,
                ![id].status = IF principal >= records[id].amount THEN "Settled" ELSE @]
           /\ paid' = [paid EXCEPT ![id] = [amount |-> @.amount + amount, fee |-> @.fee + fee]]
           /\ fees' = [fees EXCEPT !.charged = @ + fee]
    /\ nonceMeta' = Put(nonceMeta, id, MarkUsed(LoadNonceMeta(id), nonce))
    /\ settleGuard' = "Unlocked"
    /\ accepted' = [accepted EXCEPT ![id] = @ + 1]
    /\ UNCHANGED <<feeRate, withdrawnFees, configured, now, acVars>>

\* The network closes a ledger with a later timestamp (external).
TickClock ==
    /\ \E t \in Clock : t > now /\ now' = t
    /\ UNCHANGED <<records, nonceMeta, feeRate, collectedFees, withdrawnFees, configured,
                   settleGuard, accepted, paid, fees, acVars>>

-----------------------------------------------------------------------------

SCInit ==
    /\ ACInit
    /\ records = EmptyStore
    /\ nonceMeta = EmptyStore
    /\ feeRate = 0
    /\ collectedFees = 0
    /\ withdrawnFees = 0
    /\ configured = {}
    /\ settleGuard = "Unlocked"
    /\ now = 0
    /\ accepted = [id \in SInvoiceIds |-> 0]
    /\ paid = [id \in SInvoiceIds |-> [amount |-> 0, fee |-> 0]]
    /\ fees = [charged |-> 0, paidOut |-> 0]

SCOps ==
    \/ \E caller \in Address :
         \/ \E id \in SInvoiceIds, p \in Parties,
               amount \in RecordAmounts, dueDate \in RecordDueDates :
              SetInvoiceData(caller, id, p[1], p[2], amount, dueDate)
         \/ \E rate \in FeeRates : SetFeeRate(caller, rate)
         \/ \E key \in ConfigKeys : SetConfigured(caller, key)
         \/ \E id \in SInvoiceIds : RequestSettlementAuth(caller, id)
         \/ \E amount \in FeeWithdrawals : WithdrawFees(caller, amount)
    \/ \E id \in SInvoiceIds :
         \/ \E f \in AuthFlags : SettlementAuth(id, f[1], f[2], f[3])
         \/ \E nonce \in Nonces, amount \in PayAmounts : SettleInvoice(id, nonce, amount)
    \/ TickClock

SCNext ==
    \/ \E signers \in SignerVecs, timelock \in Timelocks :
         \E threshold \in Thresholds(signers) : SCInitialize(signers, threshold, timelock)
    \/ SCOps
    \/ ACOps /\ UNCHANGED settlementVars

SCSpec == SCInit /\ [][SCNext]_scVars

-----------------------------------------------------------------------------
(* Properties. *)

\* Type invariant; no call leaves the reentrancy guard locked, which would shut
\* settle_invoice for good.
SCTypeOK ==
    /\ DOMAIN records \subseteq SInvoiceIds
    /\ \A id \in DOMAIN records : records[id] \in InvoiceRecord
    /\ DOMAIN nonceMeta \subseteq SInvoiceIds
    /\ \A id \in DOMAIN nonceMeta : nonceMeta[id] \in NonceMeta
    /\ feeRate \in Nat
    /\ collectedFees \in Int
    /\ withdrawnFees \in Int
    /\ configured \subseteq ConfigKeys
    /\ settleGuard = "Unlocked"
    /\ now \in Nat
    /\ accepted \in [SInvoiceIds -> Nat]
    /\ paid \in [SInvoiceIds -> [amount : Int, fee : Int]]
    /\ fees \in [charged : Int, paidOut : Int]

\* Nonce single use (protocol-spec invariant 13): as many distinct nonces are on
\* record for an invoice as settlements were accepted for it, over every number
\* of registrations of that invoice (settle_invoice, NonceMeta::is_valid,
\* set_invoice_data).
NonceSingleUse ==
    \A id \in SInvoiceIds :
        accepted[id] = Cardinality(Range(LoadNonceMeta(id).used_nonces))

\* Where every payment went: of what was paid for an invoice since it was
\* registered, the fee was taken once and the rest is its principal; the fees ever
\* charged, over all invoices and registrations, are the pot and the withdrawn
\* total together, and the pot is never overdrawn (settle_invoice, withdraw_fees).
PaymentsAreAccounted ==
    /\ \A id \in DOMAIN records :
         records[id].principal_paid = paid[id].amount - paid[id].fee
    /\ fees.charged = collectedFees + withdrawnFees
    /\ collectedFees >= 0

\* Invariant 15 of the protocol spec, which holds while the fee rate is at most
\* 100%: an accepted settlement never lowers the principal paid; and it turns the
\* status to Settled only when the principal paid covers the amount owed.
\* set_fee_rate does not check the rate, and above 100% a payment lowers the
\* principal paid, even of an invoice that is Settled.
PrincipalGatesSettled ==
    [][\A id \in SInvoiceIds : accepted'[id] # accepted[id] =>
         /\ feeRate <= 10000 => records'[id].principal_paid >= records[id].principal_paid
         /\ (records[id].status # "Settled" /\ records'[id].status = "Settled") =>
              records'[id].principal_paid >= records'[id].amount]_scVars

\* Invariant 16 of the protocol spec, which is falsified by "a successful fee
\* withdrawal that would make cumulative withdrawn fees exceed cumulative
\* collected fees": what was ever paid out of the pot was collected as a fee.
FeePayoutsAreBacked == fees.paidOut <= fees.charged

\* Section 6.3 of the protocol spec: the guard of settle_invoice is "nonce unused
\* and within due_date+30d".
NonceWindowFollowsDueDate ==
    \A id \in DOMAIN records, nonce \in Nonces :
        nonce \notin Range(LoadNonceMeta(id).used_nonces) =>
          (NonceIsValid(LoadNonceMeta(id), nonce) <=>
             now <= records[id].due_date + NONCE_WINDOW)

\* The stored state is well formed and every payment, fee and withdrawal is
\* accounted for, over all invoices, registrations and withdrawals of either
\* sign (settle_invoice, withdraw_fees).
SettlementInv == SCTypeOK /\ PaymentsAreAccounted
=============================================================================
