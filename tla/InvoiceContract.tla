--------------------------- MODULE InvoiceContract ---------------------------
(***************************************************************************)
(* The invoice contract (contracts/invoice/src/lib.rs): harvest invoices   *)
(* minted as on-chain assets, their ownership token, the one approved      *)
(* spender of each token, and the lifecycle Pending, Funded, Settled or    *)
(* Defaulted.  Roles, pause and the admin signer set are those of          *)
(* AccessControl, embedded in the contract's own storage.                  *)
(*                                                                         *)
(* crop and metadata are left out of the record: no operation reads them.  *)
(* Entry time-to-live is left out: an archived entry is restored by the    *)
(* host before a call may read it.                                         *)
(***************************************************************************)
EXTENDS AccessControl, Storage

CONSTANTS
    Amounts,           \* the amounts passed to mint
    DueDates,          \* the due dates passed to mint
    DiscountRates,     \* the discount rates passed to fund
    MAX_DISCOUNT_BPS,  \* 10_000
    U64Max,            \* the largest u64, the type of an invoice id
    MaxInvoices        \* bound: how many invoices the model mints

ASSUME InvoiceInputsAssumption ==
    /\ Amounts \subseteq Int
    /\ DueDates \subseteq Nat
    /\ DiscountRates \subseteq Nat
    /\ MAX_DISCOUNT_BPS \in Nat
ASSUME InvoiceIdAssumption ==
    U64Max \in Nat /\ MaxInvoices \in Nat /\ MaxInvoices <= U64Max

VARIABLES
    counter,     \* DataKey::Counter
    invoices,    \* DataKey::Invoice(id)
    tokens,      \* DataKey::Token(id), written by fund
    approvals,   \* DataKey::Approval(id), the approved spender
    approvedBy   \* history: the owner who gave the approval in `approvals'

invoiceVars == <<counter, invoices, tokens, approvals, approvedBy>>
icVars == <<acVars, invoiceVars>>

Status == {"Pending", "Funded", "Settled", "Defaulted"}
InvoiceId == 1 .. MaxInvoices

Invoice == [owner : Address, amount : Int, due_date : Nat, status : Status]
InvoiceToken == [face_value : Int, discount_rate : Nat, due_date : Nat]

IsTokenized(id) == Has(tokens, id)

\* Pending -> Funded is left to Fund, which also mints the token.
TransitionAllowed(from, to) ==
    <<from, to>> \in {<<"Pending", "Defaulted">>, <<"Funded", "Settled">>, <<"Funded", "Defaulted">>}

-----------------------------------------------------------------------------
(* Operations. *)

ICInitialize(signers, threshold, timelock) ==
    /\ ACInitialize(signers, threshold, timelock)
    /\ counter' = 0
    /\ UNCHANGED <<invoices, tokens, approvals, approvedBy>>

\* Mutant of Mint: the counter is not saved.
MintForgetsCounter(owner, amount, dueDate) ==
    /\ IsInitialized
    /\ RequireNotPaused
    /\ amount > 0
    /\ invoices' = Put(invoices, counter + 1, [owner |-> owner, amount |-> amount,
                                               due_date |-> dueDate, status |-> "Pending"])
    /\ UNCHANGED <<counter, tokens, approvals, approvedBy, acVars>>

\* The id is computed in i128 and cast to u64, so it wraps at U64Max.
Mint(owner, amount, dueDate) ==
    /\ counter < MaxInvoices
    /\ IsInitialized
    /\ RequireNotPaused
    /\ amount > 0
    /\ LET next == (counter + 1) % (U64Max + 1)
       IN  /\ counter' = next
           /\ invoices' = Put(invoices, next, [owner |-> owner, amount |-> amount,
                                               due_date |-> dueDate, status |-> "Pending"])
    /\ UNCHANGED <<tokens, approvals, approvedBy, acVars>>

\* Mutant of Fund: any invoice can be (re)funded.
FundAnyStatus(caller, id, discountRate) ==
    /\ IsInitialized
    /\ RequireRole("LiquidityManager", caller)
    /\ RequireNotPaused
    /\ discountRate < MAX_DISCOUNT_BPS
    /\ Has(invoices, id)
    /\ invoices' = [invoices EXCEPT ![id].status = "Funded"]
    /\ tokens' = Put(tokens, id, [face_value |-> invoices[id].amount,
                                  discount_rate |-> discountRate,
                                  due_date |-> invoices[id].due_date])
    /\ UNCHANGED <<counter, approvals, approvedBy, acVars>>

\* Mutant of Fund: the status is changed but the token is not minted.
FundWithoutToken(caller, id, discountRate) ==
    /\ IsInitialized
    /\ RequireRole("LiquidityManager", caller)
    /\ RequireNotPaused
    /\ discountRate < MAX_DISCOUNT_BPS
    /\ Has(invoices, id)
    /\ invoices[id].status = "Pending"
    /\ invoices' = [invoices EXCEPT ![id].status = "Funded"]
    /\ UNCHANGED <<counter, tokens, approvals, approvedBy, acVars>>

Fund(caller, id, discountRate) ==
    /\ IsInitialized
    /\ RequireRole("LiquidityManager", caller)
    /\ RequireNotPaused
    /\ discountRate < MAX_DISCOUNT_BPS
    /\ Has(invoices, id)
    /\ invoices[id].status = "Pending"
    /\ invoices' = [invoices EXCEPT ![id].status = "Funded"]
    /\ tokens' = Put(tokens, id, [face_value |-> invoices[id].amount,
                                  discount_rate |-> discountRate,
                                  due_date |-> invoices[id].due_date])
    /\ UNCHANGED <<counter, approvals, approvedBy, acVars>>

Approve(owner, spender, id) ==
    /\ RequireNotPaused
    /\ Has(invoices, id)
    /\ IsTokenized(id)
    /\ invoices[id].owner = owner
    /\ approvals' = Put(approvals, id, spender)
    /\ approvedBy' = Put(approvedBy, id, owner)
    /\ UNCHANGED <<counter, invoices, tokens, acVars>>

\* Mutant of DoTransfer: the approval survives the change of owner.
DoTransferKeepsApproval(from, to, id) ==
    /\ from # to
    /\ invoices[id].status # "Settled"
    /\ invoices' = [invoices EXCEPT ![id].owner = to]
    /\ UNCHANGED <<counter, tokens, approvals, approvedBy, acVars>>

\* Mutant of DoTransfer: a settled invoice still changes hands.
DoTransferSettled(from, to, id) ==
    /\ from # to
    /\ invoices' = [invoices EXCEPT ![id].owner = to]
    /\ approvals' = Remove(approvals, id)
    /\ approvedBy' = Remove(approvedBy, id)
    /\ UNCHANGED <<counter, tokens, acVars>>

\* The body shared by both kinds of transfer.
DoTransfer(from, to, id) ==
    /\ from # to
    /\ invoices[id].status # "Settled"
    /\ invoices' = [invoices EXCEPT ![id].owner = to]
    /\ approvals' = Remove(approvals, id)
    /\ approvedBy' = Remove(approvedBy, id)
    /\ UNCHANGED <<counter, tokens, acVars>>

Transfer(from, to, id) ==
    /\ RequireNotPaused
    /\ Has(invoices, id)
    /\ invoices[id].owner = from
    /\ DoTransfer(from, to, id)

TransferFrom(spender, from, to, id) ==
    /\ RequireNotPaused
    /\ Has(invoices, id)
    /\ IsTokenized(id)
    /\ invoices[id].owner = from
    /\ Has(approvals, id)
    /\ approvals[id] = spender
    /\ DoTransfer(from, to, id)

UpdateStatus(caller, id, newStatus) ==
    /\ IsInitialized
    /\ RequireAdmin(caller)
    /\ RequireNotPaused
    /\ Has(invoices, id)
    /\ TransitionAllowed(invoices[id].status, newStatus)
    /\ invoices' = [invoices EXCEPT ![id].status = newStatus]
    /\ UNCHANGED <<counter, tokens, approvals, approvedBy, acVars>>

-----------------------------------------------------------------------------

ICInit ==
    /\ ACInit
    /\ counter = 0
    /\ invoices = EmptyStore
    /\ tokens = EmptyStore
    /\ approvals = EmptyStore
    /\ approvedBy = EmptyStore

ICOps ==
    \/ \E owner \in Address, amount \in Amounts, dueDate \in DueDates : Mint(owner, amount, dueDate)
    \/ \E id \in InvoiceId, caller \in Address :
         \/ \E rate \in DiscountRates : Fund(caller, id, rate)
         \/ \E spender \in Address : Approve(caller, spender, id)
         \/ \E to \in Address : Transfer(caller, to, id)
         \/ \E from, to \in Address : TransferFrom(caller, from, to, id)
         \/ \E status \in Status : UpdateStatus(caller, id, status)

ICNext ==
    \/ \E signers \in SignerVecs, timelock \in Timelocks :
         \E threshold \in Thresholds(signers) : ICInitialize(signers, threshold, timelock)
    \/ ICOps
    \/ ACOps /\ UNCHANGED invoiceVars

ICSpec == ICInit /\ [][ICNext]_icVars

-----------------------------------------------------------------------------
(* Properties. *)

\* Type invariant.  The ids in use are exactly 1 .. counter: no id is skipped
\* or given out twice by mint (protocol-spec invariant 8).
ICTypeOK ==
    /\ counter \in 0 .. MaxInvoices
    /\ invoices \in [1 .. counter -> Invoice]
    /\ DOMAIN tokens \subseteq 1 .. counter
    /\ \A id \in DOMAIN tokens : tokens[id] \in InvoiceToken
    /\ DOMAIN approvals \subseteq 1 .. counter
    /\ \A id \in DOMAIN approvals : approvals[id] \in Address
    /\ DOMAIN approvedBy = DOMAIN approvals
    /\ \A id \in DOMAIN approvedBy : approvedBy[id] \in Address

\* The token of an invoice exists from its funding on and for ever, and still
\* states the terms of the invoice it was minted for: a Pending invoice has no
\* token, a Funded or Settled one has, and the face value, the due date and a
\* discount below 100% can be read from it (fund, protocol-spec invariants 3, 4
\* and 5).
TokenMirrorsInvoice ==
    /\ \A id \in DOMAIN invoices :
         /\ invoices[id].amount > 0
         /\ invoices[id].status = "Pending" => ~IsTokenized(id)
         /\ invoices[id].status \in {"Funded", "Settled"} => IsTokenized(id)
    /\ \A id \in DOMAIN tokens :
         /\ tokens[id].face_value = invoices[id].amount
         /\ tokens[id].due_date = invoices[id].due_date
         /\ tokens[id].discount_rate < MAX_DISCOUNT_BPS

\* Whoever may spend a token was approved by its present owner: no approval
\* given by a former owner survives a transfer, on whichever path the token
\* left and came back (do_transfer, protocol-spec invariant 7).
ApprovalIsTheOwners ==
    \A id \in DOMAIN approvals :
        IsTokenized(id) /\ approvedBy[id] = invoices[id].owner

\* What a step leaves alone: settled invoices and existing tokens.
KeepsSettledAndTokens ==
    /\ \A id \in DOMAIN invoices :
         invoices[id].status = "Settled" => id \in DOMAIN invoices' /\ invoices'[id] = invoices[id]
    /\ \A id \in DOMAIN tokens : id \in DOMAIN tokens' /\ tokens'[id] = tokens[id]

\* Once settled, an invoice and its token never change again, its owner
\* included; once tokenized, the token is never written again (do_transfer,
\* transition_allowed, fund; protocol-spec invariants 2, 4 and 6).
SettledIsFrozen == [][KeepsSettledAndTokens]_icVars

\* The refinement mapping: the life and the holder of an invoice.
LifeOf == [id \in InvoiceId |-> IF Has(invoices, id) THEN invoices[id].status ELSE "Absent"]
HolderOf == [id \in DOMAIN invoices |-> invoices[id].owner]

Lifecycle == INSTANCE InvoiceLifecycle WITH Holder <- Address, life <- LifeOf, holder <- HolderOf

\* Refinement: every step of the contract is a step of the abstract lifecycle
\* or changes neither an invoice's status nor its owner (the graph drawn at
\* contracts/invoice/src/lib.rs:19-27).
ImplementsLifecycle == Lifecycle!Spec
=============================================================================
