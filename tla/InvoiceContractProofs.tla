------------------------ MODULE InvoiceContractProofs ------------------------
(***************************************************************************)
(* Proofs about InvoiceContract, for every set of accounts and inputs and  *)
(* any number of invoices up to MaxInvoices.                               *)
(***************************************************************************)
EXTENDS InvoiceContract, AccessControlProofs

\* The i128 counter is cast to u64 without loss while it is in range.
LEMMA NextIdInRange ==
    ASSUME counter \in Nat, counter < MaxInvoices
    PROVE  (counter + 1) % (U64Max + 1) = counter + 1
BY InvoiceIdAssumption

\* Every step of the invoice contract is a step of its embedded access control,
\* or leaves that storage alone.
LEMMA ICStepIsACStep == [ICNext]_icVars => [ACNext]_acVars
<1>. SUFFICES ASSUME [ICNext]_icVars PROVE [ACNext]_acVars
  OBVIOUS
<1>1. CASE \E signers \in SignerVecs, timelock \in Timelocks :
             \E threshold \in Thresholds(signers) : ICInitialize(signers, threshold, timelock)
  BY <1>1 DEF ICInitialize, ACNext
<1>2. CASE ICOps
  <2>1. UNCHANGED acVars
    BY <1>2 DEF ICOps, Mint, Fund, Approve, Transfer, TransferFrom, DoTransfer, UpdateStatus
  <2>. QED
    BY <2>1
<1>3. CASE ACOps
  BY <1>3 DEF ACNext
<1>4. CASE UNCHANGED icVars
  BY <1>4 DEF icVars
<1>. QED
  BY <1>1, <1>2, <1>3, <1>4 DEF ICNext

-----------------------------------------------------------------------------

\* Nothing is minted before the contract is initialised.
MintedAfterInit == counter > 0 => IsInitialized

\* The inductive invariant.
ICInv ==
    /\ ACInv
    /\ ICTypeOK
    /\ MintedAfterInit
    /\ TokenMirrorsInvoice
    /\ ApprovalIsTheOwners

\* The initial state satisfies the inductive invariant.
LEMMA ICInvInit == ICInit => ICInv
<1>. SUFFICES ASSUME ICInit PROVE ICInv
  OBVIOUS
<1>1. ACInv
  BY ACInvInit DEF ICInit
<1>2. ICTypeOK
  <2>1. counter = 0 /\ 0 \in 0 .. MaxInvoices /\ 1 .. 0 = {}
    BY InvoiceIdAssumption DEF ICInit
  <2>. QED
    BY <2>1 DEF ICInit, ICTypeOK, EmptyStore
<1>3. MintedAfterInit
  BY DEF ICInit, MintedAfterInit
<1>4. TokenMirrorsInvoice /\ ApprovalIsTheOwners
  BY DEF ICInit, TokenMirrorsInvoice, ApprovalIsTheOwners, EmptyStore
<1>. QED
  BY <1>1, <1>2, <1>3, <1>4 DEF ICInv

\* Steps that leave the invoices alone preserve what is said about them.
LEMMA InvoicesUnchanged ==
    ASSUME ICTypeOK, TokenMirrorsInvoice, ApprovalIsTheOwners, UNCHANGED invoiceVars
    PROVE  ICTypeOK' /\ TokenMirrorsInvoice' /\ ApprovalIsTheOwners'
BY DEF ICTypeOK, TokenMirrorsInvoice, ApprovalIsTheOwners, IsTokenized, Has, invoiceVars

\* Mint adds one Pending invoice under the next id.
LEMMA MintPreserves ==
    ASSUME ICInv, NEW owner \in Address, NEW amount \in Amounts, NEW dueDate \in DueDates,
           Mint(owner, amount, dueDate)
    PROVE  ICTypeOK' /\ MintedAfterInit' /\ TokenMirrorsInvoice' /\ ApprovalIsTheOwners'
<1>. DEFINE inv == [owner |-> owner, amount |-> amount, due_date |-> dueDate, status |-> "Pending"]
<1>1. counter \in Nat /\ counter < MaxInvoices /\ MaxInvoices \in Nat
  BY InvoiceIdAssumption DEF ICInv, ICTypeOK, Mint
<1>2. counter' = counter + 1 /\ invoices' = Put(invoices, counter + 1, inv)
  BY <1>1, NextIdInRange DEF Mint
<1>3. inv \in Invoice /\ amount > 0
  BY InvoiceInputsAssumption DEF Mint, Invoice, Status
<1>4. invoices \in [1 .. counter -> Invoice]
  BY DEF ICInv, ICTypeOK
<1>5. (1 .. counter) \cup {counter + 1} = 1 .. (counter + 1) /\ counter + 1 \notin 1 .. counter
  BY <1>1
<1>6. /\ invoices' \in [1 .. (counter + 1) -> Invoice]
      /\ \A id \in 1 .. counter : invoices'[id] = invoices[id]
      /\ invoices'[counter + 1] = inv
  BY <1>2, <1>3, <1>4, <1>5 DEF Put
<1>7. UNCHANGED <<tokens, approvals, approvedBy, multisig>>
  BY DEF Mint, acVars
<1>8. ICTypeOK'
  <2>1. counter' \in 0 .. MaxInvoices
    BY <1>1, <1>2
  <2>2. invoices' \in [1 .. counter' -> Invoice]
    BY <1>2, <1>6
  <2>3. 1 .. counter \subseteq 1 .. counter'
    BY <1>1, <1>2
  <2>. QED
    BY <1>7, <2>1, <2>2, <2>3 DEF ICInv, ICTypeOK
<1>9. MintedAfterInit'
  BY <1>7 DEF Mint, MintedAfterInit, IsInitialized
<1>10. DOMAIN tokens \subseteq 1 .. counter /\ DOMAIN approvals \subseteq 1 .. counter
  BY DEF ICInv, ICTypeOK
<1>11. TokenMirrorsInvoice'
  <2>1. \A id \in DOMAIN invoices' :
          /\ invoices'[id].amount > 0
          /\ invoices'[id].status = "Pending" => id \notin DOMAIN tokens
          /\ invoices'[id].status \in {"Funded", "Settled"} => id \in DOMAIN tokens
    BY <1>3, <1>4, <1>5, <1>6, <1>10 DEF ICInv, TokenMirrorsInvoice, IsTokenized, Has
  <2>2. \A id \in DOMAIN tokens :
          /\ tokens[id].face_value = invoices'[id].amount
          /\ tokens[id].due_date = invoices'[id].due_date
          /\ tokens[id].discount_rate < MAX_DISCOUNT_BPS
    BY <1>6, <1>10 DEF ICInv, TokenMirrorsInvoice
  <2>. QED
    BY <1>7, <2>1, <2>2 DEF TokenMirrorsInvoice, IsTokenized, Has
<1>12. ApprovalIsTheOwners'
  BY <1>6, <1>7, <1>10 DEF ICInv, ApprovalIsTheOwners, IsTokenized, Has
<1>. QED
  BY <1>8, <1>9, <1>11, <1>12

\* Fund mints the token of a Pending invoice, once.
LEMMA FundPreserves ==
    ASSUME ICInv, NEW caller \in Address, NEW id \in InvoiceId, NEW rate \in DiscountRates,
           Fund(caller, id, rate)
    PROVE  ICTypeOK' /\ MintedAfterInit' /\ TokenMirrorsInvoice' /\ ApprovalIsTheOwners'
<1>. DEFINE tok == [face_value |-> invoices[id].amount, discount_rate |-> rate,
                    due_date |-> invoices[id].due_date]
<1>1. invoices \in [1 .. counter -> Invoice] /\ id \in 1 .. counter /\ invoices[id] \in Invoice
  BY DEF ICInv, ICTypeOK, Fund, Has
<1>2. invoices[id].status = "Pending" /\ id \notin DOMAIN tokens
  BY <1>1 DEF ICInv, Fund, TokenMirrorsInvoice, IsTokenized, Has
<1>3. /\ invoices' = [invoices EXCEPT ![id].status = "Funded"]
      /\ tokens' = Put(tokens, id, tok)
      /\ UNCHANGED <<counter, approvals, approvedBy, multisig>>
      /\ IsInitialized /\ rate < MAX_DISCOUNT_BPS
  BY DEF Fund, acVars
<1>4. /\ invoices' \in [1 .. counter -> Invoice]
      /\ invoices'[id].status = "Funded"
      /\ \A k \in 1 .. counter : invoices'[k].owner = invoices[k].owner
      /\ \A k \in 1 .. counter : invoices'[k].amount = invoices[k].amount
      /\ \A k \in 1 .. counter : invoices'[k].due_date = invoices[k].due_date
      /\ \A k \in 1 .. counter : k # id => invoices'[k] = invoices[k]
  BY <1>1, <1>3 DEF Invoice, Status
<1>5. tok \in InvoiceToken
  BY <1>1, InvoiceInputsAssumption DEF Invoice, InvoiceToken
<1>6. /\ DOMAIN tokens' = DOMAIN tokens \cup {id}
      /\ tokens'[id] = tok
      /\ \A k \in DOMAIN tokens : tokens'[k] = tokens[k]
  BY <1>2, <1>3 DEF Put
<1>7. DOMAIN tokens \subseteq 1 .. counter /\ DOMAIN approvals \subseteq 1 .. counter
  BY DEF ICInv, ICTypeOK
<1>8. ICTypeOK'
  BY <1>1, <1>3, <1>4, <1>5, <1>6, <1>7 DEF ICInv, ICTypeOK
<1>9. MintedAfterInit'
  BY <1>3 DEF MintedAfterInit, IsInitialized
<1>10. TokenMirrorsInvoice'
  <2>1. \A k \in DOMAIN invoices' :
          /\ invoices'[k].amount > 0
          /\ invoices'[k].status = "Pending" => k \notin DOMAIN tokens'
          /\ invoices'[k].status \in {"Funded", "Settled"} => k \in DOMAIN tokens'
    BY <1>1, <1>4, <1>6 DEF ICInv, TokenMirrorsInvoice, IsTokenized, Has
  <2>2. \A k \in DOMAIN tokens' :
          /\ tokens'[k].face_value = invoices'[k].amount
          /\ tokens'[k].due_date = invoices'[k].due_date
          /\ tokens'[k].discount_rate < MAX_DISCOUNT_BPS
    BY <1>1, <1>3, <1>4, <1>6, <1>7 DEF ICInv, TokenMirrorsInvoice
  <2>. QED
    BY <2>1, <2>2 DEF TokenMirrorsInvoice, IsTokenized, Has
<1>11. ApprovalIsTheOwners'
  BY <1>3, <1>4, <1>6, <1>7 DEF ICInv, ApprovalIsTheOwners, IsTokenized, Has
<1>. QED
  BY <1>8, <1>9, <1>10, <1>11

\* Approve records the owner's choice of a spender.
LEMMA ApprovePreserves ==
    ASSUME ICInv, NEW owner \in Address, NEW spender \in Address, NEW id \in InvoiceId,
           Approve(owner, spender, id)
    PROVE  ICTypeOK' /\ MintedAfterInit' /\ TokenMirrorsInvoice' /\ ApprovalIsTheOwners'
<1>1. /\ approvals' = Put(approvals, id, spender)
      /\ approvedBy' = Put(approvedBy, id, owner)
      /\ UNCHANGED <<counter, invoices, tokens, multisig>>
      /\ invoices[id].owner = owner /\ id \in DOMAIN tokens /\ id \in DOMAIN invoices
  BY DEF Approve, acVars, IsTokenized, Has
<1>2. DOMAIN approvedBy = DOMAIN approvals /\ id \in 1 .. counter
  BY <1>1 DEF ICInv, ICTypeOK
<1>3. /\ DOMAIN approvals' = DOMAIN approvals \cup {id} /\ DOMAIN approvedBy' = DOMAIN approvals \cup {id}
      /\ approvals'[id] = spender /\ approvedBy'[id] = owner
      /\ \A k \in DOMAIN approvals : k # id => approvals'[k] = approvals[k] /\ approvedBy'[k] = approvedBy[k]
  BY <1>1, <1>2 DEF Put
<1>4. ICTypeOK'
  BY <1>1, <1>2, <1>3 DEF ICInv, ICTypeOK
<1>5. MintedAfterInit' /\ TokenMirrorsInvoice'
  BY <1>1 DEF ICInv, MintedAfterInit, IsInitialized, TokenMirrorsInvoice, IsTokenized, Has
<1>6. ApprovalIsTheOwners'
  BY <1>1, <1>3 DEF ICInv, ApprovalIsTheOwners, IsTokenized, Has
<1>. QED
  BY <1>4, <1>5, <1>6

\* A transfer changes the owner and drops the approval.
LEMMA DoTransferPreserves ==
    ASSUME ICInv, NEW from \in Address, NEW to \in Address, NEW id \in DOMAIN invoices,
           DoTransfer(from, to, id)
    PROVE  ICTypeOK' /\ MintedAfterInit' /\ TokenMirrorsInvoice' /\ ApprovalIsTheOwners'
<1>1. /\ invoices' = [invoices EXCEPT ![id].owner = to]
      /\ approvals' = Remove(approvals, id) /\ approvedBy' = Remove(approvedBy, id)
      /\ UNCHANGED <<counter, tokens, multisig>>
  BY DEF DoTransfer, acVars
<1>2. invoices \in [1 .. counter -> Invoice] /\ id \in 1 .. counter /\ invoices[id] \in Invoice
      /\ DOMAIN tokens \subseteq 1 .. counter /\ DOMAIN approvals \subseteq 1 .. counter
      /\ DOMAIN approvedBy = DOMAIN approvals
  BY DEF ICInv, ICTypeOK
<1>3. /\ invoices' \in [1 .. counter -> Invoice]
      /\ \A k \in 1 .. counter : invoices'[k].amount = invoices[k].amount
      /\ \A k \in 1 .. counter : invoices'[k].due_date = invoices[k].due_date
      /\ \A k \in 1 .. counter : invoices'[k].status = invoices[k].status
      /\ \A k \in 1 .. counter : k # id => invoices'[k] = invoices[k]
  BY <1>1, <1>2 DEF Invoice
<1>4. /\ DOMAIN approvals' = DOMAIN approvals \ {id} /\ DOMAIN approvedBy' = DOMAIN approvals \ {id}
      /\ \A k \in DOMAIN approvals \ {id} : approvals'[k] = approvals[k] /\ approvedBy'[k] = approvedBy[k]
  BY <1>1, <1>2 DEF Remove
<1>5. ICTypeOK'
  BY <1>1, <1>2, <1>3, <1>4 DEF ICInv, ICTypeOK
<1>6. MintedAfterInit'
  BY <1>1 DEF ICInv, MintedAfterInit, IsInitialized
<1>7. TokenMirrorsInvoice'
  BY <1>1, <1>2, <1>3 DEF ICInv, TokenMirrorsInvoice, IsTokenized, Has
<1>8. ApprovalIsTheOwners'
  BY <1>1, <1>2, <1>3, <1>4 DEF ICInv, ApprovalIsTheOwners, IsTokenized, Has
<1>. QED
  BY <1>5, <1>6, <1>7, <1>8

\* A status update follows the table of transition_allowed.
LEMMA UpdateStatusPreserves ==
    ASSUME ICInv, NEW caller \in Address, NEW id \in InvoiceId, NEW status \in Status,
           UpdateStatus(caller, id, status)
    PROVE  ICTypeOK' /\ MintedAfterInit' /\ TokenMirrorsInvoice' /\ ApprovalIsTheOwners'
<1>1. /\ invoices' = [invoices EXCEPT ![id].status = status]
      /\ UNCHANGED <<counter, tokens, approvals, approvedBy, multisig>>
  BY DEF UpdateStatus, acVars
<1>2. invoices \in [1 .. counter -> Invoice] /\ id \in 1 .. counter /\ invoices[id] \in Invoice
      /\ DOMAIN tokens \subseteq 1 .. counter /\ DOMAIN approvals \subseteq 1 .. counter
  BY DEF ICInv, ICTypeOK, UpdateStatus, Has
<1>3. /\ invoices' \in [1 .. counter -> Invoice]
      /\ invoices'[id].status = status
      /\ \A k \in 1 .. counter : invoices'[k].amount = invoices[k].amount
      /\ \A k \in 1 .. counter : invoices'[k].due_date = invoices[k].due_date
      /\ \A k \in 1 .. counter : invoices'[k].owner = invoices[k].owner
      /\ \A k \in 1 .. counter : k # id => invoices'[k] = invoices[k]
  BY <1>1, <1>2 DEF Invoice
<1>4. status # "Pending" /\ (status \in {"Funded", "Settled"} => id \in DOMAIN tokens)
  BY <1>2 DEF UpdateStatus, TransitionAllowed, ICInv, TokenMirrorsInvoice, IsTokenized, Has
<1>5. ICTypeOK'
  BY <1>1, <1>2, <1>3 DEF ICInv, ICTypeOK
<1>6. MintedAfterInit'
  BY <1>1 DEF ICInv, MintedAfterInit, IsInitialized
<1>7. TokenMirrorsInvoice'
  BY <1>1, <1>2, <1>3, <1>4 DEF ICInv, TokenMirrorsInvoice, IsTokenized, Has
<1>8. ApprovalIsTheOwners'
  BY <1>1, <1>2, <1>3 DEF ICInv, ApprovalIsTheOwners, IsTokenized, Has
<1>. QED
  BY <1>5, <1>6, <1>7, <1>8

\* Every step preserves the inductive invariant.
LEMMA ICInvNext == ICInv /\ [ICNext]_icVars => ICInv'
<1>. SUFFICES ASSUME ICInv, [ICNext]_icVars PROVE ICInv'
  OBVIOUS
<1>1. ACInv'
  BY ICStepIsACStep, ACInvNext DEF ICInv
<1>. SUFFICES ICTypeOK' /\ MintedAfterInit' /\ TokenMirrorsInvoice' /\ ApprovalIsTheOwners'
  BY <1>1 DEF ICInv
<1>2. ASSUME NEW signers \in SignerVecs, NEW timelock \in Timelocks,
             NEW threshold \in Thresholds(signers), ICInitialize(signers, threshold, timelock)
      PROVE  ICTypeOK' /\ MintedAfterInit' /\ TokenMirrorsInvoice' /\ ApprovalIsTheOwners'
  <2>1. counter = 0
    BY <1>2, InvoiceIdAssumption DEF ICInitialize, ACInitialize, ICInv, MintedAfterInit, ICTypeOK
  <2>2. UNCHANGED invoiceVars
    BY <1>2, <2>1 DEF ICInitialize, invoiceVars
  <2>3. MintedAfterInit'
    BY <1>2 DEF ICInitialize, MintedAfterInit
  <2>. QED
    BY <2>2, <2>3, InvoicesUnchanged DEF ICInv
<1>3. ASSUME NEW owner \in Address, NEW amount \in Amounts, NEW dueDate \in DueDates,
             Mint(owner, amount, dueDate)
      PROVE  ICTypeOK' /\ MintedAfterInit' /\ TokenMirrorsInvoice' /\ ApprovalIsTheOwners'
  BY <1>3, MintPreserves
<1>4. ASSUME NEW id \in InvoiceId, NEW caller \in Address, NEW rate \in DiscountRates,
             Fund(caller, id, rate)
      PROVE  ICTypeOK' /\ MintedAfterInit' /\ TokenMirrorsInvoice' /\ ApprovalIsTheOwners'
  BY <1>4, FundPreserves
<1>5. ASSUME NEW id \in InvoiceId, NEW caller \in Address, NEW spender \in Address,
             Approve(caller, spender, id)
      PROVE  ICTypeOK' /\ MintedAfterInit' /\ TokenMirrorsInvoice' /\ ApprovalIsTheOwners'
  BY <1>5, ApprovePreserves
<1>6. ASSUME NEW id \in InvoiceId, NEW from \in Address, NEW to \in Address,
             Transfer(from, to, id)
      PROVE  ICTypeOK' /\ MintedAfterInit' /\ TokenMirrorsInvoice' /\ ApprovalIsTheOwners'
  BY <1>6, DoTransferPreserves DEF Transfer, Has
<1>7. ASSUME NEW id \in InvoiceId, NEW caller \in Address, NEW from \in Address, NEW to \in Address,
             TransferFrom(caller, from, to, id)
      PROVE  ICTypeOK' /\ MintedAfterInit' /\ TokenMirrorsInvoice' /\ ApprovalIsTheOwners'
  BY <1>7, DoTransferPreserves DEF TransferFrom, Has
<1>8. ASSUME NEW id \in InvoiceId, NEW caller \in Address, NEW status \in Status,
             UpdateStatus(caller, id, status)
      PROVE  ICTypeOK' /\ MintedAfterInit' /\ TokenMirrorsInvoice' /\ ApprovalIsTheOwners'
  BY <1>8, UpdateStatusPreserves
<1>9. CASE ACOps /\ UNCHANGED invoiceVars
  <2>1. MintedAfterInit'
    BY <1>9, InitializedStays DEF ICInv, MintedAfterInit, invoiceVars
  <2>. QED
    BY <1>9, <2>1, InvoicesUnchanged DEF ICInv
<1>10. CASE UNCHANGED icVars
  <2>1. MintedAfterInit'
    BY <1>10 DEF ICInv, MintedAfterInit, IsInitialized, icVars, acVars, invoiceVars
  <2>. QED
    BY <1>10, <2>1, InvoicesUnchanged DEF ICInv, icVars
<1>. QED
  BY <1>2, <1>3, <1>4, <1>5, <1>6, <1>7, <1>8, <1>9, <1>10 DEF ICNext, ICOps

-----------------------------------------------------------------------------
(* The theorems. *)

\* The inductive invariant holds in every reachable state.
THEOREM ICInvariance == ICSpec => []ICInv
<1>1. ICInit => ICInv
  BY ICInvInit
<1>2. ICInv /\ [ICNext]_icVars => ICInv'
  BY ICInvNext
<1>. QED
  BY <1>1, <1>2, PTL DEF ICSpec

\* The invoice ids in use are 1 .. counter, over any number of mints and whatever
\* the admins do, and every record keeps its type.
THEOREM ICTypeCorrect == ICSpec => []ICTypeOK
<1>1. ICInv => ICTypeOK
  BY DEF ICInv
<1>. QED
  BY <1>1, ICInvariance, PTL

\* The token of an invoice exists exactly from its funding on and states the
\* invoice's own terms.
THEOREM TokensMirrorInvoices == ICSpec => []TokenMirrorsInvoice
<1>1. ICInv => TokenMirrorsInvoice
  BY DEF ICInv
<1>. QED
  BY <1>1, ICInvariance, PTL

\* Every approval on record was given by the present owner of the token.
THEOREM ApprovalsAreTheOwners == ICSpec => []ApprovalIsTheOwners
<1>1. ICInv => ApprovalIsTheOwners
  BY DEF ICInv
<1>. QED
  BY <1>1, ICInvariance, PTL

\* The embedded access control of the invoice contract behaves as AccessControl,
\* so every theorem about ACSpec holds of the contract.
THEOREM ICImplementsAC == ICSpec => ACSpec
<1>1. ICInit => ACInit
  BY DEF ICInit
<1>2. [ICNext]_icVars => [ACNext]_acVars
  BY ICStepIsACStep
<1>. QED
  BY <1>1, <1>2, PTL DEF ICSpec, ACSpec

\* Settled invoices and minted tokens never change.
THEOREM SettledStaysFrozen == ICSpec => SettledIsFrozen
<1>1. ICInv /\ [ICNext]_icVars => [KeepsSettledAndTokens]_icVars
  <2>. SUFFICES ASSUME ICInv, ICNext PROVE KeepsSettledAndTokens
    OBVIOUS
  <2>1. CASE UNCHANGED <<invoices, tokens>>
    BY <2>1 DEF KeepsSettledAndTokens
  <2>2. ASSUME NEW owner \in Address, NEW amount \in Amounts, NEW dueDate \in DueDates,
               Mint(owner, amount, dueDate)
        PROVE  KeepsSettledAndTokens
    <3>1. counter \in Nat /\ counter < MaxInvoices /\ DOMAIN invoices = 1 .. counter
      BY <2>2, InvoiceIdAssumption DEF ICInv, ICTypeOK, Mint
    <3>2. \E inv : invoices' = Put(invoices, counter + 1, inv)
      BY <2>2, <3>1, NextIdInRange DEF Mint
    <3>. QED
      BY <2>2, <3>1, <3>2 DEF Mint, Put, KeepsSettledAndTokens
  <2>3. ASSUME NEW id \in InvoiceId, NEW caller \in Address, NEW rate \in DiscountRates,
               Fund(caller, id, rate)
        PROVE  KeepsSettledAndTokens
    BY <2>3 DEF Fund, Put, Has, IsTokenized, KeepsSettledAndTokens, ICInv, TokenMirrorsInvoice
  <2>4. ASSUME NEW id \in InvoiceId, NEW from \in Address, NEW to \in Address,
               DoTransfer(from, to, id)
        PROVE  KeepsSettledAndTokens
    BY <2>4 DEF DoTransfer, KeepsSettledAndTokens
  <2>5. ASSUME NEW id \in InvoiceId, NEW caller \in Address, NEW status \in Status,
               UpdateStatus(caller, id, status)
        PROVE  KeepsSettledAndTokens
    BY <2>5 DEF UpdateStatus, TransitionAllowed, KeepsSettledAndTokens
  <2>. QED
    BY <2>1, <2>2, <2>3, <2>4, <2>5
       DEF ICNext, ICOps, ICInitialize, Approve, Transfer, TransferFrom, invoiceVars
<1>. QED
  BY <1>1, ICInvariance, PTL DEF ICSpec, SettledIsFrozen

-----------------------------------------------------------------------------
(* The refinement. *)

\* A status update of a minted invoice is one step of its life.
LEMMA StatusStep ==
    ASSUME ICInv, NEW id \in InvoiceId, id \in DOMAIN invoices, NEW status \in Status,
           invoices' = [invoices EXCEPT ![id].status = status]
    PROVE  Lifecycle!Advance(id, invoices[id].status, status)
<1>1. invoices \in [1 .. counter -> Invoice] /\ invoices[id] \in Invoice
  BY DEF ICInv, ICTypeOK
<1>2. /\ DOMAIN invoices' = DOMAIN invoices
      /\ invoices'[id].status = status
      /\ \A k \in DOMAIN invoices : invoices'[k].owner = invoices[k].owner
      /\ \A k \in DOMAIN invoices : k # id => invoices'[k] = invoices[k]
  BY <1>1 DEF Invoice
<1>3. LifeOf' = [LifeOf EXCEPT ![id] = status]
  BY <1>2 DEF LifeOf, Has
<1>4. HolderOf' = HolderOf
  BY <1>2 DEF HolderOf
<1>5. LifeOf[id] = invoices[id].status
  BY DEF LifeOf, Has
<1>. QED
  BY <1>3, <1>4, <1>5 DEF Lifecycle!Advance

\* A transfer is a change of holder.
LEMMA TransferStep ==
    ASSUME ICInv, NEW id \in InvoiceId, id \in DOMAIN invoices,
           NEW from \in Address, NEW to \in Address, invoices[id].owner = from,
           DoTransfer(from, to, id)
    PROVE  Lifecycle!ChangeOfHolder(id)
<1>1. invoices \in [1 .. counter -> Invoice] /\ invoices[id] \in Invoice
  BY DEF ICInv, ICTypeOK
<1>2. invoices' = [invoices EXCEPT ![id].owner = to] /\ to # from /\ invoices[id].status # "Settled"
  BY DEF DoTransfer
<1>3. /\ DOMAIN invoices' = DOMAIN invoices
      /\ invoices'[id].owner = to
      /\ \A k \in DOMAIN invoices : invoices'[k].status = invoices[k].status
      /\ \A k \in DOMAIN invoices : k # id => invoices'[k] = invoices[k]
  BY <1>1, <1>2 DEF Invoice
<1>4. HolderOf' = [HolderOf EXCEPT ![id] = to] /\ HolderOf[id] = from
  BY <1>3 DEF HolderOf
<1>5. LifeOf' = LifeOf
  BY <1>3 DEF LifeOf, Has
<1>6. LifeOf[id] \in {"Pending", "Funded", "Defaulted"}
  BY <1>1, <1>2 DEF LifeOf, Has, Invoice, Status
<1>. QED
  BY <1>2, <1>4, <1>5, <1>6 DEF Lifecycle!ChangeOfHolder, Lifecycle!Transferable

\* A mint starts the life of the next invoice.
LEMMA MintStep ==
    ASSUME ICInv, NEW owner \in Address, NEW amount \in Amounts, NEW dueDate \in DueDates,
           Mint(owner, amount, dueDate)
    PROVE  counter + 1 \in InvoiceId /\ Lifecycle!Minting(counter + 1)
<1>. DEFINE i == counter + 1
            inv == [owner |-> owner, amount |-> amount, due_date |-> dueDate, status |-> "Pending"]
<1>1. counter \in Nat /\ counter < MaxInvoices /\ DOMAIN invoices = 1 .. counter
  BY InvoiceIdAssumption DEF ICInv, ICTypeOK, Mint
<1>2. i \in InvoiceId /\ i \notin DOMAIN invoices
  BY <1>1, InvoiceIdAssumption DEF InvoiceId
<1>3. invoices' = Put(invoices, i, inv)
  BY <1>1, NextIdInRange DEF Mint
<1>4. /\ DOMAIN invoices' = DOMAIN invoices \cup {i}
      /\ invoices'[i] = inv
      /\ \A k \in DOMAIN invoices : invoices'[k] = invoices[k]
  BY <1>2, <1>3 DEF Put
<1>5. LifeOf[i] = "Absent" /\ LifeOf' = [LifeOf EXCEPT ![i] = "Pending"]
  <2>1. LifeOf[i] = "Absent"
    BY <1>2 DEF LifeOf, Has
  <2>2. \A k \in InvoiceId : LifeOf'[k] = IF k = i THEN "Pending" ELSE LifeOf[k]
    BY <1>2, <1>4 DEF LifeOf, Has
  <2>. QED
    BY <1>2, <2>1, <2>2 DEF LifeOf
<1>6. HolderOf' = [j \in DOMAIN HolderOf \cup {i} |-> IF j = i THEN owner ELSE HolderOf[j]]
  BY <1>2, <1>4 DEF HolderOf
<1>. QED
  BY <1>2, <1>5, <1>6 DEF Lifecycle!Minting

\* The contract implements the lifecycle that enum Status documents: no sequence
\* of mints, fundings, transfers, status updates and admin operations takes an
\* invoice along an edge that is not drawn there.
THEOREM Refinement == ICSpec => ImplementsLifecycle
<1>1. ICInit => Lifecycle!Init
  BY DEF ICInit, EmptyStore, Lifecycle!Init, LifeOf, HolderOf, Has
<1>2. ICInv /\ [ICNext]_icVars => [Lifecycle!Next]_(Lifecycle!lifecycleVars)
  <2>. SUFFICES ASSUME ICInv, [ICNext]_icVars
                PROVE  Lifecycle!Next \/ UNCHANGED Lifecycle!lifecycleVars
    OBVIOUS
  <2>1. CASE UNCHANGED invoices
    BY <2>1 DEF Lifecycle!lifecycleVars, LifeOf, HolderOf, Has
  <2>2. ASSUME NEW owner \in Address, NEW amount \in Amounts, NEW dueDate \in DueDates,
               Mint(owner, amount, dueDate)
        PROVE  Lifecycle!Next
    BY <2>2, MintStep DEF Lifecycle!Next
  <2>3. ASSUME NEW id \in InvoiceId, NEW caller \in Address, NEW rate \in DiscountRates,
               Fund(caller, id, rate)
        PROVE  Lifecycle!Next
    <3>1. Lifecycle!Advance(id, "Pending", "Funded")
      BY <2>3, StatusStep DEF Fund, Has, Status
    <3>. QED
      BY <3>1 DEF Lifecycle!Next
  <2>4. ASSUME NEW id \in InvoiceId, NEW from \in Address, NEW to \in Address,
               id \in DOMAIN invoices, invoices[id].owner = from, DoTransfer(from, to, id)
        PROVE  Lifecycle!Next
    <3>1. Lifecycle!ChangeOfHolder(id)
      BY <2>4, TransferStep
    <3>. QED
      BY <3>1 DEF Lifecycle!Next
  <2>5. ASSUME NEW id \in InvoiceId, NEW caller \in Address, NEW status \in Status,
               UpdateStatus(caller, id, status)
        PROVE  Lifecycle!Next
    <3>1. Lifecycle!Advance(id, invoices[id].status, status)
      BY <2>5, StatusStep DEF UpdateStatus, Has
    <3>2. TransitionAllowed(invoices[id].status, status)
      BY <2>5 DEF UpdateStatus
    <3>. QED
      BY <3>1, <3>2 DEF Lifecycle!Next, TransitionAllowed
  <2>. QED
    BY <2>1, <2>2, <2>3, <2>4, <2>5
       DEF ICNext, ICOps, ICInitialize, Approve, Transfer, TransferFrom, Has, invoiceVars, icVars
<1>. QED
  BY <1>1, <1>2, ICInvariance, PTL DEF ICSpec, ImplementsLifecycle, Lifecycle!Spec
=============================================================================
