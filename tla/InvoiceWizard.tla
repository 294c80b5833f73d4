----------------------------- MODULE InvoiceWizard -----------------------------
(* Creating an invoice: InvoiceWizard.tsx with the transaction it prepares    *)
(* (lib/soroban.ts), the simulation before signing                            *)
(* (useTransactionSimulation.ts) and the preview that offers to sign          *)
(* (TransactionSimulationPreview.tsx).  Nothing disables the wizard while a   *)
(* handler is suspended, so several handlers may be under way: a click is one *)
(* run of onFinalConfirm or of handleSignTransaction.                         *)
(* A form is what the user has typed.  Of its fields only the face value goes *)
(* into the transaction; the account's sequence number is left out.           *)
EXTENDS Naturals, FiniteSets

CONSTANTS Clicks,       \* bound: handlers under way at once
          ValidForms, InvalidForms, NoTx,
          FaceValue,    \* form -> Math.round(quantity * unitPrice)
          MaxEdits      \* bound: changes of the form

Forms == ValidForms \cup InvalidForms

VARIABLES
    step,        \* currentStep
    form,        \* the values typed
    edits,       \* changes of the form so far
    previewOpen,
    pendingXdr,  \* pendingXdrRef.current
    sim,         \* useTransactionSimulation's status and details
    click,       \* click -> where the handler is suspended, and its transaction
    overlapped,  \* has onFinalConfirm been started while an earlier run was under way?
    signed       \* what the wallet was asked to sign, and what was on display

wizardVars == <<step, form, edits, previewOpen, pendingXdr, sim, click, overlapped, signed>>

(* The transaction, and (for the properties only) the form it was built from. *)
BuildContractInvocationXdr(f) == [faceValue |-> FaceValue[f], from |-> f]

NoSim == [status |-> "idle", details |-> NoTx]
NoClick == [at |-> "none", tx |-> NoTx]

WizardInit ==
    /\ step = "details"
    /\ form \in InvalidForms
    /\ edits = 0
    /\ previewOpen = FALSE
    /\ pendingXdr = NoTx
    /\ sim = NoSim
    /\ click = [c \in Clicks |-> NoClick]
    /\ overlapped = FALSE
    /\ signed = {}

(* The wizard itself is behind the modal preview while that is open.          *)
EditForm ==
    /\ step \in {"details", "valuation"} /\ ~previewOpen
    /\ edits < MaxEdits
    /\ edits' = edits + 1
    /\ form' \in Forms \ {form}
    /\ UNCHANGED <<step, previewOpen, pendingXdr, sim, click, overlapped, signed>>

(* goToStep, from any step and also from the screen of a submitted invoice,   *)
(* and the Back buttons: only the way to the valuation is validated, and that *)
(* with every field of the form.                                              *)
GoToStep(s) ==
    /\ ~previewOpen
    /\ s = "valuation" => form \in ValidForms \/ step = "review"
    /\ step' = s
    /\ UNCHANGED <<form, edits, previewOpen, pendingXdr, sim, click, overlapped, signed>>

Begin(c, at, tx) ==
    /\ click[c] = NoClick
    /\ click' = [click EXCEPT ![c] = [at |-> at, tx |-> tx]]
    /\ overlapped' = (overlapped \/ (at = "building" /\ \E d \in Clicks : click[d].at \in {"building", "simulating"}))

-----------------------------------------------------------------------------
(* onFinalConfirm: handleSubmit validates the whole form; the values are read *)
(* before the account is fetched from Horizon.                                *)
Confirm(c) ==
    /\ step = "review" /\ ~previewOpen
    /\ form \in ValidForms
    /\ Begin(c, "building", BuildContractInvocationXdr(form))
    /\ previewOpen' = TRUE
    /\ UNCHANGED <<step, form, edits, pendingXdr, sim, signed>>

(* A second click before React shows the preview.                             *)
ConfirmTwice(c) ==
    /\ step = "review" /\ previewOpen
    /\ \E d \in Clicks : click[d].at = "building" /\ click[d].tx.from = form
    /\ Begin(c, "building", BuildContractInvocationXdr(form))
    /\ UNCHANGED <<step, form, edits, previewOpen, pendingXdr, sim, signed>>

(* buildSimulationRequest answers; simulate clears the last simulation.       *)
BuildRequest(c) ==
    /\ click[c].at = "building"
    /\ pendingXdr' = click[c].tx
    /\ sim' = [NoSim EXCEPT !.status = "simulating"]
    /\ click' = [click EXCEPT ![c].at = "simulating"]
    /\ UNCHANGED <<step, form, edits, previewOpen, overlapped, signed>>

(* No wallet, no contract or no account: an empty transaction is "simulated", *)
(* which fails without a request.                                             *)
BuildFails(c) ==
    /\ click[c].at = "building"
    /\ pendingXdr' = NoTx
    /\ sim' = [NoSim EXCEPT !.status = "error"]
    /\ click' = [click EXCEPT ![c] = NoClick]
    /\ UNCHANGED <<step, form, edits, previewOpen, overlapped, signed>>

(* The answers of simulateTransactionRpc; every failure is an "error".        *)
SimulateTransactionRpc == {"success", "error"}

(* What the preview shows: the estimated fee of the simulated transaction.    *)
(* Signer, contract and function are the same for every one of them.          *)
BuildSimulationDetails(tx) == [feeOf |-> tx]

(* simulate goes on with the answer, whatever the user has done meanwhile.    *)
SimulationAnswers(c) ==
    /\ click[c].at = "simulating"
    /\ \E status \in SimulateTransactionRpc :
         sim' = [status |-> status,
                 details |-> IF status = "success" THEN BuildSimulationDetails(click[c].tx) ELSE sim.details]
    /\ click' = [click EXCEPT ![c] = NoClick]
    /\ UNCHANGED <<step, form, edits, previewOpen, pendingXdr, overlapped, signed>>

-----------------------------------------------------------------------------
(* The preview.                                                               *)

CanSignUnlessFailed == sim.status # "error"

CanSign == sim.status = "success" /\ sim.details # NoTx

CancelPreview ==
    /\ previewOpen
    /\ previewOpen' = FALSE
    /\ sim' = NoSim
    /\ pendingXdr' = NoTx
    /\ UNCHANGED <<step, form, edits, click, overlapped, signed>>

(* handleSignTransaction up to the wallet's prompt; without a wallet or a     *)
(* transaction there is no prompt.                                            *)
SignTransaction(c) ==
    /\ previewOpen /\ CanSign
    /\ previewOpen' = FALSE
    /\ Begin(c, "signing", pendingXdr)
    /\ \/ signed' = signed \cup (IF pendingXdr = NoTx THEN {} ELSE {[tx |-> pendingXdr, shown |-> sim.details]})
       \/ UNCHANGED signed
    /\ UNCHANGED <<step, form, edits, pendingXdr, sim>>

(* The prompt is answered: the wizard is done (the signed transaction itself  *)
(* is dropped), or stays at the review; either way the simulation is reset.   *)
SigningEnds(c) ==
    /\ click[c].at = "signing"
    /\ step' \in {"submitted", step}
    /\ sim' = NoSim
    /\ pendingXdr' = NoTx
    /\ click' = [click EXCEPT ![c] = NoClick]
    /\ UNCHANGED <<form, edits, previewOpen, overlapped, signed>>

WizardNext ==
    \/ EditForm
    \/ \E s \in {"details", "valuation", "review"} : GoToStep(s)
    \/ \E c \in Clicks :
         \/ Confirm(c) \/ ConfirmTwice(c) \/ BuildRequest(c) \/ BuildFails(c) \/ SimulationAnswers(c)
         \/ SignTransaction(c) \/ SigningEnds(c)
    \/ CancelPreview

WizardTypeOK ==
    /\ step \in {"details", "valuation", "review", "submitted"}
    /\ sim.status \in {"idle", "simulating", "success", "error"}
    /\ pendingXdr \in {BuildContractInvocationXdr(f) : f \in Forms} \cup {NoTx}

-----------------------------------------------------------------------------
(* The step to the review and editing after it are not validated, and still   *)
(* nothing is sent to the wallet that was not built from a valid form         *)
(* (handleSubmit in onFinalConfirm).                                          *)
SignedFormIsValid == \A s \in signed : s.tx.from \in ValidForms

IsShown(s) == s.shown # NoTx /\ s.shown.feeOf.faceValue = s.tx.faceValue

(* As long as no confirmation starts while an earlier one is being prepared   *)
(* or simulated, the wallet is asked to sign the transaction whose successful *)
(* simulation is on display: after cancelling, editing and confirming again,  *)
(* and also while an earlier prompt of the wallet is still open.              *)
SignedAsShown == ~overlapped => \A s \in signed : IsShown(s)

(* The preview "summarises the simulated transaction" that signing hands to   *)
(* the wallet (TransactionSimulationPreview.tsx), in every interleaving.      *)
PreviewShowsWhatIsSigned == \A s \in signed : IsShown(s)
(* What the wallet is asked to sign was validated and is what was shown.      *)
SigningIsSound == SignedFormIsValid /\ SignedAsShown
=============================================================================
