-------------------------- MODULE ComplianceExports --------------------------
(* Regulatory exports (compliance/): FATF records and investor reports built  *)
(* from the invoice table, answered at once or by a job that runs detached    *)
(* from its request, while invoices are funded and settled.                   *)
(* A document is the set of its records; serialisation and the signature over *)
(* it are left out.  Dates are left out: a request has no date range, and the *)
(* date of a transfer is written once (createdAt, settledAt).                 *)
(* The table has the columns of schema.prisma: the deprecated investor column *)
(* beside funder, which backfilled rows share and new rows do not.            *)
EXTENDS Integers, FiniteSetsExt

CONSTANTS ExpInvoices, Wallets, ComplianceAdmins,
          ExpJobs,         \* bound: rows of ExportJob
          FaceValues, FundedAmounts,
          Thresholds,      \* FATF thresholds asked for
          NoWallet, NoDoc

Principals == Wallets \cup ComplianceAdmins
Queries == ({"TRANSACTIONS"} \X Thresholds) \cup {<<"INVESTOR_REPORT", 0>>}
Subjects == Wallets \cup {NoWallet}

ASSUME ComplianceAssumption ==
    /\ IsFiniteSet(ExpInvoices)
    /\ FaceValues \subseteq Int /\ FundedAmounts \subseteq Int
    /\ NoWallet \notin Wallets

VARIABLES
    rows,      \* the Invoice table
    exportJob, \* the ExportJob table
    runner,    \* job -> where processJob is suspended in this process
    built,     \* job -> the document the suspended processJob holds
    answer     \* the last document sent, and to whom

complianceVars == <<rows, exportJob, runner, built, answer>>

NoExport == [status |-> "absent", type |-> "TRANSACTIONS", requestedBy |-> NoWallet,
             subject |-> NoWallet, threshold |-> 0, content |-> NoDoc]

(* An invoice is pending, or was funded before the new column and backfilled. *)
(* A row without a funded amount counts at par.                               *)
LegacyRows(f, v) ==
    {[status |-> "PENDING", farmer |-> f, investor |-> NoWallet, funder |-> NoWallet,
      faceValue |-> v, fundedAmount |-> v]} \cup
    {[status |-> s, farmer |-> f, investor |-> w, funder |-> w, faceValue |-> v, fundedAmount |-> a] :
        s \in {"FUNDED", "REPAID", "DEFAULTED"}, w \in Wallets \ {f}, a \in FundedAmounts \cup {v}}

ComplianceInit ==
    /\ rows \in [ExpInvoices -> UNION {LegacyRows(f, v) : f \in Wallets, v \in FaceValues}]
    /\ exportJob = [j \in ExpJobs |-> NoExport]
    /\ runner = [j \in ExpJobs |-> "none"]
    /\ built = [j \in ExpJobs |-> NoDoc]
    /\ answer = [to |-> NoWallet, doc |-> NoDoc]

-----------------------------------------------------------------------------
(* buildFatfRecords: investor -> farmer when there is an investor, and back   *)
(* once the invoice is repaid, each from the threshold on.  A record has the  *)
(* transfer and the status of the invoice at the time of the export.          *)
Financing(r) == [type |-> "FINANCING", from |-> r.investor, to |-> r.farmer, amount |-> r.fundedAmount]
Repayment(r) == [type |-> "REPAYMENT", from |-> r.farmer, to |-> r.investor, amount |-> r.faceValue]

FatfOf(r) ==
    IF r.investor = NoWallet THEN {}
    ELSE {Financing(r)} \cup (IF r.status = "REPAID" THEN {Repayment(r)} ELSE {})

InScope(subject, r) == subject # NoWallet => subject \in {r.farmer, r.investor}

BuildTransactions(subject, threshold) ==
    UNION {{[ref |-> i, rec |-> t, status |-> rows[i].status] : t \in {u \in FatfOf(rows[i]) : u.amount >= threshold}} :
              i \in {k \in ExpInvoices : InScope(subject, rows[k])}}

(* buildInvestorReport: the positions of the investor column.                 *)
BuildInvestor(subject) ==
    {[ref |-> i, rec |-> Financing(rows[i]), status |-> rows[i].status] :
        i \in {k \in ExpInvoices : rows[k].investor = subject}}

Build(type, subject, threshold) ==
    IF type = "TRANSACTIONS" THEN BuildTransactions(subject, threshold) ELSE BuildInvestor(subject)

Positions(w) == {i \in ExpInvoices : rows[i].investor = w}
PositionsIn(w, s) == {i \in Positions(w) : rows[i].status = s}
CostBasis == [i \in ExpInvoices |-> rows[i].fundedAmount]
Proceeds == [i \in ExpInvoices |-> rows[i].faceValue]
Total(amounts, S) == MapThenSumSet(LAMBDA i : amounts[i], S)
TotalCost(S) == Total(CostBasis, S)
RealizedProceeds(w) == Total(Proceeds, PositionsIn(w, "REPAID"))

RealizedPnl(w) ==
    RealizedProceeds(w) - TotalCost(PositionsIn(w, "REPAID")) - TotalCost(PositionsIn(w, "DEFAULTED"))

-----------------------------------------------------------------------------
(* resolveTransactionSubject and resolveInvestorSubject: an admin names any   *)
(* subject (and must name one for an investor report), the others are pinned  *)
(* to their own wallet.                                                       *)
MayAsk(p, type, requested) ==
    IF p \in ComplianceAdmins THEN type = "TRANSACTIONS" \/ requested # NoWallet
    ELSE requested \in {NoWallet, p}

ResolveSubject(p, requested) == IF p \in ComplianceAdmins THEN requested ELSE p

ExportInline(p, type, requested, threshold) ==
    /\ MayAsk(p, type, requested)
    /\ answer' = [to |-> p, doc |-> Build(type, ResolveSubject(p, requested), threshold)]
    /\ UNCHANGED <<rows, exportJob, runner, built>>

(* The job row is created and processJob scheduled with setImmediate.         *)
EnqueueExport(j, p, type, requested, threshold) ==
    /\ exportJob[j].status = "absent"
    /\ MayAsk(p, type, requested)
    /\ exportJob' = [exportJob EXCEPT ![j] =
                       [status |-> "PENDING", type |-> type, requestedBy |-> p,
                        subject |-> ResolveSubject(p, requested), threshold |-> threshold, content |-> NoDoc]]
    /\ runner' = [runner EXCEPT ![j] = "scheduled"]
    /\ UNCHANGED <<rows, built, answer>>

MarkProcessing(j) ==
    /\ runner[j] = "scheduled"
    /\ exportJob[j].status = "PENDING"
    /\ exportJob' = [exportJob EXCEPT ![j].status = "PROCESSING"]
    /\ runner' = [runner EXCEPT ![j] = "building"]
    /\ UNCHANGED <<rows, built, answer>>

BuildExport(j) ==
    /\ runner[j] = "building"
    /\ built' = [built EXCEPT ![j] = Build(exportJob[j].type, exportJob[j].subject, exportJob[j].threshold)]
    /\ runner' = [runner EXCEPT ![j] = "built"]
    /\ UNCHANGED <<rows, exportJob, answer>>

CompleteJob(j) ==
    /\ runner[j] = "built"
    /\ exportJob' = [exportJob EXCEPT ![j].status = "COMPLETED", ![j].content = built[j]]
    /\ runner' = [runner EXCEPT ![j] = "none"]
    /\ built' = [built EXCEPT ![j] = NoDoc]
    /\ UNCHANGED <<rows, answer>>

(* The query, the signing or the final update throws.                         *)
FailJob(j) ==
    /\ runner[j] \in {"building", "built"}
    /\ exportJob' = [exportJob EXCEPT ![j].status = "FAILED"]
    /\ runner' = [runner EXCEPT ![j] = "none"]
    /\ built' = [built EXCEPT ![j] = NoDoc]
    /\ UNCHANGED <<rows, answer>>

(* The process ends, also by the unhandled rejection of processJob when a     *)
(* statement outside its try block fails; nothing picks the jobs up again.    *)
CrashExports ==
    /\ \E j \in ExpJobs : runner[j] # "none"
    /\ runner' = [j \in ExpJobs |-> "none"]
    /\ built' = [j \in ExpJobs |-> NoDoc]
    /\ UNCHANGED <<rows, exportJob, answer>>

AuthorizedIfKnown(p, j) == exportJob[j].status # "absent"

(* loadAuthorizedJob: somebody else's job does not exist.                     *)
Authorized(p, j) ==
    /\ exportJob[j].status # "absent"
    /\ p \in ComplianceAdmins \/ exportJob[j].requestedBy = p

DownloadJob(p, j) ==
    /\ Authorized(p, j)
    /\ exportJob[j].status = "COMPLETED"
    /\ answer' = [to |-> p, doc |-> exportJob[j].content]
    /\ UNCHANGED <<rows, exportJob, runner, built>>

-----------------------------------------------------------------------------
(* What the funding service writes: funder, not investor.                     *)
FundRow(i) ==
    /\ rows[i].status = "PENDING"
    /\ \E w \in Wallets \ {rows[i].farmer}, a \in FundedAmounts :
         rows' = [rows EXCEPT ![i].status = "FUNDED", ![i].funder = w, ![i].fundedAmount = a]
    /\ UNCHANGED <<exportJob, runner, built, answer>>

(* What the settlement listener writes.                                       *)
SettleRow(i) ==
    /\ rows[i].status = "FUNDED"
    /\ rows' = [rows EXCEPT ![i].status = "REPAID"]
    /\ UNCHANGED <<exportJob, runner, built, answer>>

ComplianceNext ==
    \/ \E p \in Principals, s \in Subjects, q \in Queries :
         \/ ExportInline(p, q[1], s, q[2])
         \/ \E j \in ExpJobs : EnqueueExport(j, p, q[1], s, q[2])
    \/ \E j \in ExpJobs : MarkProcessing(j) \/ BuildExport(j) \/ CompleteJob(j) \/ FailJob(j)
    \/ \E p \in Principals, j \in ExpJobs : DownloadJob(p, j)
    \/ \E i \in ExpInvoices : FundRow(i) \/ SettleRow(i)
    \/ CrashExports

ComplianceTypeOK ==
    \A j \in ExpJobs :
        /\ exportJob[j].status = "COMPLETED" <=> exportJob[j].content # NoDoc
        /\ runner[j] = "scheduled" => exportJob[j].status = "PENDING"
        /\ runner[j] \in {"building", "built"} => exportJob[j].status = "PROCESSING"

-----------------------------------------------------------------------------
(* Whoever downloads a document, at once or through a job of any age, sees    *)
(* only transfers he is a party of, unless he is an admin                     *)
(* (resolveTransactionSubject, resolveInvestorSubject, loadAuthorizedJob).    *)
ReportsAreScoped ==
    answer.doc # NoDoc /\ answer.to \notin ComplianceAdmins =>
        \A d \in answer.doc : answer.to \in {d.rec.from, d.rec.to}

(* The transfer is still reported, and with the status it was reported with   *)
(* unless the invoice was still open.                                         *)
StillReported(d, doc) ==
    \E x \in doc : x.ref = d.ref /\ x.rec = d.rec /\ (d.status # "FUNDED" => x.status = d.status)

(* A signed document does not become wrong: every transfer in a completed     *)
(* FATF export is still one the builder reports, whatever has happened to the *)
(* invoice since, and an invoice it calls repaid or defaulted is so; only an  *)
(* invoice it calls funded may have been settled (buildFatfRecords).          *)
SignedStaysTrue ==
    \A j \in ExpJobs : exportJob[j].status = "COMPLETED" /\ exportJob[j].type = "TRANSACTIONS" =>
        \A d \in exportJob[j].content :
            StillReported(d, BuildTransactions(exportJob[j].subject, exportJob[j].threshold))

(* The investor report balances: what was paid in is what came back less the  *)
(* profit, plus what is still outstanding (buildInvestorReport's sums).       *)
PnlBalances ==
    \A w \in Wallets :
        TotalCost(Positions(w)) = RealizedProceeds(w) - RealizedPnl(w) + TotalCost(PositionsIn(w, "FUNDED"))

(* Exports reach only whom they concern, stay true, and add up.               *)
ExportsAreSound == ReportsAreScoped /\ SignedStaysTrue /\ PnlBalances
=============================================================================
