---------------------------- MODULE MCApplication ----------------------------
(* The parts of the application that keep state of their own and share none:  *)
(* in the backend the request limits, the oracle monitor, reminders, database *)
(* credentials, compliance exports and monitoring; in the frontend the        *)
(* offline queue, the invoice wizard and the portfolio table.  A behaviour    *)
(* exercises one of them (focus): the state spaces add up and do not multiply *)
(* as they would if unrelated parts were interleaved.                         *)
EXTENDS RateLimiter, CircuitBreaker, WebhookSubscriptions, OracleMonitor, InvoiceReminder,
        CredentialRotation, ComplianceExports, AnomalyMonitoring,
        OfflineQueue, InvoiceWizard, PortfolioTable, TLC

CONSTANTS u1, p1, q1, q2, q3, c1, c2, c3, o1, o2, adm, s1, s2, s3, n1, n2, f1, f2,
          i1, i2, w1, w2, w3, d1, d2, k1, k2, t1, t2, v1, v2, x1

VARIABLE focus

MCMaxRequests == [t \in Tier |-> IF t = "user" THEN 2 ELSE 1]
MCFaceValue == [f \in Forms |-> CASE f = v1 -> 1 [] f = v2 -> 2 [] OTHER -> 0]
MCSymmetry == Permutations({q1, q2, q3})

limitVars == <<rateVars, breakerVars, subsVars>>
jobVars == <<oracleVars, reminderVars, rotationVars, complianceVars, monitoringVars>>
frontendVars == <<queueVars, wizardVars, tableVars>>
applicationVars == <<limitVars, jobVars, frontendVars, focus>>

(* Parts that are not exercised start in one state.                           *)
ApplicationInit ==
    /\ focus \in {"rate", "breaker", "subscriptions", "oracle", "reminder", "rotation", "compliance", "monitoring",
                  "offline", "wizard", "portfolio"}
    /\ RateInit /\ (focus # "rate" => \A r \in HttpRequests : caller[r] = p1 /\ ~wallet[r])
    /\ BreakerInit /\ SubsInit /\ ReminderInit /\ WizardInit
    /\ OracleInit /\ (focus # "oracle" => addressed = {} /\ configured = "none")
    /\ RotationInit /\ (focus # "rotation" => secrets = NoSecrets)
    /\ ComplianceInit
    /\ (focus # "compliance" => \A i \in ExpInvoices : rows[i].status = "PENDING" /\ rows[i].farmer = w1)
    /\ MonitoringInit /\ (focus # "monitoring" => \A l \in MonLedgers : funding[l] = <<>>)
    /\ QueueInit /\ (focus # "offline" => open = Pages)
    /\ TableInit /\ (focus # "portfolio" => listed = 0)

RateStep ==
    /\ focus = "rate" /\ RateNext
    /\ UNCHANGED <<breakerVars, subsVars, jobVars, frontendVars, focus>>
BreakerStep ==
    /\ focus = "breaker" /\ BreakerNext
    /\ UNCHANGED <<rateVars, subsVars, jobVars, frontendVars, focus>>
SubsStep ==
    /\ focus = "subscriptions" /\ SubsNext
    /\ UNCHANGED <<rateVars, breakerVars, jobVars, frontendVars, focus>>
OracleStep ==
    /\ focus = "oracle" /\ OracleNext
    /\ UNCHANGED <<reminderVars, rotationVars, complianceVars, monitoringVars, limitVars, frontendVars, focus>>
ReminderStep ==
    /\ focus = "reminder" /\ ReminderNext
    /\ UNCHANGED <<oracleVars, rotationVars, complianceVars, monitoringVars, limitVars, frontendVars, focus>>
RotationStep ==
    /\ focus = "rotation" /\ RotationNext
    /\ UNCHANGED <<oracleVars, reminderVars, complianceVars, monitoringVars, limitVars, frontendVars, focus>>
ComplianceStep ==
    /\ focus = "compliance" /\ ComplianceNext
    /\ UNCHANGED <<oracleVars, reminderVars, rotationVars, monitoringVars, limitVars, frontendVars, focus>>
MonitoringStep ==
    /\ focus = "monitoring" /\ MonitoringNext
    /\ UNCHANGED <<oracleVars, reminderVars, rotationVars, complianceVars, limitVars, frontendVars, focus>>
QueueStep ==
    /\ focus = "offline" /\ QueueNext
    /\ UNCHANGED <<wizardVars, tableVars, limitVars, jobVars, focus>>
WizardStep ==
    /\ focus = "wizard" /\ WizardNext
    /\ UNCHANGED <<queueVars, tableVars, limitVars, jobVars, focus>>
TableStep ==
    /\ focus = "portfolio" /\ TableNext
    /\ UNCHANGED <<queueVars, wizardVars, limitVars, jobVars, focus>>

ApplicationNext ==
    \/ RateStep \/ BreakerStep \/ SubsStep
    \/ OracleStep \/ ReminderStep \/ RotationStep \/ ComplianceStep \/ MonitoringStep
    \/ QueueStep \/ WizardStep \/ TableStep

ApplicationSpec == ApplicationInit /\ [][ApplicationNext]_applicationVars

(* The stored state of every part is well formed: a circuit that reaches its  *)
(* threshold of successes has closed, the queue keeps no more than its limit  *)
(* of failed jobs, a completed export has its document.                       *)
ApplicationTypeOK ==
    /\ RateTypeOK /\ BreakerTypeOK /\ SubsTypeOK
    /\ OracleTypeOK /\ ReminderTypeOK /\ RotationTypeOK /\ ComplianceTypeOK /\ MonitoringTypeOK
    /\ QueueTypeOK /\ WizardTypeOK /\ TableTypeOK
=============================================================================
