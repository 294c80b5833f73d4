--------------------------- MODULE InvoiceReminder ---------------------------
(* Payment reminders (invoice-reminder/): a scheduler that enqueues one job   *)
(* per invoice and six-hour window, the worker of the queue with its retries, *)
(* and the dead-letter queue.  Several backend instances run the scheduler.   *)
(* Bull keeps a job's data as JSON, so the dueDate the worker gets is a       *)
(* string and sendInvoiceReminder's dueDate.toLocaleDateString() throws       *)
(* before the mail is built: every attempt fails.  The invoices are those of  *)
(* the richer schema (User, dueDate) that this module is written against.     *)
EXTENDS Naturals, Sequences, SequencesExt, FiniteSets

CONSTANTS RemInvoices, Schedulers,
          QueueAttempts,   \* attempts: 3, fixed in invoice-reminder.module.ts
          MaxAttempts,     \* INVOICE_REMINDER_MAX_ATTEMPTS, default 3
          KeepFailed,      \* removeOnFail: 50
          MaxWindow,       \* bound: six-hour windows
          MaxCronRuns      \* bound: runs of the scheduler

ASSUME ReminderAssumption ==
    QueueAttempts \in Nat \ {0} /\ MaxAttempts \in Nat /\ KeepFailed \in Nat \ {0}

Windows == 0 .. MaxWindow

VARIABLES
    window,      \* the current six-hour window
    cronRuns,    \* runs of the scheduler so far
    sched,       \* scheduler -> where its cron job is suspended
    job,         \* <<invoice, window>> -> the queue's job with that jobId
    failedJobs,  \* the failed jobs the queue keeps, oldest first
    attempts,    \* <<invoice, window>> -> attempts made by all jobs with that jobId
    evicted,     \* jobIds the queue has forgotten
    dlq,         \* <<invoice, window>> -> dead letters of this reminder
    reports      \* <<invoice, window>> -> dead letters handled

reminderVars == <<window, cronRuns, sched, job, failedJobs, attempts, evicted, dlq, reports>>

JobIds == RemInvoices \X Windows
NoJob == [state |-> "absent", attemptsMade |-> 0]
IdleScheduler == [at |-> "idle", slot |-> 0, todo |-> {}, inFlight |-> {}]

ReminderInit ==
    /\ window = 0
    /\ cronRuns = 0
    /\ sched = [s \in Schedulers |-> IdleScheduler]
    /\ job = [j \in JobIds |-> NoJob]
    /\ failedJobs = <<>>
    /\ attempts = [j \in JobIds |-> 0]
    /\ evicted = {}
    /\ dlq = [j \in JobIds |-> 0]
    /\ reports = [j \in JobIds |-> 0]

InFlight == {j \in JobIds : job[j].state \in {"waiting", "active"}}

(* scheduleInvoiceReminders up to the answer of findInvoicesDueSoon; the slot *)
(* is the window in which the run began.                                      *)
FindDueSoon(s) ==
    /\ sched[s].at = "idle"
    /\ cronRuns < MaxCronRuns
    /\ cronRuns' = cronRuns + 1
    /\ sched' = [sched EXCEPT ![s] = [at |-> "due", slot |-> window, todo |-> RemInvoices, inFlight |-> {}]]
    /\ UNCHANGED <<window, job, failedJobs, attempts, evicted, dlq, reports>>

(* getJobs; when it fails the scheduler goes on with an empty set.            *)
GetInFlight(s) ==
    /\ sched[s].at = "due"
    /\ \E found \in {InFlight, {}} : sched' = [sched EXCEPT ![s].at = "loop", ![s].inFlight = found]
    /\ UNCHANGED <<window, cronRuns, job, failedJobs, attempts, evicted, dlq, reports>>

AddJobUnlessInFlight(j) ==
    IF job[j].state \in {"absent", "failed"} THEN [job EXCEPT ![j] = [NoJob EXCEPT !.state = "waiting"]] ELSE job

(* Bull's add is a no-op for a jobId it still knows, in whatever state.       *)
AddJob(j) == IF job[j].state = "absent" THEN [job EXCEPT ![j] = [NoJob EXCEPT !.state = "waiting"]] ELSE job

(* One round of the loop; an add that fails is logged and skipped.            *)
ScheduleOne(s) ==
    /\ sched[s].at = "loop"
    /\ \E i \in sched[s].todo :
         LET j == <<i, sched[s].slot>>
         IN /\ sched' = [sched EXCEPT ![s].todo = @ \ {i}]
            /\ job' \in (IF j \in sched[s].inFlight THEN {job} ELSE {job, AddJob(j)})
    /\ UNCHANGED <<window, cronRuns, failedJobs, attempts, evicted, dlq, reports>>

(* The loop ends, or the process stops in the middle of it.                   *)
SchedulerEnds(s) ==
    /\ sched[s].at # "idle"
    /\ sched' = [sched EXCEPT ![s] = IdleScheduler]
    /\ UNCHANGED <<window, cronRuns, job, failedJobs, attempts, evicted, dlq, reports>>

StartAttempt(j) ==
    /\ job[j].state = "waiting"
    /\ job' = [job EXCEPT ![j].state = "active"]
    /\ UNCHANGED <<window, cronRuns, sched, failedJobs, attempts, evicted, dlq, reports>>

(* Bull keeps the last KeepFailed failed jobs and forgets the oldest.         *)
Kept(j) == IF Len(failedJobs) < KeepFailed THEN Append(failedJobs, j) ELSE Append(Tail(failedJobs), j)

Exhausted(n) == n >= MaxAttempts

(* handleReminder throws: Bull counts the attempt, schedules another or gives *)
(* the job up, and calls onFailed, which forwards an exhausted job to the     *)
(* dead-letter queue.  That add may fail too, and is then only logged.        *)
ReminderFails(j) ==
    LET n == job[j].attemptsMade + 1
        over == n >= QueueAttempts
        gone == IF over THEN Range(failedJobs) \ Range(Kept(j)) ELSE {}
    IN /\ job[j].state = "active"
       /\ attempts' = [attempts EXCEPT ![j] = @ + 1]
       /\ job' = [k \in JobIds |->
                    IF k \in gone THEN NoJob
                    ELSE IF k = j THEN [state |-> IF over THEN "failed" ELSE "waiting", attemptsMade |-> n]
                    ELSE job[k]]
       /\ failedJobs' = IF over THEN Kept(j) ELSE failedJobs
       /\ evicted' = evicted \cup gone
       /\ dlq' \in (IF Exhausted(n) THEN {dlq, [dlq EXCEPT ![j] = @ + 1]} ELSE {dlq})
       /\ UNCHANGED <<window, cronRuns, sched, reports>>

(* handleDlq: the failure row and the alert, each of which may fail silently. *)
HandleDlq(j) ==
    /\ reports[j] < dlq[j]
    /\ reports' = [reports EXCEPT ![j] = @ + 1]
    /\ UNCHANGED <<window, cronRuns, sched, job, failedJobs, attempts, evicted, dlq>>

NextWindow ==
    /\ window < MaxWindow
    /\ window' = window + 1
    /\ UNCHANGED <<cronRuns, sched, job, failedJobs, attempts, evicted, dlq, reports>>

ReminderNext ==
    \/ \E s \in Schedulers : FindDueSoon(s) \/ GetInFlight(s) \/ ScheduleOne(s) \/ SchedulerEnds(s)
    \/ \E j \in JobIds : StartAttempt(j) \/ ReminderFails(j) \/ HandleDlq(j)
    \/ NextWindow

ReminderTypeOK ==
    /\ job \in [JobIds -> [state : {"absent", "waiting", "active", "failed"}, attemptsMade : 0 .. QueueAttempts]]
    /\ Len(failedJobs) <= KeepFailed

-----------------------------------------------------------------------------
(* However many instances run the scheduler, restart it, or see an outdated   *)
(* list of jobs in flight, an invoice gets one job per window: as long as the *)
(* queue remembers that job, no more than its own attempts are made.          *)
OneJobPerWindow == \A j \in JobIds : j \notin evicted => attempts[j] = job[j].attemptsMade

(* A reminder reaches the dead-letter queue at most once per job, and only    *)
(* when the queue will not try it again (onFailed; the attempts configured    *)
(* for the queue and for the processor agree).                                *)
DeadLetterOnlyWhenOver ==
    \A j \in JobIds : dlq[j] > 0 =>
        \/ job[j].state = "failed" /\ dlq[j] <= 1
        \/ j \in evicted
(* Attempts and dead letters are counted once, with any number of schedulers. *)
RemindersAreCounted == OneJobPerWindow /\ DeadLetterOnlyWhenOver
=============================================================================
