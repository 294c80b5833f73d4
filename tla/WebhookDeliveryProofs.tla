------------------------ MODULE WebhookDeliveryProofs ------------------------
(***************************************************************************)
(* Proofs about WebhookDelivery, for any number of subscriptions, events,  *)
(* backend instances, retries and faults.                                  *)
(***************************************************************************)
EXTENDS WebhookDelivery, FiniteSetTheorems, TLAPS

-----------------------------------------------------------------------------
(* The inductive invariant: a part that holds however long an attempt      *)
(* lasts, and a part for each row when no attempt outlives its lock.       *)

\* The table and the attempts are well formed: an attempt under way has its row,
\* and a row that is still open has attempts left.
QueueOK ==
    /\ WebhookTypeOK
    /\ \A w \in Workers, r \in RowId :
         /\ jobs[w][r].pc = "none" => jobs[w][r] = NoJob
         /\ jobs[w][r].pc # "none" => Has(rows, r)
    /\ \A r \in DOMAIN rows :
         rows[r].status \in {"PENDING", "PROCESSING"} => rows[r].attemptCount < MAX_DELIVERY_ATTEMPTS

\* An attempt under way is the only one of its row and owns the row's fresh lock.
HoldsRow(r) ==
    \A w \in Workers : jobs[w][r].pc # "none" =>
        /\ \A v \in Workers : jobs[v][r].pc # "none" => v = w
        /\ rows[r].status = "PROCESSING" /\ ~rows[r].stuck
        /\ jobs[w][r].attempt = rows[r].attemptCount + 1

\* What an attempt has found out so far.
AttemptOK(w, r) ==
    /\ jobs[w][r].pc \in {"lookup", "post"} => jobs[w][r].outcome = "none"
    /\ jobs[w][r].outcome = "revoked" => ~active[r[1]]
    /\ jobs[w][r].pc = "finalize" => jobs[w][r].attempt <= logged[r]

OkInFlight(r) == \E w \in Workers : jobs[w][r].outcome = "ok"
Delivered(r) == Has(rows, r) /\ rows[r].status = "DELIVERED"

\* Every acknowledgement of the subscriber was lost, is on record, or is about to be.
AcksAccounted(r) ==
    acks[r] = interrupted[r] + (IF Delivered(r) \/ OkInFlight(r) THEN 1 ELSE 0)

\* What the row itself records.
RecordOK(r) ==
    Has(rows, r) =>
        /\ rows[r].status = "ABANDONED" =>
             rows[r].attemptCount = MAX_DELIVERY_ATTEMPTS \/ ~active[r[1]]
        /\ rows[r].attemptCount <= logged[r]

RowOK(r) ==
    /\ HoldsRow(r)
    /\ \A w \in Workers : AttemptOK(w, r)
    /\ AcksAccounted(r)
    /\ RecordOK(r)

\* The inductive invariant while no attempt outlives its lock.
DeliveryInv == QueueOK /\ \A r \in RowId : RowOK(r)

-----------------------------------------------------------------------------
(* Facts about the state. *)

\* An attempt is under way exactly when its program counter says so.
LEMMA LiveIffRunning ==
    ASSUME QueueOK, NEW w \in Workers, NEW r \in RowId
    PROVE  IsLive(w, r) <=> jobs[w][r].pc # "none"
BY DEF QueueOK, IsLive, NoJob

\* NoJob is a job that has no outcome.
LEMMA NoJobFacts ==
    /\ NoJob \in Job /\ NoJob.pc = "none" /\ NoJob.outcome = "none" /\ NoJob.attempt = 0
    /\ NoJob.awaited = FALSE
BY WebhookNumbersAssumption DEF NoJob, Job

\* An attempt that is not under way has no outcome.
LEMMA IdleHasNoOutcome ==
    ASSUME QueueOK, NEW w \in Workers, NEW r \in RowId, jobs[w][r].pc = "none"
    PROVE  jobs[w][r].outcome = "none"
BY NoJobFacts DEF QueueOK

\* The attempts with the one of worker w for row r replaced.
WithJob(w, r, j) == [jobs EXCEPT ![w][r] = j]

\* Changing the attempt of one worker for one row.
LEMMA JobCell ==
    ASSUME QueueOK, NEW w \in Workers, NEW r \in RowId, NEW j \in Job,
           jobs' = WithJob(w, r, j)
    PROVE  /\ jobs' \in [Workers -> [RowId -> Job]]
           /\ jobs'[w][r] = j
           /\ \A v \in Workers, q \in RowId : (v # w \/ q # r) => jobs'[v][q] = jobs[v][q]
<1>1. jobs \in [Workers -> [RowId -> Job]]
  BY DEF QueueOK, WebhookTypeOK
<1>2. jobs' = [jobs EXCEPT ![w] = [jobs[w] EXCEPT ![r] = j]]
  BY <1>1 DEF WithJob
<1>3. [jobs[w] EXCEPT ![r] = j] \in [RowId -> Job]
  BY <1>1
<1>4. jobs'[w] = [jobs[w] EXCEPT ![r] = j] /\ \A v \in Workers : v # w => jobs'[v] = jobs[v]
  BY <1>1, <1>2
<1>. QED
  BY <1>1, <1>2, <1>3, <1>4

\* Two jobs with the same fields are the same job.
LEMMA JobExtensional ==
    \A a, b \in Job : /\ a.pc = b.pc /\ a.attempt = b.attempt
                      /\ a.outcome = b.outcome /\ a.awaited = b.awaited
                      => a = b
BY DEF Job

\* The job of an attempt, by its fields.
LEMMA JobFields ==
    ASSUME QueueOK, NEW w \in Workers, NEW r \in RowId
    PROVE  /\ jobs[w][r] \in Job
           /\ jobs[w][r].pc \in {"none", "lookup", "post", "log", "finalize"}
           /\ jobs[w][r].attempt \in 0 .. MAX_DELIVERY_ATTEMPTS
           /\ jobs[w][r].attempt \in Nat
           /\ jobs[w][r].outcome \in {"none", "ok", "failed", "revoked"}
           /\ jobs[w][r].awaited \in BOOLEAN
<1>1. jobs[w][r] \in Job
  BY DEF QueueOK, WebhookTypeOK
<1>. QED
  BY <1>1, WebhookNumbersAssumption DEF Job

\* A row, by its fields.
LEMMA RowFields ==
    ASSUME QueueOK, NEW r \in RowId, Has(rows, r)
    PROVE  /\ rows[r] \in Row
           /\ rows[r].status \in RowStatus
           /\ rows[r].attemptCount \in 0 .. MAX_DELIVERY_ATTEMPTS
           /\ rows[r].attemptCount \in Nat
           /\ rows[r].due \in BOOLEAN /\ rows[r].stuck \in BOOLEAN
<1>1. rows[r] \in Row
  BY DEF QueueOK, WebhookTypeOK, Has
<1>. QED
  BY <1>1, WebhookNumbersAssumption DEF Row

\* The history counters are numbers.
LEMMA Counters ==
    ASSUME QueueOK, NEW r \in RowId
    PROVE  acks[r] \in Nat /\ interrupted[r] \in Nat /\ logged[r] \in Nat
BY DEF QueueOK, WebhookTypeOK

\* What a step of an attempt before finalize does to its job and to the counters.
LEMMA AttemptStepFacts ==
    ASSUME QueueOK, NEW w \in Workers, NEW r \in RowId,
           Lookup(w, r) \/ Post(w, r) \/ PostAnswerLost(w, r) \/ LogAttempt(w, r)
    PROVE  \E j \in Job :
             /\ jobs' = WithJob(w, r, j)
             /\ jobs[w][r].pc # "none" /\ j.pc # "none" /\ j.attempt = jobs[w][r].attempt
             /\ \/ /\ jobs[w][r].pc = "lookup" /\ j.pc = "post" /\ j.outcome = jobs[w][r].outcome
                   /\ UNCHANGED <<acks, interrupted, logged>>
                \/ /\ jobs[w][r].pc = "lookup" /\ j.pc = "log" /\ j.outcome = "revoked" /\ ~active[r[1]]
                   /\ UNCHANGED <<acks, interrupted, logged>>
                \/ /\ jobs[w][r].pc = "post" /\ j.pc = "log" /\ j.outcome = "ok"
                   /\ acks' = [acks EXCEPT ![r] = @ + 1] /\ UNCHANGED <<interrupted, logged>>
                \/ /\ jobs[w][r].pc = "post" /\ j.pc = "log" /\ j.outcome = "failed"
                   /\ UNCHANGED <<acks, interrupted, logged>>
                \/ /\ jobs[w][r].pc = "post" /\ j.pc = "log" /\ j.outcome = "failed"
                   /\ acks' = [acks EXCEPT ![r] = @ + 1]
                   /\ interrupted' = [interrupted EXCEPT ![r] = @ + 1] /\ UNCHANGED logged
                \/ /\ jobs[w][r].pc = "log" /\ j.pc = "finalize" /\ j.outcome = jobs[w][r].outcome
                   /\ logged' = [logged EXCEPT ![r] = @ + 1] /\ UNCHANGED <<acks, interrupted>>
             /\ faults' \in Nat /\ UNCHANGED <<active, toEnqueue, rows, polling, dispatches>>
<1>. DEFINE old == jobs[w][r]
<1>1. old \in Job /\ acks \in [RowId -> Nat] /\ faults \in Nat
  BY JobFields DEF QueueOK, WebhookTypeOK
<1>2. CASE Lookup(w, r) /\ active[r[1]]
  <2>. DEFINE j == [old EXCEPT !.pc = "post"]
  <2>1. j \in Job /\ j.attempt = old.attempt /\ j.outcome = old.outcome /\ j.pc = "post"
    BY <1>1 DEF Job
  <2>2. jobs' = WithJob(w, r, j) /\ old.pc = "lookup"
    BY <1>2 DEF Lookup, WithJob
  <2>3. /\ UNCHANGED <<acks, interrupted, logged>> /\ faults' \in Nat
        /\ UNCHANGED <<active, toEnqueue, rows, polling, dispatches>>
    BY <1>1, <1>2 DEF Lookup
  <2>. HIDE DEF j
  <2>. QED
    BY <2>1, <2>2, <2>3
<1>3. CASE Lookup(w, r) /\ ~active[r[1]]
  <2>. DEFINE j == [old EXCEPT !.pc = "log", !.outcome = "revoked"]
  <2>1. j \in Job /\ j.attempt = old.attempt /\ j.outcome = "revoked" /\ j.pc = "log"
    BY <1>1 DEF Job
  <2>2. jobs' = WithJob(w, r, j) /\ old.pc = "lookup"
    BY <1>3 DEF Lookup, WithJob
  <2>3. /\ UNCHANGED <<acks, interrupted, logged>> /\ faults' \in Nat
        /\ UNCHANGED <<active, toEnqueue, rows, polling, dispatches>>
    BY <1>1, <1>3 DEF Lookup
  <2>. HIDE DEF j
  <2>. QED
    BY <1>3, <2>1, <2>2, <2>3
<1>4. ASSUME NEW outcome \in {"ok", "failed"},
             jobs' = [jobs EXCEPT ![w][r].pc = "log", ![w][r].outcome = outcome]
      PROVE  \E j \in Job : /\ jobs' = WithJob(w, r, j) /\ j.pc = "log"
                            /\ j.attempt = old.attempt /\ j.outcome = outcome
  <2>. DEFINE j == [old EXCEPT !.pc = "log", !.outcome = outcome]
  <2>1. j \in Job /\ j.attempt = old.attempt /\ j.outcome = outcome /\ j.pc = "log"
    BY <1>1 DEF Job
  <2>2. jobs' = WithJob(w, r, j)
    <3>1. jobs \in [Workers -> [RowId -> Job]]
      BY DEF QueueOK, WebhookTypeOK
    <3>. QED
      BY <1>4, <3>1 DEF WithJob
  <2>. HIDE DEF j
  <2>. QED
    BY <2>1, <2>2
<1>5. CASE Post(w, r)
  <2>1. PICK outcome \in {"ok", "failed"} :
          /\ jobs' = [jobs EXCEPT ![w][r].pc = "log", ![w][r].outcome = outcome]
          /\ acks' = [acks EXCEPT ![r] = IF outcome = "ok" THEN @ + 1 ELSE @]
    BY <1>5 DEF Post
  <2>2. PICK j \in Job : /\ jobs' = WithJob(w, r, j) /\ j.pc = "log"
                         /\ j.attempt = old.attempt /\ j.outcome = outcome
    BY <1>4, <2>1
  <2>3. /\ old.pc = "post" /\ faults' \in Nat
        /\ UNCHANGED <<active, toEnqueue, rows, polling, dispatches, interrupted, logged>>
    BY <1>1, <1>5 DEF Post
  <2>4. CASE outcome = "ok"
    BY <2>1, <2>2, <2>3, <2>4
  <2>5. CASE outcome = "failed"
    <3>1. acks' = acks
      BY <1>1, <2>1, <2>5
    <3>. QED
      BY <2>2, <2>3, <2>5, <3>1
  <2>. QED
    BY <2>4, <2>5
<1>6. CASE PostAnswerLost(w, r)
  <2>1. PICK j \in Job : /\ jobs' = WithJob(w, r, j) /\ j.pc = "log"
                         /\ j.attempt = old.attempt /\ j.outcome = "failed"
    BY <1>4, <1>6 DEF PostAnswerLost
  <2>2. /\ old.pc = "post" /\ faults' \in Nat
        /\ acks' = [acks EXCEPT ![r] = @ + 1] /\ interrupted' = [interrupted EXCEPT ![r] = @ + 1]
        /\ UNCHANGED <<active, toEnqueue, rows, polling, dispatches, logged>>
    BY <1>1, <1>6 DEF PostAnswerLost
  <2>. QED
    BY <2>1, <2>2
<1>7. CASE LogAttempt(w, r)
  <2>. DEFINE j == [old EXCEPT !.pc = "finalize"]
  <2>1. j \in Job /\ j.attempt = old.attempt /\ j.outcome = old.outcome /\ j.pc = "finalize"
    BY <1>1 DEF Job
  <2>2. jobs' = WithJob(w, r, j) /\ old.pc = "log"
    BY <1>7 DEF LogAttempt, WithJob
  <2>3. /\ logged' = [logged EXCEPT ![r] = @ + 1] /\ UNCHANGED <<acks, interrupted>>
        /\ faults' \in Nat /\ UNCHANGED <<active, toEnqueue, rows, polling, dispatches>>
    BY <1>1, <1>7 DEF LogAttempt
  <2>. HIDE DEF j
  <2>. QED
    BY <2>1, <2>2, <2>3
<1>. QED
  BY <1>2, <1>3, <1>5, <1>6, <1>7

\* finalize stores the outcome under the attempt's number and ends the attempt.
LEMMA FinalizeFacts ==
    ASSUME QueueOK, NEW w \in Workers, NEW r \in RowId, Finalize(w, r)
    PROVE  /\ jobs[w][r].pc = "finalize" /\ Has(rows, r) /\ jobs' = WithJob(w, r, NoJob)
           /\ polling' \in [Workers -> BOOLEAN]
           /\ UNCHANGED <<active, toEnqueue, logged, acks, interrupted, dispatches, faults>>
           /\ \E row \in Row :
                /\ rows' = Put(rows, r, row) /\ row.attemptCount = jobs[w][r].attempt
                /\ \/ jobs[w][r].outcome = "ok" /\ row.status = "DELIVERED"
                   \/ jobs[w][r].outcome = "revoked" /\ row.status = "ABANDONED"
                   \/ /\ jobs[w][r].outcome \in {"none", "failed"} /\ row.status = "PENDING"
                      /\ jobs[w][r].attempt < MAX_DELIVERY_ATTEMPTS
                   \/ /\ jobs[w][r].outcome \in {"none", "failed"} /\ row.status = "ABANDONED"
                      /\ jobs[w][r].attempt = MAX_DELIVERY_ATTEMPTS
<1>. DEFINE j == jobs[w][r]
            row == FinalRow(rows[r], j)
<1>1. /\ j.pc = "finalize" /\ Has(rows, r) /\ j \in Job /\ rows[r] \in Row
      /\ j.outcome \in {"none", "ok", "failed", "revoked"}
      /\ j.attempt \in 0 .. MAX_DELIVERY_ATTEMPTS
  <2>1. j.pc = "finalize" /\ Has(rows, r)
    BY DEF Finalize, QueueOK
  <2>. QED
    BY <2>1, JobFields, RowFields
<1>2. jobs' = WithJob(w, r, NoJob)
  BY DEF Finalize, WithJob
<1>3. polling' \in [Workers -> BOOLEAN]
  <2>1. StillPolling(w, r) \in BOOLEAN
    BY DEF StillPolling
  <2>. QED
    BY <2>1 DEF Finalize, QueueOK, WebhookTypeOK
<1>4. rows' = Put(rows, r, row)
  BY <1>1 DEF Finalize, Put, Has
<1>5. \E st \in RowStatus :
        /\ row = [rows[r] EXCEPT !.status = st, !.attemptCount = j.attempt, !.due = FALSE]
        /\ \/ j.outcome = "ok" /\ st = "DELIVERED"
           \/ j.outcome = "revoked" /\ st = "ABANDONED"
           \/ j.outcome \in {"none", "failed"} /\ st = "PENDING" /\ j.attempt < MAX_DELIVERY_ATTEMPTS
           \/ j.outcome \in {"none", "failed"} /\ st = "ABANDONED" /\ j.attempt = MAX_DELIVERY_ATTEMPTS
  <2>. DEFINE st == CASE j.outcome = "ok" -> "DELIVERED"
                      [] j.outcome = "revoked" -> "ABANDONED"
                      [] OTHER -> IF j.attempt >= MAX_DELIVERY_ATTEMPTS THEN "ABANDONED" ELSE "PENDING"
  <2>1. row = [rows[r] EXCEPT !.status = st, !.attemptCount = j.attempt, !.due = FALSE]
    BY DEF FinalRow
  <2>2. CASE j.outcome = "ok"
    <3>1. st = "DELIVERED"
      BY <2>2
    <3>. QED
      BY <2>1, <2>2, <3>1 DEF RowStatus
  <2>3. CASE j.outcome = "revoked"
    <3>1. st = "ABANDONED"
      BY <2>3
    <3>. QED
      BY <2>1, <2>3, <3>1 DEF RowStatus
  <2>4. CASE j.outcome \in {"none", "failed"} /\ j.attempt < MAX_DELIVERY_ATTEMPTS
    <3>1. st = "PENDING"
      BY <1>1, <2>4, WebhookNumbersAssumption
    <3>. QED
      BY <2>1, <2>4, <3>1 DEF RowStatus
  <2>5. CASE j.outcome \in {"none", "failed"} /\ j.attempt = MAX_DELIVERY_ATTEMPTS
    <3>1. st = "ABANDONED"
      BY <1>1, <2>5, WebhookNumbersAssumption
    <3>. QED
      BY <2>1, <2>5, <3>1 DEF RowStatus
  <2>6. j.attempt < MAX_DELIVERY_ATTEMPTS \/ j.attempt = MAX_DELIVERY_ATTEMPTS
    BY <1>1, WebhookNumbersAssumption
  <2>. QED
    BY <1>1, <2>2, <2>3, <2>4, <2>5, <2>6
<1>. HIDE DEF row
<1>6. PICK st \in RowStatus :
        /\ row = [rows[r] EXCEPT !.status = st, !.attemptCount = j.attempt, !.due = FALSE]
        /\ \/ j.outcome = "ok" /\ st = "DELIVERED"
           \/ j.outcome = "revoked" /\ st = "ABANDONED"
           \/ j.outcome \in {"none", "failed"} /\ st = "PENDING" /\ j.attempt < MAX_DELIVERY_ATTEMPTS
           \/ j.outcome \in {"none", "failed"} /\ st = "ABANDONED" /\ j.attempt = MAX_DELIVERY_ATTEMPTS
  BY <1>5
<1>7. row \in Row /\ row.status = st /\ row.attemptCount = j.attempt
  BY <1>1, <1>6 DEF Row
<1>8. UNCHANGED <<active, toEnqueue, logged, acks, interrupted, dispatches, faults>>
  BY DEF Finalize
<1>. QED
  BY <1>1, <1>2, <1>3, <1>4, <1>6, <1>7, <1>8

\* The rows and the attempts after worker w has claimed batch.
Claimed(w, batch) ==
    /\ \A r \in batch : Has(rows, r) /\ Claimable(r) /\ jobs[w][r].pc = "none"
    /\ DOMAIN rows' = DOMAIN rows
    /\ \A r \in batch : /\ rows'[r] \in Row /\ rows'[r].status = "PROCESSING"
                        /\ rows'[r].stuck = FALSE
                        /\ rows'[r].attemptCount = rows[r].attemptCount
    /\ \A r \in DOMAIN rows : r \notin batch => rows'[r] = rows[r]
    /\ jobs' \in [Workers -> [RowId -> Job]]
    /\ \A r \in batch : /\ jobs'[w][r].pc = "lookup" /\ jobs'[w][r].outcome = "none"
                        /\ jobs'[w][r].attempt = rows[r].attemptCount + 1
    /\ \A v \in Workers, q \in RowId :
         (v # w \/ q \notin batch) => jobs'[v][q] = jobs[v][q]

\* A claim takes rows that are due, or whose lock has expired, and that this worker
\* is not attempting already.
LEMMA ClaimFacts ==
    ASSUME QueueOK, NEW w \in Workers, Claim(w)
    PROVE  /\ \E batch \in SUBSET RowId : Claimed(w, batch)
           /\ polling' \in [Workers -> BOOLEAN]
           /\ UNCHANGED <<active, toEnqueue, logged, acks, interrupted, dispatches, faults>>
<1>1. PICK batch \in SUBSET {r \in DOMAIN rows : Claimable(r) /\ ~IsLive(w, r)} :
         /\ rows' = [r \in DOMAIN rows |->
                       IF r \in batch
                       THEN [rows[r] EXCEPT !.status = "PROCESSING", !.stuck = FALSE]
                       ELSE rows[r]]
         /\ jobs' = [jobs EXCEPT ![w] = [r \in RowId |->
                       IF r \in batch
                       THEN [pc |-> "lookup", attempt |-> rows[r].attemptCount + 1,
                             outcome |-> "none", awaited |-> TRUE]
                       ELSE jobs[w][r]]]
  BY DEF Claim
<1>2. /\ polling' \in [Workers -> BOOLEAN]
      /\ UNCHANGED <<active, toEnqueue, logged, acks, interrupted, dispatches, faults>>
  BY DEF Claim, QueueOK, WebhookTypeOK
<1>3. batch \subseteq RowId /\ batch \subseteq DOMAIN rows
  BY DEF QueueOK, WebhookTypeOK
<1>4. ASSUME NEW r \in batch
      PROVE  /\ Has(rows, r) /\ Claimable(r) /\ jobs[w][r].pc = "none" /\ rows[r] \in Row
             /\ rows[r].attemptCount + 1 \in 0 .. MAX_DELIVERY_ATTEMPTS
  <2>1. r \in RowId /\ Has(rows, r) /\ Claimable(r) /\ ~IsLive(w, r)
    BY <1>3 DEF Has
  <2>2. rows[r].attemptCount \in Nat /\ rows[r].attemptCount < MAX_DELIVERY_ATTEMPTS
    BY <2>1, RowFields DEF QueueOK, Claimable, Has
  <2>. QED
    BY <2>1, <2>2, LiveIffRunning, RowFields, WebhookNumbersAssumption
<1>5. ASSUME NEW r \in batch
      PROVE  /\ rows'[r] \in Row /\ rows'[r].status = "PROCESSING" /\ rows'[r].stuck = FALSE
             /\ rows'[r].attemptCount = rows[r].attemptCount
  <2>1. rows[r] \in Row
    BY <1>4
  <2>2. rows'[r] = [rows[r] EXCEPT !.status = "PROCESSING", !.stuck = FALSE]
    BY <1>1, <1>3
  <2>. QED
    BY <2>1, <2>2 DEF Row, RowStatus
<1>6. DOMAIN rows' = DOMAIN rows /\ \A r \in DOMAIN rows : r \notin batch => rows'[r] = rows[r]
  BY <1>1
<1>7. jobs \in [Workers -> [RowId -> Job]]
  BY DEF QueueOK, WebhookTypeOK
<1>. DEFINE new(r) == [pc |-> "lookup", attempt |-> rows[r].attemptCount + 1,
                       outcome |-> "none", awaited |-> TRUE]
            mine == [r \in RowId |-> IF r \in batch THEN new(r) ELSE jobs[w][r]]
<1>8. \A r \in batch : /\ new(r) \in Job /\ new(r).pc = "lookup" /\ new(r).outcome = "none"
                       /\ new(r).attempt = rows[r].attemptCount + 1
  BY <1>4 DEF Job
<1>9. jobs' = [jobs EXCEPT ![w] = mine]
  BY <1>1
<1>. HIDE DEF new
<1>10. mine \in [RowId -> Job]
  BY <1>7, <1>8
<1>11. /\ \A r \in batch : mine[r] = new(r)
       /\ \A r \in RowId : r \notin batch => mine[r] = jobs[w][r]
  BY <1>3
<1>. HIDE DEF mine
<1>12. /\ jobs' \in [Workers -> [RowId -> Job]] /\ jobs'[w] = mine
       /\ \A v \in Workers : v # w => jobs'[v] = jobs[v]
  BY <1>7, <1>9, <1>10
<1>13. /\ \A r \in batch : /\ jobs'[w][r].pc = "lookup" /\ jobs'[w][r].outcome = "none"
                            /\ jobs'[w][r].attempt = rows[r].attemptCount + 1
       /\ \A v \in Workers, q \in RowId : (v # w \/ q \notin batch) => jobs'[v][q] = jobs[v][q]
  BY <1>8, <1>11, <1>12
<1>14. Claimed(w, batch)
  BY <1>4, <1>5, <1>6, <1>12, <1>13 DEF Claimed
<1>. QED
  BY <1>2, <1>3, <1>14

\* The attempts after those of worker w for the rows of dead have died.
Died(w, dead) ==
    /\ jobs' \in [Workers -> [RowId -> Job]]
    /\ \A q \in dead : jobs'[w][q] = NoJob
    /\ \A v \in Workers, q \in RowId : (v # w \/ q \notin dead) =>
         /\ jobs'[v][q].pc = jobs[v][q].pc
         /\ jobs'[v][q].attempt = jobs[v][q].attempt
         /\ jobs'[v][q].outcome = jobs[v][q].outcome
         /\ jobs[v][q] = NoJob => jobs'[v][q] = NoJob
    /\ interrupted' \in [RowId -> Nat]
    /\ \A q \in RowId :
         interrupted'[q] = interrupted[q] + (IF q \in dead /\ jobs[w][q].outcome = "ok" THEN 1 ELSE 0)

\* Attempts that die, of one row or of a whole instance, vanish, and an outcome that
\* was 2xx counts as interrupted; the other attempts go on.
LEMMA DeathFacts ==
    ASSUME QueueOK, NEW w \in Workers, (\E r \in RowId : AttemptFails(w, r)) \/ Crash(w)
    PROVE  /\ \E dead \in SUBSET RowId : Died(w, dead)
           /\ polling' \in [Workers -> BOOLEAN] /\ faults' \in Nat
           /\ UNCHANGED <<active, toEnqueue, rows, logged, acks, dispatches>>
<1>1. /\ jobs \in [Workers -> [RowId -> Job]] /\ interrupted \in [RowId -> Nat]
      /\ polling \in [Workers -> BOOLEAN] /\ faults \in Nat
  BY DEF QueueOK, WebhookTypeOK
<1>2. CASE Crash(w)
  <2>1. /\ polling' \in [Workers -> BOOLEAN] /\ faults' \in Nat
        /\ UNCHANGED <<active, toEnqueue, rows, logged, acks, dispatches>>
        /\ jobs' = [jobs EXCEPT ![w] = [r \in RowId |-> NoJob]]
        /\ interrupted' = [r \in RowId |-> IF jobs[w][r].outcome = "ok" THEN interrupted[r] + 1
                                           ELSE interrupted[r]]
    BY <1>1, <1>2 DEF Crash
  <2>2. /\ interrupted' \in [RowId -> Nat]
        /\ \A q \in RowId : interrupted'[q] =
             interrupted[q] + (IF q \in RowId /\ jobs[w][q].outcome = "ok" THEN 1 ELSE 0)
    BY <1>1, <2>1
  <2>3. [r \in RowId |-> NoJob] \in [RowId -> Job]
    BY NoJobFacts
  <2>4. /\ jobs' \in [Workers -> [RowId -> Job]] /\ \A q \in RowId : jobs'[w][q] = NoJob
        /\ \A v \in Workers : v # w => jobs'[v] = jobs[v]
    BY <1>1, <2>1, <2>3
  <2>5. Died(w, RowId)
    BY <2>2, <2>4 DEF Died
  <2>. QED
    BY <2>1, <2>5
<1>3. ASSUME NEW r \in RowId, AttemptFails(w, r)
      PROVE  /\ \E dead \in SUBSET RowId : Died(w, dead)
             /\ polling' \in [Workers -> BOOLEAN] /\ faults' \in Nat
             /\ UNCHANGED <<active, toEnqueue, rows, logged, acks, dispatches>>
  <2>. DEFINE left(q) == IF jobs[w][r].awaited THEN [jobs[w][q] EXCEPT !.awaited = FALSE] ELSE jobs[w][q]
              mine == [q \in RowId |-> IF q = r THEN NoJob ELSE left(q)]
  <2>1. /\ polling' \in [Workers -> BOOLEAN] /\ faults' \in Nat
        /\ UNCHANGED <<active, toEnqueue, rows, logged, acks, dispatches>>
        /\ interrupted' = [interrupted EXCEPT ![r] = IF jobs[w][r].outcome = "ok" THEN @ + 1 ELSE @]
    BY <1>1, <1>3 DEF AttemptFails
  <2>2. jobs' = [jobs EXCEPT ![w] = mine]
    BY <1>3 DEF AttemptFails
  <2>3. ASSUME NEW q \in RowId
        PROVE  /\ left(q) \in Job /\ left(q).pc = jobs[w][q].pc
               /\ left(q).attempt = jobs[w][q].attempt /\ left(q).outcome = jobs[w][q].outcome
               /\ jobs[w][q] = NoJob => left(q) = NoJob
    <3>1. jobs[w][q] \in Job
      BY <1>1
    <3>2. /\ left(q) \in Job /\ left(q).pc = jobs[w][q].pc
          /\ left(q).attempt = jobs[w][q].attempt /\ left(q).outcome = jobs[w][q].outcome
          /\ left(q).awaited \in {FALSE, jobs[w][q].awaited}
      BY <3>1 DEF Job
    <3>3. ASSUME jobs[w][q] = NoJob PROVE left(q) = NoJob
      <4>. HIDE DEF left
      <4>. QED
        BY <3>2, <3>3, NoJobFacts, JobExtensional
    <3>. QED
      BY <3>2, <3>3
  <2>. HIDE DEF left
  <2>4. mine \in [RowId -> Job] /\ mine[r] = NoJob /\ \A q \in RowId : q # r => mine[q] = left(q)
    BY <2>3, NoJobFacts
  <2>. HIDE DEF mine
  <2>5. /\ jobs' \in [Workers -> [RowId -> Job]] /\ jobs'[w] = mine
        /\ \A v \in Workers : v # w => jobs'[v] = jobs[v]
    BY <1>1, <2>2, <2>4
  <2>6. /\ interrupted' \in [RowId -> Nat]
        /\ \A q \in RowId : interrupted'[q] =
             interrupted[q] + (IF q \in {r} /\ jobs[w][q].outcome = "ok" THEN 1 ELSE 0)
    <3>1. CASE jobs[w][r].outcome = "ok"
      <4>1. interrupted' = [interrupted EXCEPT ![r] = interrupted[r] + 1]
        BY <2>1, <3>1
      <4>. QED
        BY <1>1, <3>1, <4>1
    <3>2. CASE jobs[w][r].outcome # "ok"
      <4>1. interrupted' = interrupted
        BY <1>1, <2>1, <3>2
      <4>. QED
        BY <1>1, <3>2, <4>1
    <3>. QED
      BY <3>1, <3>2
  <2>7. /\ \A q \in {r} : jobs'[w][q] = NoJob
        /\ \A v \in Workers, q \in RowId : (v # w \/ q \notin {r}) =>
                     /\ jobs'[v][q].pc = jobs[v][q].pc
                     /\ jobs'[v][q].attempt = jobs[v][q].attempt
                     /\ jobs'[v][q].outcome = jobs[v][q].outcome
                     /\ jobs[v][q] = NoJob => jobs'[v][q] = NoJob
    BY <2>3, <2>4, <2>5
  <2>8. Died(w, {r})
    BY <2>5, <2>6, <2>7 DEF Died
  <2>. QED
    BY <2>1, <2>8
<1>. QED
  BY <1>2, <1>3

-----------------------------------------------------------------------------
(* The table and the attempts stay well formed, however slow the workers.  *)

\* An attempt goes from one step to the next.
LEMMA AttemptMovesQueue ==
    ASSUME QueueOK, NEW w \in Workers, NEW r \in RowId, NEW j \in Job,
           jobs[w][r].pc # "none", j.pc # "none", jobs' = WithJob(w, r, j),
           logged' \in [RowId -> Nat], acks' \in [RowId -> Nat], interrupted' \in [RowId -> Nat],
           faults' \in Nat, UNCHANGED <<active, toEnqueue, rows, polling, dispatches>>
    PROVE  QueueOK'
<1>1. /\ jobs' \in [Workers -> [RowId -> Job]] /\ jobs'[w][r] = j
      /\ \A v \in Workers, q \in RowId : (v # w \/ q # r) => jobs'[v][q] = jobs[v][q]
  BY JobCell
<1>2. WebhookTypeOK'
  BY <1>1 DEF QueueOK, WebhookTypeOK
<1>3. \A v \in Workers, q \in RowId :
         /\ jobs'[v][q].pc = "none" => jobs'[v][q] = NoJob
         /\ jobs'[v][q].pc # "none" => Has(rows', q)
  <2>1. ASSUME NEW v \in Workers, NEW q \in RowId, v = w /\ q = r
        PROVE  jobs'[v][q].pc # "none" /\ Has(rows', q)
    BY <1>1, <2>1 DEF QueueOK
  <2>2. ASSUME NEW v \in Workers, NEW q \in RowId, v # w \/ q # r
        PROVE  /\ jobs'[v][q].pc = "none" => jobs'[v][q] = NoJob
               /\ jobs'[v][q].pc # "none" => Has(rows', q)
    BY <1>1, <2>2 DEF QueueOK
  <2>. QED
    BY <2>1, <2>2
<1>. QED
  BY <1>2, <1>3 DEF QueueOK

\* A row is inserted or one of its fields that no attempt looks at changes.
LEMMA RowChangesQueue ==
    ASSUME QueueOK, NEW r \in RowId, NEW row \in Row,
           rows' = Put(rows, r, row),
           row.status \in {"PENDING", "PROCESSING"} => row.attemptCount < MAX_DELIVERY_ATTEMPTS,
           toEnqueue' \subseteq RowId,
           UNCHANGED <<active, polling, jobs, logged, acks, interrupted, dispatches, faults>>
    PROVE  QueueOK'
<1>1. /\ DOMAIN rows' = DOMAIN rows \cup {r} /\ rows'[r] = row
      /\ \A q \in DOMAIN rows : q # r => rows'[q] = rows[q]
  BY DEF Put
<1>2. WebhookTypeOK'
  BY <1>1 DEF QueueOK, WebhookTypeOK
<1>. QED
  BY <1>1, <1>2 DEF QueueOK, Has

\* Every step keeps the table and the attempts well formed, also when attempts may
\* outlive their locks.
LEMMA QueueNext == QueueOK /\ [WebhookNext]_webhookVars => QueueOK'
<1>. SUFFICES ASSUME QueueOK, [WebhookNext]_webhookVars PROVE QueueOK'
  OBVIOUS
<1>1. ASSUME NEW e \in Events, Dispatch(e) PROVE QueueOK'
  <2>1. toEnqueue' \subseteq RowId /\ dispatches' \in 0 .. MaxDispatches
    BY <1>1, WebhookNumbersAssumption DEF Dispatch, QueueOK, WebhookTypeOK, RowId
  <2>2. UNCHANGED <<active, rows, polling, jobs, logged, acks, interrupted, faults>>
    BY <1>1 DEF Dispatch
  <2>. QED
    BY <2>1, <2>2 DEF QueueOK, WebhookTypeOK
<1>2. ASSUME NEW r \in RowId, Enqueue(r) PROVE QueueOK'
  <2>. DEFINE row == [status |-> "PENDING", attemptCount |-> 0, due |-> TRUE, stuck |-> FALSE]
  <2>1. row \in Row /\ row.attemptCount < MAX_DELIVERY_ATTEMPTS
    BY WebhookNumbersAssumption DEF Row, RowStatus
  <2>. HIDE DEF row
  <2>2. /\ toEnqueue' \subseteq RowId
        /\ UNCHANGED <<active, polling, jobs, logged, acks, interrupted, dispatches, faults>>
    BY <1>2 DEF Enqueue, QueueOK, WebhookTypeOK
  <2>3. CASE rows' = rows
    BY <2>2, <2>3 DEF QueueOK, WebhookTypeOK
  <2>4. CASE rows' = Put(rows, r, row)
    BY <2>1, <2>2, <2>4, RowChangesQueue
  <2>. QED
    BY <1>2, <2>3, <2>4 DEF Enqueue, row
<1>3. ASSUME NEW r \in RowId, EnqueueFails(r) PROVE QueueOK'
  BY <1>3 DEF EnqueueFails, QueueOK, WebhookTypeOK
<1>4. ASSUME NEW s \in Subscriptions, Revoke(s) PROVE QueueOK'
  BY <1>4 DEF Revoke, QueueOK, WebhookTypeOK
<1>5. ASSUME NEW r \in RowId, BecomeDue(r) \/ LockExpires(r) PROVE QueueOK'
  <2>1. Has(rows, r) /\ rows[r] \in Row
    BY <1>5, RowFields DEF BecomeDue, LockExpires
  <2>2. PICK row \in Row : /\ row.status = rows[r].status
                          /\ row.attemptCount = rows[r].attemptCount
                          /\ rows' = Put(rows, r, row)
    <3>1. CASE BecomeDue(r)
      <4>1. [rows[r] EXCEPT !.due = TRUE] \in Row
        BY <2>1 DEF Row
      <4>2. rows' = Put(rows, r, [rows[r] EXCEPT !.due = TRUE])
        BY <2>1, <3>1 DEF BecomeDue, Put, Has, QueueOK, WebhookTypeOK
      <4>. QED
        BY <2>1, <4>1, <4>2 DEF Row
    <3>2. CASE LockExpires(r)
      <4>1. [rows[r] EXCEPT !.stuck = TRUE] \in Row
        BY <2>1 DEF Row
      <4>2. rows' = Put(rows, r, [rows[r] EXCEPT !.stuck = TRUE])
        BY <2>1, <3>2 DEF LockExpires, Put, Has, QueueOK, WebhookTypeOK
      <4>. QED
        BY <2>1, <4>1, <4>2 DEF Row
    <3>. QED
      BY <1>5, <3>1, <3>2
  <2>3. /\ toEnqueue' \subseteq RowId
        /\ UNCHANGED <<active, polling, jobs, logged, acks, interrupted, dispatches, faults>>
    BY <1>5 DEF BecomeDue, LockExpires, QueueOK, WebhookTypeOK
  <2>4. row.status \in {"PENDING", "PROCESSING"} => row.attemptCount < MAX_DELIVERY_ATTEMPTS
    BY <2>1, <2>2 DEF QueueOK, Has
  <2>. QED
    BY <2>2, <2>3, <2>4, RowChangesQueue
<1>6. ASSUME NEW w \in Workers, NEW r \in RowId,
             Lookup(w, r) \/ Post(w, r) \/ PostAnswerLost(w, r) \/ LogAttempt(w, r)
      PROVE  QueueOK'
  <2>1. PICK j \in Job :
          /\ jobs' = WithJob(w, r, j) /\ jobs[w][r].pc # "none" /\ j.pc # "none"
          /\ faults' \in Nat /\ UNCHANGED <<active, toEnqueue, rows, polling, dispatches>>
          /\ acks' = acks \/ acks' = [acks EXCEPT ![r] = @ + 1]
          /\ interrupted' = interrupted \/ interrupted' = [interrupted EXCEPT ![r] = @ + 1]
          /\ logged' = logged \/ logged' = [logged EXCEPT ![r] = @ + 1]
    BY <1>6, AttemptStepFacts
  <2>2. acks' \in [RowId -> Nat] /\ interrupted' \in [RowId -> Nat] /\ logged' \in [RowId -> Nat]
    <3>1. ASSUME NEW n \in [RowId -> Nat], NEW m, m = n \/ m = [n EXCEPT ![r] = @ + 1]
          PROVE  m \in [RowId -> Nat]
      BY <3>1
    <3>2. acks \in [RowId -> Nat] /\ interrupted \in [RowId -> Nat] /\ logged \in [RowId -> Nat]
      BY DEF QueueOK, WebhookTypeOK
    <3>3. acks' \in [RowId -> Nat]  BY <2>1, <3>1, <3>2
    <3>4. interrupted' \in [RowId -> Nat]  BY <2>1, <3>1, <3>2
    <3>5. logged' \in [RowId -> Nat]  BY <2>1, <3>1, <3>2
    <3>. QED  BY <3>3, <3>4, <3>5
  <2>. QED
    BY <2>1, <2>2, AttemptMovesQueue
<1>7. ASSUME NEW w \in Workers, NEW r \in RowId, Finalize(w, r) PROVE QueueOK'
  <2>1. /\ jobs[w][r].pc = "finalize" /\ Has(rows, r) /\ jobs' = WithJob(w, r, NoJob)
        /\ polling' \in [Workers -> BOOLEAN]
        /\ UNCHANGED <<active, toEnqueue, logged, acks, interrupted, dispatches, faults>>
    BY <1>7, FinalizeFacts
  <2>2. PICK row \in Row :
          /\ rows' = Put(rows, r, row)
          /\ row.status \in {"PENDING", "PROCESSING"} => row.attemptCount < MAX_DELIVERY_ATTEMPTS
    BY <1>7, FinalizeFacts
  <2>3. /\ jobs' \in [Workers -> [RowId -> Job]] /\ jobs'[w][r] = NoJob
        /\ \A v \in Workers, q \in RowId : (v # w \/ q # r) => jobs'[v][q] = jobs[v][q]
    BY <2>1, NoJobFacts, JobCell
  <2>4. /\ DOMAIN rows' = DOMAIN rows /\ rows'[r] = row
        /\ \A q \in DOMAIN rows : q # r => rows'[q] = rows[q]
    BY <2>1, <2>2 DEF Put, Has
  <2>5. WebhookTypeOK'
    BY <2>1, <2>3, <2>4 DEF QueueOK, WebhookTypeOK
  <2>6. \A v \in Workers, q \in RowId :
          /\ jobs'[v][q].pc = "none" => jobs'[v][q] = NoJob
          /\ jobs'[v][q].pc # "none" => Has(rows', q)
    BY <2>3, <2>4, NoJobFacts DEF QueueOK, Has
  <2>. QED
    BY <2>2, <2>4, <2>5, <2>6 DEF QueueOK
<1>8. ASSUME NEW w \in Workers, Claim(w) PROVE QueueOK'
  <2>1. PICK batch \in SUBSET RowId : Claimed(w, batch)
    BY <1>8, ClaimFacts
  <2>2. /\ polling' \in [Workers -> BOOLEAN]
        /\ UNCHANGED <<active, toEnqueue, logged, acks, interrupted, dispatches, faults>>
    BY <1>8, ClaimFacts
  <2>3. WebhookTypeOK'
    BY <2>1, <2>2 DEF Claimed, QueueOK, WebhookTypeOK
  <2>4. \A v \in Workers, q \in RowId :
          /\ jobs'[v][q].pc = "none" => jobs'[v][q] = NoJob
          /\ jobs'[v][q].pc # "none" => Has(rows', q)
    BY <2>1 DEF Claimed, QueueOK, Has
  <2>5. \A r \in DOMAIN rows' :
          rows'[r].status \in {"PENDING", "PROCESSING"} => rows'[r].attemptCount < MAX_DELIVERY_ATTEMPTS
    BY <2>1 DEF Claimed, QueueOK, Claimable
  <2>. QED
    BY <2>3, <2>4, <2>5 DEF QueueOK
<1>9. ASSUME NEW w \in Workers, (\E r \in RowId : AttemptFails(w, r)) \/ Crash(w) PROVE QueueOK'
  <2>1. PICK dead \in SUBSET RowId : Died(w, dead)
    BY <1>9, DeathFacts
  <2>2. /\ polling' \in [Workers -> BOOLEAN] /\ faults' \in Nat
        /\ UNCHANGED <<active, toEnqueue, rows, logged, acks, dispatches>>
    BY <1>9, DeathFacts
  <2>3. WebhookTypeOK'
    BY <2>1, <2>2 DEF Died, QueueOK, WebhookTypeOK
  <2>4. \A v \in Workers, q \in RowId :
          /\ jobs'[v][q].pc = "none" => jobs'[v][q] = NoJob
          /\ jobs'[v][q].pc # "none" => Has(rows', q)
    BY <2>1, <2>2, NoJobFacts DEF Died, QueueOK
  <2>. QED
    BY <2>2, <2>3, <2>4 DEF QueueOK
<1>10. CASE UNCHANGED webhookVars
  BY <1>10 DEF webhookVars, QueueOK, WebhookTypeOK
<1>. QED
  BY <1>1, <1>2, <1>3, <1>4, <1>5, <1>6, <1>7, <1>8, <1>9, <1>10 DEF WebhookNext, AttemptStep

\* The initial table is empty and nothing is under way.
LEMMA QueueInit == WebhookInit => QueueOK
<1>. SUFFICES ASSUME WebhookInit PROVE QueueOK
  OBVIOUS
<1>1. DOMAIN rows = {}
  BY DEF WebhookInit, EmptyStore
<1>2. faults \in Nat
  <2>. DEFINE on == {s \in Subscriptions : active[s]}
  <2>1. IsFiniteSet(on) /\ on # {}
    BY WebhookSetsAssumption, FS_Subset DEF WebhookInit
  <2>2. Cardinality(on) \in Nat /\ Cardinality(on) # 0
    BY <2>1, FS_CardinalityType, FS_EmptySet
  <2>. QED
    BY <2>2 DEF WebhookInit
<1>3. /\ jobs \in [Workers -> [RowId -> Job]]
      /\ \A w \in Workers, r \in RowId : jobs[w][r] = NoJob
  BY NoJobFacts DEF WebhookInit
<1>4. /\ active \in [Subscriptions -> BOOLEAN] /\ toEnqueue = {}
      /\ polling \in [Workers -> BOOLEAN] /\ logged \in [RowId -> Nat]
      /\ acks \in [RowId -> Nat] /\ interrupted \in [RowId -> Nat]
      /\ dispatches \in 0 .. MaxDispatches
  BY WebhookNumbersAssumption DEF WebhookInit
<1>5. WebhookTypeOK
  BY <1>1, <1>2, <1>3, <1>4 DEF WebhookTypeOK
<1>. QED
  BY <1>1, <1>3, <1>5, NoJobFacts DEF QueueOK

-----------------------------------------------------------------------------
(* Each row, step by step, while no attempt outlives its lock.             *)

\* A row keeps its invariant when its status, its number, its attempts and its
\* counters stay: its subscription may be revoked, and its lock may age if no attempt
\* holds it.
LEMMA SameRow ==
    ASSUME QueueOK, NEW q \in RowId, RowOK(q),
           Has(rows', q) <=> Has(rows, q),
           Has(rows, q) => /\ rows'[q].status = rows[q].status
                           /\ rows'[q].attemptCount = rows[q].attemptCount
                           /\ \/ rows'[q].stuck = rows[q].stuck
                              \/ \A w \in Workers : jobs[w][q].pc = "none",
           \A w \in Workers : /\ jobs'[w][q].pc = jobs[w][q].pc
                              /\ jobs'[w][q].attempt = jobs[w][q].attempt
                              /\ jobs'[w][q].outcome = jobs[w][q].outcome,
           ~active[q[1]] => ~active'[q[1]],
           acks'[q] = acks[q], interrupted'[q] = interrupted[q], logged'[q] = logged[q]
    PROVE  RowOK(q)'
<1>1. \A w \in Workers : jobs[w][q].pc # "none" => Has(rows, q)
  BY DEF QueueOK
<1>2. HoldsRow(q)'
  BY <1>1 DEF RowOK, HoldsRow
<1>3. \A w \in Workers : AttemptOK(w, q)'
  BY DEF RowOK, AttemptOK
<1>4. AcksAccounted(q)'
  <2>1. Delivered(q)' <=> Delivered(q)
    BY DEF Delivered
  <2>2. OkInFlight(q)' <=> OkInFlight(q)
    BY DEF OkInFlight
  <2>. QED
    BY <2>1, <2>2 DEF RowOK, AcksAccounted
<1>5. RecordOK(q)'
  BY DEF RowOK, RecordOK
<1>. QED
  BY <1>2, <1>3, <1>4, <1>5 DEF RowOK

\* When an attempt of a row is under way, the others of that row are not, and have
\* no outcome.
LEMMA SoleAttempt ==
    ASSUME QueueOK, NEW r \in RowId, RowOK(r), NEW w \in Workers, jobs[w][r].pc # "none"
    PROVE  /\ Has(rows, r) /\ rows[r].status = "PROCESSING" /\ rows[r].stuck = FALSE
           /\ jobs[w][r].attempt = rows[r].attemptCount + 1
           /\ \A v \in Workers : v # w => jobs[v][r].pc = "none" /\ jobs[v][r].outcome = "none"
           /\ ~Delivered(r)
           /\ OkInFlight(r) <=> jobs[w][r].outcome = "ok"
<1>1. Has(rows, r)
  BY DEF QueueOK
<1>2. /\ rows[r].status = "PROCESSING" /\ rows[r].stuck = FALSE
      /\ jobs[w][r].attempt = rows[r].attemptCount + 1
  BY <1>1, RowFields DEF RowOK, HoldsRow
<1>3. ASSUME NEW v \in Workers, v # w
      PROVE  jobs[v][r].pc = "none" /\ jobs[v][r].outcome = "none"
  <2>1. jobs[v][r].pc = "none"
    BY <1>3 DEF RowOK, HoldsRow
  <2>. QED
    BY <2>1, IdleHasNoOutcome
<1>4. OkInFlight(r) <=> jobs[w][r].outcome = "ok"
  BY <1>3 DEF OkInFlight
<1>. QED
  BY <1>1, <1>2, <1>3, <1>4 DEF Delivered

\* A row that no attempt holds has no acknowledgement in flight.
LEMMA IdleRow ==
    ASSUME QueueOK, NEW r \in RowId, \A w \in Workers : jobs[w][r].pc = "none"
    PROVE  ~OkInFlight(r)
BY IdleHasNoOutcome DEF OkInFlight

\* dispatchInvoiceEvent and revoke leave what the rows say true.
LEMMA DispatchRow ==
    ASSUME QueueOK, NEW q \in RowId, RowOK(q),
           \/ \E e \in Events : Dispatch(e)
           \/ \E r \in RowId : EnqueueFails(r)
           \/ \E s \in Subscriptions : Revoke(s)
    PROVE  RowOK(q)'
<1>1. UNCHANGED <<rows, jobs, acks, interrupted, logged>>
  BY DEF Dispatch, EnqueueFails, Revoke
<1>2. ~active[q[1]] => ~active'[q[1]]
  <2>1. active' = active \/ \E s \in Subscriptions : active' = [active EXCEPT ![s] = FALSE]
    BY DEF Dispatch, EnqueueFails, Revoke
  <2>2. active \in [Subscriptions -> BOOLEAN] /\ q[1] \in Subscriptions
    BY DEF QueueOK, WebhookTypeOK, RowId
  <2>. QED
    BY <2>1, <2>2
<1>. QED
  BY <1>1, <1>2, SameRow

\* A new row has not been attempted, and a duplicate insert changes nothing.
LEMMA EnqueueRow ==
    ASSUME QueueOK, NEW q \in RowId, RowOK(q), NEW r \in RowId, Enqueue(r)
    PROVE  RowOK(q)'
<1>. DEFINE row == [status |-> "PENDING", attemptCount |-> 0, due |-> TRUE, stuck |-> FALSE]
<1>1. UNCHANGED <<active, jobs, acks, interrupted, logged>>
  BY DEF Enqueue
<1>2. CASE Has(rows, r)
  <2>1. rows' = rows
    BY <1>2 DEF Enqueue
  <2>. QED
    BY <1>1, <2>1, SameRow
<1>3. CASE ~Has(rows, r)
  <2>1. rows' = Put(rows, r, row) /\ row.status = "PENDING" /\ row.attemptCount = 0
    BY <1>3 DEF Enqueue
  <2>. HIDE DEF row
  <2>2. /\ DOMAIN rows' = DOMAIN rows \cup {r} /\ rows'[r] = row
        /\ \A p \in DOMAIN rows : p # r => rows'[p] = rows[p]
    BY <2>1 DEF Put
  <2>3. CASE q # r
    <3>1. /\ Has(rows', q) <=> Has(rows, q)
          /\ Has(rows, q) => rows'[q] = rows[q]
      BY <2>2, <2>3 DEF Has
    <3>. QED
      BY <1>1, <3>1, SameRow
  <2>4. CASE q = r
    <3>1. \A w \in Workers : jobs[w][q].pc = "none"
      BY <1>3, <2>4 DEF QueueOK
    <3>2. ~OkInFlight(q) /\ ~Delivered(q) /\ acks[q] = interrupted[q]
      <4>1. ~OkInFlight(q) /\ ~Delivered(q)
        BY <1>3, <2>4, <3>1, IdleRow DEF Delivered
      <4>. QED
        BY <4>1, Counters DEF RowOK, AcksAccounted
    <3>3. rows'[q].status = "PENDING" /\ rows'[q].attemptCount = 0
      BY <2>1, <2>2, <2>4
    <3>4. HoldsRow(q)' /\ \A w \in Workers : AttemptOK(w, q)'
      BY <1>1, <3>1 DEF RowOK, HoldsRow, AttemptOK
    <3>5. AcksAccounted(q)'
      <4>1. ~OkInFlight(q)' /\ ~Delivered(q)'
        BY <1>1, <3>2, <3>3 DEF OkInFlight, Delivered
      <4>. QED
        BY <1>1, <3>2, <4>1, Counters DEF AcksAccounted
    <3>6. RecordOK(q)'
      BY <1>1, <3>3, Counters DEF RecordOK
    <3>. QED
      BY <3>4, <3>5, <3>6 DEF RowOK
  <2>. QED
    BY <2>3, <2>4
<1>. QED
  BY <1>2, <1>3

\* Time passes: a retry becomes due, the lock of an attempt that died grows old.
LEMMA TimeRow ==
    ASSUME SlowWorkers = FALSE, QueueOK, NEW q \in RowId, RowOK(q), NEW r \in RowId,
           BecomeDue(r) \/ LockExpires(r)
    PROVE  RowOK(q)'
<1>1. UNCHANGED <<active, jobs, acks, interrupted, logged>> /\ Has(rows, r)
  BY DEF BecomeDue, LockExpires
<1>2. rows[r] \in Row
  BY <1>1, RowFields
<1>3. DOMAIN rows' = DOMAIN rows /\ \A p \in DOMAIN rows : p # r => rows'[p] = rows[p]
  BY DEF BecomeDue, LockExpires
<1>4. /\ rows'[r].status = rows[r].status /\ rows'[r].attemptCount = rows[r].attemptCount
      /\ rows'[r].stuck = rows[r].stuck \/ \A w \in Workers : jobs[w][r].pc = "none"
  <2>1. CASE BecomeDue(r)
    <3>1. rows'[r] = [rows[r] EXCEPT !.due = TRUE]
      BY <1>1, <2>1 DEF BecomeDue, Has
    <3>. QED
      BY <1>2, <3>1 DEF Row
  <2>2. CASE LockExpires(r)
    <3>1. rows'[r] = [rows[r] EXCEPT !.stuck = TRUE]
      BY <1>1, <2>2 DEF LockExpires, Has
    <3>2. \A w \in Workers : jobs[w][r].pc = "none"
      BY <2>2, LiveIffRunning DEF LockExpires
    <3>. QED
      BY <1>2, <3>1, <3>2 DEF Row
  <2>. QED
    BY <2>1, <2>2
<1>5. /\ Has(rows', q) <=> Has(rows, q)
      /\ Has(rows, q) => /\ rows'[q].status = rows[q].status
                         /\ rows'[q].attemptCount = rows[q].attemptCount
                         /\ \/ rows'[q].stuck = rows[q].stuck
                            \/ \A w \in Workers : jobs[w][q].pc = "none"
  BY <1>3, <1>4 DEF Has
<1>. QED
  BY <1>1, <1>5, SameRow

\* claimBatch takes only rows that no attempt holds: a PENDING row, or a PROCESSING
\* one whose lock is stuck.
LEMMA ClaimRow ==
    ASSUME QueueOK, NEW q \in RowId, RowOK(q), NEW w \in Workers, Claim(w)
    PROVE  RowOK(q)'
<1>1. PICK batch \in SUBSET RowId : Claimed(w, batch)
  BY ClaimFacts
<1>2. UNCHANGED <<active, logged, acks, interrupted>>
  BY ClaimFacts
<1>3. CASE q \notin batch
  <2>1. /\ Has(rows', q) <=> Has(rows, q)
        /\ Has(rows, q) => rows'[q] = rows[q]
        /\ \A v \in Workers : jobs'[v][q] = jobs[v][q]
    BY <1>1, <1>3 DEF Claimed, Has
  <2>. QED
    BY <1>2, <2>1, SameRow
<1>4. CASE q \in batch
  <2>1. /\ Has(rows, q) /\ Claimable(q) /\ Has(rows', q)
        /\ rows'[q].status = "PROCESSING" /\ rows'[q].stuck = FALSE
        /\ rows'[q].attemptCount = rows[q].attemptCount
        /\ jobs'[w][q].pc = "lookup" /\ jobs'[w][q].outcome = "none"
        /\ jobs'[w][q].attempt = rows[q].attemptCount + 1
        /\ \A v \in Workers : v # w => jobs'[v][q] = jobs[v][q]
    BY <1>1, <1>4 DEF Claimed, Has
  <2>2. \A v \in Workers : jobs[v][q].pc = "none"
    BY <2>1, SoleAttempt DEF Claimable
  <2>3. ~OkInFlight(q) /\ ~Delivered(q)
    BY <2>1, <2>2, IdleRow DEF Delivered, Claimable
  <2>4. \A v \in Workers : v # w => jobs'[v][q].pc = "none" /\ jobs'[v][q].outcome = "none"
    BY <2>1, <2>2, IdleHasNoOutcome
  <2>5. HoldsRow(q)'
    BY <2>1, <2>4 DEF HoldsRow
  <2>6. \A v \in Workers : AttemptOK(v, q)'
    BY <2>1, <2>4 DEF AttemptOK
  <2>7. AcksAccounted(q)'
    <3>1. ~OkInFlight(q)' /\ ~Delivered(q)'
      BY <2>1, <2>4 DEF OkInFlight, Delivered
    <3>. QED
      BY <1>2, <2>3, <3>1 DEF RowOK, AcksAccounted
  <2>8. RecordOK(q)'
    BY <1>2, <2>1 DEF RowOK, RecordOK
  <2>. QED
    BY <2>5, <2>6, <2>7, <2>8 DEF RowOK
<1>. QED
  BY <1>3, <1>4

\* A step of an attempt moves its row's counters with its outcome.
LEMMA AttemptRow ==
    ASSUME QueueOK, NEW q \in RowId, RowOK(q), NEW w \in Workers, NEW r \in RowId,
           Lookup(w, r) \/ Post(w, r) \/ PostAnswerLost(w, r) \/ LogAttempt(w, r)
    PROVE  RowOK(q)'
<1>1. PICK j \in Job :
        /\ jobs' = WithJob(w, r, j)
        /\ jobs[w][r].pc # "none" /\ j.pc # "none" /\ j.attempt = jobs[w][r].attempt
        /\ \/ /\ jobs[w][r].pc = "lookup" /\ j.pc = "post" /\ j.outcome = jobs[w][r].outcome
              /\ UNCHANGED <<acks, interrupted, logged>>
           \/ /\ jobs[w][r].pc = "lookup" /\ j.pc = "log" /\ j.outcome = "revoked" /\ ~active[r[1]]
              /\ UNCHANGED <<acks, interrupted, logged>>
           \/ /\ jobs[w][r].pc = "post" /\ j.pc = "log" /\ j.outcome = "ok"
              /\ acks' = [acks EXCEPT ![r] = @ + 1] /\ UNCHANGED <<interrupted, logged>>
           \/ /\ jobs[w][r].pc = "post" /\ j.pc = "log" /\ j.outcome = "failed"
              /\ UNCHANGED <<acks, interrupted, logged>>
           \/ /\ jobs[w][r].pc = "post" /\ j.pc = "log" /\ j.outcome = "failed"
              /\ acks' = [acks EXCEPT ![r] = @ + 1]
              /\ interrupted' = [interrupted EXCEPT ![r] = @ + 1] /\ UNCHANGED logged
           \/ /\ jobs[w][r].pc = "log" /\ j.pc = "finalize" /\ j.outcome = jobs[w][r].outcome
              /\ logged' = [logged EXCEPT ![r] = @ + 1] /\ UNCHANGED <<acks, interrupted>>
        /\ faults' \in Nat /\ UNCHANGED <<active, toEnqueue, rows, polling, dispatches>>
  BY AttemptStepFacts
<1>2. /\ jobs'[w][r] = j
      /\ \A v \in Workers, p \in RowId : (v # w \/ p # r) => jobs'[v][p] = jobs[v][p]
  BY <1>1, JobCell
<1>3. acks \in [RowId -> Nat] /\ interrupted \in [RowId -> Nat] /\ logged \in [RowId -> Nat]
  BY DEF QueueOK, WebhookTypeOK
<1>4. CASE q # r
  <2>1. acks'[q] = acks[q] /\ interrupted'[q] = interrupted[q] /\ logged'[q] = logged[q]
    BY <1>1, <1>3, <1>4
  <2>2. \A v \in Workers : jobs'[v][q] = jobs[v][q]
    BY <1>2, <1>4
  <2>. QED
    BY <1>1, <2>1, <2>2, SameRow
<1>5. CASE q = r
  <2>1. /\ Has(rows, r) /\ rows[r].status = "PROCESSING" /\ rows[r].stuck = FALSE
        /\ jobs[w][r].attempt = rows[r].attemptCount + 1
        /\ \A v \in Workers : v # w => jobs[v][r].pc = "none" /\ jobs[v][r].outcome = "none"
        /\ ~Delivered(r)
        /\ OkInFlight(r) <=> jobs[w][r].outcome = "ok"
    BY <1>1, <1>5, SoleAttempt
  <2>2. \A v \in Workers : v # w => jobs'[v][r].pc = "none" /\ jobs'[v][r].outcome = "none"
    BY <1>2, <2>1
  <2>3. HoldsRow(r)'
    BY <1>1, <1>2, <2>1, <2>2 DEF HoldsRow
  <2>4. rows[r].attemptCount <= logged[r] /\ rows[r].attemptCount \in Nat
    BY <1>5, <2>1, RowFields DEF RowOK, RecordOK
  <2>5. /\ acks'[r] - acks[r] \in Nat /\ acks[r] \in Nat /\ interrupted[r] \in Nat
        /\ logged'[r] \in {logged[r], logged[r] + 1} /\ logged[r] \in Nat
        /\ logged' # logged => logged'[r] = logged[r] + 1
        /\ j.pc = "finalize" => logged'[r] = logged[r] + 1
    BY <1>1, <1>3
  <2>6. AttemptOK(w, r)'
    <3>1. AttemptOK(w, r)
      BY <1>5 DEF RowOK
    <3>2. j.pc \in {"lookup", "post"} => j.outcome = "none"
      BY <1>1, <3>1 DEF AttemptOK
    <3>3. j.outcome = "revoked" => ~active'[r[1]]
      BY <1>1, <3>1 DEF AttemptOK
    <3>4. j.pc = "finalize" => j.attempt <= logged'[r]
      BY <1>1, <2>1, <2>4, <2>5
    <3>. QED
      BY <1>2, <3>2, <3>3, <3>4 DEF AttemptOK
  <2>7. \A v \in Workers : AttemptOK(v, r)'
    BY <2>2, <2>6 DEF AttemptOK
  <2>8. AcksAccounted(r)'
    <3>1. ~Delivered(r)' /\ (OkInFlight(r)' <=> j.outcome = "ok")
      BY <1>1, <1>2, <2>1, <2>2 DEF Delivered, OkInFlight
    <3>2. acks[r] = interrupted[r] + (IF jobs[w][r].outcome = "ok" THEN 1 ELSE 0)
      BY <1>5, <2>1 DEF RowOK, AcksAccounted
    <3>3. jobs[w][r].pc \in {"lookup", "post"} => jobs[w][r].outcome = "none"
      BY <1>5 DEF RowOK, AttemptOK
    <3>4. acks'[r] = interrupted'[r] + (IF j.outcome = "ok" THEN 1 ELSE 0)
      BY <1>1, <1>3, <3>2, <3>3
    <3>. QED
      BY <3>1, <3>4 DEF AcksAccounted
  <2>9. RecordOK(r)'
    BY <1>1, <1>5, <2>1, <2>4, <2>5 DEF RecordOK
  <2>. QED
    BY <1>5, <2>3, <2>7, <2>8, <2>9 DEF RowOK
<1>. QED
  BY <1>4, <1>5

\* finalize records the outcome of the only attempt of the row.
LEMMA FinalizeRow ==
    ASSUME QueueOK, NEW q \in RowId, RowOK(q), NEW w \in Workers, NEW r \in RowId, Finalize(w, r)
    PROVE  RowOK(q)'
<1>1. /\ jobs[w][r].pc = "finalize" /\ Has(rows, r) /\ jobs' = WithJob(w, r, NoJob)
      /\ UNCHANGED <<active, logged, acks, interrupted>>
  BY FinalizeFacts
<1>2. PICK row \in Row :
        /\ rows' = Put(rows, r, row) /\ row.attemptCount = jobs[w][r].attempt
        /\ \/ jobs[w][r].outcome = "ok" /\ row.status = "DELIVERED"
           \/ jobs[w][r].outcome = "revoked" /\ row.status = "ABANDONED"
           \/ /\ jobs[w][r].outcome \in {"none", "failed"} /\ row.status = "PENDING"
              /\ jobs[w][r].attempt < MAX_DELIVERY_ATTEMPTS
           \/ /\ jobs[w][r].outcome \in {"none", "failed"} /\ row.status = "ABANDONED"
              /\ jobs[w][r].attempt = MAX_DELIVERY_ATTEMPTS
  BY FinalizeFacts
<1>3. /\ jobs'[w][r] = NoJob
      /\ \A v \in Workers, p \in RowId : (v # w \/ p # r) => jobs'[v][p] = jobs[v][p]
  BY <1>1, NoJobFacts, JobCell
<1>4. /\ DOMAIN rows' = DOMAIN rows /\ rows'[r] = row
      /\ \A p \in DOMAIN rows : p # r => rows'[p] = rows[p]
  BY <1>1, <1>2 DEF Put, Has
<1>5. CASE q # r
  <2>1. /\ Has(rows', q) <=> Has(rows, q)
        /\ Has(rows, q) => rows'[q] = rows[q]
        /\ \A v \in Workers : jobs'[v][q] = jobs[v][q]
    BY <1>3, <1>4, <1>5 DEF Has
  <2>. QED
    BY <1>1, <2>1, SameRow
<1>6. CASE q = r
  <2>1. /\ \A v \in Workers : v # w => jobs[v][r].pc = "none" /\ jobs[v][r].outcome = "none"
        /\ ~Delivered(r)
        /\ OkInFlight(r) <=> jobs[w][r].outcome = "ok"
    BY <1>1, <1>6, SoleAttempt
  <2>2. \A v \in Workers : jobs'[v][r].pc = "none" /\ jobs'[v][r].outcome = "none"
    BY <1>3, <2>1, NoJobFacts
  <2>3. HoldsRow(r)' /\ \A v \in Workers : AttemptOK(v, r)'
    BY <2>2 DEF HoldsRow, AttemptOK
  <2>4. AcksAccounted(r)'
    <3>1. ~OkInFlight(r)' /\ (Delivered(r)' <=> jobs[w][r].outcome = "ok")
      BY <1>1, <1>2, <1>4, <2>2 DEF OkInFlight, Delivered, Has
    <3>2. acks[r] = interrupted[r] + (IF jobs[w][r].outcome = "ok" THEN 1 ELSE 0)
      BY <1>6, <2>1 DEF RowOK, AcksAccounted
    <3>. QED
      BY <1>1, <3>1, <3>2 DEF AcksAccounted
  <2>5. RecordOK(r)'
    <3>1. AttemptOK(w, r)
      BY <1>6 DEF RowOK
    <3>2. row.attemptCount <= logged'[r]
      BY <1>1, <1>2, <3>1 DEF AttemptOK
    <3>3. row.status = "ABANDONED" => row.attemptCount = MAX_DELIVERY_ATTEMPTS \/ ~active'[r[1]]
      BY <1>1, <1>2, <3>1 DEF AttemptOK
    <3>. QED
      BY <1>4, <3>2, <3>3 DEF RecordOK
  <2>. QED
    BY <1>6, <2>3, <2>4, <2>5 DEF RowOK
<1>. QED
  BY <1>5, <1>6

\* An attempt that dies leaves its row PROCESSING, and an acknowledgement it held is
\* counted as interrupted.
LEMMA DeathRow ==
    ASSUME QueueOK, NEW q \in RowId, RowOK(q), NEW w \in Workers,
           (\E r \in RowId : AttemptFails(w, r)) \/ Crash(w)
    PROVE  RowOK(q)'
<1>1. PICK dead \in SUBSET RowId : Died(w, dead)
  BY DeathFacts
<1>2. UNCHANGED <<active, rows, logged, acks>>
  BY DeathFacts
<1>3. interrupted[q] \in Nat
  BY Counters
<1>4. CASE q \notin dead
  <2>1. /\ interrupted'[q] = interrupted[q]
        /\ \A v \in Workers : /\ jobs'[v][q].pc = jobs[v][q].pc
                              /\ jobs'[v][q].attempt = jobs[v][q].attempt
                              /\ jobs'[v][q].outcome = jobs[v][q].outcome
    BY <1>1, <1>3, <1>4 DEF Died
  <2>. QED
    BY <1>2, <2>1, SameRow
<1>5. CASE q \in dead
  <2>1. /\ jobs'[w][q].pc = "none" /\ jobs'[w][q].outcome = "none"
        /\ \A v \in Workers : v # w => /\ jobs'[v][q].pc = jobs[v][q].pc
                                       /\ jobs'[v][q].attempt = jobs[v][q].attempt
                                       /\ jobs'[v][q].outcome = jobs[v][q].outcome
        /\ interrupted'[q] = interrupted[q] + (IF jobs[w][q].outcome = "ok" THEN 1 ELSE 0)
    BY <1>1, <1>5, NoJobFacts DEF Died
  <2>2. CASE jobs[w][q].pc = "none"
    <3>1. jobs[w][q].outcome = "none" /\ jobs[w][q].attempt = 0 /\ jobs'[w][q].attempt = 0
      BY <1>1, <1>5, <2>2, NoJobFacts DEF QueueOK, Died
    <3>2. interrupted'[q] = interrupted[q]
      BY <1>3, <2>1, <3>1
    <3>3. \A v \in Workers : /\ jobs'[v][q].pc = jobs[v][q].pc
                             /\ jobs'[v][q].attempt = jobs[v][q].attempt
                             /\ jobs'[v][q].outcome = jobs[v][q].outcome
      BY <2>1, <2>2, <3>1
    <3>. QED
      BY <1>2, <3>2, <3>3, SameRow
  <2>3. CASE jobs[w][q].pc # "none"
    <3>1. /\ \A v \in Workers : v # w => jobs[v][q].pc = "none" /\ jobs[v][q].outcome = "none"
          /\ ~Delivered(q)
          /\ OkInFlight(q) <=> jobs[w][q].outcome = "ok"
      BY <2>3, SoleAttempt
    <3>2. \A v \in Workers : jobs'[v][q].pc = "none" /\ jobs'[v][q].outcome = "none"
      BY <2>1, <3>1
    <3>3. HoldsRow(q)' /\ \A v \in Workers : AttemptOK(v, q)'
      BY <3>2 DEF HoldsRow, AttemptOK
    <3>4. AcksAccounted(q)'
      <4>1. ~OkInFlight(q)' /\ ~Delivered(q)'
        BY <1>2, <3>1, <3>2 DEF OkInFlight, Delivered
      <4>2. acks[q] = interrupted[q] + (IF jobs[w][q].outcome = "ok" THEN 1 ELSE 0)
        BY <3>1 DEF RowOK, AcksAccounted
      <4>3. acks'[q] = interrupted'[q] /\ interrupted'[q] \in Nat
        BY <1>2, <1>3, <2>1, <4>2
      <4>. QED
        BY <4>1, <4>3 DEF AcksAccounted
    <3>5. RecordOK(q)'
      BY <1>2 DEF RowOK, RecordOK
    <3>. QED
      BY <3>3, <3>4, <3>5 DEF RowOK
  <2>. QED
    BY <2>2, <2>3
<1>. QED
  BY <1>4, <1>5

-----------------------------------------------------------------------------
(* The theorems. *)

\* The table and the attempts are well formed in every state, also when attempts may
\* outlive their locks (SlowWorkers).
THEOREM WebhookTypeCorrect == WebhookSpec => []WebhookTypeOK
<1>1. QueueOK => WebhookTypeOK
  BY DEF QueueOK
<1>. QED
  BY <1>1, QueueInit, QueueNext, PTL DEF WebhookSpec

\* The inductive invariant: while no attempt lasts longer than STUCK_PROCESSING_MS,
\* every row is held by one attempt at most and tells the truth about its history.
THEOREM DeliveryInvariance ==
    ASSUME SlowWorkers = FALSE
    PROVE  WebhookSpec => []DeliveryInv
<1>1. WebhookInit => DeliveryInv
  <2>. SUFFICES ASSUME WebhookInit, NEW r \in RowId PROVE QueueOK /\ RowOK(r)
    BY QueueInit DEF DeliveryInv
  <2>1. QueueOK
    BY QueueInit
  <2>2. /\ \A w \in Workers : jobs[w][r].pc = "none" /\ jobs[w][r].outcome = "none"
        /\ acks[r] = 0 /\ interrupted[r] = 0 /\ ~Has(rows, r)
    BY NoJobFacts DEF WebhookInit, EmptyStore, Has
  <2>3. HoldsRow(r) /\ (\A w \in Workers : AttemptOK(w, r)) /\ AcksAccounted(r) /\ RecordOK(r)
    BY <2>2 DEF HoldsRow, AttemptOK, AcksAccounted, RecordOK, Delivered, OkInFlight
  <2>. QED
    BY <2>1, <2>3 DEF RowOK
<1>2. DeliveryInv /\ [WebhookNext]_webhookVars => DeliveryInv'
  <2>. SUFFICES ASSUME DeliveryInv, [WebhookNext]_webhookVars, NEW q \in RowId
                PROVE  QueueOK' /\ RowOK(q)'
    BY QueueNext DEF DeliveryInv
  <2>1. QueueOK /\ RowOK(q) /\ QueueOK'
    BY QueueNext DEF DeliveryInv
  <2>2. CASE \/ \E e \in Events : Dispatch(e)
             \/ \E r \in RowId : EnqueueFails(r)
             \/ \E s \in Subscriptions : Revoke(s)
    BY <2>1, <2>2, DispatchRow
  <2>3. ASSUME NEW r \in RowId, Enqueue(r) PROVE RowOK(q)'
    BY <2>1, <2>3, EnqueueRow
  <2>4. ASSUME NEW r \in RowId, BecomeDue(r) \/ LockExpires(r) PROVE RowOK(q)'
    BY <2>1, <2>4, TimeRow
  <2>5. ASSUME NEW w \in Workers, Claim(w) PROVE RowOK(q)'
    BY <2>1, <2>5, ClaimRow
  <2>6. ASSUME NEW w \in Workers, NEW r \in RowId,
               Lookup(w, r) \/ Post(w, r) \/ PostAnswerLost(w, r) \/ LogAttempt(w, r)
        PROVE  RowOK(q)'
    BY <2>1, <2>6, AttemptRow
  <2>7. ASSUME NEW w \in Workers, NEW r \in RowId, Finalize(w, r) PROVE RowOK(q)'
    BY <2>1, <2>7, FinalizeRow
  <2>8. ASSUME NEW w \in Workers, (\E r \in RowId : AttemptFails(w, r)) \/ Crash(w) PROVE RowOK(q)'
    BY <2>1, <2>8, DeathRow
  <2>9. CASE UNCHANGED webhookVars
    <3>1. UNCHANGED <<active, rows, jobs, acks, interrupted, logged>>
      BY <2>9 DEF webhookVars
    <3>. QED
      BY <2>1, <3>1, SameRow
  <2>. QED
    BY <2>1, <2>2, <2>3, <2>4, <2>5, <2>6, <2>7, <2>8, <2>9 DEF WebhookNext, AttemptStep
<1>. QED
  BY <1>1, <1>2, PTL DEF WebhookSpec

\* While no attempt outlives its lock, the table is well formed and says what happened:
\* DELIVERED was acknowledged, ABANDONED used up the schedule or lost its subscription,
\* and no acknowledgement is repeated unless one was lost (finalize, nextRetryDelayMs).
THEOREM RowsTellTheTruth ==
    ASSUME SlowWorkers = FALSE
    PROVE  WebhookSpec => []WebhookInv
<1>1. DeliveryInv => WebhookInv
  <2>. SUFFICES ASSUME DeliveryInv PROVE RowTellsTheTruth
    BY DEF DeliveryInv, QueueOK, WebhookInv
  <2>1. QueueOK /\ \A r \in RowId : RowOK(r)
    BY DEF DeliveryInv
  <2>2. ASSUME NEW r \in RowId
        PROVE  acks[r] <= 1 + interrupted[r] /\ (Delivered(r) => acks[r] > 0)
    <3>1. acks[r] \in Nat /\ interrupted[r] \in Nat
      BY <2>1, Counters
    <3>2. acks[r] = interrupted[r] + (IF Delivered(r) \/ OkInFlight(r) THEN 1 ELSE 0)
      BY <2>1 DEF RowOK, AcksAccounted
    <3>. QED
      BY <3>1, <3>2
  <2>3. DOMAIN rows \subseteq RowId
    BY <2>1 DEF QueueOK, WebhookTypeOK
  <2>4. \A r \in DOMAIN rows :
          /\ rows[r].status = "ABANDONED" =>
               rows[r].attemptCount = MAX_DELIVERY_ATTEMPTS \/ ~active[r[1]]
          /\ rows[r].attemptCount <= logged[r]
    BY <2>1, <2>3 DEF RowOK, RecordOK, Has
  <2>5. \A r \in DOMAIN rows : rows[r].status = "DELIVERED" => acks[r] > 0
    BY <2>2, <2>3 DEF Delivered, Has
  <2>. QED
    BY <2>2, <2>4, <2>5 DEF RowTellsTheTruth
<1>. QED
  BY <1>1, DeliveryInvariance, PTL

\* While no attempt outlives its lock, no two instances ever attempt the same row at the
\* same time (claimBatch, STUCK_PROCESSING_MS).
THEOREM OneAttemptAtATime ==
    ASSUME SlowWorkers = FALSE
    PROVE  WebhookSpec => []OneAttemptInFlight
<1>1. DeliveryInv => OneAttemptInFlight
  <2>. SUFFICES ASSUME DeliveryInv, NEW r \in RowId, NEW w \in Workers, IsLive(w, r)
                PROVE  /\ \A v \in Workers : IsLive(v, r) => v = w
                       /\ Has(rows, r)
                       /\ rows[r].status = "PROCESSING"
                       /\ jobs[w][r].attempt = rows[r].attemptCount + 1
    BY DEF OneAttemptInFlight
  <2>1. QueueOK /\ RowOK(r)
    BY DEF DeliveryInv
  <2>. QED
    BY <2>1, LiveIffRunning, SoleAttempt
<1>. QED
  BY <1>1, DeliveryInvariance, PTL

\* While no attempt outlives its lock, a DELIVERED or ABANDONED row is never written
\* again, by a late attempt, a repeated event or another instance.
THEOREM TerminalRowsAreFinal ==
    ASSUME SlowWorkers = FALSE
    PROVE  WebhookSpec => TerminalIsFinal
<1>. DEFINE Kept == \A r \in DOMAIN rows :
                      rows[r].status \in {"DELIVERED", "ABANDONED"} => rows'[r] = rows[r]
<1>1. DeliveryInv /\ [WebhookNext]_webhookVars => [Kept]_webhookVars
  <2>. SUFFICES ASSUME DeliveryInv, WebhookNext, NEW r \in DOMAIN rows,
                       rows[r].status \in {"DELIVERED", "ABANDONED"}
                PROVE  rows'[r] = rows[r]
    OBVIOUS
  <2>1. QueueOK /\ r \in RowId /\ Has(rows, r) /\ RowOK(r)
    BY DEF DeliveryInv, QueueOK, WebhookTypeOK, Has
  <2>2. ASSUME NEW w \in Workers, NEW q \in RowId, Finalize(w, q) PROVE rows'[r] = rows[r]
    <3>1. jobs[w][q].pc = "finalize"
      BY <2>2 DEF Finalize
    <3>2. q # r
      BY <2>1, <3>1, SoleAttempt
    <3>. QED
      BY <2>2, <3>2 DEF Finalize
  <2>3. ASSUME NEW w \in Workers, Claim(w) PROVE rows'[r] = rows[r]
    <3>1. PICK batch \in SUBSET RowId : Claimed(w, batch)
      BY <2>1, <2>3, ClaimFacts
    <3>. QED
      BY <3>1 DEF Claimed, Claimable
  <2>4. ASSUME NEW q \in RowId, Enqueue(q) \/ BecomeDue(q) \/ LockExpires(q) PROVE rows'[r] = rows[r]
    BY <2>1, <2>4 DEF Enqueue, BecomeDue, LockExpires, Put, Has
  <2>5. CASE rows' = rows
    BY <2>5
  <2>6. \/ rows' = rows
        \/ \E q \in RowId : Enqueue(q) \/ BecomeDue(q) \/ LockExpires(q)
        \/ \E w \in Workers : Claim(w) \/ \E q \in RowId : Finalize(w, q)
    <3>1. ASSUME NEW e \in Events, Dispatch(e) PROVE rows' = rows  BY <3>1 DEF Dispatch
    <3>2. ASSUME NEW q \in RowId, EnqueueFails(q) PROVE rows' = rows  BY <3>2 DEF EnqueueFails
    <3>3. ASSUME NEW s \in Subscriptions, Revoke(s) PROVE rows' = rows  BY <3>3 DEF Revoke
    <3>4. ASSUME NEW w \in Workers, Crash(w) PROVE rows' = rows  BY <3>4 DEF Crash
    <3>5. ASSUME NEW w \in Workers, NEW q \in RowId,
                 \/ Lookup(w, q) \/ Post(w, q) \/ LogAttempt(w, q)
                 \/ PostAnswerLost(w, q) \/ AttemptFails(w, q)
          PROVE  rows' = rows
      BY <3>5 DEF Lookup, Post, LogAttempt, PostAnswerLost, AttemptFails
    <3>. QED
      BY <3>1, <3>2, <3>3, <3>4, <3>5, Zenon DEF WebhookNext, AttemptStep
  <2>. QED
    BY <2>2, <2>3, <2>4, <2>5, <2>6
<1>. QED
  BY <1>1, DeliveryInvariance, PTL DEF WebhookSpec, TerminalIsFinal
=============================================================================
