------------------------ MODULE AnalysisJobs_proofs ------------------------
(***************************************************************************)
(* Proofs about AnalysisJobs, for any number of jobs, any limits and any   *)
(* number of crashes, lapses and lost acknowledgements.                    *)
(***************************************************************************)
EXTENDS AnalysisJobs, SequenceTheorems, FiniteSetTheorems, TLAPS

\* The record updates the transactions are built from yield rows.
LEMMA RowUpdates ==
  /\ NoRow \in Row /\ NewRow \in Row
  /\ \A r \in Row : Reported(r) \in Row /\ Addressed(r) \in Row
  /\ \A r \in Row, token \in Nat :
       Processing(r, token) \in Row /\ Sending(r, token) \in Row
  /\ \A r \in Row, status \in Statuses, due \in BOOLEAN :
       Requeued(r, status, due) \in Row
<1> USE DEF Row, Statuses, NoLease
<1>1. NoRow \in Row
  BY DEF NoRow
<1>2. NewRow \in Row
  BY <1>1 DEF NewRow
<1>3. \A r \in Row : Reported(r) \in Row /\ Addressed(r) \in Row
  BY DEF Reported, Addressed
<1>4. ASSUME NEW r \in Row, NEW token \in Nat
      PROVE  Processing(r, token) \in Row /\ Sending(r, token) \in Row
  <2>1. r.attempts + 1 \in Nat /\ r.mailAttempts + 1 \in Nat
    OBVIOUS
  <2>2. Processing(r, token) \in Row
    BY <2>1 DEF Processing
  <2>3. Sending(r, token) \in Row
    BY <2>1 DEF Sending
  <2>4. QED
    BY <2>2, <2>3
<1>5. \A r \in Row, status \in Statuses, due \in BOOLEAN :
        Requeued(r, status, due) \in Row
  BY DEF Requeued
<1>6. QED
  BY <1>1, <1>2, <1>3, <1>4, <1>5

\* Appending one of the known events keeps every log a log.
LEMMA LogUpdates ==
  ASSUME log \in [Jobs -> Seq(Events)], NEW j \in Jobs, NEW event \in Events,
         Record(j, event)
  PROVE  log' \in [Jobs -> Seq(Events)]
  BY DEF Record

\* Purging a row with a known event keeps the types.
LEMMA PurgeTypes ==
  ASSUME TypeOK, NEW j \in Jobs, NEW event \in Events, PurgeJob(j, event)
  PROVE  row' \in [Jobs -> Row] /\ log' \in [Jobs -> Seq(Events)]
  BY RowUpdates, LogUpdates DEF PurgeJob, TypeOK

\* Replacing a task by itself in another stage keeps the set a set of tasks.
LEMMA TaskUpdates ==
  ASSUME tasks \subseteq Task, NEW t \in tasks,
         NEW stage \in {"working", "sent", "caught"}, NEW retry \in BOOLEAN,
         Enters(t, stage, retry)
  PROVE  tasks' \subseteq Task
  BY DEF Enters, Task

\* One lemma per group of actions: creating a job keeps the types.
LEMMA CreateTypes ==
  ASSUME TypeOK, NEW j \in Jobs, Create(j)
  PROVE  TypeOK'
<1>1. CASE CountActive(j)
  BY <1>1 DEF CountActive, TypeOK
<1>2. CASE InsertJob(j)
  <2>1. log' \in [Jobs -> Seq(Events)]
    BY <1>2, LogUpdates DEF InsertJob, TypeOK, Events
  <2>2. QED
    BY <1>2, <2>1, RowUpdates DEF InsertJob, TypeOK
<1>3. CASE CreateRollsBack(j)
  BY <1>3 DEF CreateRollsBack, TypeOK
<1>4. QED
  BY <1>1, <1>2, <1>3 DEF Create

\* Requests with a job handle keep the types.
LEMMA RequestTypes ==
  ASSUME TypeOK, NEW j \in Jobs, Request(j)
  PROVE  TypeOK'
<1>1. CASE StatusForHandle(j)
  BY <1>1, PurgeTypes DEF StatusForHandle, TypeOK, Events
<1>2. CASE TakeFastResult(j)
  BY <1>2, PurgeTypes DEF TakeFastResult, TypeOK, Events
<1>3. CASE AttachEmail(j)
  BY <1>3, RowUpdates DEF AttachEmail, TypeOK
<1>4. CASE CancelJob(j)
  BY <1>4, PurgeTypes DEF CancelJob, TypeOK, Events
<1>5. QED
  BY <1>1, <1>2, <1>3, <1>4 DEF Request

\* A claim keeps the types; its task is a Task.
LEMMA ClaimTypes ==
  ASSUME TypeOK, NEW j \in Jobs, Claim(j)
  PROVE  TypeOK'
<1>1. row[j] \in Row /\ issued[j] + 1 \in Nat
  BY DEF TypeOK
<1>2. CASE ClaimQueued(j)
  <2>1. Processing(row[j], issued[j] + 1) \in Row
    BY <1>1, RowUpdates
  <2>2. NewTask(j, "pdf", row[j].attempts + 1) \in Task
    BY <1>1 DEF NewTask, Task, Row
  <2>3. QED
    BY <1>2, <2>1, <2>2 DEF ClaimQueued, TypeOK
<1>3. CASE ClaimEmailPending(j)
  <2>1. Sending(row[j], issued[j] + 1) \in Row
    BY <1>1, RowUpdates
  <2>2. NewTask(j, "email", row[j].mailAttempts + 1) \in Task
    BY <1>1 DEF NewTask, Task, Row
  <2>3. QED
    BY <1>3, <2>1, <2>2 DEF ClaimEmailPending, TypeOK
<1>4. QED
  BY <1>2, <1>3 DEF Claim

\* So does the clock.
LEMMA ClockTypes ==
  ASSUME TypeOK, NEW j \in Jobs, Clock(j)
  PROVE  TypeOK'
<1>1. row[j] \in Row
  BY DEF TypeOK
<1>2. CASE JobExpires(j)
  BY <1>1, <1>2 DEF JobExpires, TypeOK, Row
<1>3. CASE LeaseLapses(j)
  BY <1>1, <1>3 DEF LeaseLapses, TypeOK, Row
<1>4. CASE BackoffEnds(j)
  BY <1>1, <1>4 DEF BackoffEnds, TypeOK, Row
<1>5. QED
  BY <1>2, <1>3, <1>4 DEF Clock

\* The UPDATE of finishProcessing keeps the types of what it writes.
LEMMA StoreReportTypes ==
  ASSUME TypeOK, NEW t \in tasks, StoreReport(t)
  PROVE  row' \in [Jobs -> Row] /\ log' \in [Jobs -> Seq(Events)]
<1>1. t.job \in Jobs /\ row[t.job] \in Row
  BY DEF TypeOK, Task
<1>2. CASE /\ row' = [row EXCEPT ![t.job] = Reported(row[t.job])]
           /\ Record(t.job, "analysis_completed")
  <2>1. log' \in [Jobs -> Seq(Events)]
    BY <1>1, <1>2, LogUpdates DEF TypeOK, Events
  <2>2. QED
    BY <1>1, <1>2, <2>1, RowUpdates DEF TypeOK
<1>3. QED
  BY <1>2 DEF StoreReport, TypeOK

\* So does the transaction of finishEmail.
LEMMA RecordSentTypes ==
  ASSUME TypeOK, NEW t \in tasks, RecordSent(t)
  PROVE  row' \in [Jobs -> Row] /\ log' \in [Jobs -> Seq(Events)]
<1>1. t.job \in Jobs
  BY DEF TypeOK, Task
<1>2. CASE PurgeJob(t.job, "email_sent")
  BY <1>1, <1>2, PurgeTypes DEF Events
<1>3. QED
  BY <1>2 DEF RecordSent, TypeOK

\* So does every step of a task, the heartbeat and the crash included.
LEMMA TaskTypes ==
  ASSUME TypeOK, NEW t \in tasks, TaskStep(t) \/ Heartbeat(t) \/ TaskDies(t)
  PROVE  TypeOK'
<1>1. t.job \in Jobs /\ row[t.job] \in Row
  BY DEF TypeOK, Task
<1>2. CASE FinishProcessing(t)
  BY <1>2, StoreReportTypes DEF FinishProcessing, TypeOK
<1>3. CASE FinishProcessingUnacknowledged(t)
  BY <1>3, StoreReportTypes, TaskUpdates
     DEF FinishProcessingUnacknowledged, TypeOK
<1>4. CASE MailAccepted(t) \/ MailUncertain(t)
  <2>1. tasks' \subseteq Task
    BY <1>4, TaskUpdates DEF MailAccepted, MailUncertain, TypeOK
  <2>2. mails[t.job] + 1 \in Nat
    BY <1>1 DEF TypeOK
  <2>3. mails' \in [Jobs -> Nat]
    BY <1>1, <2>2, <1>4 DEF MailAccepted, MailUncertain, TypeOK
  <2>4. QED
    BY <1>4, <2>1, <2>3 DEF MailAccepted, MailUncertain, TypeOK
<1>13. CASE MailMislaid(t)
  <2>1. tasks' \subseteq Task
    BY <1>13, TaskUpdates DEF MailMislaid, TypeOK
  <2>2. mislaid[t.job] + 1 \in Nat
    BY <1>1 DEF TypeOK
  <2>3. mislaid' \in [Jobs -> Nat]
    BY <1>1, <2>2, <1>13 DEF MailMislaid, TypeOK
  <2>4. QED
    BY <1>13, <2>1, <2>3 DEF MailMislaid, TypeOK
<1>5. ASSUME NEW retry \in BOOLEAN, Throw(t, retry)
      PROVE  TypeOK'
  <2>1. tasks' \subseteq Task
    BY <1>5, TaskUpdates DEF Throw, TypeOK
  <2>2. QED
    BY <1>5, <2>1 DEF Throw, TypeOK
<1>6. CASE FailProcessing(t)
  <2>1. row' \in [Jobs -> Row] /\ log' \in [Jobs -> Seq(Events)]
    <3>1. CASE PurgeJob(t.job, "analysis_failed")
      BY <1>1, <3>1, PurgeTypes DEF Events
    <3>2. QED
      BY <1>1, <1>6, <3>1, RowUpdates DEF FailProcessing, TypeOK, Statuses
  <2>2. QED
    BY <1>6, <2>1 DEF FailProcessing, TypeOK
<1>7. CASE FinishEmail(t)
  BY <1>7, RecordSentTypes DEF FinishEmail, TypeOK
<1>8. CASE FinishEmailUnacknowledged(t)
  BY <1>8, RecordSentTypes, TaskUpdates DEF FinishEmailUnacknowledged, TypeOK
<1>9. CASE FailEmail(t)
  <2>1. row' \in [Jobs -> Row] /\ log' \in [Jobs -> Seq(Events)]
    <3>1. CASE PurgeJob(t.job, "email_failed")
      BY <1>1, <3>1, PurgeTypes DEF Events
    <3>2. QED
      BY <1>1, <1>9, <3>1, RowUpdates DEF FailEmail, TypeOK, Statuses
  <2>2. QED
    BY <1>9, <2>1 DEF FailEmail, TypeOK
<1>10. CASE Heartbeat(t)
  BY <1>1, <1>10 DEF Heartbeat, TypeOK, Row
<1>11. CASE TaskDies(t)
  BY <1>11 DEF TaskDies, TypeOK
<1>12. QED
  BY <1>2, <1>3, <1>4, <1>13, <1>5, <1>6, <1>7, <1>8, <1>9, <1>10, <1>11 DEF TaskStep

\* So does a sweep.
LEMMA SweepTypes ==
  ASSUME TypeOK, RecoverAndPurge
  PROVE  TypeOK'
<1>1. ASSUME NEW j \in Jobs
      PROVE  row'[j] \in Row
  <2>1. row[j] \in Row
    BY DEF TypeOK
  <2>2. row'[j] \in {Requeued(row[j], "queued", TRUE), NoRow, row[j]}
    BY DEF RecoverAndPurge
  <2>3. QED
    BY <2>1, <2>2, RowUpdates DEF Statuses
<1>2. ASSUME NEW j \in Jobs
      PROVE  log'[j] \in Seq(Events)
  <2>1. SweepEvent(j) \in Events
    BY DEF SweepEvent, Events
  <2>2. log[j] \in Seq(Events)
    BY DEF TypeOK
  <2>3. QED
    BY <2>1, <2>2 DEF RecoverAndPurge
<1>3. row' \in [Jobs -> Row] /\ log' \in [Jobs -> Seq(Events)]
  BY <1>1, <1>2 DEF RecoverAndPurge
<1>4. QED
  BY <1>3 DEF RecoverAndPurge, TypeOK

\* TypeOK is inductive.
LEMMA TypeStep == TypeOK /\ [Next]_vars => TypeOK'
<1> SUFFICES ASSUME TypeOK, [Next]_vars
             PROVE  TypeOK'
  OBVIOUS
<1>1. ASSUME NEW j \in Jobs, Create(j) \/ Request(j) \/ Claim(j) \/ Clock(j)
      PROVE  TypeOK'
  BY <1>1, CreateTypes, RequestTypes, ClaimTypes, ClockTypes
<1>2. ASSUME NEW t \in tasks, TaskStep(t) \/ Heartbeat(t) \/ TaskDies(t)
      PROVE  TypeOK'
  BY <1>2, TaskTypes
<1>3. CASE RecoverAndPurge
  BY <1>3, SweepTypes
<1>4. CASE UNCHANGED vars
  BY <1>4 DEF vars, TypeOK
<1>5. QED
  BY <1>1, <1>2, <1>3, <1>4 DEF Next

\* Every reachable state of the table, the workers and the mailer is well typed:
\* no transaction writes a value the schema or the CHECK on event names refuses.
THEOREM TypeCorrect == Spec => []TypeOK
<1>1. Init => TypeOK
  BY RowUpdates DEF Init, TypeOK
<1>2. TypeOK /\ [Next]_vars => TypeOK'
  BY TypeStep
<1>3. QED
  BY <1>1, <1>2, PTL DEF Spec

---------------------------------------------------------------------------
(* What any one step may do to the row and the events of any one job.      *)

KeptRow(r, q) ==
  \/ q = r
  \/ r.status # "absent" /\ q = [r EXCEPT !.expired = TRUE]
  \/ r.status # "absent" /\ q = [r EXCEPT !.due = TRUE]
  \/ \E lapsed \in BOOLEAN : r.lease # NoLease /\ q = [r EXCEPT !.lapsed = lapsed]

ClaimedRow(r, q, token) ==
  \/ r.status = "queued" /\ q = Processing(r, token)
  \/ r.status = "email_pending" /\ q = Sending(r, token)

RequeuedRow(r, q) ==
  \/ r.status = "awaiting_email" /\ q = Addressed(r)
  \/ /\ r.status = "processing" /\ r.attempts < MaxAttempts
     /\ \E due \in BOOLEAN : q = Requeued(r, "queued", due)
  \/ /\ r.status = "email_sending" /\ r.mailAttempts < MaxMailAttempts
     /\ q = Requeued(r, "email_pending", FALSE)

RowKept(j) ==
  /\ log'[j] = log[j] /\ issued'[j] = issued[j]
  /\ KeptRow(row[j], row'[j])

RowCreated(j) ==
  /\ j \in creating /\ j \notin creating' /\ row'[j] = NewRow /\ issued'[j] = issued[j]
  /\ log'[j] = Append(log[j], "analysis_started")

RowPurged(j) ==
  /\ Present(j) /\ row'[j] = NoRow /\ issued'[j] = issued[j]
  /\ \E e \in (IF row[j].report THEN Life!EndsReported ELSE Life!EndsPending) :
       /\ log'[j] = Append(log[j], e)
       /\ e \in Life!Unmailed => row[j].status # "email_sending"
       /\ e \in Life!Unreported => row[j].status \notin {"email_pending", "email_sending"}
       /\ e = "email_sent" => \E t \in tasks \ tasks' :
            t.job = j /\ t.stage = "sent" /\ Owns(t, "email_sending")

RowClaimed(j) ==
  /\ log'[j] = log[j] /\ issued'[j] = issued[j] + 1
  /\ ClaimedRow(row[j], row'[j], issued[j] + 1)

RowRequeued(j) ==
  /\ log'[j] = log[j] /\ issued'[j] = issued[j]
  /\ RequeuedRow(row[j], row'[j])
  /\ row[j].status = "email_sending" => \E t \in tasks \ tasks' :
       t.job = j /\ t.retry /\ Owns(t, "email_sending")

RowReported(j) ==
  /\ row[j].status = "processing" /\ row'[j] = Reported(row[j])
  /\ issued'[j] = issued[j] /\ log'[j] = Append(log[j], "analysis_completed")

JobMove(j) ==
  RowKept(j) \/ RowCreated(j) \/ RowPurged(j) \/ RowClaimed(j) \/ RowRequeued(j)
    \/ RowReported(j)

\* A task that owns a row knows its attempts.
LEMMA OwnerKnows ==
  ASSUME TypeOK, PayloadsMatchStatus, TasksMatchLeases, NEW t \in tasks
  PROVE  /\ t.job \in Jobs /\ t \in Task /\ row[t.job] \in Row
         /\ t.lease # NoLease
         /\ Owns(t, "processing") => t.kind = "pdf" /\ row[t.job].attempts = t.attempt
         /\ Owns(t, "email_sending")
              => t.kind = "email" /\ row[t.job].mailAttempts = t.attempt
  BY DEF TypeOK, Task, TasksMatchLeases, TaskFits, Owns, NoLease

\* A flag of one row changes, or nothing does.
LEMMA KeptMove ==
  ASSUME TypeOK, NEW j \in Jobs, NEW k \in Jobs, NEW q, KeptRow(row[k], q),
         row' = [row EXCEPT ![k] = q], UNCHANGED <<log, issued>>
  PROVE  JobMove(j)
<1>1. KeptRow(row[j], row[j])
  BY DEF KeptRow
<1>2. row'[j] = IF j = k THEN q ELSE row[j]
  BY DEF TypeOK
<1>3. QED
  BY <1>1, <1>2 DEF JobMove, RowKept

\* Requests, claims and the clock are moves of every job.
LEMMA RequestMoves ==
  ASSUME TypeOK, PayloadsMatchStatus, NEW j \in Jobs, NEW k \in Jobs,
         Create(k) \/ Request(k) \/ Claim(k) \/ Clock(k)
  PROVE  JobMove(j)
<1> USE DEF TypeOK
<1>1. CASE CountActive(k) \/ CreateRollsBack(k)
  BY <1>1 DEF CountActive, CreateRollsBack, JobMove, RowKept, KeptRow
<1>2. CASE InsertJob(k)
  BY <1>2 DEF InsertJob, Record, JobMove, RowKept, KeptRow, RowCreated
<1>3. CASE StatusForHandle(k)
  BY <1>3 DEF StatusForHandle, PurgeJob, Record, JobMove, RowKept, KeptRow, RowPurged,
              Life!EndsPending, Life!EndsReported, Life!Unmailed, Life!Unreported
<1>4. CASE TakeFastResult(k)
  BY <1>4 DEF TakeFastResult, PurgeJob, Record, JobMove, RowKept, KeptRow, RowPurged,
              Life!EndsReported, Present
<1>5. CASE AttachEmail(k)
  BY <1>5 DEF AttachEmail, JobMove, RowKept, KeptRow, RowRequeued, RequeuedRow
<1>6. CASE CancelJob(k)
  BY <1>6 DEF CancelJob, PurgeJob, Record, JobMove, RowKept, KeptRow, RowPurged,
              Life!EndsPending, Life!EndsReported, Life!Unreported, Present
<1>7. CASE ClaimQueued(k)
  <2>1. ClaimedRow(row[k], Processing(row[k], issued[k] + 1), issued[k] + 1)
    BY <1>7 DEF ClaimQueued, Oldest, Claimable, ClaimedRow
  <2>2. KeptRow(row[j], row[j])
    BY DEF KeptRow
  <2>3. QED
    BY <1>7, <2>1, <2>2 DEF ClaimQueued, JobMove, RowKept, RowClaimed
<1>8. CASE ClaimEmailPending(k)
  <2>1. ClaimedRow(row[k], Sending(row[k], issued[k] + 1), issued[k] + 1)
    BY <1>8 DEF ClaimEmailPending, Oldest, Claimable, ClaimedRow
  <2>2. KeptRow(row[j], row[j])
    BY DEF KeptRow
  <2>3. QED
    BY <1>8, <2>1, <2>2 DEF ClaimEmailPending, JobMove, RowKept, RowClaimed
<1>9. CASE JobExpires(k)
  <2>1. KeptRow(row[k], [row[k] EXCEPT !.expired = TRUE])
    BY <1>9 DEF JobExpires, KeptRow, Present
  <2>2. QED
    BY <1>9, <2>1, KeptMove DEF JobExpires
<1>10. CASE LeaseLapses(k)
  <2>1. KeptRow(row[k], [row[k] EXCEPT !.lapsed = TRUE])
    BY <1>10 DEF LeaseLapses, KeptRow, Present
  <2>2. QED
    BY <1>10, <2>1, KeptMove DEF LeaseLapses
<1>11. CASE BackoffEnds(k)
  <2>1. KeptRow(row[k], [row[k] EXCEPT !.due = TRUE])
    BY <1>11 DEF BackoffEnds, KeptRow, Present
  <2>2. QED
    BY <1>11, <2>1, KeptMove DEF BackoffEnds
<1>12. QED
  BY <1>1, <1>2, <1>3, <1>4, <1>5, <1>6, <1>7, <1>8, <1>9, <1>10, <1>11
     DEF Create, Request, Claim, Clock

\* Storing a report is a move of every job.
LEMMA StoreReportMoves ==
  ASSUME TypeOK, NEW t \in tasks, StoreReport(t), UNCHANGED issued, NEW j \in Jobs
  PROVE  JobMove(j)
  BY DEF StoreReport, Owns, Record, JobMove, RowKept, KeptRow, RowReported, TypeOK, Task

\* So is recording that the message was sent.
LEMMA RecordSentMoves ==
  ASSUME TypeOK, PayloadsMatchStatus, NEW t \in tasks, t.stage = "sent", RecordSent(t),
         UNCHANGED issued, t \notin tasks', NEW j \in Jobs
  PROVE  JobMove(j)
<1>1. CASE ~Owns(t, "email_sending")
  BY <1>1 DEF RecordSent, JobMove, RowKept, KeptRow
<1>2. CASE Owns(t, "email_sending")
  <2>1. t.job \in Jobs /\ row[t.job].report /\ Present(t.job)
    BY <1>2 DEF Owns, PayloadsMatchStatus, PayloadsFit, Present, TypeOK, Task
  <2>2. PurgeJob(t.job, "email_sent")
    BY <1>2 DEF RecordSent
  <2>3. CASE j = t.job
    <3>1. row'[j] = NoRow /\ log'[j] = Append(log[j], "email_sent")
      BY <2>1, <2>2, <2>3 DEF PurgeJob, Record, TypeOK
    <3>2. /\ "email_sent" \in Life!EndsReported
          /\ "email_sent" \notin Life!Unmailed \cup Life!Unreported
      BY DEF Life!EndsReported, Life!Unmailed, Life!Unreported
    <3>3. QED
      BY <1>2, <2>1, <2>3, <3>1, <3>2 DEF JobMove, RowPurged, TypeOK
  <2>4. CASE j # t.job
    BY <2>2, <2>4 DEF PurgeJob, Record, JobMove, RowKept, KeptRow, TypeOK
  <2>5. QED
    BY <2>3, <2>4
<1>3. QED
  BY <1>1, <1>2

\* So is every step of a task.
LEMMA TaskMoves ==
  ASSUME TypeOK, PayloadsMatchStatus, TasksMatchLeases, NEW j \in Jobs,
         NEW t \in tasks, TaskStep(t) \/ Heartbeat(t) \/ TaskDies(t)
  PROVE  JobMove(j)
<1> USE OwnerKnows DEF TypeOK
<1>1. CASE FinishProcessing(t) \/ FinishProcessingUnacknowledged(t)
  BY <1>1, StoreReportMoves DEF FinishProcessing, FinishProcessingUnacknowledged
<1>2. CASE MailAccepted(t) \/ MailUncertain(t) \/ MailMislaid(t) \/ TaskDies(t)
  BY <1>2 DEF MailAccepted, MailUncertain, MailMislaid, TaskDies, JobMove, RowKept, KeptRow
<1>3. ASSUME NEW retry \in BOOLEAN, Throw(t, retry)
      PROVE  JobMove(j)
  BY <1>3 DEF Throw, JobMove, RowKept, KeptRow
<1>4. CASE FailProcessing(t)
  <2>1. CASE Owns(t, "processing") /\ PurgeJob(t.job, "analysis_failed")
    BY <1>4, <2>1 DEF FailProcessing, Owns, PurgeJob, Record, JobMove, RowKept, KeptRow,
         RowPurged, PayloadsMatchStatus, PayloadsFit, Present,
         Life!EndsPending, Life!Unmailed, Life!Unreported
  <2>2. CASE /\ Owns(t, "processing") /\ t.attempt < MaxAttempts
             /\ row' = [row EXCEPT ![t.job] = Requeued(row[t.job], "queued", FALSE)]
             /\ UNCHANGED log
    <3>1. row[t.job].attempts < MaxAttempts
      BY <2>2
    <3>2. QED
      BY <1>4, <2>2, <3>1 DEF FailProcessing, Owns, JobMove, RowKept, KeptRow, RowRequeued, RequeuedRow
  <2>3. CASE UNCHANGED <<row, log>>
    BY <1>4, <2>3 DEF FailProcessing, JobMove, RowKept, KeptRow
  <2>4. ~(MaxAttempts < MaxAttempts)
    BY LimitsAssumption
  <2>5. QED
    BY <1>4, <2>1, <2>2, <2>3, <2>4 DEF FailProcessing
<1>5. CASE FinishEmail(t) \/ FinishEmailUnacknowledged(t)
  <2>1. t.stage = "sent" /\ RecordSent(t) /\ UNCHANGED issued
    BY <1>5 DEF FinishEmail, FinishEmailUnacknowledged
  <2>2. t \notin tasks'
    <3>1. [t EXCEPT !.stage = "caught", !.retry = FALSE] # t
      BY <2>1 DEF Task
    <3>2. QED
      BY <1>5, <3>1 DEF FinishEmail, FinishEmailUnacknowledged, Enters
  <2>3. QED
    BY <2>1, <2>2, RecordSentMoves
<1>6. CASE FailEmail(t)
  <2>1. CASE Owns(t, "email_sending") /\ PurgeJob(t.job, "email_failed")
    BY <1>6, <2>1 DEF FailEmail, Owns, PurgeJob, Record, JobMove, RowKept, KeptRow,
         RowPurged, PayloadsMatchStatus, PayloadsFit, Present,
         Life!EndsReported, Life!Unmailed, Life!Unreported
  <2>2. CASE /\ Owns(t, "email_sending") /\ t.retry /\ ~(t.attempt >= MaxMailAttempts)
             /\ row' = [row EXCEPT ![t.job] = Requeued(row[t.job], "email_pending", FALSE)]
             /\ UNCHANGED log
    <3>1. row[t.job].mailAttempts < MaxMailAttempts
      <4>1. row[t.job].mailAttempts = t.attempt
        BY <2>2, OwnerKnows
      <4>2. t.attempt \in Nat /\ ~(t.attempt >= MaxMailAttempts)
        BY <2>2 DEF Task
      <4>3. t.attempt < MaxMailAttempts
        BY <4>2, LimitsAssumption
      <4>4. QED
        BY <4>1, <4>3
    <3>2. t \notin tasks' /\ UNCHANGED issued
      BY <1>6 DEF FailEmail
    <3>3. CASE j = t.job
      <4>1. RequeuedRow(row[j], row'[j])
        BY <2>2, <3>1, <3>3 DEF Owns, RequeuedRow
      <4>2. QED
        BY <2>2, <3>2, <3>3, <4>1 DEF JobMove, RowRequeued
    <3>4. CASE j # t.job
      BY <2>2, <3>2, <3>4 DEF JobMove, RowKept, KeptRow
    <3>5. QED
      BY <3>3, <3>4
  <2>3. CASE UNCHANGED <<row, log>>
    BY <1>6, <2>3 DEF FailEmail, JobMove, RowKept, KeptRow
  <2>4. QED
    BY <1>6, <2>1, <2>2, <2>3 DEF FailEmail
<1>7. CASE Heartbeat(t)
  <2>1. row[t.job].lease # NoLease
    BY <1>7 DEF Heartbeat, Owns
  <2>2. KeptRow(row[t.job], [row[t.job] EXCEPT !.lapsed = FALSE])
    BY <2>1 DEF KeptRow
  <2>3. QED
    BY <1>7, <2>2, KeptMove DEF Heartbeat
<1>8. QED
  BY <1>1, <1>2, <1>3, <1>4, <1>5, <1>6, <1>7 DEF TaskStep

\* No row meets the conditions of two statements of a sweep that write it.
LEMMA SweepDisjoint ==
  ASSUME NEW j \in Jobs, row[j] \in Row
  PROVE  ~(j \in Recovered /\ j \in Purged)
  BY LimitsAssumption
     DEF Recovered, Purged, UncertainEmail, ExhaustedProcessing, ExpiredJobs, Row

\* So is a sweep.
LEMMA SweepMoves ==
  ASSUME TypeOK, PayloadsMatchStatus, RecoverAndPurge, NEW j \in Jobs
  PROVE  JobMove(j)
<1>1. UNCHANGED issued
  BY DEF RecoverAndPurge
<1>2. CASE j \in Recovered
  <2>2. j \notin Purged
    BY <1>2, SweepDisjoint DEF TypeOK
  <2>3. row'[j] = Requeued(row[j], "queued", TRUE) /\ log'[j] = log[j]
    BY <1>2, <2>2 DEF RecoverAndPurge, Metered
  <2>4. QED
    BY <1>1, <1>2, <2>3 DEF Recovered, JobMove, RowRequeued, RequeuedRow
<1>3. CASE j \in Purged
  <2>1. j \notin Recovered
    BY <1>3, SweepDisjoint DEF TypeOK
  <2>2. row'[j] = NoRow /\ log'[j] = Append(log[j], SweepEvent(j))
    BY <1>3, <2>1 DEF RecoverAndPurge, Metered
  <2>3. Present(j)
    BY <1>3 DEF Purged, UncertainEmail, ExhaustedProcessing, ExpiredJobs, Present
  <2>4. SweepEvent(j) \in (IF row[j].report THEN Life!EndsReported
                                            ELSE Life!EndsPending)
    BY <2>3 DEF SweepEvent, UncertainEmail, ExhaustedProcessing,
         PayloadsMatchStatus, PayloadsFit, Life!EndsPending, Life!EndsReported
  <2>5. /\ SweepEvent(j) \in Life!Unmailed => row[j].status # "email_sending"
        /\ SweepEvent(j) \in Life!Unreported
             => row[j].status \notin {"email_pending", "email_sending"}
        /\ SweepEvent(j) # "email_sent"
    BY <1>3 DEF SweepEvent, Purged, UncertainEmail, ExhaustedProcessing, Life!Unmailed,
         Life!Unreported
  <2>6. QED
    BY <1>1, <2>2, <2>3, <2>4, <2>5 DEF JobMove, RowPurged
<1>4. CASE j \notin Recovered /\ j \notin Purged
  BY <1>1, <1>4 DEF RecoverAndPurge, Metered, JobMove, RowKept, KeptRow
<1>5. QED
  BY <1>2, <1>3, <1>4

\* Every step of the specification is a move of every job.
LEMMA StepMoves ==
  ASSUME TypeOK, PayloadsMatchStatus, TasksMatchLeases, [Next]_vars, NEW j \in Jobs
  PROVE  JobMove(j)
<1>1. CASE UNCHANGED vars
  BY <1>1 DEF vars, JobMove, RowKept, KeptRow
<1>2. QED
  BY <1>1, RequestMoves, TaskMoves, SweepMoves DEF Next

---------------------------------------------------------------------------
(* The invariants that speak of rows alone, first for any row.             *)

\* Raising or clearing a flag keeps payloads, attempts and lease.
LEMMA KeptFits ==
  ASSUME NEW r \in Row, NEW q, KeptRow(r, q)
  PROVE  /\ PayloadsFit(r) => PayloadsFit(q)
         /\ AttemptsFit(r) => AttemptsFit(q)
         /\ q.lease = r.lease
         /\ (r.lapsed => r.lease # NoLease) => (q.lapsed => q.lease # NoLease)
<1> USE DEF KeptRow, Row
<1>1. PayloadsFit(r) => PayloadsFit(q)
  BY DEF PayloadsFit, NoRow
<1>2. AttemptsFit(r) => AttemptsFit(q)
  BY DEF AttemptsFit
<1>3. /\ q.lease = r.lease
      /\ (r.lapsed => r.lease # NoLease) => (q.lapsed => q.lease # NoLease)
  OBVIOUS
<1>4. QED
  BY <1>1, <1>2, <1>3

\* A claim keeps payloads and attempts in order and installs the new token.
LEMMA ClaimedFits ==
  ASSUME NEW r \in Row, NEW n \in Nat, NEW q, ClaimedRow(r, q, n + 1)
  PROVE  /\ PayloadsFit(r) => PayloadsFit(q)
         /\ AttemptsFit(r) => AttemptsFit(q)
         /\ q.lease = n + 1 /\ q.lease # NoLease
<1> USE LimitsAssumption DEF Row, NoLease, PayloadsFit, AttemptsFit, NoRow
<1>1. CASE r.status = "queued" /\ q = Processing(r, n + 1)
  BY <1>1 DEF Processing
<1>2. CASE r.status = "email_pending" /\ q = Sending(r, n + 1)
  BY <1>2 DEF Sending
<1>3. QED
  BY <1>1, <1>2 DEF ClaimedRow

\* So does the end of a claim that leaves the row, with the token gone.
LEMMA ReleasedFits ==
  ASSUME NEW r \in Row, NEW q,
         RequeuedRow(r, q) \/ (r.status = "processing" /\ q = Reported(r))
  PROVE  /\ PayloadsFit(r) => PayloadsFit(q)
         /\ AttemptsFit(r) => AttemptsFit(q)
         /\ q.lease = NoLease \/ q.lease = r.lease
         /\ (r.lapsed => r.lease # NoLease) => (q.lapsed => q.lease # NoLease)
<1> USE LimitsAssumption DEF Row, NoLease, PayloadsFit, AttemptsFit, NoRow
<1>1. CASE r.status = "awaiting_email" /\ q = Addressed(r)
  BY <1>1 DEF Addressed
<1>2. ASSUME NEW due \in BOOLEAN, r.status = "processing",
             r.attempts < MaxAttempts, q = Requeued(r, "queued", due)
      PROVE  /\ PayloadsFit(r) => PayloadsFit(q)
             /\ AttemptsFit(r) => AttemptsFit(q)
             /\ q.lease = NoLease /\ ~q.lapsed
  BY <1>2 DEF Requeued
<1>3. CASE /\ r.status = "email_sending" /\ r.mailAttempts < MaxMailAttempts
           /\ q = Requeued(r, "email_pending", FALSE)
  BY <1>3 DEF Requeued
<1>4. CASE r.status = "processing" /\ q = Reported(r)
  BY <1>4 DEF Reported
<1>5. QED
  BY <1>1, <1>2, <1>3, <1>4 DEF RequeuedRow

\* A row that is gone, and one just inserted, are in order.
LEMMA BlankFits ==
  /\ PayloadsFit(NoRow) /\ AttemptsFit(NoRow) /\ NoRow.lease = 0 /\ ~NoRow.lapsed
  /\ PayloadsFit(NewRow) /\ AttemptsFit(NewRow) /\ NewRow.lease = 0 /\ ~NewRow.lapsed
<1>1. PayloadsFit(NoRow) /\ NoRow.lease = 0 /\ ~NoRow.lapsed
  BY DEF PayloadsFit, NoRow, NoLease
<1>2. PayloadsFit(NewRow) /\ NewRow.lease = 0 /\ ~NewRow.lapsed
  BY DEF PayloadsFit, NewRow, NoRow, NoLease
<1>3. AttemptsFit(NoRow) /\ AttemptsFit(NewRow)
  BY LimitsAssumption DEF AttemptsFit, NewRow, NoRow
<1>4. QED
  BY <1>1, <1>2, <1>3

\* No move disturbs payloads, attempts or leases.
LEMMA RowsStep ==
  ASSUME TypeOK, PayloadsMatchStatus, LeasesMatchRows, AttemptsLeft,
         NEW j \in Jobs, JobMove(j)
  PROVE  /\ PayloadsFit(row'[j]) /\ AttemptsFit(row'[j])
         /\ row'[j].lease <= issued'[j]
         /\ row'[j].lapsed => row'[j].lease # NoLease
<1>1. row[j] \in Row /\ issued[j] \in Nat /\ row[j].lease \in Nat
  BY DEF TypeOK, Row
<1>2. /\ PayloadsFit(row[j]) /\ AttemptsFit(row[j]) /\ row[j].lease <= issued[j]
      /\ row[j].lapsed => row[j].lease # NoLease
  BY DEF PayloadsMatchStatus, AttemptsLeft, LeasesMatchRows
<1>3. CASE RowKept(j)
  <2>1. KeptRow(row[j], row'[j]) /\ issued'[j] = issued[j]
    BY <1>3 DEF RowKept
  <2>2. QED
    BY <1>1, <1>2, <2>1, KeptFits
<1>4. CASE RowCreated(j) \/ RowPurged(j)
  <2>1. row'[j] \in {NoRow, NewRow} /\ issued'[j] = issued[j]
    BY <1>4 DEF RowCreated, RowPurged
  <2>2. QED
    BY <1>1, <2>1, BlankFits
<1>5. CASE RowClaimed(j)
  <2>1. /\ ClaimedRow(row[j], row'[j], issued[j] + 1)
        /\ issued'[j] = issued[j] + 1
    BY <1>5 DEF RowClaimed
  <2>2. QED
    BY <1>1, <1>2, <2>1, ClaimedFits
<1>6. CASE RowRequeued(j) \/ RowReported(j)
  <2>1. RequeuedRow(row[j], row'[j])
          \/ (row[j].status = "processing" /\ row'[j] = Reported(row[j]))
    BY <1>6 DEF RowRequeued, RowReported
  <2>2. issued'[j] = issued[j]
    BY <1>6 DEF RowRequeued, RowReported
  <2>3. QED
    BY <1>1, <1>2, <2>1, <2>2, ReleasedFits DEF NoLease
<1>7. QED
  BY <1>3, <1>4, <1>5, <1>6 DEF JobMove

---------------------------------------------------------------------------
(* The events recorded for a job, and its stage in JobLifecycle.           *)

\* What a move does to presence, to the report and to the events.
StageMove(j) ==
  \/ /\ log'[j] = log[j] /\ (Present(j)' <=> Present(j))
     /\ row'[j].report = row[j].report
  \/ /\ log[j] = <<>> /\ log'[j] = <<"analysis_started">>
     /\ ~Present(j) /\ Present(j)' /\ ~row'[j].report
  \/ /\ log[j] = <<"analysis_started">>
     /\ log'[j] = <<"analysis_started", "analysis_completed">>
     /\ Present(j) /\ ~row[j].report /\ Present(j)' /\ row'[j].report
  \/ /\ Present(j) /\ ~Present(j)'
     /\ \E e \in (IF row[j].report THEN Life!EndsReported ELSE Life!EndsPending) :
          /\ log'[j] = IF row[j].report
                         THEN <<"analysis_started", "analysis_completed", e>>
                         ELSE <<"analysis_started", e>>
          /\ e \in Life!Unmailed => row[j].status # "email_sending"
          /\ e \in Life!Unreported => row[j].status \notin {"email_pending", "email_sending"}
          /\ e = "email_sent" => \E t \in tasks \ tasks' :
               t.job = j /\ t.stage = "sent" /\ Owns(t, "email_sending")

\* Appending to a sequence, in the form the events of a job need.
LEMMA AppendIs ==
  ASSUME NEW S, NEW s \in Seq(S), NEW b \in S, NEW t \in Seq(S),
         Len(t) = Len(s) + 1, t[Len(t)] = b, \A i \in 1 .. Len(s) : t[i] = s[i]
  PROVE  Append(s, b) = t
<1> DEFINE u == Append(s, b)
<1>1. /\ u \in Seq(S) /\ Len(u) = Len(s) + 1 /\ u[Len(s) + 1] = b
      /\ \A i \in 1 .. Len(s) : u[i] = s[i]
  BY AppendProperties
<1>2. Len(u) = Len(t) /\ \A i \in 1 .. Len(u) : u[i] = t[i]
  BY <1>1
<1> HIDE DEF u
<1>3. u = t
  BY <1>1, <1>2, SeqEqual
<1>4. QED
  BY <1>3 DEF u

\* The two appends that complete a log of events.
LEMMA AppendToTuples ==
  ASSUME NEW S, NEW a \in S, NEW b \in S, NEW c \in S
  PROVE  /\ Append(<<a>>, b) = <<a, b>>
         /\ Append(<<a, b>>, c) = <<a, b, c>>
<1>1. Append(<<a>>, b) = <<a, b>>
  <2> DEFINE s == <<a>>  t == <<a, b>>
  <2>1. /\ s \in Seq(S) /\ t \in Seq(S) /\ Len(t) = Len(s) + 1 /\ t[Len(t)] = b
        /\ \A i \in 1 .. Len(s) : t[i] = s[i]
    OBVIOUS
  <2> HIDE DEF s, t
  <2>2. Append(s, b) = t
    BY <2>1, AppendIs
  <2>3. QED
    BY <2>2 DEF s, t
<1>2. Append(<<a, b>>, c) = <<a, b, c>>
  <2> DEFINE s == <<a, b>>  t == <<a, b, c>>
  <2>1. /\ s \in Seq(S) /\ t \in Seq(S) /\ Len(t) = Len(s) + 1 /\ t[Len(t)] = c
        /\ \A i \in 1 .. Len(s) : t[i] = s[i]
    OBVIOUS
  <2> HIDE DEF s, t
  <2>2. Append(s, c) = t
    BY <2>1, AppendIs
  <2>3. QED
    BY <2>2 DEF s, t
<1>3. QED
  BY <1>1, <1>2

\* Only a creation, a report or a purge changes presence or the report.
LEMMA KeptStatus ==
  ASSUME NEW r \in Row, NEW q,
         KeptRow(r, q) \/ RequeuedRow(r, q) \/ (\E n \in Nat : ClaimedRow(r, q, n))
  PROVE  /\ q.report = r.report
         /\ q.status = "absent" <=> r.status = "absent"
<1> USE DEF Row
<1>1. CASE KeptRow(r, q)
  BY <1>1 DEF KeptRow
<1>2. CASE RequeuedRow(r, q)
  BY <1>2 DEF RequeuedRow, Addressed, Requeued
<1>3. CASE \E n \in Nat : ClaimedRow(r, q, n)
  BY <1>3 DEF ClaimedRow, Processing, Sending
<1>4. QED
  BY <1>1, <1>2, <1>3

\* A move of a job, seen in its presence, its report and its events.
LEMMA StagesMove ==
  ASSUME TypeOK, PayloadsMatchStatus, LogShape, UsedIds, NEW j \in Jobs, JobMove(j)
  PROVE  StageMove(j)
<1>1. row[j] \in Row /\ issued[j] + 1 \in Nat
  BY DEF TypeOK
<1>2. EventsFit(log[j], Present(j), row[j].report)
  BY DEF LogShape
<1>3. CASE RowKept(j) \/ RowClaimed(j) \/ RowRequeued(j)
  <2>1. \/ KeptRow(row[j], row'[j]) \/ RequeuedRow(row[j], row'[j])
        \/ ClaimedRow(row[j], row'[j], issued[j] + 1)
    BY <1>3 DEF RowKept, RowClaimed, RowRequeued
  <2>2. log'[j] = log[j]
    BY <1>3 DEF RowKept, RowClaimed, RowRequeued
  <2>3. QED
    BY <1>1, <2>1, <2>2, KeptStatus DEF StageMove, Present
<1>4. CASE RowCreated(j)
  <2>1. log[j] = <<>> /\ ~Present(j)
    BY <1>2, <1>4 DEF RowCreated, UsedIds, EventsFit
  <2>2. log'[j] = <<"analysis_started">>
    BY <1>4, <2>1 DEF RowCreated
  <2>3. Present(j)' /\ ~row'[j].report
    BY <1>4 DEF RowCreated, NewRow, NoRow, Present
  <2>4. QED
    BY <2>1, <2>2, <2>3 DEF StageMove
<1>5. CASE RowReported(j)
  <2>1. Present(j) /\ ~row[j].report
    BY <1>5 DEF RowReported, Present, PayloadsMatchStatus, PayloadsFit
  <2>2. log[j] = <<"analysis_started">>
    BY <1>2, <2>1 DEF EventsFit
  <2>3. log'[j] = <<"analysis_started", "analysis_completed">>
    <3>1. log'[j] = Append(log[j], "analysis_completed")
      BY <1>5 DEF RowReported
    <3>2. "analysis_started" \in Events /\ "analysis_completed" \in Events
      BY DEF Events
    <3>3. QED
      BY <2>2, <3>1, <3>2, AppendToTuples
  <2>4. Present(j)' /\ row'[j].report
    BY <1>1, <1>5 DEF RowReported, Reported, Row, Present
  <2>5. QED
    BY <2>1, <2>2, <2>3, <2>4 DEF StageMove
<1>6. CASE RowPurged(j)
  <2>1. Present(j) /\ ~Present(j)'
    BY <1>6 DEF RowPurged, NoRow, Present
  <2>2. PICK e \in (IF row[j].report THEN Life!EndsReported ELSE Life!EndsPending) :
          /\ log'[j] = Append(log[j], e)
          /\ e \in Life!Unmailed => row[j].status # "email_sending"
          /\ e \in Life!Unreported => row[j].status \notin {"email_pending", "email_sending"}
          /\ e = "email_sent" => \E t \in tasks \ tasks' :
               t.job = j /\ t.stage = "sent" /\ Owns(t, "email_sending")
    BY <1>6 DEF RowPurged
  <2>6. /\ e \in Events /\ "analysis_started" \in Events
        /\ "analysis_completed" \in Events
    BY DEF Events, Life!EndsReported, Life!EndsPending
  <2>3. CASE row[j].report
    <3>1. log[j] = <<"analysis_started", "analysis_completed">>
      BY <1>2, <2>1, <2>3 DEF EventsFit
    <3>2. log'[j] = <<"analysis_started", "analysis_completed", e>>
      BY <2>2, <2>6, <3>1, AppendToTuples
    <3>3. QED
      BY <2>1, <2>2, <2>3, <3>2 DEF StageMove
  <2>4. CASE ~row[j].report
    <3>1. log[j] = <<"analysis_started">>
      BY <1>2, <2>1, <2>4 DEF EventsFit
    <3>2. log'[j] = <<"analysis_started", e>>
      BY <2>2, <2>6, <3>1, AppendToTuples
    <3>3. QED
      BY <2>1, <2>2, <2>4, <3>2 DEF StageMove
  <2>5. QED
    BY <2>3, <2>4
<1>7. QED
  BY <1>3, <1>4, <1>5, <1>6 DEF JobMove

\* The events of a job keep one of their five shapes.
LEMMA LogStep ==
  ASSUME LogShape, NEW j \in Jobs, StageMove(j)
  PROVE  EventsFit(log'[j], Present(j)', row'[j].report)
<1>1. EventsFit(log[j], Present(j), row[j].report)
  BY DEF LogShape
<1>2. QED
  BY <1>1 DEF StageMove, EventsFit

\* Ids are used once: no job is counted, inserted or started a second time.
LEMMA UsedIdsStep ==
  ASSUME TypeOK, UsedIds, LogShape, [Next]_vars, NEW j \in Jobs, JobMove(j), StageMove(j)
  PROVE  /\ log'[j] # <<>> \/ j \in creating' => ~Fresh(j)'
         /\ j \in creating' => log'[j] = <<>>
<1>1. CASE \E k \in Jobs : CountActive(k)
  <2>1. PICK k \in Jobs : CountActive(k)
    BY <1>1
  <2>2. Fresh(k) /\ creating' = creating \cup {k} /\ arrivals' = Append(arrivals, k) /\ log' = log
    BY <2>1 DEF CountActive
  <2>3. Fresh(j)' => Fresh(j) /\ j # k
    <3>1. /\ Len(arrivals') = Len(arrivals) + 1 /\ arrivals'[Len(arrivals) + 1] = k
          /\ \A i \in 1 .. Len(arrivals) : arrivals'[i] = arrivals[i]
          /\ DOMAIN arrivals = 1 .. Len(arrivals) /\ DOMAIN arrivals' = 1 .. Len(arrivals')
      BY <2>2, AppendProperties DEF TypeOK
    <3>2. Len(arrivals) \in Nat
      BY DEF TypeOK
    <3>3. QED
      BY <3>1, <3>2 DEF Fresh
  <2>4. QED
    BY <2>2, <2>3 DEF UsedIds
<1>2. CASE ~\E k \in Jobs : CountActive(k)
  <2>1. creating' \subseteq creating /\ arrivals' = arrivals
    BY <1>2 DEF Next, vars, Create, Request, Claim, Clock, TaskStep,
         InsertJob, CreateRollsBack, StatusForHandle, TakeFastResult, AttachEmail, CancelJob,
         ClaimQueued, ClaimEmailPending, FinishProcessing, FinishProcessingUnacknowledged,
         MailAccepted, MailUncertain, MailMislaid, Throw, FailProcessing, FinishEmail,
         FinishEmailUnacknowledged, FailEmail, Heartbeat, TaskDies, RecoverAndPurge,
         JobExpires, LeaseLapses, BackoffEnds
  <2>2. Fresh(j)' <=> Fresh(j)
    BY <2>1 DEF Fresh
  <2>3. Present(j) => log[j] # <<>>
    BY DEF LogShape, EventsFit
  <2>4. \/ log'[j] = log[j]
        \/ j \in creating /\ j \notin creating'
        \/ Present(j)
    BY DEF JobMove, RowKept, RowCreated, RowPurged, RowClaimed, RowRequeued,
           RowReported, Present
  <2>5. QED
    BY <2>1, <2>2, <2>3, <2>4 DEF UsedIds
<1>3. QED
  BY <1>1, <1>2

---------------------------------------------------------------------------
(* The tasks and their leases.                                             *)

\* What a step does to the set of tasks.
TasksKept == tasks' \subseteq tasks

TaskTurns(t) ==
  \E stage \in {"sent", "caught"}, retry \in BOOLEAN :
    /\ Enters(t, stage, retry)
    /\ stage = "sent" => t.kind = "email" /\ ~retry

TaskStarts(j) == ClaimQueued(j) \/ ClaimEmailPending(j)

\* A step removes tasks, moves one task to another stage, or starts one.
LEMMA TasksMove ==
  ASSUME [Next]_vars
  PROVE  TasksKept \/ (\E t \in tasks : TaskTurns(t)) \/ (\E j \in Jobs : TaskStarts(j))
<1>1. ASSUME NEW t \in tasks, TaskStep(t)
      PROVE  TasksKept \/ TaskTurns(t)
  BY <1>1 DEF TaskStep, TasksKept, TaskTurns, FinishProcessing,
       FinishProcessingUnacknowledged, MailAccepted, MailUncertain, MailMislaid, Throw,
       FailProcessing, FinishEmail, FinishEmailUnacknowledged, FailEmail
<1>2. ASSUME NEW t \in tasks, Heartbeat(t) \/ TaskDies(t)
      PROVE  TasksKept
  BY <1>2 DEF Heartbeat, TaskDies, TasksKept
<1>3. ASSUME NEW j \in Jobs, Create(j) \/ Request(j) \/ Clock(j)
      PROVE  TasksKept
  BY <1>3 DEF Create, Request, Clock, CountActive, InsertJob, CreateRollsBack,
       StatusForHandle, TakeFastResult, AttachEmail, CancelJob, JobExpires,
       LeaseLapses, BackoffEnds, TasksKept
<1>4. CASE RecoverAndPurge \/ UNCHANGED vars
  BY <1>4 DEF RecoverAndPurge, vars, TasksKept
<1>5. QED
  BY <1>1, <1>2, <1>3, <1>4 DEF Next, Claim, TaskStarts

\* A row holds a token drawn before this step only as it held it before.
LEMMA LeaseKept ==
  ASSUME TypeOK, PayloadsMatchStatus, NEW j \in Jobs, JobMove(j),
         NEW n \in 1 .. issued[j], row'[j].lease = n
  PROVE  /\ row[j].lease = n /\ row'[j].status = row[j].status
         /\ row'[j].attempts = row[j].attempts
         /\ row'[j].mailAttempts = row[j].mailAttempts
<1>1. row[j] \in Row /\ issued[j] \in Nat /\ n # NoLease /\ n # issued[j] + 1
  BY DEF TypeOK, NoLease
<1>2. CASE RowKept(j)
  BY <1>1, <1>2 DEF RowKept, KeptRow, Row
<1>3. CASE RowCreated(j) \/ RowPurged(j)
  <2>1. row'[j] = NoRow \/ row'[j] = NewRow
    BY <1>3 DEF RowCreated, RowPurged
  <2>2. QED
    BY <1>1, <2>1, BlankFits DEF NoLease
<1>4. CASE RowClaimed(j)
  <2>1. row'[j].lease = issued[j] + 1
    BY <1>1, <1>4 DEF RowClaimed, ClaimedRow, Processing, Sending, Row
  <2>2. QED
    BY <1>1, <2>1
<1>5. CASE RowRequeued(j) \/ RowReported(j)
  <2>1. CASE row[j].status = "awaiting_email" /\ row'[j] = Addressed(row[j])
    <3>1. row[j].lease = NoLease
      BY <2>1 DEF PayloadsMatchStatus, PayloadsFit
    <3>2. row'[j].lease = row[j].lease
      BY <1>1, <2>1 DEF Addressed, Row
    <3>3. QED
      BY <1>1, <3>1, <3>2
  <2>2. CASE row'[j].lease = NoLease
    BY <1>1, <2>2
  <2>3. \/ row[j].status = "awaiting_email" /\ row'[j] = Addressed(row[j])
        \/ \E status \in Statuses, due \in BOOLEAN : row'[j] = Requeued(row[j], status, due)
        \/ row'[j] = Reported(row[j])
    BY <1>5 DEF RowRequeued, RequeuedRow, RowReported, Statuses
  <2>4. QED
    BY <1>1, <2>1, <2>2, <2>3 DEF Requeued, Reported, Row
<1>6. QED
  BY <1>2, <1>3, <1>4, <1>5 DEF JobMove

\* A task of before this step still fits, whatever stage it is in.
LEMMA OldTaskFits ==
  ASSUME TypeOK, PayloadsMatchStatus, NEW t \in tasks, TaskFits(t), JobMove(t.job),
         NEW u \in Task, u.job = t.job, u.kind = t.kind, u.lease = t.lease,
         u.attempt = t.attempt, u.stage = "working" => ~u.retry,
         u.stage = "sent" => u.kind = "email" /\ ~u.retry
  PROVE  TaskFits(u)'
<1>1. t \in Task /\ t.job \in Jobs
  BY DEF TypeOK, Task
<1>2. t.lease \in 1 .. issued[t.job]
  BY DEF TaskFits
<1>3. issued[t.job] \in Nat
  BY <1>1 DEF TypeOK
<1>4. issued'[t.job] = issued[t.job] \/ issued'[t.job] = issued[t.job] + 1
  BY DEF JobMove, RowKept, RowCreated, RowPurged, RowClaimed, RowRequeued, RowReported
<1>5. u.lease \in 1 .. issued'[u.job]
  BY <1>2, <1>3, <1>4
<1>6. row'[u.job].lease = u.lease =>
        /\ row[t.job].lease = t.lease /\ row'[u.job].status = row[t.job].status
        /\ row'[u.job].attempts = row[t.job].attempts
        /\ row'[u.job].mailAttempts = row[t.job].mailAttempts
  BY <1>1, <1>2, LeaseKept
<1>7. QED
  BY <1>5, <1>6 DEF TaskFits

\* The task a claim starts fits the row as the claim leaves it.
LEMMA NewTaskFits ==
  ASSUME TypeOK, NEW j \in Jobs, TaskStarts(j)
  PROVE  \E t \in Task :
           /\ tasks' = tasks \cup {t} /\ t.job = j /\ t.lease = issued[j] + 1
           /\ t.stage = "working" /\ ~t.retry /\ TaskFits(t)'
           /\ t.kind = "email" => ClaimEmailPending(j)
<1>1. row[j] \in Row /\ issued[j] \in Nat
  BY DEF TypeOK
<1>2. CASE ClaimQueued(j)
  <2>0. NewTask(j, "pdf", row[j].attempts + 1) \in Task
    BY <1>1 DEF NewTask, Task, Row
  <2>1. PICK t \in Task : t = NewTask(j, "pdf", row[j].attempts + 1)
    BY <2>0
  <2>2. /\ t.job = j /\ t.lease = issued[j] + 1 /\ t.kind = "pdf"
        /\ t.attempt = row[j].attempts + 1 /\ t.stage = "working" /\ t.retry = FALSE
    BY <2>1 DEF NewTask
  <2>3. /\ tasks' = tasks \cup {t} /\ issued'[j] = issued[j] + 1
        /\ row'[j] = Processing(row[j], issued[j] + 1)
    BY <1>2, <2>1 DEF ClaimQueued, TypeOK
  <2>4. row'[j].status = "processing" /\ row'[j].attempts = row[j].attempts + 1
    BY <1>1, <2>3 DEF Processing, Row
  <2>5. TaskFits(t)'
    BY <1>1, <2>2, <2>3, <2>4 DEF TaskFits
  <2>6. QED
    BY <2>1, <2>2, <2>3, <2>5
<1>3. CASE ClaimEmailPending(j)
  <2>0. NewTask(j, "email", row[j].mailAttempts + 1) \in Task
    BY <1>1 DEF NewTask, Task, Row
  <2>1. PICK t \in Task : t = NewTask(j, "email", row[j].mailAttempts + 1)
    BY <2>0
  <2>2. /\ t.job = j /\ t.lease = issued[j] + 1 /\ t.kind = "email"
        /\ t.attempt = row[j].mailAttempts + 1 /\ t.stage = "working" /\ t.retry = FALSE
    BY <2>1 DEF NewTask
  <2>3. /\ tasks' = tasks \cup {t} /\ issued'[j] = issued[j] + 1
        /\ row'[j] = Sending(row[j], issued[j] + 1)
    BY <1>3, <2>1 DEF ClaimEmailPending, TypeOK
  <2>4. row'[j].status = "email_sending" /\ row'[j].mailAttempts = row[j].mailAttempts + 1
    BY <1>1, <2>3 DEF Sending, Row
  <2>5. TaskFits(t)'
    BY <1>1, <2>2, <2>3, <2>4 DEF TaskFits
  <2>6. QED
    BY <1>3, <2>1, <2>2, <2>3, <2>5
<1>4. QED
  BY <1>2, <1>3 DEF TaskStarts

\* TasksMatchLeases is preserved.
LEMMA TasksStep ==
  ASSUME TypeOK, PayloadsMatchStatus, TasksMatchLeases, [Next]_vars,
         \A j \in Jobs : JobMove(j)
  PROVE  TasksMatchLeases'
<1>1. \A t \in tasks : t \in Task /\ t.job \in Jobs /\ TaskFits(t) /\ JobMove(t.job)
  BY DEF TypeOK, Task, TasksMatchLeases
<1>2. \A t \in tasks : TaskFits(t)'
  BY <1>1, OldTaskFits DEF TaskFits
<1>3. CASE TasksKept
  BY <1>2, <1>3 DEF TasksKept, TasksMatchLeases
<1>4. ASSUME NEW t \in tasks, TaskTurns(t)
      PROVE  TasksMatchLeases'
  <2>1. PICK stage \in {"sent", "caught"}, retry \in BOOLEAN :
          Enters(t, stage, retry) /\ (stage = "sent" => t.kind = "email" /\ ~retry)
    BY <1>4 DEF TaskTurns
  <2> DEFINE u == [t EXCEPT !.stage = stage, !.retry = retry]
  <2>2. /\ u \in Task /\ u.job = t.job /\ u.kind = t.kind /\ u.lease = t.lease
        /\ u.attempt = t.attempt /\ u.stage = stage /\ u.retry = retry
    BY <1>1 DEF Task
  <2>3. tasks' = (tasks \ {t}) \cup {u}
    BY <2>1 DEF Enters
  <2> HIDE DEF u
  <2>4. TaskFits(u)'
    BY <1>1, <2>1, <2>2, OldTaskFits
  <2>5. \A a, b \in tasks' : a.job = b.job /\ a.lease = b.lease => a = b
    BY <2>2, <2>3 DEF TasksMatchLeases
  <2>6. QED
    BY <1>2, <2>3, <2>4, <2>5 DEF TasksMatchLeases
<1>5. ASSUME NEW j \in Jobs, TaskStarts(j)
      PROVE  TasksMatchLeases'
  <2>1. PICK t \in Task : /\ tasks' = tasks \cup {t} /\ t.job = j
                          /\ t.lease = issued[j] + 1 /\ TaskFits(t)'
    BY <1>5, NewTaskFits
  <2>2. \A a \in tasks : ~(a.job = j /\ a.lease = issued[j] + 1)
    BY <1>1 DEF TaskFits, TypeOK
  <2>3. \A a, b \in tasks' : a.job = b.job /\ a.lease = b.lease => a = b
    BY <2>1, <2>2 DEF TasksMatchLeases
  <2>4. QED
    BY <1>2, <2>1, <2>3 DEF TasksMatchLeases
<1>6. QED
  BY <1>3, <1>4, <1>5, TasksMove

---------------------------------------------------------------------------
(* The message of a job.                                                   *)

\* A move of a job, as a move of its stage.
StageTurn(j) ==
  \/ /\ StageOf(j)' = StageOf(j) /\ log'[j] = log[j]
     /\ Present(j)' <=> Present(j)
  \/ StageOf(j) = "none" /\ StageOf(j)' = "pending" /\ log[j] = <<>> /\ ~Present(j) /\ Present(j)'
  \/ /\ StageOf(j) = "pending" /\ StageOf(j)' = "reported" /\ log'[j] # <<>>
     /\ Present(j) /\ Present(j)'
  \/ /\ Present(j) /\ ~Present(j)' /\ log'[j] # <<>>
     /\ \/ StageOf(j) = "pending" /\ StageOf(j)' \in Life!EndsPending
        \/ StageOf(j) = "reported" /\ StageOf(j)' \in Life!EndsReported
     /\ StageOf(j)' \in Life!Unmailed => row[j].status # "email_sending"
     /\ StageOf(j)' \in Life!Unreported
          => row[j].status \notin {"email_pending", "email_sending"}
     /\ StageOf(j)' = "email_sent" => \E t \in tasks \ tasks' :
          t.job = j /\ t.stage = "sent" /\ Owns(t, "email_sending")

\* Every move of a job is a turn of its stage.
LEMMA StageTurns ==
  ASSUME LogShape, NEW j \in Jobs, StageMove(j)
  PROVE  StageTurn(j)
<1>1. EventsFit(log[j], Present(j), row[j].report)
  BY DEF LogShape
<1>2. CASE /\ log'[j] = log[j] /\ (Present(j)' <=> Present(j))
           /\ row'[j].report = row[j].report
  BY <1>2 DEF StageTurn, StageOf
<1>3. CASE /\ log[j] = <<>> /\ log'[j] = <<"analysis_started">>
           /\ ~Present(j) /\ Present(j)' /\ ~row'[j].report
  BY <1>3 DEF StageTurn, StageOf
<1>4. CASE /\ log[j] = <<"analysis_started">>
           /\ log'[j] = <<"analysis_started", "analysis_completed">>
           /\ Present(j) /\ ~row[j].report /\ Present(j)' /\ row'[j].report
  BY <1>4 DEF StageTurn, StageOf
<1>5. ASSUME Present(j), ~Present(j)',
             NEW e \in (IF row[j].report THEN Life!EndsReported ELSE Life!EndsPending),
             log'[j] = IF row[j].report
                         THEN <<"analysis_started", "analysis_completed", e>>
                         ELSE <<"analysis_started", e>>,
             e \in Life!Unmailed => row[j].status # "email_sending",
             e \in Life!Unreported
               => row[j].status \notin {"email_pending", "email_sending"},
             e = "email_sent" => \E t \in tasks \ tasks' :
               t.job = j /\ t.stage = "sent" /\ Owns(t, "email_sending")
      PROVE  StageTurn(j)
  <2>1. log'[j] # <<>> /\ log'[j][Len(log'[j])] = e
    BY <1>5
  <2>2. StageOf(j)' = e
    BY <1>5, <2>1 DEF StageOf
  <2>3. \/ StageOf(j) = "pending" /\ e \in Life!EndsPending
        \/ StageOf(j) = "reported" /\ e \in Life!EndsReported
    BY <1>5 DEF StageOf
  <2>4. QED
    BY <1>5, <2>1, <2>2, <2>3 DEF StageTurn
<1>6. QED
  BY <1>2, <1>3, <1>4, <1>5 DEF StageMove

\* Stages of jobs that are gone.
LEMMA EndedStage ==
  ASSUME NEW j \in Jobs, LogShape
  PROVE  /\ Present(j) => log[j] # <<>> /\ StageOf(j) \in {"pending", "reported"}
         /\ StageOf(j) \in {"email_sent", "email_failed", "analysis_expired"}
              => ~Present(j) /\ log[j] # <<>> /\ StageOf(j) \notin {"none", "pending", "reported"}
         /\ log[j] = <<>> => StageOf(j) = "none" /\ ~Present(j)
<1>1. EventsFit(log[j], Present(j), row[j].report)
  BY DEF LogShape
<1>2. Present(j) => log[j] # <<>>
  BY <1>1 DEF EventsFit
<1>3. QED
  BY <1>2 DEF StageOf

\* A row becomes email_sending, or leaves that status, in one way each.
LEMMA SendingMoves ==
  ASSUME TypeOK, PayloadsMatchStatus, AttemptsLeft, UsedIds, LogShape,
         NEW j \in Jobs, JobMove(j), Present(j)', row'[j].status # "email_sending"
  PROVE  \/ log[j] = <<>>
         \/ Present(j) /\ row[j].status # "email_sending"
         \/ \E t \in tasks \ tasks' : t.job = j /\ t.retry /\ Owns(t, "email_sending")
<1>1. row[j] \in Row
  BY DEF TypeOK
<1>2. CASE RowKept(j)
  BY <1>1, <1>2 DEF RowKept, KeptRow, Present, Row
<1>3. CASE RowCreated(j)
  BY <1>3 DEF RowCreated, UsedIds
<1>4. CASE RowPurged(j)
  BY <1>4 DEF RowPurged, Present, NoRow
<1>5. CASE RowClaimed(j)
  BY <1>5 DEF RowClaimed, ClaimedRow, Present
<1>6. CASE RowRequeued(j)
  BY <1>6 DEF RowRequeued, RequeuedRow, Present
<1>7. CASE RowReported(j)
  BY <1>7 DEF RowReported, Present
<1>8. QED
  BY <1>2, <1>3, <1>4, <1>5, <1>6, <1>7 DEF JobMove

\* A step that sends nothing keeps a job and its message in agreement.
LEMMA JobMailKept ==
  ASSUME IInv, NEW j \in Jobs, JobMove(j), StageMove(j), mails'[j] = mails[j]
  PROVE  JobMailFits(j)'
<1>1. StageTurn(j)
  BY StageTurns DEF IInv
<1>2. JobMailFits(j) /\ \A t \in tasks : TaskMailFits(t) /\ TaskFits(t)
  BY DEF IInv, MailsMatchTasks, TasksMatchLeases
<1>3. Present(j)' /\ row'[j].status # "email_sending" => mails'[j] = 0
  <2> SUFFICES ASSUME Present(j)', row'[j].status # "email_sending"
               PROVE  mails[j] = 0
    OBVIOUS
  <2>1. CASE log[j] = <<>> \/ (Present(j) /\ row[j].status # "email_sending")
    BY <1>2, <2>1 DEF JobMailFits
  <2>2. ASSUME NEW t \in tasks, t.job = j, t.retry, Owns(t, "email_sending")
        PROVE  mails[j] = 0
    <3>1. t.kind = "email"
      BY <2>2, OwnerKnows DEF IInv
    <3>2. QED
      BY <1>2, <2>2, <3>1 DEF TaskMailFits
  <2>3. QED
    BY <2>1, <2>2, SendingMoves DEF IInv
<1>4. log'[j] = <<>> \/ StageOf(j)' \in Life!Unmailed => mails'[j] = 0
  BY <1>1, <1>2 DEF StageTurn, JobMailFits, Life!Unmailed
<1>5. StageOf(j)' = "email_sent" => mails'[j] = 1
  <2> SUFFICES ASSUME StageOf(j)' = "email_sent"
               PROVE  mails[j] = 1
    OBVIOUS
  <2>1. CASE StageOf(j) = "email_sent"
    BY <1>2, <2>1 DEF JobMailFits
  <2>2. CASE StageOf(j) # "email_sent"
    <3>1. PICK t \in tasks : t.job = j /\ t.stage = "sent"
      BY <1>1, <2>2 DEF StageTurn
    <3>2. QED
      BY <1>2, <3>1 DEF TaskFits, TaskMailFits
  <2>3. QED
    BY <2>1, <2>2
<1>6. QED
  BY <1>2, <1>3, <1>4, <1>5 DEF JobMailFits

\* A task that sends keeps its lease until its job is gone, or until it gives
\* the row back itself.
LEMMA SenderKeepsLease ==
  ASSUME IInv, NEW t \in tasks, t.kind = "email", t \in tasks' \/ ~t.retry,
         JobMove(t.job), StageMove(t.job)
  PROVE  \/ row'[t.job].lease = t.lease
         \/ StageOf(t.job)' \in {"email_sent", "email_failed", "analysis_expired"}
<1>1. /\ t.job \in Jobs /\ row[t.job] \in Row /\ TaskFits(t) /\ TaskMailFits(t)
      /\ PayloadsFit(row[t.job]) /\ LogShape
  BY DEF IInv, TypeOK, Task, TasksMatchLeases, MailsMatchTasks, PayloadsMatchStatus
<1>2. StageTurn(t.job)
  BY <1>1, StageTurns
<1>3. CASE StageOf(t.job) \in {"email_sent", "email_failed", "analysis_expired"}
  <2>1. StageOf(t.job)' = StageOf(t.job)
    BY <1>1, <1>2, <1>3, EndedStage DEF StageTurn
  <2>2. QED
    BY <1>3, <2>1
<1>4. CASE row[t.job].lease = t.lease
  <2>1. row[t.job].status = "email_sending" /\ Present(t.job) /\ row[t.job].report
    BY <1>1, <1>4 DEF TaskFits, Present, PayloadsFit
  <2>2. CASE RowKept(t.job)
    <3>1. row'[t.job].lease = row[t.job].lease
      BY <1>1, <2>2, KeptFits DEF RowKept
    <3>2. QED
      BY <1>4, <3>1
  <2>3. CASE RowPurged(t.job)
    <3>1. StageOf(t.job) = "reported" /\ ~Present(t.job)'
      BY <2>1, <2>3 DEF StageOf, RowPurged, Present, NoRow
    <3>2. StageOf(t.job)' \in Life!EndsReported \ Life!Unmailed
      BY <1>2, <2>1, <3>1 DEF StageTurn
    <3>3. QED
      BY <3>2 DEF Life!EndsReported, Life!Unmailed
  <2>4. ~RowCreated(t.job)
    BY <1>1, <2>1, EndedStage DEF RowCreated, IInv, UsedIds
  <2>5. ~RowClaimed(t.job) /\ ~RowReported(t.job)
    BY <2>1 DEF RowClaimed, ClaimedRow, RowReported
  <2>6. ~RowRequeued(t.job)
    <3> SUFFICES ASSUME RowRequeued(t.job)
                 PROVE  FALSE
      OBVIOUS
    <3>1. PICK u \in tasks \ tasks' : u.job = t.job /\ u.retry /\ Owns(u, "email_sending")
      BY <2>1 DEF RowRequeued
    <3>2. u.lease = t.lease
      BY <1>4, <3>1 DEF Owns
    <3>3. u = t
      BY <3>1, <3>2 DEF IInv, TasksMatchLeases
    <3>4. QED
      BY <3>1, <3>3
  <2>7. QED
    BY <2>2, <2>3, <2>4, <2>5, <2>6 DEF JobMove
<1>5. QED
  BY <1>1, <1>3, <1>4 DEF TaskMailFits

\* It keeps a surviving task and the message in agreement too.
LEMMA TaskMailKept ==
  ASSUME IInv, NEW t \in tasks, t \in tasks', JobMove(t.job), StageMove(t.job),
         mails'[t.job] = mails[t.job]
  PROVE  TaskMailFits(t)'
<1> SUFFICES ASSUME t.kind = "email"
             PROVE  TaskMailFits(t)'
  BY DEF TaskMailFits
<1>1. TaskMailFits(t) /\ t.job \in Jobs
  BY DEF IInv, TypeOK, Task, MailsMatchTasks
<1>2. StageTurn(t.job)
  BY <1>1, StageTurns DEF IInv
<1>3. \/ row'[t.job].lease = t.lease
      \/ StageOf(t.job)' \in {"email_sent", "email_failed", "analysis_expired"}
  BY SenderKeepsLease
<1>4. StageOf(t.job)' = "email_sent" => StageOf(t.job) = "email_sent"
  <2> SUFFICES ASSUME StageOf(t.job)' = "email_sent", StageOf(t.job) # "email_sent"
               PROVE  FALSE
    OBVIOUS
  <2>1. PICK u \in tasks \ tasks' : u.job = t.job /\ u.stage = "sent"
    BY <1>2 DEF StageTurn
  <2>2. u.kind = "email"
    BY <2>1 DEF IInv, TasksMatchLeases, TaskFits
  <2>3. u = t
    BY <2>1, <2>2 DEF IInv, MailsMatchTasks
  <2>4. QED
    BY <2>1, <2>3
<1>5. QED
  BY <1>1, <1>3, <1>4 DEF TaskMailFits

\* Two email tasks of one job never coexist: the set only shrinks, or one task
\* changes its stage.
LEMMA SendersUnique ==
  ASSUME IInv, TasksKept \/ (\E t \in tasks : TaskTurns(t))
  PROVE  \A t, u \in tasks' : t.kind = "email" /\ u.kind = "email" /\ t.job = u.job => t = u
<1>1. \A t, u \in tasks : t.kind = "email" /\ u.kind = "email" /\ t.job = u.job => t = u
  BY DEF IInv, MailsMatchTasks
<1>2. CASE TasksKept
  BY <1>1, <1>2 DEF TasksKept
<1>3. ASSUME NEW t \in tasks, TaskTurns(t)
      PROVE  \A a, b \in tasks' : a.kind = "email" /\ b.kind = "email" /\ a.job = b.job => a = b
  <2>1. PICK stage \in {"sent", "caught"}, retry \in BOOLEAN : Enters(t, stage, retry)
    BY <1>3 DEF TaskTurns
  <2> DEFINE u == [t EXCEPT !.stage = stage, !.retry = retry]
  <2>2. u.job = t.job /\ u.kind = t.kind
    BY DEF IInv, TypeOK, Task
  <2>3. tasks' = (tasks \ {t}) \cup {u}
    BY <2>1 DEF Enters
  <2> HIDE DEF u
  <2>4. QED
    BY <1>1, <2>2, <2>3
<1>4. QED
  BY <1>2, <1>3

\* What the task that turns knows about the message afterwards.
LEMMA TurnedMailFits ==
  ASSUME IInv, NEW t \in tasks, t.kind = "email", JobMove(t.job), StageMove(t.job),
         NEW stage \in {"sent", "caught"}, NEW retry \in BOOLEAN,
         Enters(t, stage, retry), ~t.retry,
         retry => mails'[t.job] = 0, stage = "sent" => mails'[t.job] = 1,
         StageOf(t.job)' = "email_sent" => stage = "caught" /\ ~retry
  PROVE  \A u \in tasks' \ tasks : TaskMailFits(u)'
<1> DEFINE u == [t EXCEPT !.stage = stage, !.retry = retry]
<1>1. /\ u.job = t.job /\ u.kind = t.kind /\ u.lease = t.lease
      /\ u.stage = stage /\ u.retry = retry
  BY DEF IInv, TypeOK, Task
<1>2. tasks' \ tasks \subseteq {u}
  BY DEF Enters
<1> HIDE DEF u
<1>3. \/ row'[t.job].lease = t.lease
      \/ StageOf(t.job)' \in {"email_sent", "email_failed", "analysis_expired"}
  BY SenderKeepsLease
<1>4. TaskMailFits(u)'
  BY <1>1, <1>3 DEF TaskMailFits
<1>5. QED
  BY <1>2, <1>4

\* Every change of the set of tasks brings in only tasks that fit.
LEMMA NewMailFits ==
  ASSUME IInv, [Next]_vars, \A j \in Jobs : JobMove(j) /\ StageMove(j)
  PROVE  \A u \in tasks' \ tasks : TaskMailFits(u)'
<1>1. ASSUME NEW t \in tasks
      PROVE  /\ t \in Task /\ t.job \in Jobs /\ TaskFits(t) /\ TaskMailFits(t)
             /\ JobMove(t.job) /\ StageMove(t.job) /\ mails[t.job] \in Nat
  BY DEF IInv, TypeOK, Task, TasksMatchLeases, MailsMatchTasks
<1>2. CASE TasksKept
  BY <1>2 DEF TasksKept
<1>3. ASSUME NEW j \in Jobs, TaskStarts(j)
      PROVE  \A u \in tasks' \ tasks : TaskMailFits(u)'
  <2>1. PICK t \in Task :
          /\ tasks' = tasks \cup {t} /\ t.job = j /\ t.lease = issued[j] + 1
          /\ t.stage = "working" /\ ~t.retry /\ TaskFits(t)'
          /\ t.kind = "email" => ClaimEmailPending(j)
    BY <1>3, NewTaskFits DEF IInv
  <2>2. CASE t.kind = "email"
    <3>1. /\ row[j].status = "email_pending" /\ mails' = mails /\ log' = log
          /\ row'[j] = Sending(row[j], issued[j] + 1) /\ row[j] \in Row
      BY <2>1, <2>2 DEF ClaimEmailPending, Oldest, Claimable, IInv, TypeOK
    <3>2. mails[j] = 0
      BY <3>1 DEF IInv, MailsMatchTasks, JobMailFits, Present
    <3>3. row'[j].lease = t.lease /\ row'[j].status = "email_sending"
      BY <2>1, <3>1 DEF Sending, Row
    <3>4. StageOf(j)' # "email_sent"
      BY <3>3 DEF StageOf, Present
    <3>5. TaskMailFits(t)'
      BY <2>1, <3>1, <3>2, <3>3, <3>4 DEF TaskMailFits
    <3>6. QED
      BY <2>1, <3>5
  <2>3. CASE t.kind # "email"
    BY <2>1, <2>3 DEF TaskMailFits
  <2>4. QED
    BY <2>2, <2>3
<1>4. ASSUME NEW t \in tasks, MailAccepted(t) \/ MailUncertain(t)
      PROVE  \A u \in tasks' \ tasks : TaskMailFits(u)'
  <2>1. /\ t.kind = "email" /\ t.stage = "working" /\ row' = row /\ log' = log
        /\ mails' = [mails EXCEPT ![t.job] = @ + 1] /\ ~t.retry
        /\ Enters(t, "sent", FALSE) \/ Enters(t, "caught", FALSE)
    BY <1>1, <1>4 DEF MailAccepted, MailUncertain, TaskFits
  <2>2. mails[t.job] = 0 /\ StageOf(t.job) # "email_sent"
    BY <1>1, <2>1 DEF TaskMailFits
  <2>3. mails'[t.job] = 1
    BY <1>1, <2>1, <2>2 DEF IInv, TypeOK
  <2>4. StageOf(t.job)' # "email_sent"
    BY <2>1, <2>2 DEF StageOf, Present
  <2>5. QED
    BY <1>1, <2>1, <2>3, <2>4, TurnedMailFits
<1>5. ASSUME NEW t \in tasks, NEW retry \in BOOLEAN, Throw(t, retry)
      PROVE  \A u \in tasks' \ tasks : TaskMailFits(u)'
  <2>1. /\ row' = row /\ log' = log /\ mails' = mails /\ Enters(t, "caught", retry)
        /\ t.stage = "working" \/ (t.stage = "sent" /\ ~retry)
        /\ ~t.retry
    BY <1>1, <1>5 DEF Throw, TaskFits
  <2>2. CASE t.kind = "email"
    <3>1. /\ retry => mails[t.job] = 0
          /\ StageOf(t.job) # "email_sent" /\ ~t.retry
      BY <1>1, <2>1, <2>2 DEF TaskMailFits, TaskFits
    <3>2. StageOf(t.job)' # "email_sent"
      BY <2>1, <3>1 DEF StageOf, Present
    <3>3. QED
      BY <1>1, <2>1, <2>2, <3>1, <3>2, TurnedMailFits
  <2>3. CASE t.kind # "email"
    BY <1>1, <2>1, <2>3 DEF Enters, TaskMailFits, Task
  <2>4. QED
    BY <2>2, <2>3
<1>10. ASSUME NEW t \in tasks, MailMislaid(t)
       PROVE  \A u \in tasks' \ tasks : TaskMailFits(u)'
  <2>1. /\ t.kind = "email" /\ t.stage = "working" /\ row' = row /\ log' = log
        /\ mails' = mails /\ ~t.retry /\ Enters(t, "caught", TRUE)
    BY <1>1, <1>10 DEF MailMislaid, TaskFits
  <2>2. mails[t.job] = 0 /\ StageOf(t.job) # "email_sent"
    BY <1>1, <2>1 DEF TaskMailFits
  <2>3. StageOf(t.job)' # "email_sent"
    BY <2>1, <2>2 DEF StageOf, Present
  <2>4. QED
    BY <1>1, <2>1, <2>2, <2>3, TurnedMailFits
<1>6. ASSUME NEW t \in tasks, FinishEmailUnacknowledged(t)
      PROVE  \A u \in tasks' \ tasks : TaskMailFits(u)'
  <2>1. /\ Enters(t, "caught", FALSE) /\ t.kind = "email" /\ ~t.retry
    BY <1>1, <1>6 DEF FinishEmailUnacknowledged, TaskFits
  <2>2. QED
    BY <1>1, <2>1, TurnedMailFits
<1>7. ASSUME NEW t \in tasks, FinishProcessingUnacknowledged(t)
      PROVE  \A u \in tasks' \ tasks : TaskMailFits(u)'
  BY <1>1, <1>7 DEF FinishProcessingUnacknowledged, Enters, TaskMailFits, Task
<1>8. ASSUME NEW t \in tasks, TaskTurns(t), ~TasksKept
      PROVE  \/ \E u \in tasks : \/ MailAccepted(u) \/ MailUncertain(u) \/ MailMislaid(u)
                                 \/ FinishEmailUnacknowledged(u)
                                 \/ FinishProcessingUnacknowledged(u)
                                 \/ \E retry \in BOOLEAN : Throw(u, retry)
             \/ \E j \in Jobs : TaskStarts(j)
  BY <1>8 DEF Next, vars, TasksKept, TaskStarts, Create, Request, Claim, Clock, TaskStep,
       CountActive, InsertJob, CreateRollsBack, StatusForHandle, TakeFastResult,
       AttachEmail, CancelJob, FinishProcessing, FailProcessing, FinishEmail, FailEmail,
       Heartbeat, TaskDies, RecoverAndPurge, JobExpires, LeaseLapses, BackoffEnds
<1>9. QED
  BY <1>2, <1>3, <1>4, <1>10, <1>5, <1>6, <1>7, <1>8, TasksMove

\* A claim finds no other task that could still send for its job.
LEMMA StartedUnique ==
  ASSUME IInv, NEW j \in Jobs, TaskStarts(j)
  PROVE  \A t, u \in tasks' : t.kind = "email" /\ u.kind = "email" /\ t.job = u.job => t = u
<1>1. \A t, u \in tasks : t.kind = "email" /\ u.kind = "email" /\ t.job = u.job => t = u
  BY DEF IInv, MailsMatchTasks
<1>2. PICK n \in Task : /\ tasks' = tasks \cup {n} /\ n.job = j
                        /\ n.kind = "email" => ClaimEmailPending(j)
  BY NewTaskFits DEF IInv
<1>3. ASSUME n.kind = "email", NEW u \in tasks, u.kind = "email", u.job = j
      PROVE  FALSE
  <2>1. row[j].status = "email_pending"
    BY <1>2, <1>3 DEF ClaimEmailPending, Oldest, Claimable
  <2>2. row[j].lease = NoLease /\ Present(j)
    BY <2>1 DEF IInv, PayloadsMatchStatus, PayloadsFit, Present
  <2>3. u.lease # NoLease
    BY <1>3, OwnerKnows DEF IInv
  <2>4. StageOf(j) \in {"email_sent", "email_failed", "analysis_expired"}
    BY <1>3, <2>2, <2>3 DEF IInv, MailsMatchTasks, TaskMailFits
  <2>5. QED
    BY <2>2, <2>4, EndedStage DEF IInv
<1>4. QED
  BY <1>1, <1>2, <1>3

\* The step in which the message counts as sent.
LEMMA SendStep ==
  ASSUME IInv, NEW t \in tasks, MailAccepted(t) \/ MailUncertain(t)
  PROVE  /\ \A j \in Jobs : JobMailFits(j)'
         /\ \A u \in tasks \cap tasks' : TaskMailFits(u)'
         /\ mails[t.job] = 0 /\ StageOf(t.job) \in {"reported", "email_failed", "analysis_expired"}
<1>1. /\ t.job \in Jobs /\ t \in Task /\ TaskFits(t) /\ TaskMailFits(t) /\ JobMailFits(t.job)
      /\ PayloadsFit(row[t.job]) /\ mails \in [Jobs -> Nat]
  BY DEF IInv, TypeOK, Task, TasksMatchLeases, MailsMatchTasks, PayloadsMatchStatus
<1>2. /\ t.kind = "email" /\ t.stage = "working" /\ row' = row /\ log' = log
      /\ mails' = [mails EXCEPT ![t.job] = @ + 1] /\ t \notin tasks'
  BY <1>1 DEF MailAccepted, MailUncertain, Enters, Task
<1>3. mails[t.job] = 0 /\ StageOf(t.job) # "email_sent"
  BY <1>1, <1>2 DEF TaskMailFits
<1>4. StageOf(t.job) \in {"reported", "email_failed", "analysis_expired"}
      /\ (Present(t.job) => row[t.job].status = "email_sending")
  <2>1. CASE row[t.job].lease = t.lease
    <3>1. row[t.job].status = "email_sending"
      BY <1>1, <1>2, <2>1 DEF TaskFits
    <3>2. QED
      BY <1>1, <3>1 DEF PayloadsFit, StageOf, Present
  <2>2. CASE StageOf(t.job) \in {"email_sent", "email_failed", "analysis_expired"}
    BY <1>1, <1>3, <2>2, EndedStage DEF IInv
  <2>3. QED
    BY <1>1, <1>2, <2>1, <2>2 DEF TaskMailFits
<1>5. \A j \in Jobs : StageOf(j)' = StageOf(j) /\ (Present(j)' <=> Present(j))
  BY <1>2 DEF StageOf, Present
<1>6. mails'[t.job] = 1 /\ \A j \in Jobs \ {t.job} : mails'[j] = mails[j]
  BY <1>1, <1>2, <1>3
<1>7. ASSUME NEW j \in Jobs
      PROVE  JobMailFits(j)'
  <2>1. CASE j = t.job
    <3>1. log[j] # <<>>
      BY <1>1, <1>4, <2>1, EndedStage DEF IInv
    <3>2. StageOf(j)' \notin Life!Unmailed
      BY <1>4, <1>5, <2>1 DEF Life!Unmailed
    <3>3. QED
      BY <1>2, <1>4, <1>5, <1>6, <2>1, <3>1, <3>2 DEF JobMailFits
  <2>2. CASE j # t.job
    <3>1. JobMailFits(j)
      BY DEF IInv, MailsMatchTasks
    <3>2. mails'[j] = mails[j]
      BY <1>6, <2>2
    <3>3. QED
      BY <1>2, <1>5, <3>1, <3>2 DEF JobMailFits
  <2>3. QED
    BY <2>1, <2>2
<1>8. ASSUME NEW u \in tasks \cap tasks'
      PROVE  TaskMailFits(u)'
  <2>1. TaskMailFits(u) /\ u.job \in Jobs
    BY <1>8 DEF IInv, TypeOK, Task, MailsMatchTasks
  <2>2. u.kind = "email" => u.job # t.job
    BY <1>2, <1>8 DEF IInv, MailsMatchTasks
  <2>3. QED
    BY <1>2, <1>5, <1>6, <2>1, <2>2 DEF TaskMailFits
<1>9. QED
  BY <1>3, <1>4, <1>7, <1>8

\* Only the SMTP dialogue changes what counts as sent.
LEMMA MailsUnchanged ==
  ASSUME [Next]_vars
  PROVE  mails' = mails \/ \E t \in tasks : MailAccepted(t) \/ MailUncertain(t)
  BY DEF Next, vars, Create, Request, Claim, Clock, TaskStep,
       CountActive, InsertJob, CreateRollsBack, StatusForHandle, TakeFastResult,
       AttachEmail, CancelJob, ClaimQueued, ClaimEmailPending, FinishProcessing,
       FinishProcessingUnacknowledged, MailMislaid, Throw, FailProcessing, FinishEmail,
       FinishEmailUnacknowledged, FailEmail, Heartbeat, TaskDies, RecoverAndPurge,
       JobExpires, LeaseLapses, BackoffEnds

\* Nor does anything else mislay a message.
LEMMA MislaidUnchanged ==
  ASSUME [Next]_vars
  PROVE  mislaid' = mislaid \/ \E t \in tasks : MailMislaid(t)
  BY DEF Next, vars, Create, Request, Claim, Clock, TaskStep,
       CountActive, InsertJob, CreateRollsBack, StatusForHandle, TakeFastResult,
       AttachEmail, CancelJob, ClaimQueued, ClaimEmailPending, FinishProcessing,
       FinishProcessingUnacknowledged, MailAccepted, MailUncertain, Throw,
       FailProcessing, FinishEmail, FinishEmailUnacknowledged, FailEmail, Heartbeat,
       TaskDies, RecoverAndPurge, JobExpires, LeaseLapses, BackoffEnds

\* MailsMatchTasks is preserved.
LEMMA MailsStep ==
  ASSUME IInv, [Next]_vars, \A j \in Jobs : JobMove(j) /\ StageMove(j)
  PROVE  MailsMatchTasks'
<1>1. \A t \in tasks : t.job \in Jobs
  BY DEF IInv, TypeOK, Task
<1>2. /\ \A j \in Jobs : JobMailFits(j)'
      /\ \A t \in tasks \cap tasks' : TaskMailFits(t)'
  <2>1. CASE mails' = mails
    BY <1>1, <2>1, JobMailKept, TaskMailKept
  <2>2. QED
    BY <2>1, MailsUnchanged, SendStep
<1>3. \A t \in tasks' : TaskMailFits(t)'
  BY <1>2, NewMailFits
<1>4. \A t, u \in tasks' : t.kind = "email" /\ u.kind = "email" /\ t.job = u.job => t = u
  BY TasksMove, SendersUnique, StartedUnique
<1>5. QED
  BY <1>2, <1>3, <1>4 DEF MailsMatchTasks

\* No update of a row takes an attempt to deliver back.
LEMMA MailAttemptsGrow ==
  ASSUME NEW r \in Row, NEW q,
         \/ KeptRow(r, q) \/ RequeuedRow(r, q) \/ q = Reported(r)
         \/ \E n \in Nat : ClaimedRow(r, q, n)
  PROVE  q.mailAttempts \in Nat /\ q.mailAttempts >= r.mailAttempts
<1> USE DEF Row
<1>1. CASE KeptRow(r, q)
  BY <1>1 DEF KeptRow
<1>2. CASE RequeuedRow(r, q)
  <2>1. \/ q = Addressed(r)
        \/ \E status \in Statuses, due \in BOOLEAN : q = Requeued(r, status, due)
    BY <1>2 DEF RequeuedRow, Statuses
  <2>2. q.mailAttempts = r.mailAttempts
    BY <2>1 DEF Addressed, Requeued
  <2>3. QED
    BY <2>2
<1>3. CASE q = Reported(r)
  BY <1>3 DEF Reported
<1>4. ASSUME NEW n \in Nat, ClaimedRow(r, q, n)
      PROVE  q.mailAttempts \in Nat /\ q.mailAttempts >= r.mailAttempts
  <2>1. q = Processing(r, n) \/ q = Sending(r, n)
    BY <1>4 DEF ClaimedRow
  <2>2. q.mailAttempts \in {r.mailAttempts, r.mailAttempts + 1}
    BY <2>1 DEF Processing, Sending
  <2>3. QED
    BY <2>2
<1>5. QED
  BY <1>1, <1>2, <1>3, <1>4

\* Nor does a move of a job, except with its row.
LEMMA MailAttemptsKept ==
  ASSUME TypeOK, NEW j \in Jobs, JobMove(j), Present(j)'
  PROVE  \/ /\ Present(j) /\ row'[j].mailAttempts \in Nat
            /\ row'[j].mailAttempts >= row[j].mailAttempts
         \/ j \in creating /\ row'[j].mailAttempts = 0
<1>1. row[j] \in Row /\ issued[j] + 1 \in Nat
  BY DEF TypeOK
<1>2. CASE RowCreated(j)
  BY <1>2 DEF RowCreated, NewRow, NoRow
<1>3. CASE RowPurged(j)
  BY <1>3 DEF RowPurged, NoRow, Present
<1>4. CASE RowReported(j)
  BY <1>1, <1>4, MailAttemptsGrow DEF RowReported, Present
<1>5. CASE KeptRow(row[j], row'[j]) \/ RequeuedRow(row[j], row'[j])
             \/ ClaimedRow(row[j], row'[j], issued[j] + 1)
  <2>1. Present(j)
    BY <1>1, <1>5, KeptStatus DEF Present
  <2>2. QED
    BY <1>1, <1>5, <2>1, MailAttemptsGrow
<1>6. QED
  BY <1>2, <1>3, <1>4, <1>5 DEF JobMove, RowKept, RowClaimed, RowRequeued

\* A step that sends no message for a job keeps its messages within its attempts.
LEMMA CoverKept ==
  ASSUME IInv, NEW j \in Jobs, JobMove(j), StageMove(j),
         mails'[j] = mails[j], mislaid'[j] = mislaid[j]
  PROVE  JobAttemptsCover(j)'
<1>1. /\ row[j] \in Row /\ mails[j] \in Nat /\ mislaid[j] \in Nat
      /\ JobAttemptsCover(j) /\ JobMailFits(j) /\ AttemptsFit(row[j])
  BY DEF IInv, TypeOK, AttemptsCoverMails, MailsMatchTasks, AttemptsLeft
<1>2. StageTurn(j)
  BY StageTurns DEF IInv
<1>3. Present(j)' => mails[j] + mislaid[j] <= row'[j].mailAttempts
  <2> SUFFICES ASSUME Present(j)'
               PROVE  mails[j] + mislaid[j] <= row'[j].mailAttempts
    OBVIOUS
  <2>1. CASE Present(j) /\ row'[j].mailAttempts \in Nat
             /\ row'[j].mailAttempts >= row[j].mailAttempts
    <3>1. mails[j] + mislaid[j] <= row[j].mailAttempts
      BY <1>1, <2>1 DEF JobAttemptsCover
    <3>2. row[j].mailAttempts \in Nat
      BY <1>1 DEF Row
    <3>3. QED
      BY <1>1, <2>1, <3>1, <3>2
  <2>2. CASE j \in creating /\ row'[j].mailAttempts = 0
    <3>1. log[j] = <<>>
      BY <2>2 DEF IInv, UsedIds
    <3>2. mails[j] = 0 /\ mislaid[j] = 0
      BY <1>1, <3>1 DEF JobMailFits, JobAttemptsCover
    <3>3. QED
      BY <2>2, <3>2
  <2>3. QED
    BY <2>1, <2>2, MailAttemptsKept DEF IInv
<1>4. log'[j] = <<>> \/ StageOf(j)' \in Life!Unreported => mislaid[j] = 0
  <2> SUFFICES ASSUME log'[j] = <<>> \/ StageOf(j)' \in Life!Unreported
               PROVE  mislaid[j] = 0
    OBVIOUS
  <2>1. CASE StageOf(j)' = StageOf(j) /\ log'[j] = log[j]
    BY <1>1, <2>1 DEF JobAttemptsCover
  <2>0. CASE log[j] = <<>>
    BY <1>1, <2>0 DEF JobAttemptsCover
  <2>2. CASE Present(j) /\ row[j].status \notin {"email_pending", "email_sending"}
    <3>1. row[j].status \in {"queued", "processing", "awaiting_email"}
      BY <1>1, <2>2 DEF Row, Statuses, Present
    <3>2. row[j].mailAttempts = 0
      BY <1>1, <3>1 DEF AttemptsFit
    <3>3. QED
      BY <1>1, <2>2, <3>2 DEF JobAttemptsCover
  <2>3. QED
    BY <1>2, <2>0, <2>1, <2>2 DEF StageTurn, Life!Unreported
<1>5. QED
  BY <1>1, <1>3, <1>4 DEF JobAttemptsCover

\* The attempt that sends a message has one to spare.
LEMMA OneMore ==
  ASSUME IInv, NEW t \in tasks,
         MailAccepted(t) \/ MailUncertain(t) \/ MailMislaid(t)
  PROVE  /\ t.job \in Jobs /\ t.kind = "email"
         /\ mails[t.job] = 0
         /\ mails'[t.job] + mislaid'[t.job] <= t.attempt
         /\ \A j \in Jobs \ {t.job} : mails'[j] = mails[j] /\ mislaid'[j] = mislaid[j]
         /\ StageOf(t.job) \in {"reported", "email_failed", "analysis_expired"}
         /\ JobAttemptsCover(t.job)'
<1>1. /\ t.job \in Jobs /\ t \in Task /\ TaskFits(t) /\ TaskMailFits(t)
      /\ TaskAttemptsCover(t) /\ JobAttemptsCover(t.job) /\ PayloadsFit(row[t.job])
      /\ mails \in [Jobs -> Nat] /\ mislaid \in [Jobs -> Nat]
      /\ t.attempt \in Nat
  BY DEF IInv, TypeOK, Task, TasksMatchLeases, MailsMatchTasks, AttemptsCoverMails,
         PayloadsMatchStatus
<1>2. /\ t.kind = "email" /\ t.stage = "working" /\ row' = row /\ log' = log
      /\ \/ mails' = [mails EXCEPT ![t.job] = @ + 1] /\ mislaid' = mislaid
         \/ mislaid' = [mislaid EXCEPT ![t.job] = @ + 1] /\ mails' = mails
  BY DEF MailAccepted, MailUncertain, MailMislaid
<1>3. mails[t.job] = 0 /\ StageOf(t.job) # "email_sent"
  BY <1>1, <1>2 DEF TaskMailFits
<1>4. mislaid[t.job] < t.attempt /\ t.attempt <= MaxMailAttempts
  BY <1>1, <1>2 DEF TaskAttemptsCover
<1>5. mails'[t.job] + mislaid'[t.job] = mislaid[t.job] + 1
  BY <1>1, <1>2, <1>3
<1>6. mails'[t.job] + mislaid'[t.job] <= t.attempt
  BY <1>1, <1>4, <1>5
<1>7. \A j \in Jobs \ {t.job} : mails'[j] = mails[j] /\ mislaid'[j] = mislaid[j]
  BY <1>1, <1>2
<1>8. /\ StageOf(t.job) \in {"reported", "email_failed", "analysis_expired"}
      /\ Present(t.job) => row[t.job].mailAttempts = t.attempt
  <2>1. CASE row[t.job].lease = t.lease
    <3>1. row[t.job].status = "email_sending" /\ row[t.job].mailAttempts = t.attempt
      BY <1>1, <1>2, <2>1 DEF TaskFits
    <3>2. QED
      BY <1>1, <3>1 DEF PayloadsFit, StageOf, Present
  <2>2. CASE StageOf(t.job) \in {"email_sent", "email_failed", "analysis_expired"}
    BY <1>1, <1>3, <2>2, EndedStage DEF IInv
  <2>3. QED
    BY <1>1, <1>2, <2>1, <2>2 DEF TaskMailFits
<1>9. StageOf(t.job)' = StageOf(t.job) /\ (Present(t.job)' <=> Present(t.job))
  BY <1>2 DEF StageOf, Present
<1>10. log'[t.job] # <<>>
  BY <1>1, <1>2, <1>8, EndedStage DEF IInv
<1>11. mails'[t.job] + mislaid'[t.job] <= MaxMailAttempts
  BY <1>1, <1>4, <1>5, LimitsAssumption
<1>12. JobAttemptsCover(t.job)'
  BY <1>2, <1>6, <1>8, <1>9, <1>10, <1>11 DEF JobAttemptsCover, Life!Unreported
<1>13. QED
  BY <1>1, <1>2, <1>3, <1>6, <1>7, <1>8, <1>12

\* What one attempt knows of the messages of its job.
LEMMA TasksCover ==
  ASSUME IInv, [Next]_vars, NEW u \in tasks'
  PROVE  TaskAttemptsCover(u)'
<1> SUFFICES ASSUME u.kind = "email"
             PROVE  TaskAttemptsCover(u)'
  BY DEF TaskAttemptsCover
<1>1. ASSUME NEW t \in tasks
      PROVE  /\ t \in Task /\ t.job \in Jobs /\ t.attempt \in Nat /\ TaskFits(t)
             /\ TaskAttemptsCover(t)
  BY DEF IInv, TypeOK, Task, TasksMatchLeases, AttemptsCoverMails
<1>2. CASE \E t \in tasks : MailAccepted(t) \/ MailUncertain(t) \/ MailMislaid(t)
  <2>1. PICK t \in tasks : MailAccepted(t) \/ MailUncertain(t) \/ MailMislaid(t)
    BY <1>2
  <2>2. /\ t.job \in Jobs /\ t.kind = "email"
        /\ mails'[t.job] + mislaid'[t.job] <= t.attempt
        /\ \A j \in Jobs \ {t.job} : mails'[j] = mails[j] /\ mislaid'[j] = mislaid[j]
    BY <2>1, OneMore
  <2>3. \E stage \in {"sent", "caught"}, retry \in BOOLEAN : Enters(t, stage, retry)
    BY <2>1 DEF MailAccepted, MailUncertain, MailMislaid
  <2>4. PICK stage \in {"sent", "caught"}, retry \in BOOLEAN : Enters(t, stage, retry)
    BY <2>3
  <2>5. CASE u \in tasks /\ u # t
    <3>1. u.job # t.job
      BY <2>2, <2>5 DEF IInv, MailsMatchTasks
    <3>2. QED
      BY <1>1, <2>2, <2>5, <3>1 DEF TaskAttemptsCover
  <2>6. CASE u = [t EXCEPT !.stage = stage, !.retry = retry]
    <3>1. /\ u.job = t.job /\ u.attempt = t.attempt /\ u.stage # "working"
      BY <1>1, <2>6 DEF Task
    <3>2. QED
      BY <1>1, <2>2, <3>1 DEF TaskAttemptsCover
  <2>7. QED
    BY <2>4, <2>5, <2>6 DEF Enters
<1>3. CASE mails' = mails /\ mislaid' = mislaid
  <2>1. CASE TasksKept
    BY <1>1, <1>3, <2>1 DEF TasksKept, TaskAttemptsCover
  <2>2. ASSUME NEW t \in tasks, TaskTurns(t)
        PROVE  TaskAttemptsCover(u)'
    <3>1. PICK stage \in {"sent", "caught"}, retry \in BOOLEAN : Enters(t, stage, retry)
      BY <2>2 DEF TaskTurns
    <3>2. CASE u \in tasks
      BY <1>1, <1>3, <3>2 DEF TaskAttemptsCover
    <3>3. CASE u = [t EXCEPT !.stage = stage, !.retry = retry]
      <4>1. /\ u.job = t.job /\ u.kind = t.kind /\ u.attempt = t.attempt
            /\ u.stage # "working"
        BY <1>1, <3>3 DEF Task
      <4>2. QED
        BY <1>1, <1>3, <4>1 DEF TaskAttemptsCover
    <3>4. QED
      BY <3>1, <3>2, <3>3 DEF Enters
  <2>3. ASSUME NEW j \in Jobs, TaskStarts(j)
        PROVE  TaskAttemptsCover(u)'
    <3>1. CASE u \in tasks
      BY <1>1, <1>3, <3>1 DEF TaskAttemptsCover
    <3>2. CASE u \notin tasks /\ ClaimEmailPending(j)
      <4>1. /\ u = NewTask(j, "email", row[j].mailAttempts + 1)
            /\ row[j].status = "email_pending"
        BY <3>2 DEF ClaimEmailPending, Oldest, Claimable
      <4>2. /\ row[j].mailAttempts \in Nat /\ row[j].mailAttempts < MaxMailAttempts
            /\ mails[j] \in Nat /\ mislaid[j] \in Nat
            /\ mails[j] + mislaid[j] <= row[j].mailAttempts
        BY <4>1 DEF IInv, TypeOK, Row, AttemptsLeft, AttemptsFit, AttemptsCoverMails,
             JobAttemptsCover, Present
      <4>3. u.job = j /\ u.attempt = row[j].mailAttempts + 1
        BY <4>1 DEF NewTask
      <4>4. /\ u.attempt <= MaxMailAttempts /\ mails[j] + mislaid[j] <= u.attempt
            /\ mislaid[j] < u.attempt
        BY <4>2, <4>3, LimitsAssumption
      <4>5. QED
        BY <1>3, <4>3, <4>4 DEF TaskAttemptsCover
    <3>3. CASE u \notin tasks /\ ClaimQueued(j)
      BY <3>3 DEF ClaimQueued, NewTask
    <3>4. QED
      BY <2>3, <3>1, <3>2, <3>3 DEF TaskStarts
  <2>4. QED
    BY <2>1, <2>2, <2>3, TasksMove
<1>4. QED
  BY <1>2, <1>3, MailsUnchanged, MislaidUnchanged

\* AttemptsCoverMails is preserved.
LEMMA CoverStep ==
  ASSUME IInv, [Next]_vars, \A j \in Jobs : JobMove(j) /\ StageMove(j)
  PROVE  AttemptsCoverMails'
<1>1. ASSUME NEW j \in Jobs
      PROVE  JobAttemptsCover(j)'
  <2>1. CASE mails'[j] = mails[j] /\ mislaid'[j] = mislaid[j]
    BY <2>1, CoverKept
  <2>2. CASE \E t \in tasks : MailAccepted(t) \/ MailUncertain(t) \/ MailMislaid(t)
    BY <2>1, <2>2, OneMore
  <2>3. QED
    BY <2>1, <2>2, MailsUnchanged, MislaidUnchanged
<1>2. QED
  BY <1>1, TasksCover DEF AttemptsCoverMails

---------------------------------------------------------------------------
(* The inductive invariant.                                                *)

\* The empty table satisfies the invariant.
LEMMA InitInvariant == Init => IInv
<1> SUFFICES ASSUME Init
             PROVE  IInv
  OBVIOUS
<1>1. TypeOK
  BY RowUpdates DEF Init, TypeOK
<1>2. PayloadsMatchStatus /\ LeasesMatchRows /\ AttemptsLeft
  BY BlankFits DEF Init, PayloadsMatchStatus, LeasesMatchRows, AttemptsLeft
<1>3. \A j \in Jobs : ~Present(j) /\ StageOf(j) = "none"
  BY DEF Init, NoRow, Present, StageOf
<1>4. TasksMatchLeases /\ UsedIds
  BY DEF Init, TasksMatchLeases, UsedIds
<1>5. LogShape
  BY <1>3 DEF Init, LogShape, EventsFit
<1>6. MailsMatchTasks
  BY <1>3 DEF Init, MailsMatchTasks, JobMailFits
<1>7. AttemptsCoverMails
  BY <1>3, LimitsAssumption
     DEF Init, AttemptsCoverMails, JobAttemptsCover, Life!Unreported
<1>8. QED
  BY <1>1, <1>2, <1>4, <1>5, <1>6, <1>7 DEF IInv

\* Under the invariant, every step is a move of every job.
LEMMA IInvMoves ==
  ASSUME IInv, [Next]_vars
  PROVE  \A j \in Jobs : JobMove(j) /\ StageMove(j)
<1>1. \A j \in Jobs : JobMove(j)
  BY StepMoves DEF IInv
<1>2. \A j \in Jobs : StageMove(j)
  BY <1>1, StagesMove DEF IInv
<1>3. QED
  BY <1>1, <1>2

\* The invariant is inductive.
LEMMA IInvStep == IInv /\ [Next]_vars => IInv'
<1> SUFFICES ASSUME IInv, [Next]_vars
             PROVE  IInv'
  OBVIOUS
<1>1. \A j \in Jobs : JobMove(j) /\ StageMove(j)
  BY IInvMoves
<1>2. TypeOK'
  BY TypeStep DEF IInv
<1>3. PayloadsMatchStatus' /\ AttemptsLeft' /\ LeasesMatchRows'
  BY <1>1, RowsStep DEF IInv, PayloadsMatchStatus, AttemptsLeft, LeasesMatchRows
<1>4. TasksMatchLeases'
  BY <1>1, TasksStep DEF IInv
<1>5. LogShape'
  BY <1>1, LogStep DEF IInv, LogShape
<1>6. MailsMatchTasks'
  BY <1>1, MailsStep
<1>7. UsedIds'
  BY <1>1, UsedIdsStep DEF IInv, UsedIds
<1>8. AttemptsCoverMails'
  BY <1>1, CoverStep
<1>9. QED
  BY <1>2, <1>3, <1>4, <1>5, <1>6, <1>7, <1>8 DEF IInv

\* Rows, leases, tasks, events and messages stay in step for ever.
THEOREM Invariant == Spec => []IInv
<1>1. Init => IInv
  BY InitInvariant
<1>2. IInv /\ [Next]_vars => IInv'
  BY IInvStep
<1>3. QED
  BY <1>1, <1>2, PTL DEF Spec

\* Whatever tasks, sweeps and requests do in any order, the payloads of a row are
\* those its status stands for.
THEOREM PayloadsCorrect == Spec => []PayloadsMatchStatus
<1>1. IInv => PayloadsMatchStatus
  BY DEF IInv
<1>2. QED
  BY <1>1, Invariant, PTL

\* No row is claimed or delivered more often than its limits allow.
THEOREM AttemptsCorrect == Spec => []AttemptsBounded
<1>1. IInv => AttemptsBounded
  BY DEF IInv, AttemptsLeft, AttemptsFit, AttemptsBounded
<1>2. QED
  BY <1>1, Invariant, PTL

\* At most one message counts as sent for a job, and those that the mailer
\* wrongly takes for unsent do not outnumber its attempts.
THEOREM MessagesBounded == Spec => []MailsBounded
<1>1. IInv => MailsBounded
  BY DEF IInv, MailsMatchTasks, JobMailFits, AttemptsCoverMails, JobAttemptsCover,
         MailsBounded
<1>2. QED
  BY <1>1, Invariant, PTL

\* The shapes of the event log are those that balance.
LEMMA ShapesBalance == LogShape => LedgerBalances
<1> SUFFICES ASSUME LogShape, NEW j \in Jobs
             PROVE  /\ log[j] = <<>> => ~Present(j)
                    /\ log[j] # <<>> =>
                         /\ \A i \in DOMAIN log[j] : log[j][i] = "analysis_started" <=> i = 1
                         /\ \A i \in DOMAIN log[j] : log[j][i] = "analysis_completed" => i = 2
                         /\ Endings(j) = IF Present(j) THEN {} ELSE {Len(log[j])}
                    /\ Present(j) => (row[j].report <=>
                         "analysis_completed" \in {log[j][i] : i \in DOMAIN log[j]})
  BY DEF LedgerBalances
<1>1. EventsFit(log[j], Present(j), row[j].report)
  BY DEF LogShape
<1>2. CASE log[j] = <<>> /\ ~Present(j)
  BY <1>2
<1>3. CASE log[j] = <<"analysis_started">> /\ Present(j) /\ ~row[j].report
  <2>1. DOMAIN log[j] = {1} /\ log[j][1] = "analysis_started"
    BY <1>3
  <2>2. QED
    BY <1>3, <2>1 DEF Endings
<1>4. CASE /\ log[j] = <<"analysis_started", "analysis_completed">>
           /\ Present(j) /\ row[j].report
  <2>1. /\ DOMAIN log[j] = {1, 2} /\ log[j][1] = "analysis_started"
        /\ log[j][2] = "analysis_completed"
    BY <1>4
  <2>2. QED
    BY <1>4, <2>1 DEF Endings
<1>5. ASSUME NEW e \in Life!EndsPending, log[j] = <<"analysis_started", e>>, ~Present(j)
      PROVE  /\ \A i \in DOMAIN log[j] : log[j][i] = "analysis_started" <=> i = 1
             /\ \A i \in DOMAIN log[j] : log[j][i] = "analysis_completed" => i = 2
             /\ log[j] # <<>> /\ Endings(j) = {Len(log[j])}
  <2>1. /\ DOMAIN log[j] = {1, 2} /\ log[j][1] = "analysis_started" /\ log[j][2] = e
        /\ Len(log[j]) = 2 /\ log[j] # <<>>
    BY <1>5
  <2>2. e \notin {"analysis_started", "analysis_completed"}
    BY DEF Life!EndsPending
  <2>3. QED
    BY <2>1, <2>2 DEF Endings
<1>6. ASSUME NEW e \in Life!EndsReported,
             log[j] = <<"analysis_started", "analysis_completed", e>>, ~Present(j)
      PROVE  /\ \A i \in DOMAIN log[j] : log[j][i] = "analysis_started" <=> i = 1
             /\ \A i \in DOMAIN log[j] : log[j][i] = "analysis_completed" => i = 2
             /\ log[j] # <<>> /\ Endings(j) = {Len(log[j])}
  <2>1. /\ DOMAIN log[j] = {1, 2, 3} /\ log[j][1] = "analysis_started"
        /\ log[j][2] = "analysis_completed" /\ log[j][3] = e
        /\ Len(log[j]) = 3 /\ log[j] # <<>>
    BY <1>6
  <2>2. e \notin {"analysis_started", "analysis_completed"}
    BY DEF Life!EndsReported
  <2>3. QED
    BY <2>1, <2>2 DEF Endings
<1>7. QED
  BY <1>1, <1>2, <1>3, <1>4, <1>5, <1>6 DEF EventsFit

\* The aggregate metrics account for every job exactly once.
THEOREM LedgerCorrect == Spec => []LedgerBalances
<1>1. IInv => LedgerBalances
  BY ShapesBalance DEF IInv
<1>2. QED
  BY <1>1, Invariant, PTL

---------------------------------------------------------------------------
(* Steps.                                                                  *)

\* A task that ends, or changes its stage, without its lease touches no row.
LEMMA FencedStep ==
  ASSUME TypeOK, [Next]_vars, NEW t \in tasks, t \notin tasks', row[t.job].lease # t.lease
  PROVE  row' = row
<1>1. ASSUME NEW u \in tasks, TaskStep(u) \/ Heartbeat(u) \/ TaskDies(u), u # t
      PROVE  FALSE
  BY <1>1 DEF TaskStep, FinishProcessing, FinishProcessingUnacknowledged, MailAccepted,
       MailUncertain, MailMislaid, Throw, FailProcessing, FinishEmail, FinishEmailUnacknowledged,
       FailEmail, Heartbeat, TaskDies, Enters
<1>2. ASSUME NEW j \in Jobs, Create(j) \/ Request(j) \/ Claim(j) \/ Clock(j)
      PROVE  FALSE
  BY <1>2 DEF Create, Request, Claim, Clock, CountActive, InsertJob, CreateRollsBack,
       StatusForHandle, TakeFastResult, AttachEmail, CancelJob, ClaimQueued,
       ClaimEmailPending, JobExpires, LeaseLapses, BackoffEnds
<1>3. CASE RecoverAndPurge \/ UNCHANGED vars
  BY <1>3 DEF RecoverAndPurge, vars
<1>4. CASE TaskStep(t) \/ Heartbeat(t) \/ TaskDies(t)
  <2>1. ~Owns(t, "processing") /\ ~Owns(t, "email_sending")
    BY DEF Owns
  <2>2. QED
    BY <1>4, <2>1 DEF TaskStep, FinishProcessing, FinishProcessingUnacknowledged,
         StoreReport, RecordSent, MailAccepted, MailUncertain, MailMislaid, Throw, FailProcessing,
         FinishEmail, FinishEmailUnacknowledged, FailEmail, Heartbeat, TaskDies
<1>5. QED
  BY <1>1, <1>2, <1>3, <1>4 DEF Next

\* Fencing: what a task does after it lost its lease leaves its job alone.
THEOREM Fencing == Spec => StaleTaskHarmless
<1>1. ASSUME TypeOK, [Next]_vars
      PROVE  [\A t \in tasks : t \notin tasks' /\ row[t.job].lease # t.lease
                => row'[t.job] = row[t.job]]_vars
  BY <1>1, FencedStep
<1>2. QED
  BY <1>1, TypeCorrect, PTL DEF Spec, StaleTaskHarmless

\* A job returns to email_pending only by the hand of the task that owns it, and
\* never after a message that counts as sent.
THEOREM Resend == Spec => ResendOnlyIfTakenForUnsent
<1>1. ASSUME IInv, [Next]_vars, NEW j \in Jobs,
             row[j].status = "email_sending", row'[j].status = "email_pending"
      PROVE  /\ mails[j] = 0 /\ ~row[j].pdf
             /\ \E t \in tasks : t.job = j /\ t.lease = row[j].lease /\ t.retry
  <2>1. Present(j) /\ Present(j)' /\ log[j] # <<>>
    BY <1>1, EndedStage DEF Present, IInv
  <2>2. PICK t \in tasks : t.job = j /\ t.retry /\ Owns(t, "email_sending")
    <3>1. JobMove(j) /\ row'[j].status # "email_sending"
      BY <1>1, IInvMoves
    <3>2. /\ TypeOK /\ PayloadsMatchStatus /\ AttemptsLeft /\ UsedIds /\ LogShape
      BY <1>1 DEF IInv
    <3>3. \/ log[j] = <<>>
          \/ Present(j) /\ row[j].status # "email_sending"
          \/ \E t \in tasks \ tasks' : t.job = j /\ t.retry /\ Owns(t, "email_sending")
      BY <2>1, <3>1, <3>2, SendingMoves
    <3>4. QED
      BY <1>1, <2>1, <3>3
  <2>3. mails[j] = 0
    BY <1>1, <2>2, OwnerKnows DEF IInv, MailsMatchTasks, TaskMailFits
  <2>4. ~row[j].pdf
    BY <1>1 DEF IInv, PayloadsMatchStatus, PayloadsFit
  <2>5. QED
    BY <2>2, <2>3, <2>4 DEF Owns
<1>2. ASSUME IInv, [Next]_vars
      PROVE  [\A j \in Jobs :
                row[j].status = "email_sending" /\ row'[j].status = "email_pending"
                  => mails[j] = 0 /\ ~row[j].pdf
                     /\ \E t \in tasks : t.job = j /\ t.lease = row[j].lease /\ t.retry]_vars
  BY <1>1, <1>2
<1>3. QED
  BY <1>2, Invariant, PTL DEF Spec, ResendOnlyIfTakenForUnsent

---------------------------------------------------------------------------
(* The refinement of JobLifecycle.                                         *)

\* Only the sweep touches more than one job.
LEMMA OneJobMoves ==
  ASSUME TypeOK, [Next]_vars
  PROVE  \/ RecoverAndPurge \/ UNCHANGED <<row, log>>
         \/ \E k \in Jobs : \A j \in Jobs \ {k} : row'[j] = row[j] /\ log'[j] = log[j]
<1> DEFINE Alone(k) == \A j \in Jobs \ {k} : row'[j] = row[j] /\ log'[j] = log[j]
<1>1. ASSUME NEW k \in Jobs, Create(k) \/ Request(k) \/ Claim(k) \/ Clock(k)
      PROVE  Alone(k)
  BY <1>1 DEF Create, Request, Claim, Clock, CountActive, InsertJob, CreateRollsBack,
       StatusForHandle, TakeFastResult, AttachEmail, CancelJob, ClaimQueued,
       ClaimEmailPending, JobExpires, LeaseLapses, BackoffEnds, PurgeJob, Record, TypeOK
<1>2. ASSUME NEW t \in tasks, TaskStep(t) \/ Heartbeat(t) \/ TaskDies(t)
      PROVE  t.job \in Jobs /\ Alone(t.job)
  BY <1>2 DEF TaskStep, FinishProcessing, FinishProcessingUnacknowledged, StoreReport,
       MailAccepted, MailUncertain, MailMislaid, Throw, FailProcessing, RecordSent, FinishEmail,
       FinishEmailUnacknowledged, FailEmail, Heartbeat, TaskDies, PurgeJob, Record,
       TypeOK, Task
<1>3. CASE UNCHANGED vars
  BY <1>3 DEF vars
<1>4. QED
  BY <1>1, <1>2, <1>3 DEF Next

\* A sweep starts no job and completes no analysis.
LEMMA SweepEnds ==
  ASSUME IInv, RecoverAndPurge, NEW j \in Jobs
  PROVE  Present(j)' => StageOf(j)' = StageOf(j)
<1> SUFFICES ASSUME Present(j)'
             PROVE  StageOf(j)' = StageOf(j)
  OBVIOUS
<1>1. row[j] \in Row
  BY DEF IInv, TypeOK
<1>2. \/ row'[j] = Requeued(row[j], "queued", TRUE) /\ j \in Recovered
      \/ row'[j] = row[j]
  <2>1. row'[j] # NoRow
    BY DEF Present, NoRow
  <2>2. CASE j \in Recovered
    <3>1. j \notin Purged
      BY <2>2, <1>1, SweepDisjoint
    <3>2. QED
      BY <2>2, <3>1 DEF RecoverAndPurge
  <2>3. CASE j \notin Recovered
    <3>1. row'[j] \in {NoRow, row[j]}
      BY <2>3 DEF RecoverAndPurge
    <3>2. QED
      BY <2>1, <3>1
  <2>4. QED
    BY <2>2, <2>3
<1>3. Present(j) /\ row'[j].report = row[j].report
  <2>1. CASE row'[j] = Requeued(row[j], "queued", TRUE) /\ j \in Recovered
    <3>1. row[j].status = "processing"
      BY <2>1 DEF Recovered
    <3>2. row'[j].report = row[j].report
      BY <1>1, <2>1 DEF Requeued, Row
    <3>3. QED
      BY <3>1, <3>2 DEF Present
  <2>2. CASE row'[j] = row[j]
    BY <2>2 DEF Present
  <2>3. QED
    BY <1>2, <2>1, <2>2
<1>4. QED
  BY <1>3 DEF StageOf

\* A job that ends does so as JobLifecycle allows.
LEMMA EndsAsPromised ==
  ASSUME IInv, [Next]_vars, mails' = mails, NEW j \in Jobs, StageTurn(j),
         StageOf(j)' \notin {"pending", "reported"} \/ StageOf(j)' = StageOf(j)
  PROVE  \/ StageOf(j)' = StageOf(j)
         \/ /\ \/ StageOf(j) = "pending" /\ StageOf(j)' \in Life!EndsPending
               \/ StageOf(j) = "reported" /\ StageOf(j)' \in Life!EndsReported
            /\ StageOf(j)' \in Life!Unmailed => mails[j] = 0
            /\ StageOf(j)' \in Life!Unreported => mislaid[j] = 0
            /\ StageOf(j)' = "email_sent" => mails[j] = 1
<1> SUFFICES ASSUME StageOf(j)' # StageOf(j)
             PROVE  /\ \/ StageOf(j) = "pending" /\ StageOf(j)' \in Life!EndsPending
                       \/ StageOf(j) = "reported" /\ StageOf(j)' \in Life!EndsReported
                    /\ StageOf(j)' \in Life!Unmailed => mails[j] = 0
                    /\ StageOf(j)' \in Life!Unreported => mislaid[j] = 0
                    /\ StageOf(j)' = "email_sent" => mails[j] = 1
  OBVIOUS
<1>1. /\ Present(j)
      /\ \/ StageOf(j) = "pending" /\ StageOf(j)' \in Life!EndsPending
         \/ StageOf(j) = "reported" /\ StageOf(j)' \in Life!EndsReported
      /\ StageOf(j)' \in Life!Unmailed => row[j].status # "email_sending"
      /\ StageOf(j)' \in Life!Unreported
           => row[j].status \notin {"email_pending", "email_sending"}
      /\ StageOf(j)' = "email_sent" => \E t \in tasks : t.job = j /\ t.stage = "sent"
  BY DEF StageTurn
<1>2. StageOf(j)' \in Life!Unmailed => mails[j] = 0
  BY <1>1 DEF IInv, MailsMatchTasks, JobMailFits
<1>3. StageOf(j)' = "email_sent" => mails[j] = 1
  BY <1>1 DEF IInv, TasksMatchLeases, TaskFits, MailsMatchTasks, TaskMailFits
<1>4. StageOf(j)' \in Life!Unreported => mislaid[j] = 0
  <2> SUFFICES ASSUME StageOf(j)' \in Life!Unreported
               PROVE  mislaid[j] = 0
    OBVIOUS
  <2>1. /\ Present(j) /\ row[j].status \in {"queued", "processing", "awaiting_email"}
        /\ AttemptsFit(row[j]) /\ JobAttemptsCover(j)
        /\ mails[j] \in Nat /\ mislaid[j] \in Nat
    BY <1>1 DEF IInv, TypeOK, Row, Statuses, Present, AttemptsLeft, AttemptsCoverMails
  <2>2. row[j].mailAttempts = 0
    BY <2>1 DEF AttemptsFit
  <2>3. QED
    BY <2>1, <2>2 DEF JobAttemptsCover
<1>5. QED
  BY <1>1, <1>2, <1>3, <1>4

\* An attempt under way has a message to spare.
LEMMA MessageLeft ==
  ASSUME IInv, NEW t \in tasks, MailAccepted(t) \/ MailUncertain(t) \/ MailMislaid(t)
  PROVE  mislaid[t.job] < MaxMailAttempts
<1>1. /\ mislaid[t.job] \in Nat /\ t.attempt \in Nat /\ TaskAttemptsCover(t)
  BY DEF IInv, TypeOK, Task, AttemptsCoverMails
<1>2. mislaid[t.job] < t.attempt /\ t.attempt <= MaxMailAttempts
  BY <1>1 DEF TaskAttemptsCover, MailAccepted, MailUncertain, MailMislaid
<1>3. QED
  BY <1>1, <1>2, LimitsAssumption

\* Every step is a step of JobLifecycle, or a stutter of it.
LEMMA StepRefines ==
  ASSUME IInv, [Next]_vars
  PROVE  [Life!Next]_Life!vars
<1> DEFINE stage == [j \in Jobs |-> StageOf(j)]
<1>1. \A j \in Jobs : StageTurn(j)
  BY IInvMoves, StageTurns DEF IInv
<1>2. stage' = [j \in Jobs |-> StageOf(j)']
  OBVIOUS
<1>3. CASE \E t \in tasks : MailAccepted(t) \/ MailUncertain(t)
  <2>1. PICK t \in tasks : MailAccepted(t) \/ MailUncertain(t)
    BY <1>3
  <2>2. t.job \in Jobs /\ mails \in [Jobs -> Nat]
    BY DEF IInv, TypeOK, Task
  <2>3. /\ mails[t.job] = 0 /\ stage[t.job] \in {"reported", "email_failed", "analysis_expired"}
    BY <2>1, <2>2, SendStep
  <2>4. mails' = [mails EXCEPT ![t.job] = 1]
    <3>1. mails' = [mails EXCEPT ![t.job] = mails[t.job] + 1]
      BY <2>1 DEF MailAccepted, MailUncertain
    <3>2. mails[t.job] + 1 = 1
      BY <2>2, <2>3
    <3>3. QED
      BY <3>1, <3>2
  <2>5. \A j \in Jobs : StageOf(j)' = StageOf(j)
    BY <2>1 DEF MailAccepted, MailUncertain, StageOf, Present
  <2>6. stage' = stage
    BY <1>2, <2>5
  <2>7. mislaid[t.job] < MaxMailAttempts
    BY <2>1, MessageLeft
  <2>8. mislaid' = mislaid
    BY <2>1 DEF MailAccepted, MailUncertain
  <2>9. Life!Deliver(t.job)
    BY <2>3, <2>4, <2>6, <2>7, <2>8 DEF Life!Deliver, Life!MayMail
  <2>10. QED
    BY <2>2, <2>9 DEF Life!Next
<1>6. CASE \E t \in tasks : MailMislaid(t)
  <2>1. PICK t \in tasks : MailMislaid(t)
    BY <1>6
  <2>2. /\ t.job \in Jobs /\ mails[t.job] = 0
        /\ StageOf(t.job) \in {"reported", "email_failed", "analysis_expired"}
        /\ mislaid[t.job] < MaxMailAttempts
    BY <2>1, OneMore, MessageLeft
  <2>3. \A j \in Jobs : StageOf(j)' = StageOf(j)
    BY <2>1 DEF MailMislaid, StageOf, Present
  <2>4. stage' = stage
    BY <1>2, <2>3
  <2>5. Life!Mislay(t.job)
    BY <2>1, <2>2, <2>4 DEF MailMislaid, Life!Mislay, Life!MayMail
  <2>6. QED
    BY <2>2, <2>5 DEF Life!Next
<1>4. CASE mails' = mails /\ mislaid' = mislaid
  <2>1. CASE \A j \in Jobs : \/ StageOf(j)' \notin {"pending", "reported"}
                              \/ StageOf(j)' = StageOf(j)
    <3>1. \A j \in Jobs :
            \/ StageOf(j)' = StageOf(j)
            \/ /\ \/ StageOf(j) = "pending" /\ StageOf(j)' \in Life!EndsPending
                  \/ StageOf(j) = "reported" /\ StageOf(j)' \in Life!EndsReported
               /\ StageOf(j)' \in Life!Unmailed => mails[j] = 0
               /\ StageOf(j)' \in Life!Unreported => mislaid[j] = 0
               /\ StageOf(j)' = "email_sent" => mails[j] = 1
      BY <1>1, <1>4, <2>1, EndsAsPromised
    <3>2. \A j \in Jobs : StageOf(j) \in Life!Stages /\ StageOf(j)' \in Life!Stages
      <4>1. \A j \in Jobs : StageOf(j) \in Life!Stages
        <5>1. ASSUME NEW j \in Jobs
              PROVE  StageOf(j) \in Life!Stages
          <6>1. EventsFit(log[j], Present(j), row[j].report)
            BY DEF IInv, LogShape
          <6>2. CASE Present(j) \/ log[j] = <<>>
            BY <6>2 DEF StageOf, Life!Stages
          <6>3. ASSUME ~Present(j), NEW e \in Life!EndsPending, log[j] = <<"analysis_started", e>>
                PROVE  StageOf(j) \in Life!Stages
            <7>1. StageOf(j) = e
              BY <6>3 DEF StageOf
            <7>2. QED
              BY <7>1 DEF Life!Stages
          <6>4. ASSUME ~Present(j), NEW e \in Life!EndsReported,
                       log[j] = <<"analysis_started", "analysis_completed", e>>
                PROVE  StageOf(j) \in Life!Stages
            <7>1. StageOf(j) = e
              BY <6>4 DEF StageOf
            <7>2. QED
              BY <7>1 DEF Life!Stages
          <6>5. QED
            BY <6>1, <6>2, <6>3, <6>4 DEF EventsFit
        <5>2. QED
          BY <5>1
      <4>2. QED
        BY <3>1, <4>1 DEF Life!Stages
    <3>3. \A j \in Jobs : stage[j] = StageOf(j) /\ stage'[j] = StageOf(j)'
      BY <1>2
    <3>4. stage' \in [Jobs -> Life!Stages]
      BY <1>2, <3>2
    <3>5. \A j \in Jobs : stage'[j] = stage[j] \/ Life!MayEnd(j, stage'[j])
      BY <3>1, <3>3 DEF Life!MayEnd
    <3>6. Life!End
      BY <1>4, <3>4, <3>5 DEF Life!End
    <3>7. QED
      BY <3>6 DEF Life!Next
  <2>2. ASSUME NEW k \in Jobs, StageOf(k)' \in {"pending", "reported"}, StageOf(k)' # StageOf(k)
        PROVE  Life!Next
    <3>1. \/ StageOf(k) = "none" /\ StageOf(k)' = "pending"
          \/ StageOf(k) = "pending" /\ StageOf(k)' = "reported"
      BY <1>1, <2>2 DEF StageTurn, Life!EndsPending, Life!EndsReported
    <3>2. \A j \in Jobs \ {k} : row'[j] = row[j] /\ log'[j] = log[j]
      <4>1. Present(k)'
        BY <1>1, <3>1 DEF StageTurn, Life!EndsPending, Life!EndsReported
      <4>2. ~RecoverAndPurge
        BY <2>2, <4>1, SweepEnds
      <4>3. ~UNCHANGED <<row, log>>
        BY <2>2 DEF StageOf, Present
      <4>4. PICK m \in Jobs : \A j \in Jobs \ {m} : row'[j] = row[j] /\ log'[j] = log[j]
        BY <4>2, <4>3, OneJobMoves DEF IInv
      <4>5. m = k
        BY <2>2, <4>4 DEF StageOf, Present
      <4>6. QED
        BY <4>4, <4>5
    <3>3. \A j \in Jobs \ {k} : StageOf(j)' = StageOf(j)
      BY <3>2 DEF StageOf, Present
    <3>4. stage' = [stage EXCEPT ![k] = StageOf(k)']
      BY <1>2, <3>3
    <3>5. stage[k] = StageOf(k)
      OBVIOUS
    <3>6. Life!Accept(k) \/ Life!Analyse(k)
      BY <1>4, <3>1, <3>4, <3>5 DEF Life!Accept, Life!Analyse
    <3>7. QED
      BY <3>6 DEF Life!Next
  <2>3. QED
    BY <2>1, <2>2
<1>5. QED
  BY <1>3, <1>4, <1>6, MailsUnchanged, MislaidUnchanged

\* The queue, its workers and its mailer implement JobLifecycle.
THEOREM Refinement == Spec => KeepsPromise
<1>1. Init => Life!Init
  <2> SUFFICES ASSUME Init
               PROVE  Life!Init
    OBVIOUS
  <2>1. \A j \in Jobs : StageOf(j) = "none"
    BY DEF Init, NoRow, StageOf, Present
  <2>2. QED
    BY <2>1 DEF Init, Life!Init
<1>2. IInv /\ [Next]_vars => [Life!Next]_Life!vars
  BY StepRefines
<1>3. QED
  BY <1>1, <1>2, Invariant, PTL DEF Spec, KeepsPromise, Life!Spec

---------------------------------------------------------------------------
(* Admission.                                                              *)

\* A row becomes active only by an INSERT; a clock never takes an expiry back.
LEMMA ActiveMoves ==
  ASSUME TypeOK, NEW j \in Jobs, JobMove(j), Present(j)', ~row'[j].expired
  PROVE  j \in creating \/ (Present(j) /\ ~row[j].expired)
<1>1. row[j] \in Row
  BY DEF TypeOK
<1>2. CASE RowKept(j)
  <2>1. KeptRow(row[j], row'[j])
    BY <1>2 DEF RowKept
  <2>2. Present(j)
    BY <1>1, <2>1, KeptStatus DEF Present
  <2>3. ~row[j].expired
    BY <1>1, <2>1 DEF KeptRow, Row
  <2>4. QED
    BY <2>2, <2>3
<1>3. CASE RowCreated(j)
  BY <1>3 DEF RowCreated
<1>4. CASE RowPurged(j)
  BY <1>4 DEF RowPurged, Present, NoRow
<1>5. CASE RowClaimed(j)
  BY <1>1, <1>5 DEF RowClaimed, ClaimedRow, Processing, Sending, Present, Row
<1>6. CASE RowRequeued(j)
  BY <1>1, <1>6 DEF RowRequeued, RequeuedRow, Addressed, Requeued, Present, Row
<1>7. CASE RowReported(j)
  BY <1>1, <1>7 DEF RowReported, Reported, Present, Row
<1>8. QED
  BY <1>2, <1>3, <1>4, <1>5, <1>6, <1>7 DEF JobMove

\* UploadsBounded is preserved.
LEMMA UploadsStep ==
  ASSUME IInv, UploadsBounded, [Next]_vars
  PROVE  UploadsBounded'
<1> DEFINE S == ActiveJobs \cup creating
<1>1. \A j \in Jobs : JobMove(j)
  BY IInvMoves
<1>2. ActiveJobs' \subseteq S
  BY <1>1, ActiveMoves DEF ActiveJobs, IInv
<1>3. CASE \E k \in Jobs : CountActive(k)
  <2>1. PICK k \in Jobs : CountActive(k)
    BY <1>3
  <2>2. /\ Cardinality(creating) < PoolSize /\ Cardinality(ActiveJobs) < MaxActive
        /\ creating' = creating \cup {k} /\ ActiveJobs' = ActiveJobs
    BY <2>1 DEF CountActive, HasRoom, ActiveJobs, Present
  <2>3. IsFiniteSet(ActiveJobs) /\ IsFiniteSet(creating)
    BY FS_Subset DEF UploadsBounded
  <2>4. /\ IsFiniteSet(creating') /\ Cardinality(creating') <= Cardinality(creating) + 1
        /\ Cardinality(creating) \in Nat /\ Cardinality(ActiveJobs) \in Nat
        /\ Cardinality(creating') \in Nat
    <3>1. Cardinality(creating) \in Nat /\ Cardinality(ActiveJobs) \in Nat
      BY <2>3, FS_CardinalityType
    <3>2. IsFiniteSet(creating') /\ Cardinality(creating') =
            IF k \in creating THEN Cardinality(creating) ELSE Cardinality(creating) + 1
      BY <2>2, <2>3, FS_AddElement
    <3>3. QED
      BY <3>1, <3>2
  <2>5. /\ IsFiniteSet(ActiveJobs \cup creating')
        /\ Cardinality(ActiveJobs \cup creating') =
             Cardinality(ActiveJobs) + Cardinality(creating')
               - Cardinality(ActiveJobs \cap creating')
    BY <2>3, <2>4, FS_Union
  <2>6. Cardinality(ActiveJobs \cap creating') \in Nat
    BY <2>3, FS_Intersection, FS_CardinalityType
  <2>7. Cardinality(ActiveJobs \cup creating') <= MaxActive - 1 + PoolSize
    BY <2>2, <2>4, <2>5, <2>6, LimitsAssumption
  <2>8. QED
    BY <2>2, <2>5, <2>7 DEF UploadsBounded
<1>4. CASE ~\E k \in Jobs : CountActive(k)
  <2>1. creating' \subseteq creating
    BY <1>4 DEF Next, vars, Create, Request, Claim, Clock, TaskStep,
         InsertJob, CreateRollsBack, StatusForHandle, TakeFastResult, AttachEmail, CancelJob,
         ClaimQueued, ClaimEmailPending, FinishProcessing, FinishProcessingUnacknowledged,
         MailAccepted, MailUncertain, MailMislaid, Throw, FailProcessing, FinishEmail,
         FinishEmailUnacknowledged, FailEmail, Heartbeat, TaskDies, RecoverAndPurge,
         JobExpires, LeaseLapses, BackoffEnds
  <2>2. (ActiveJobs \cup creating)' \in SUBSET S
    BY <1>2, <2>1
  <2>3. IsFiniteSet(S) /\ Cardinality(S) <= MaxActive - 1 + PoolSize
    BY DEF UploadsBounded
  <2> HIDE DEF S
  <2>4. /\ IsFiniteSet((ActiveJobs \cup creating)')
        /\ Cardinality((ActiveJobs \cup creating)') <= Cardinality(S)
    BY <2>2, <2>3, FS_Subset
  <2>5. Cardinality(S) \in Nat /\ Cardinality((ActiveJobs \cup creating)') \in Nat
    BY <2>3, <2>4, FS_CardinalityType
  <2>6. QED
    BY <2>3, <2>4, <2>5, LimitsAssumption DEF UploadsBounded
<1>5. QED
  BY <1>3, <1>4

\* The queue exceeds MAX_ACTIVE_JOBS by less than the number of connections.
THEOREM AdmissionCorrect == Spec => []QueueBounded
<1>1. Init => UploadsBounded
  <2> SUFFICES ASSUME Init
               PROVE  UploadsBounded
    OBVIOUS
  <2>1. ActiveJobs \cup creating = {}
    BY DEF Init, ActiveJobs, Present, NoRow
  <2>2. QED
    BY <2>1, FS_EmptySet, LimitsAssumption DEF UploadsBounded
<1>2. IInv /\ UploadsBounded /\ [Next]_vars => UploadsBounded'
  BY UploadsStep
<1>3. UploadsBounded => QueueBounded
  <2> SUFFICES ASSUME UploadsBounded
               PROVE  QueueBounded
    OBVIOUS
  <2> DEFINE S == ActiveJobs \cup creating
  <2>1. IsFiniteSet(S) /\ Cardinality(S) <= MaxActive - 1 + PoolSize
    BY DEF UploadsBounded
  <2>2. ActiveJobs \in SUBSET S
    OBVIOUS
  <2> HIDE DEF S
  <2>3. IsFiniteSet(ActiveJobs) /\ Cardinality(ActiveJobs) <= Cardinality(S)
    BY <2>1, <2>2, FS_Subset
  <2>4. Cardinality(S) \in Nat /\ Cardinality(ActiveJobs) \in Nat
    BY <2>1, <2>3, FS_CardinalityType
  <2>5. QED
    BY <2>1, <2>3, <2>4, LimitsAssumption DEF QueueBounded
<1>4. QED
  BY <1>1, <1>2, <1>3, Invariant, PTL DEF Spec

---------------------------------------------------------------------------
(* What ScanView takes from the worker.                                    *)

\* The worker inserts nothing.
LEMMA WorkerCreatesNothing == WorkerStep => UNCHANGED creating
  BY DEF WorkerStep, Claim, Clock, TaskStep, ClaimQueued, ClaimEmailPending,
       FinishProcessing, FinishProcessingUnacknowledged, MailAccepted, MailUncertain, MailMislaid,
       Throw, FailProcessing, FinishEmail, FinishEmailUnacknowledged, FailEmail,
       Heartbeat, TaskDies, RecoverAndPurge, JobExpires, LeaseLapses, BackoffEnds

Waits(r) == r.status \in {"awaiting_email", "email_pending"}

\* How the worker leaves a row that waits.
Waited(r, q) ==
  \/ q.status = r.status
  \/ r.status = "email_pending" /\ q.status = "email_sending"
  \/ r.expired /\ q.status = "absent"

\* A task owns no row that waits; the claims, the clock and the sweep leave it
\* as it is, claim it or, at the end of its TTL, delete it.
LEMMA WorkerWaits ==
  ASSUME TypeOK, WorkerStep, NEW j \in Jobs, Waits(row[j])
  PROVE  Waited(row[j], row'[j])
<1> USE DEF TypeOK, Waits, Waited
<1>1. ASSUME NEW k \in Jobs, Clock(k)
      PROVE  Waited(row[j], row'[j])
  <2>1. row[k] \in Row
    OBVIOUS
  <2>2. \/ row' = [row EXCEPT ![k] = [row[k] EXCEPT !.expired = TRUE]]
        \/ row' = [row EXCEPT ![k] = [row[k] EXCEPT !.lapsed = TRUE]]
        \/ row' = [row EXCEPT ![k] = [row[k] EXCEPT !.due = TRUE]]
    BY <1>1 DEF Clock, JobExpires, LeaseLapses, BackoffEnds
  <2>3. row'[j] \in {row[j], [row[j] EXCEPT !.expired = TRUE],
                    [row[j] EXCEPT !.lapsed = TRUE], [row[j] EXCEPT !.due = TRUE]}
    BY <2>2
  <2>4. row'[j].status = row[j].status
    BY <2>3 DEF Row
  <2>5. QED
    BY <2>4
<1>2. ASSUME NEW k \in Jobs, Claim(k)
      PROVE  Waited(row[j], row'[j])
  <2>1. row[k] \in Row
    OBVIOUS
  <2>2. CASE ClaimQueued(k)
    <3>1. row'[j] = row[j]
      BY <2>2 DEF ClaimQueued, Oldest, Claimable
    <3>2. QED
      BY <3>1
  <2>3. CASE ClaimEmailPending(k)
    <3>1. /\ row[k].status = "email_pending"
          /\ row'[j] = IF j = k THEN Sending(row[k], issued[k] + 1) ELSE row[j]
      BY <2>3 DEF ClaimEmailPending, Oldest, Claimable
    <3>2. Sending(row[k], issued[k] + 1).status = "email_sending"
      BY <2>1 DEF Sending, Row
    <3>3. QED
      BY <3>1, <3>2
  <2>4. QED
    BY <1>2, <2>2, <2>3 DEF Claim
<1>3. ASSUME NEW t \in tasks, TaskStep(t) \/ Heartbeat(t) \/ TaskDies(t)
      PROVE  Waited(row[j], row'[j])
  <2>1. t.job = j => ~Owns(t, "processing") /\ ~Owns(t, "email_sending")
    BY DEF Owns
  <2>2. row'[j] = row[j]
    BY <1>3, <2>1 DEF TaskStep, FinishProcessing, FinishProcessingUnacknowledged,
         StoreReport, MailAccepted, MailUncertain, MailMislaid, Throw, FailProcessing, FinishEmail,
         FinishEmailUnacknowledged, RecordSent, FailEmail, PurgeJob, Heartbeat, TaskDies
  <2>3. QED
    BY <2>2
<1>4. CASE RecoverAndPurge
  <2>1. j \notin Recovered /\ (j \in Purged => row[j].expired)
    BY DEF Recovered, Purged, UncertainEmail, ExhaustedProcessing, ExpiredJobs
  <2>2. row'[j] = row[j] \/ (row[j].expired /\ row'[j] = NoRow)
    BY <1>4, <2>1 DEF RecoverAndPurge
  <2>3. QED
    BY <2>2 DEF NoRow
<1>5. QED
  BY <1>1, <1>2, <1>3, <1>4 DEF WorkerStep

\* Appending an event leaves a job that is gone gone.
LEMMA PurgedSeen ==
  ASSUME TypeOK, NEW j \in Jobs, RowPurged(j)
  PROVE  SeenAs(j)' = "gone"
<1>1. PICK e \in Events : log'[j] = Append(log[j], e)
  BY DEF RowPurged, Events, Life!EndsReported, Life!EndsPending
<1>2. Append(log[j], e) # <<>>
  <2>1. log[j] \in Seq(Events)
    BY DEF TypeOK
  <2>2. Len(Append(log[j], e)) = Len(log[j]) + 1 /\ Len(log[j]) \in Nat
    BY <2>1
  <2>3. Len(<<>>) = 0
    OBVIOUS
  <2>4. QED
    BY <2>2, <2>3
<1>3. row'[j].status = "absent"
  BY DEF RowPurged, NoRow
<1>4. QED
  BY <1>1, <1>2, <1>3 DEF SeenAs, Present

JobSeen(j) ==
  \/ SeenAs(j)' = SeenAs(j)
  \/ <<SeenAs(j), SeenAs(j)'>> \in Seen!WorkerMoves
  \/ Present(j) /\ row[j].expired /\ SeenAs(j)' = "gone"

\* A step of the worker looks to a page like a move that ScanView allows.
LEMMA WorkerSeenStep ==
  ASSUME IInv, WorkerStep, NEW j \in Jobs
  PROVE  JobSeen(j)
<1>1. row[j] \in Row /\ TypeOK
  BY DEF IInv, TypeOK
<1>2. JobMove(j)
  BY StepMoves DEF IInv, WorkerStep, Next
<1>3. Waits(row[j]) => Waited(row[j], row'[j])
  BY <1>1, WorkerWaits
<1> USE DEF Waits, Waited
<1>4. CASE RowKept(j)
  <2>1. row'[j].status = row[j].status
    BY <1>1, <1>4 DEF RowKept, KeptRow, Row
  <2>2. SeenAs(j)' = SeenAs(j)
    BY <1>4, <2>1 DEF RowKept, SeenAs, Present
  <2>3. QED
    BY <2>2 DEF JobSeen
<1>5. ~RowCreated(j)
  BY WorkerCreatesNothing DEF RowCreated
<1>6. CASE RowPurged(j)
  <2>1. Present(j) /\ SeenAs(j)' = "gone"
    BY <1>1, <1>6, PurgedSeen DEF RowPurged
  <2>2. row'[j].status = "absent"
    BY <1>6 DEF RowPurged, NoRow
  <2>3. row[j].expired \/ SeenAs(j) \in {"processing", "email_sending"}
    BY <1>1, <1>3, <2>1, <2>2 DEF SeenAs, Present, Row, Statuses
  <2>4. QED
    BY <2>1, <2>3 DEF JobSeen, Seen!WorkerMoves
<1>7. CASE RowClaimed(j)
  <2>1. CASE row[j].status = "queued" /\ row'[j] = Processing(row[j], issued[j] + 1)
    BY <1>1, <2>1 DEF Processing, Row, SeenAs, Present, JobSeen
  <2>2. CASE row[j].status = "email_pending" /\ row'[j] = Sending(row[j], issued[j] + 1)
    BY <1>1, <2>2 DEF Sending, Row, SeenAs, Present, JobSeen, Seen!WorkerMoves
  <2>3. QED
    BY <1>7, <2>1, <2>2 DEF RowClaimed, ClaimedRow
<1>8. CASE RowRequeued(j)
  <2>1. CASE row[j].status = "awaiting_email" /\ row'[j] = Addressed(row[j])
    <3>1. row'[j].status = "email_pending"
      BY <1>1, <2>1 DEF Addressed, Row
    <3>2. QED
      BY <1>3, <2>1, <3>1
  <2>2. CASE /\ row[j].status = "processing"
             /\ \E due \in BOOLEAN : row'[j] = Requeued(row[j], "queued", due)
    BY <1>1, <2>2 DEF Requeued, Row, SeenAs, Present, JobSeen
  <2>3. CASE /\ row[j].status = "email_sending"
             /\ row'[j] = Requeued(row[j], "email_pending", FALSE)
    BY <1>1, <2>3 DEF Requeued, Row, SeenAs, Present, JobSeen, Seen!WorkerMoves
  <2>4. QED
    BY <1>8, <2>1, <2>2, <2>3 DEF RowRequeued, RequeuedRow
<1>9. CASE RowReported(j)
  BY <1>1, <1>9 DEF RowReported, Reported, Row, SeenAs, Present, JobSeen, Seen!WorkerMoves
<1>10. QED
  BY <1>2, <1>4, <1>5, <1>6, <1>7, <1>8, <1>9 DEF JobMove

\* Whatever the tasks of any number of workers, their crashes and the sweeps do,
\* the page sees each job make only the moves that ScanView gives its jobs.
THEOREM WorkerSeen == Spec => WorkerAsSeen
<1> DEFINE A == WorkerStep => \A j \in Jobs : JobSeen(j)
<1>1. IInv /\ [Next]_vars => [A]_vars
  BY WorkerSeenStep
<1>2. Spec => [][A]_vars
  BY <1>1, Invariant, PTL DEF Spec
<1>3. QED
  BY <1>2 DEF WorkerAsSeen, JobSeen
===========================================================================
