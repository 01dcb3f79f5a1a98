--------------------------- MODULE AnalysisJobs ---------------------------
(***************************************************************************)
(* The analysis_jobs table of api/src/modules/analysis: every transaction  *)
(* of job-service.ts, the worker tasks that hold leases on its rows        *)
(* (worker.ts) and what the mailer does on their behalf (mailer.ts).       *)
(*                                                                         *)
(* A transaction that touches one row is one action: its statements lock   *)
(* the row until COMMIT.  createAnalysisJob is two actions, because its    *)
(* SELECT count(_) locks nothing.  Time is three flags a row carries,      *)
(* raised by the environment: the comparison of expires_at,                *)
(* lease_expires_at and available_at with now().  Payloads are present or  *)
(* absent.  The terminal statuses ('completed', 'failed', 'expired',       *)
(* 'cancelled') never outlive the transaction that writes them, so a row   *)
(* is either live or gone.                                                 *)
(***************************************************************************)
EXTENDS Integers, Sequences, FiniteSets

CONSTANTS
  Jobs,             \* job ids: fresh random UUIDs, each used by one upload
  MaxActive,        \* MAX_ACTIVE_JOBS
  PoolSize,         \* connections of the PostgreSQL pool (max: 10)
  MaxAttempts,      \* PROCESSING_MAX_ATTEMPTS
  MaxMailAttempts   \* EMAIL_MAX_ATTEMPTS

\* config.ts: every limit is coerced to a positive integer.
ASSUME LimitsAssumption ==
  /\ MaxActive \in Nat \ {0}
  /\ PoolSize \in Nat \ {0}
  /\ MaxAttempts \in Nat \ {0}
  /\ MaxMailAttempts \in Nat \ {0}

VARIABLES
  row,        \* the table: one record per job id
  log,        \* the aggregate events recorded on behalf of each job, in order
  creating,   \* uploads between the count and the INSERT of createAnalysisJob
  arrivals,   \* job ids in the order of created_at
  issued,     \* lease tokens drawn for each job; token n is the n-th
  tasks,      \* the running process() promises of the workers
  mails,      \* messages sent for each job, as far as the mailer can tell: those
              \* the server acknowledged, or may hold after an unanswered DATA
  mislaid     \* messages the server may hold but the mailer takes for unsent

vars == <<row, log, creating, arrivals, issued, tasks, mails, mislaid>>

Statuses == {"queued", "processing", "awaiting_email", "email_pending",
             "email_sending"}

Events == {"analysis_started", "analysis_completed", "analysis_fast_completed",
           "analysis_failed", "analysis_expired", "analysis_cancelled",
           "email_sent", "email_failed"}

NoLease == 0

NoRow == [status |-> "absent", pdf |-> FALSE, report |-> FALSE, email |-> FALSE,
          attempts |-> 0, mailAttempts |-> 0, lease |-> NoLease,
          lapsed |-> FALSE, due |-> FALSE, expired |-> FALSE]

NewRow == [NoRow EXCEPT !.status = "queued", !.pdf = TRUE, !.due = TRUE]

Present(j) == row[j].status # "absent"

Init ==
  /\ row = [j \in Jobs |-> NoRow]
  /\ log = [j \in Jobs |-> <<>>]
  /\ creating = {}
  /\ arrivals = <<>>
  /\ issued = [j \in Jobs |-> 0]
  /\ tasks = {}
  /\ mails = [j \in Jobs |-> 0]
  /\ mislaid = [j \in Jobs |-> 0]

---------------------------------------------------------------------------
(* Row updates shared by several transactions.                             *)

Record(j, event) == log' = [log EXCEPT ![j] = Append(@, event)]

PurgeJob(j, event) ==
  /\ row' = [row EXCEPT ![j] = NoRow]
  /\ Record(j, event)

Processing(r, token) ==
  [r EXCEPT !.status = "processing", !.lease = token, !.lapsed = FALSE,
            !.attempts = r.attempts + 1]

Sending(r, token) ==
  [r EXCEPT !.status = "email_sending", !.lease = token, !.lapsed = FALSE,
            !.mailAttempts = r.mailAttempts + 1]

Reported(r) ==
  [r EXCEPT !.status = "awaiting_email", !.pdf = FALSE, !.report = TRUE,
            !.lease = NoLease, !.lapsed = FALSE]

Addressed(r) ==
  [r EXCEPT !.status = "email_pending", !.email = TRUE, !.due = TRUE]

Requeued(r, status, due) ==
  [r EXCEPT !.status = status, !.lease = NoLease, !.lapsed = FALSE, !.due = due]

---------------------------------------------------------------------------
(* POST /app/analysis-jobs: createAnalysisJob.                             *)

ActiveJobs == {j \in Jobs : Present(j) /\ ~row[j].expired}

Fresh(j) == \A i \in DOMAIN arrivals : arrivals[i] # j

\* Mutation: the limit itself still counts as room.
HasRoomOffByOne == Cardinality(ActiveJobs) <= MaxActive

HasRoom == Cardinality(ActiveJobs) < MaxActive

\* The count, which finds room.  A full queue answers 429 and changes nothing.
CountActive(j) ==
  /\ Fresh(j)
  /\ Cardinality(creating) < PoolSize
  /\ HasRoom
  /\ creating' = creating \cup {j}
  /\ arrivals' = Append(arrivals, j)
  /\ UNCHANGED <<row, log, issued, tasks, mails, mislaid>>

InsertJob(j) ==
  /\ j \in creating
  /\ creating' = creating \ {j}
  /\ row' = [row EXCEPT ![j] = NewRow]
  /\ Record(j, "analysis_started")
  /\ UNCHANGED <<arrivals, issued, tasks, mails, mislaid>>

\* The transaction rolls back; the id was never handed out.
CreateRollsBack(j) ==
  /\ j \in creating
  /\ creating' = creating \ {j}
  /\ UNCHANGED <<row, log, arrivals, issued, tasks, mails, mislaid>>

---------------------------------------------------------------------------
(* Requests that carry a job handle.  One that matches no row answers null *)
(* or false and changes nothing.                                           *)

StatusForHandle(j) ==
  /\ Present(j) /\ row[j].expired
  /\ PurgeJob(j, "analysis_expired")
  /\ UNCHANGED <<creating, arrivals, issued, tasks, mails, mislaid>>

\* No look at expires_at: a report that is ready is handed out even late.
TakeFastResult(j) ==
  /\ row[j].status = "awaiting_email" /\ row[j].report
  /\ PurgeJob(j, "analysis_fast_completed")
  /\ UNCHANGED <<creating, arrivals, issued, tasks, mails, mislaid>>

\* Mutation: the UPDATE does not look at the status.
AttachEmailAnyStatus(j) ==
  /\ Present(j) /\ ~row[j].expired
  /\ row' = [row EXCEPT ![j] = Addressed(row[j])]
  /\ UNCHANGED <<log, creating, arrivals, issued, tasks, mails, mislaid>>

AttachEmail(j) ==
  /\ row[j].status = "awaiting_email" /\ ~row[j].expired
  /\ row' = [row EXCEPT ![j] = Addressed(row[j])]
  /\ UNCHANGED <<log, creating, arrivals, issued, tasks, mails, mislaid>>

\* Mutation: a job may be cancelled while its message is being sent.
CancelJobAnyStatus(j) ==
  /\ Present(j)
  /\ PurgeJob(j, "analysis_cancelled")
  /\ UNCHANGED <<creating, arrivals, issued, tasks, mails, mislaid>>

CancelJob(j) ==
  /\ row[j].status \in {"queued", "processing", "awaiting_email", "email_pending"}
  /\ PurgeJob(j, "analysis_cancelled")
  /\ UNCHANGED <<creating, arrivals, issued, tasks, mails, mislaid>>

---------------------------------------------------------------------------
(* claimNextJob: the oldest due row, queued ones before email_pending.     *)
(* process() then runs with the row as it was claimed.                     *)

Claimable(j, status) ==
  row[j].status = status /\ row[j].due /\ ~row[j].expired

Older(j, k) ==
  \E m, n \in DOMAIN arrivals : m < n /\ arrivals[m] = j /\ arrivals[n] = k

\* Mutation: the oldest row of any status is looked at.
OldestAnyStatus(j, status) ==
  /\ Claimable(j, status)
  /\ \A k \in Jobs \ {j} : Present(k) => Older(j, k)

Oldest(j, status) ==
  /\ Claimable(j, status)
  /\ \A k \in Jobs \ {j} : Claimable(k, status) => Older(j, k)

NewTask(j, kind, attempt) ==
  [job |-> j, kind |-> kind, lease |-> issued[j] + 1, attempt |-> attempt,
   stage |-> "working", retry |-> FALSE]

ClaimQueued(j) ==
  /\ Oldest(j, "queued")
  /\ issued' = [issued EXCEPT ![j] = @ + 1]
  /\ row' = [row EXCEPT ![j] = Processing(row[j], issued[j] + 1)]
  /\ tasks' = tasks \cup {NewTask(j, "pdf", row[j].attempts + 1)}
  /\ UNCHANGED <<log, creating, arrivals, mails, mislaid>>

ClaimEmailPending(j) ==
  /\ \A k \in Jobs : ~Claimable(k, "queued")
  /\ Oldest(j, "email_pending")
  /\ issued' = [issued EXCEPT ![j] = @ + 1]
  /\ row' = [row EXCEPT ![j] = Sending(row[j], issued[j] + 1)]
  /\ tasks' = tasks \cup {NewTask(j, "email", row[j].mailAttempts + 1)}
  /\ UNCHANGED <<log, creating, arrivals, mails, mislaid>>

---------------------------------------------------------------------------
(* Worker tasks.  Every statement a task issues names its job, its lease   *)
(* token and the status it expects; otherwise it matches no row.           *)

\* Mutation: the lease token is not compared.
OwnsByStatus(t, status) == row[t.job].status = status

Owns(t, status) ==
  row[t.job].lease = t.lease /\ row[t.job].status = status

Enters(t, stage, retry) ==
  tasks' = (tasks \ {t}) \cup {[t EXCEPT !.stage = stage, !.retry = retry]}

\* The interval timer of processPdf; processEmail starts none.
Heartbeat(t) ==
  /\ t.kind = "pdf" /\ Owns(t, "processing")
  /\ row' = [row EXCEPT ![t.job] = [row[t.job] EXCEPT !.lapsed = FALSE]]
  /\ UNCHANGED <<log, creating, arrivals, issued, tasks, mails, mislaid>>

\* The UPDATE of finishProcessing and its metric, in one transaction.
StoreReport(t) ==
  LET accepted == Owns(t, "processing") /\ ~row[t.job].expired
  IN  \/ /\ accepted
         /\ row' = [row EXCEPT ![t.job] = Reported(row[t.job])]
         /\ Record(t.job, "analysis_completed")
      \/ ~accepted /\ UNCHANGED <<row, log>>

FinishProcessing(t) ==
  /\ t.kind = "pdf" /\ t.stage = "working"
  /\ StoreReport(t)
  /\ tasks' = tasks \ {t}
  /\ UNCHANGED <<creating, arrivals, issued, mails, mislaid>>

\* COMMIT succeeds but its acknowledgement is lost: the task takes it for a
\* retryable failure.
FinishProcessingUnacknowledged(t) ==
  /\ t.kind = "pdf" /\ t.stage = "working"
  /\ StoreReport(t)
  /\ Enters(t, "caught", TRUE)
  /\ UNCHANGED <<creating, arrivals, issued, mails, mislaid>>

\* transport.sendMail resolves: the server has taken the message.
MailAccepted(t) ==
  /\ t.kind = "email" /\ t.stage = "working"
  /\ mails' = [mails EXCEPT ![t.job] = @ + 1]
  /\ Enters(t, "sent", FALSE)
  /\ UNCHANGED <<row, log, creating, arrivals, issued, mislaid>>

\* Mutation: the doubt about an unanswered DATA does not stop the retries.
MailUncertainRetried(t) ==
  /\ t.kind = "email" /\ t.stage = "working"
  /\ mails' = [mails EXCEPT ![t.job] = @ + 1]
  /\ Enters(t, "caught", TRUE)
  /\ UNCHANGED <<row, log, creating, arrivals, issued, mislaid>>

\* The message may have been taken, and nodemailer names DATA as the command
\* that failed: the error is uncertain, and not retried.
MailUncertain(t) ==
  /\ t.kind = "email" /\ t.stage = "working"
  /\ mails' = [mails EXCEPT ![t.job] = @ + 1]
  /\ Enters(t, "caught", FALSE)
  /\ UNCHANGED <<row, log, creating, arrivals, issued, mislaid>>

\* The message may have been taken, but the connection timed out or was closed
\* while the reply was due.  nodemailer reports that under CONN and without a
\* reply code, like a failure to connect: the message passes for unsent.
MailMislaid(t) ==
  /\ t.kind = "email" /\ t.stage = "working"
  /\ mislaid' = [mislaid EXCEPT ![t.job] = @ + 1]
  /\ Enters(t, "caught", TRUE)
  /\ UNCHANGED <<row, log, creating, arrivals, issued, mails>>

\* Mutation: a database error after the mail was sent is retried.
ThrowRetriesSent(t, retry) ==
  /\ t.stage \in {"working", "sent"}
  /\ Enters(t, "caught", retry)
  /\ UNCHANGED <<row, log, creating, arrivals, issued, mails, mislaid>>

\* The task catches an error, and no message has left unless it is "sent".  It
\* retries a failure of the parser, the engine or the database, a refused or
\* broken connection and a temporary refusal by the SMTP server; not a PDF that
\* cannot be read, a permanent refusal, nor an error after the mail was sent.
Throw(t, retry) ==
  /\ \/ t.stage = "working"
     \/ t.stage = "sent" /\ ~retry
  /\ Enters(t, "caught", retry)
  /\ UNCHANGED <<row, log, creating, arrivals, issued, mails, mislaid>>

FailProcessing(t) ==
  /\ t.kind = "pdf" /\ t.stage = "caught"
  /\ LET attempt == IF t.retry THEN t.attempt ELSE MaxAttempts
     IN  \/ /\ Owns(t, "processing") /\ attempt >= MaxAttempts
            /\ PurgeJob(t.job, "analysis_failed")
         \/ /\ Owns(t, "processing") /\ attempt < MaxAttempts
            /\ row' = [row EXCEPT ![t.job] = Requeued(row[t.job], "queued", FALSE)]
            /\ UNCHANGED log
         \/ ~Owns(t, "processing") /\ UNCHANGED <<row, log>>
  /\ tasks' = tasks \ {t}
  /\ UNCHANGED <<creating, arrivals, issued, mails, mislaid>>

\* Mutation: an event name the CHECK of aggregate_events does not know.
RecordSentUnknownEvent(t) ==
  \/ Owns(t, "email_sending") /\ PurgeJob(t.job, "email_completed")
  \/ ~Owns(t, "email_sending") /\ UNCHANGED <<row, log>>

\* finishEmail: 'completed' and the purge, in one transaction.
RecordSent(t) ==
  \/ Owns(t, "email_sending") /\ PurgeJob(t.job, "email_sent")
  \/ ~Owns(t, "email_sending") /\ UNCHANGED <<row, log>>

FinishEmail(t) ==
  /\ t.stage = "sent"
  /\ RecordSent(t)
  /\ tasks' = tasks \ {t}
  /\ UNCHANGED <<creating, arrivals, issued, mails, mislaid>>

FinishEmailUnacknowledged(t) ==
  /\ t.stage = "sent"
  /\ RecordSent(t)
  /\ Enters(t, "caught", FALSE)
  /\ UNCHANGED <<creating, arrivals, issued, mails, mislaid>>

FailEmail(t) ==
  /\ t.kind = "email" /\ t.stage = "caught"
  /\ LET final == ~t.retry \/ t.attempt >= MaxMailAttempts
     IN  \/ /\ Owns(t, "email_sending") /\ final
            /\ PurgeJob(t.job, "email_failed")
         \/ /\ Owns(t, "email_sending") /\ ~final
            /\ row' = [row EXCEPT ![t.job] = Requeued(row[t.job], "email_pending", FALSE)]
            /\ UNCHANGED log
         \/ ~Owns(t, "email_sending") /\ UNCHANGED <<row, log>>
  /\ tasks' = tasks \ {t}
  /\ UNCHANGED <<creating, arrivals, issued, mails, mislaid>>

\* The process dies, or failProcessing / failEmail itself throws: the promise
\* is gone and the row keeps its lease.  A crash of the process is one such
\* step for each of its tasks.
TaskDies(t) ==
  /\ tasks' = tasks \ {t}
  /\ UNCHANGED <<row, log, creating, arrivals, issued, mails, mislaid>>

---------------------------------------------------------------------------
(* recoverAndPurge: at start and every minute.  Four statements, in this   *)
(* order, in one transaction; now() is the same for all of them.           *)

\* Mutation: the last attempt is not recovered, nor is it exhausted.
RecoveredOffByOne ==
  {j \in Jobs : /\ row[j].status = "processing" /\ row[j].lapsed
                /\ ~row[j].expired /\ row[j].attempts < MaxAttempts - 1}

\* Mutation: the attempts are not looked at.
RecoveredUnbounded ==
  {j \in Jobs : /\ row[j].status = "processing" /\ row[j].lapsed
                /\ ~row[j].expired}

Recovered ==
  {j \in Jobs : /\ row[j].status = "processing" /\ row[j].lapsed
                /\ ~row[j].expired /\ row[j].attempts < MaxAttempts}

\* Mutation: the last attempt to send is left alone.
UncertainEmailRetriesLeft ==
  {j \in Jobs : /\ row[j].status = "email_sending" /\ row[j].lapsed
                /\ row[j].mailAttempts < MaxMailAttempts}

UncertainEmail ==
  {j \in Jobs : row[j].status = "email_sending" /\ row[j].lapsed}

ExhaustedProcessing ==
  {j \in Jobs : /\ row[j].status = "processing" /\ row[j].lapsed
                /\ row[j].attempts >= MaxAttempts}

\* Mutation: only rows that wait for somebody expire.
ExpiredWaiting ==
  {j \in Jobs : /\ row[j].status \in {"queued", "awaiting_email", "email_pending"}
                /\ row[j].expired}

ExpiredJobs ==
  {j \in Jobs : Present(j) /\ row[j].expired}
    \ (UncertainEmail \cup ExhaustedProcessing)

Purged == UncertainEmail \cup ExhaustedProcessing \cup ExpiredJobs

\* Mutation: one event for all the rows of a sweep.
MeteredOnce == IF Purged = {} THEN {} ELSE {CHOOSE j \in Purged : TRUE}

\* The loops over rowCount record one event for each row deleted.
Metered == Purged

SweepEvent(j) ==
  CASE j \in UncertainEmail      -> "email_failed"
    [] j \in ExhaustedProcessing -> "analysis_failed"
    [] OTHER                     -> "analysis_expired"

RecoverAndPurge ==
  /\ row' = [j \in Jobs |->
       CASE j \in Recovered -> Requeued(row[j], "queued", TRUE)
         [] j \in Purged    -> NoRow
         [] OTHER           -> row[j]]
  /\ log' = [j \in Jobs |->
       IF j \in Metered THEN Append(log[j], SweepEvent(j)) ELSE log[j]]
  /\ UNCHANGED <<creating, arrivals, issued, tasks, mails, mislaid>>

---------------------------------------------------------------------------
(* The clock, seen through the comparisons with now().                     *)

JobExpires(j) ==
  /\ Present(j)
  /\ row' = [row EXCEPT ![j] = [row[j] EXCEPT !.expired = TRUE]]
  /\ UNCHANGED <<log, creating, arrivals, issued, tasks, mails, mislaid>>

\* Any time: heartbeats are lost when the process or the database stalls, and
\* nothing relates the lease to the heartbeat interval or to an SMTP dialogue.
LeaseLapses(j) ==
  /\ row[j].lease # NoLease
  /\ row' = [row EXCEPT ![j] = [row[j] EXCEPT !.lapsed = TRUE]]
  /\ UNCHANGED <<log, creating, arrivals, issued, tasks, mails, mislaid>>

BackoffEnds(j) ==
  /\ Present(j)
  /\ row' = [row EXCEPT ![j] = [row[j] EXCEPT !.due = TRUE]]
  /\ UNCHANGED <<log, creating, arrivals, issued, tasks, mails, mislaid>>

---------------------------------------------------------------------------
Create(j) == CountActive(j) \/ InsertJob(j) \/ CreateRollsBack(j)

Request(j) ==
  StatusForHandle(j) \/ TakeFastResult(j) \/ AttachEmail(j) \/ CancelJob(j)

Claim(j) == ClaimQueued(j) \/ ClaimEmailPending(j)

\* What a task does next of its own accord.
TaskStep(t) ==
  \/ FinishProcessing(t) \/ FinishProcessingUnacknowledged(t)
  \/ MailAccepted(t) \/ MailUncertain(t) \/ MailMislaid(t)
  \/ \E retry \in BOOLEAN : Throw(t, retry)
  \/ FailProcessing(t)
  \/ FinishEmail(t) \/ FinishEmailUnacknowledged(t)
  \/ FailEmail(t)

Clock(j) == JobExpires(j) \/ LeaseLapses(j) \/ BackoffEnds(j)

Next ==
  \/ \E j \in Jobs : Create(j) \/ Request(j) \/ Claim(j) \/ Clock(j)
  \/ \E t \in tasks : TaskStep(t) \/ Heartbeat(t) \/ TaskDies(t)
  \/ RecoverAndPurge

Spec == Init /\ [][Next]_vars

\* Progress without the TTL.  The workers poll every 250 ms and sweep every
\* minute, the parser, the engine and the SMTP dialogue have timeouts, and time
\* passes; crashes, requests and expiry are left to chance.
Progress ==
  /\ WF_vars(\E j \in Jobs : Claim(j))
  /\ WF_vars(\E t \in tasks : TaskStep(t))
  /\ WF_vars(RecoverAndPurge)
  /\ \A j \in Jobs : WF_vars(LeaseLapses(j)) /\ WF_vars(BackoffEnds(j))

\* Time passes for the TTL of every job.
Expiry == \A j \in Jobs : WF_vars(JobExpires(j))

\* The sweep alone is sure to run; a property that needs more says so.
SweepSpec == Spec /\ WF_vars(RecoverAndPurge)

---------------------------------------------------------------------------
(* Properties.                                                             *)

\* The state of a job as JobLifecycle sees it.
StageOf(j) ==
  IF Present(j) THEN IF row[j].report THEN "reported" ELSE "pending"
  ELSE IF log[j] = <<>> THEN "none" ELSE log[j][Len(log[j])]

Life == INSTANCE JobLifecycle
          WITH MaxMessages <- MaxMailAttempts,
               stage <- [j \in Jobs |-> StageOf(j)], mailed <- mails

Row == [status : Statuses \cup {"absent"}, pdf : BOOLEAN, report : BOOLEAN,
        email : BOOLEAN, attempts : Nat, mailAttempts : Nat, lease : Nat,
        lapsed : BOOLEAN, due : BOOLEAN, expired : BOOLEAN]

Task == [job : Jobs, kind : {"pdf", "email"}, lease : Nat, attempt : Nat,
         stage : {"working", "sent", "caught"}, retry : BOOLEAN]

\* Every variable has its type.
TypeOK ==
  /\ row \in [Jobs -> Row]
  /\ log \in [Jobs -> Seq(Events)]
  /\ creating \subseteq Jobs
  /\ arrivals \in Seq(Jobs)
  /\ issued \in [Jobs -> Nat]
  /\ tasks \subseteq Task
  /\ mails \in [Jobs -> Nat]
  /\ mislaid \in [Jobs -> Nat]

PayloadsFit(r) ==
  IF r.status = "absent" THEN r = NoRow
  ELSE /\ r.pdf <=> r.status \in {"queued", "processing"}
       /\ r.report <=> ~r.pdf
       /\ r.email <=> r.status \in {"email_pending", "email_sending"}
       /\ r.lease # NoLease <=> r.status \in {"processing", "email_sending"}

\* The CHECKs of migration 002, and what decryptPdf and decryptEmailAndReport
\* rely on: whatever a stale task, a sweep or a request did before, the payloads
\* match the status, the PDF is gone once there is a report, and a lease token
\* is present exactly while somebody should hold it.
PayloadsMatchStatus == \A j \in Jobs : PayloadsFit(row[j])

\* Retries are bounded although the limit is compared with the count a task
\* saw when it claimed the row, and a sweep may requeue the row meanwhile.
AttemptsBounded ==
  \A j \in Jobs :
    row[j].attempts <= MaxAttempts /\ row[j].mailAttempts <= MaxMailAttempts

\* A second message leaves only where the mailer took the first for unsent, and
\* all messages of a job together are as many as its attempts: one per claim,
\* whatever lapses, crashes, retries and lost acknowledgements occur.
MailsBounded ==
  \A j \in Jobs : mails[j] <= 1 /\ mails[j] + mislaid[j] <= MaxMailAttempts

\* "Do not send duplicate reports" (docs/Modification_Request_1.md:225): the
\* server never has two messages for a job.  The code does not keep to it.
AtMostOneMail == \A j \in Jobs : mails[j] + mislaid[j] <= 1

Endings(j) ==
  {i \in DOMAIN log[j] : log[j][i] \notin {"analysis_started", "analysis_completed"}}

\* The aggregate metrics balance: every job that was started is live or has
\* exactly one terminal event, which comes last; 'analysis_completed' is
\* recorded once, exactly when a report is stored.
LedgerBalances ==
  \A j \in Jobs :
    /\ log[j] = <<>> => ~Present(j)
    /\ log[j] # <<>> =>
         /\ \A i \in DOMAIN log[j] : log[j][i] = "analysis_started" <=> i = 1
         /\ \A i \in DOMAIN log[j] : log[j][i] = "analysis_completed" => i = 2
         /\ Endings(j) = IF Present(j) THEN {} ELSE {Len(log[j])}
    /\ Present(j) => (row[j].report <=> "analysis_completed" \in {log[j][i] : i \in DOMAIN log[j]})

\* What MAX_ACTIVE_JOBS really bounds: uploads that counted the table at the
\* same time may all insert, so the excess is one job per pool connection.
QueueBounded == Cardinality(ActiveJobs) <= MaxActive - 1 + PoolSize

\* Fencing: a task that goes on (or ends) after it lost its lease, to a sweep,
\* a cancellation or a newer claim, leaves the row of its job as it is.
StaleTaskHarmless ==
  [][\A t \in tasks :
       t \notin tasks' /\ row[t.job].lease # t.lease
         => row'[t.job] = row[t.job]]_vars

\* Once sending has begun, the job goes back to email_pending only on the word
\* of the task that owns it, and never after a message that the server has
\* acknowledged or that stayed in doubt under DATA, whichever attempt sent it.
ResendOnlyIfTakenForUnsent ==
  [][\A j \in Jobs :
       row[j].status = "email_sending" /\ row'[j].status = "email_pending"
         => mails[j] = 0 /\ ~row[j].pdf
            /\ \E t \in tasks : t.job = j /\ t.lease = row[j].lease /\ t.retry]_vars

\* A queued or claimed upload never gets stuck: workers, sweeps and retries
\* bring it to a report or to its end without the help of its TTL.
AnalysisSettles ==
  Progress =>
    \A j \in Jobs : row[j].status \in {"queued", "processing"}
                      ~> row[j].status \in {"awaiting_email", "absent"}

\* Nor does a report that has an address to go to.
DeliverySettles ==
  Progress =>
    \A j \in Jobs : row[j].status \in {"email_pending", "email_sending"} ~> ~Present(j)

\* Uploads that keep coming are always claimed first (job-service.ts:156), and a
\* delivery waits as long as they do.  Once they pause, the delivery takes place
\* however many other jobs compete for the worker.
DeliverySettlesInPause ==
  (Progress /\ <>[](creating = {})) =>
    \A j \in Jobs : row[j].status \in {"email_pending", "email_sending"} ~> ~Present(j)

\* No job outlives its TTL, even if no worker task ever runs again.
EveryJobPurged == Expiry => \A j \in Jobs : Present(j) ~> ~Present(j)

---------------------------------------------------------------------------
(* The inductive invariant behind the safety properties above.             *)

LeasesMatchRows ==
  \A j \in Jobs :
    /\ row[j].lease <= issued[j]
    /\ row[j].lapsed => row[j].lease # NoLease

\* While a row waits to be claimed an attempt is left.
AttemptsFit(r) ==
  /\ r.attempts <= MaxAttempts
  /\ r.status = "queued" => r.attempts < MaxAttempts
  /\ r.mailAttempts <= MaxMailAttempts
  /\ r.status \in {"queued", "processing", "awaiting_email"} => r.mailAttempts = 0
  /\ r.status = "email_pending" => r.mailAttempts < MaxMailAttempts

AttemptsLeft == \A j \in Jobs : AttemptsFit(row[j])

\* A row that holds the token of a task is as that task claimed it.
TaskFits(t) ==
  /\ t.lease \in 1 .. issued[t.job]
  /\ t.stage = "working" => ~t.retry
  /\ t.stage = "sent" => t.kind = "email" /\ ~t.retry
  /\ row[t.job].lease = t.lease /\ t.kind = "pdf"
       => row[t.job].status = "processing" /\ row[t.job].attempts = t.attempt
  /\ row[t.job].lease = t.lease /\ t.kind = "email"
       => row[t.job].status = "email_sending" /\ row[t.job].mailAttempts = t.attempt

TasksMatchLeases ==
  /\ \A t \in tasks : TaskFits(t)
  /\ \A t, u \in tasks : t.job = u.job /\ t.lease = u.lease => t = u

\* What the events recorded for a job may be.
EventsFit(events, present, report) ==
  \/ events = <<>> /\ ~present
  \/ events = <<"analysis_started">> /\ present /\ ~report
  \/ events = <<"analysis_started", "analysis_completed">> /\ present /\ report
  \/ \E e \in Life!EndsPending : events = <<"analysis_started", e>> /\ ~present
  \/ \E e \in Life!EndsReported :
       events = <<"analysis_started", "analysis_completed", e>> /\ ~present

LogShape == \A j \in Jobs : EventsFit(log[j], Present(j), row[j].report)

\* Where the message of a job can be: not known as sent before its row is email_sending,
\* in the hands of one task at a time, and that task knows whether it is out.
JobMailFits(j) ==
  /\ mails[j] <= 1
  /\ Present(j) /\ row[j].status # "email_sending" => mails[j] = 0
  /\ log[j] = <<>> \/ StageOf(j) \in Life!Unmailed => mails[j] = 0
  /\ StageOf(j) = "email_sent" => mails[j] = 1

\* Each attempt adds at most one message, mislaid or not.
JobAttemptsCover(j) ==
  /\ mails[j] + mislaid[j] <= MaxMailAttempts
  /\ Present(j) => mails[j] + mislaid[j] <= row[j].mailAttempts
  /\ log[j] = <<>> \/ StageOf(j) \in Life!Unreported => mislaid[j] = 0

TaskMailFits(t) ==
  t.kind = "email" =>
    /\ t.stage = "working" \/ t.retry => mails[t.job] = 0
    /\ t.stage = "sent" => mails[t.job] = 1
    /\ \/ row[t.job].lease = t.lease
       \/ StageOf(t.job) \in {"email_sent", "email_failed", "analysis_expired"}
    /\ StageOf(t.job) = "email_sent" => t.stage = "caught" /\ ~t.retry

TaskAttemptsCover(t) ==
  t.kind = "email" =>
    /\ t.attempt <= MaxMailAttempts
    /\ mails[t.job] + mislaid[t.job] <= t.attempt
    /\ t.stage = "working" => mislaid[t.job] < t.attempt

AttemptsCoverMails ==
  /\ \A j \in Jobs : JobAttemptsCover(j)
  /\ \A t \in tasks : TaskAttemptsCover(t)

MailsMatchTasks ==
  /\ \A j \in Jobs : JobMailFits(j)
  /\ \A t \in tasks : TaskMailFits(t)
  /\ \A t, u \in tasks : t.kind = "email" /\ u.kind = "email" /\ t.job = u.job => t = u

UsedIds ==
  \A j \in Jobs :
    /\ log[j] # <<>> \/ j \in creating => ~Fresh(j)
    /\ j \in creating => log[j] = <<>>

IInv ==
  /\ TypeOK /\ PayloadsMatchStatus /\ LeasesMatchRows /\ AttemptsLeft
  /\ TasksMatchLeases /\ LogShape /\ MailsMatchTasks /\ AttemptsCoverMails
  /\ UsedIds

\* Uploads that have counted but not inserted already take part in the bound.
UploadsBounded ==
  /\ IsFiniteSet(ActiveJobs \cup creating)
  /\ Cardinality(ActiveJobs \cup creating) <= MaxActive - 1 + PoolSize

---------------------------------------------------------------------------
\* The table, the leases and the workers implement JobLifecycle.
KeepsPromise == Life!Spec

---------------------------------------------------------------------------
(* The jobs as ScanView has them.                                          *)

Seen == INSTANCE SeenJobs

SeenAs(j) ==
  IF Present(j) THEN IF row[j].status = "queued" THEN "processing" ELSE row[j].status
  ELSE IF log[j] = <<>> THEN "none" ELSE "gone"

\* Everything but the uploads and the requests.
WorkerStep ==
  \/ \E j \in Jobs : Claim(j) \/ Clock(j)
  \/ \E t \in tasks : TaskStep(t) \/ Heartbeat(t) \/ TaskDies(t)
  \/ RecoverAndPurge

\* The claims, tasks and sweeps of any number of workers look to a page like the
\* few moves that ScanView allows its jobs, or like the end of a TTL: no job
\* appears, comes back, skips its report or is ended while it waits for an address.
WorkerAsSeen ==
  [][WorkerStep =>
       \A j \in Jobs :
         \/ SeenAs(j)' = SeenAs(j)
         \/ <<SeenAs(j), SeenAs(j)'>> \in Seen!WorkerMoves
         \/ Present(j) /\ row[j].expired /\ SeenAs(j)' = "gone"]_vars
===========================================================================
