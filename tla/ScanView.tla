----------------------------- MODULE ScanView ------------------------------
(***************************************************************************)
(* The view model of the upload page (scan_view_model.dart) and the API    *)
(* routes it calls (analysis/routes.ts).  A scan is one call of analyze():  *)
(* it uploads, polls and shows what comes back, while the visitor may       *)
(* cancel, leave the page, or start the next scan before the previous call *)
(* has noticed.  All the calls share one view state, one _activeHandle and  *)
(* one _cancellation.  The choice of a role is left out.                   *)
(*                                                                         *)
(* A call is split where it awaits.  A request is served in one step, and  *)
(* its answer may be lost on either side of it.  The jobs move as          *)
(* AnalysisJobs says, seen through what the four routes can tell.          *)
(***************************************************************************)
EXTENDS Naturals, SeenJobs

CONSTANTS
  Scans,    \* calls of analyze(); also names the job a scan creates
  Mails,    \* bound: email requests under way at once
  NoJob

ASSUME ScanAssumption == NoJob \notin Scans \cup Mails

VARIABLES
  view,       \* ScanState
  active,     \* _activeHandle
  current,    \* _cancellation
  cancelled,  \* the _ScanCancellation objects whose flag is set
  picking,    \* the file dialogue is open
  task,       \* where the analyze() of each scan awaits
  serving,    \* where the upload route is with each scan
  answer,     \* answer on its way to analyze()
  job,        \* analysis_jobs, by scan
  late,       \* jobs past their TTL
  mail,       \* calls of sendEmail()
  cancels,    \* handles whose cancellation request is on its way
  lost        \* scans whose page has lost their job, and why (only to state
              \* properties)

page == <<view, active, current, cancelled, picking, task>>
net == <<serving, answer, mail, cancels, lost>>
vars == <<page, net, job, late>>

\* One stage stands for "queued" and "processing", as one status does.
Stages ==
  {"idle", "selectingFile", "uploading", "processing", "awaitingEmail",
   "sendingEmail", "completed", "expired", "failed", "cancelled"}

\* analyze() makes a _ScanCancellation of its own; sendEmail() makes one when
\* it finds none.
Token == [of : {"scan", "mail"}, job : Scans]

NoToken == [of |-> "none", job |-> NoJob]

Answers ==
  {"none", "refused", "queued", "fast", "expired", "missing"} \cup Queued

\* ScanState; a handle and a report are named by the scan they belong to.
View ==
  [stage : Stages, busy : BOOLEAN, handle : Scans \cup {NoJob},
   result : Scans \cup {NoJob}, sent : BOOLEAN]

\* A call of sendEmail(): "abandoned" when nobody waits for its answer.
Call ==
  [job : Scans \cup {NoJob}, token : Token \cup {NoToken},
   phase : {"free", "sent", "abandoned", "ok", "missing"}]

Fresh ==
  [stage |-> "idle", busy |-> FALSE, handle |-> NoJob, result |-> NoJob, sent |-> FALSE]

\* The page with another stage and handle: a report stays until the next scan.
Page(stage, busy, handle) ==
  [stage |-> stage, busy |-> busy, handle |-> handle,
   result |-> view.result, sent |-> view.sent]

NoMail == [job |-> NoJob, token |-> NoToken, phase |-> "free"]

In(m, phase) == [job |-> mail[m].job, token |-> mail[m].token, phase |-> phase]

Init ==
  /\ view = Fresh
  /\ active = NoJob
  /\ current = NoToken
  /\ cancelled = {}
  /\ picking = FALSE
  /\ task = [s \in Scans |-> "new"]
  /\ serving = [s \in Scans |-> "idle"]
  /\ answer = [s \in Scans |-> "none"]
  /\ job = [s \in Scans |-> "none"]
  /\ late = {}
  /\ mail = [m \in Mails |-> NoMail]
  /\ cancels = {}
  /\ lost = {}

----------------------------------------------------------------------------
(* The page.                                                               *)

ScanToken(s) == [of |-> "scan", job |-> s]

\* A tap on the upload area, which is inert while the page waits for an address.
\* The file dialogue is modal to the page, not to the calls under way.
Pick ==
  /\ ~picking
  /\ ~view.busy
  /\ view.stage # "awaitingEmail"
  /\ picking' = TRUE
  /\ view' = Page("selectingFile", FALSE, view.handle)
  /\ UNCHANGED <<active, current, cancelled, task, net, job, late>>

PickNothing ==
  /\ picking
  /\ picking' = FALSE
  /\ view' = IF view.busy THEN view ELSE Page("idle", FALSE, view.handle)
  /\ UNCHANGED <<active, current, cancelled, task, net, job, late>>

\* A file was picked.  Only the view model is asked now, and only if it is busy.
PickInVain ==
  /\ picking
  /\ view.busy
  /\ picking' = FALSE
  /\ UNCHANGED <<view, active, current, cancelled, task, net, job, late>>

\* "unheard": stopped before the page knew the handle; "dropped": a request for
\* the job failed, or another call took the page from it.
Loses(scans, why) == lost' = lost \cup (scans \X {why})

\* What the next scan takes the page from: a late answer has set it free before.
Dropped ==
  {s \in Scans :
     view.handle = s \/ (task[s] = "uploading" /\ ScanToken(s) \notin cancelled)}

Analyze(s) ==
  /\ picking
  /\ task[s] = "new"
  /\ ~view.busy
  /\ picking' = FALSE
  /\ current' = ScanToken(s)
  /\ view' = [stage |-> "uploading", busy |-> TRUE, handle |-> NoJob,
              result |-> NoJob, sent |-> FALSE]
  /\ task' = [task EXCEPT ![s] = "uploading"]
  /\ serving' = [serving EXCEPT ![s] = "received"]
  /\ Loses(Dropped, "dropped")
  /\ UNCHANGED <<active, cancelled, answer, mail, cancels, job, late>>

Flagged == IF current = NoToken THEN cancelled ELSE cancelled \cup {current}

\* Mutation: the page clears its own state and never tells the server.
AskNobody(handle) == cancels

\* Mutation: the handle is not compared with null.
AskUnchecked(handle) == cancels \cup {handle}

Ask(handle) == IF handle = NoJob THEN cancels ELSE cancels \cup {handle}

\* Scans stopped before the page knows the handle of their job.
Unheard == {s \in Scans : ScanToken(s) = current /\ task[s] = "uploading"}

\* The back button calls it whatever the stage is.
Cancel ==
  /\ cancelled' = Flagged
  /\ cancels' = Ask(view.handle)
  /\ active' = NoJob
  /\ view' = Page("cancelled", FALSE, NoJob)
  /\ Loses(Unheard, "unheard")
  /\ UNCHANGED <<current, picking, task, serving, answer, mail, job, late>>

\* From the page of a result.
Reset ==
  /\ view.result # NoJob
  /\ cancelled' = Flagged
  /\ cancels' = Ask(view.handle)
  /\ active' = NoJob
  /\ current' = NoToken
  /\ view' = Fresh
  /\ Loses(Unheard, "unheard")
  /\ UNCHANGED <<picking, task, serving, answer, mail, job, late>>

\* Leaving the page disposes of the notifier.  The calls that are under way
\* keep the old one, which nobody looks at any more.
Dispose ==
  /\ cancelled' = Flagged
  /\ cancels' = Ask(active)
  /\ active' = NoJob
  /\ current' = NoToken
  /\ view' = Fresh
  /\ picking' = FALSE
  /\ task' = [s \in Scans |-> IF task[s] = "new" THEN "new" ELSE "ended"]
  /\ answer' = [s \in Scans |-> "none"]
  /\ mail' = [m \in Mails |->
       IF mail[m].phase \in {"sent", "abandoned"} THEN In(m, "abandoned") ELSE NoMail]
  /\ Loses(Unheard, "unheard")
  /\ UNCHANGED <<serving, job, late>>

----------------------------------------------------------------------------
(* analyze() and _poll(), from the answer on.                              *)

IsCancelled(s) == ScanToken(s) \in cancelled

\* Mutation: throwIfCancelled is forgotten.
GoesAnyway(s) == TRUE

\* throwIfCancelled, after the upload and after an answer to a poll.
Goes(s) == ~IsCancelled(s)

\* analyze() returns: its `finally` drops only a token of its own.
Ends(s) ==
  /\ task' = [task EXCEPT ![s] = "ended"]
  /\ answer' = [answer EXCEPT ![s] = "none"]
  /\ current' = IF current = ScanToken(s) THEN NoToken ELSE current

Continues(s) ==
  /\ task' = [task EXCEPT ![s] = "waiting"]
  /\ answer' = [answer EXCEPT ![s] = "none"]
  /\ UNCHANGED current

Shows(stage) ==
  /\ view' = Page(stage, FALSE, NoJob)
  /\ active' = NoJob

\* The handler of _ScanCancelled does not ask whose scan the view shows.
ThrowCancelled(s) ==
  /\ ~Goes(s)
  /\ Ends(s)
  /\ Shows("cancelled")

Untouched == <<cancelled, picking, serving, mail, cancels, job, late>>

\* The page takes up what a call was told, and shows the job of another scan.
Overtakes(s) == Loses({view.handle} \ {s, NoJob}, "dropped")

UploadAnswered(s) ==
  /\ task[s] = "uploading"
  /\ Goes(s)
  /\ \/ /\ answer[s] = "expired"
        /\ Ends(s)
        /\ view' = Page("expired", FALSE, NoJob)
        /\ UNCHANGED active
     \/ /\ answer[s] = "fast"
        /\ Ends(s)
        /\ active' = NoJob
        /\ view' = [stage |-> "completed", busy |-> FALSE, handle |-> view.handle,
                    result |-> s, sent |-> view.sent]
     \/ /\ answer[s] = "queued"
        /\ Continues(s)
        /\ active' = s
        /\ view' = Page("processing", TRUE, s)
  /\ Overtakes(s)
  /\ UNCHANGED Untouched

\* An answer that is not an error goes through throwIfCancelled.
AnswerUnwanted(s) ==
  /\ task[s] \in {"uploading", "asking"}
  /\ answer[s] \notin {"none", "refused", "missing"}
  /\ ThrowCancelled(s)
  /\ Overtakes(s)
  /\ UNCHANGED Untouched

\* The delay of _poll is over.
PollAgain(s) ==
  /\ task[s] = "waiting"
  /\ IF IsCancelled(s)
       THEN /\ Ends(s)
            /\ Shows("cancelled")
            /\ Overtakes(s)
       ELSE /\ task' = [task EXCEPT ![s] = "asking"]
            /\ UNCHANGED <<answer, current, view, active, lost>>
  /\ UNCHANGED Untouched

\* The server never answers "failed" or "cancelled": it deletes such rows in
\* the transaction that marks them.
StatusAnswered(s) ==
  /\ task[s] = "asking"
  /\ Goes(s)
  /\ \/ /\ answer[s] = "processing"
        /\ Continues(s)
        /\ view' = Page("processing", TRUE, view.handle)
        /\ UNCHANGED active
     \/ /\ answer[s] \in {"email_pending", "email_sending"}
        /\ Continues(s)
        /\ view' = Page("sendingEmail", TRUE, view.handle)
        /\ UNCHANGED active
     \/ /\ answer[s] = "awaiting_email"
        /\ Ends(s)
        /\ view' = Page("awaitingEmail", FALSE, view.handle)
        /\ UNCHANGED active
     \/ /\ answer[s] = "expired"
        /\ Ends(s)
        /\ Shows("expired")
  /\ Overtakes(s)
  /\ UNCHANGED Untouched

\* A 404 ends the poll before anyone asks whether the scan was cancelled.
StatusMissing(s) ==
  /\ task[s] = "asking"
  /\ answer[s] = "missing"
  /\ Ends(s)
  /\ Shows("expired")
  /\ Overtakes(s)
  /\ UNCHANGED Untouched

\* Both generic handlers: a cancelled scan ends in silence.
CallFails(s) ==
  /\ Ends(s)
  /\ IF IsCancelled(s) THEN UNCHANGED <<view, active>> ELSE Shows("failed")
  /\ UNCHANGED Untouched

Overtaken(s) == IF IsCancelled(s) THEN {} ELSE {view.handle} \ {s, NoJob}

UploadRefused(s) ==
  /\ task[s] = "uploading"
  /\ answer[s] = "refused"
  /\ CallFails(s)
  /\ Loses(Overtaken(s), "dropped")

\* The connection breaks; the server may not notice.
RequestFails(s) ==
  /\ task[s] \in {"uploading", "asking"}
  /\ CallFails(s)
  /\ Loses({s} \cup Overtaken(s), "dropped")

----------------------------------------------------------------------------
(* sendEmail().                                                            *)

SendEmail(m) ==
  /\ view.handle # NoJob
  /\ view.stage = "awaitingEmail"
  /\ ~view.busy
  /\ mail[m] = NoMail
  /\ LET token == IF current = NoToken
                    THEN [of |-> "mail", job |-> view.handle]
                    ELSE current
     IN /\ current' = token
        /\ mail' = [mail EXCEPT ![m] =
             [job |-> view.handle, token |-> token, phase |-> "sent"]]
  /\ view' = Page("sendingEmail", TRUE, view.handle)
  /\ UNCHANGED <<active, cancelled, picking, task, serving, answer, cancels, lost,
                 job, late>>

Sent ==
  /\ active' = NoJob
  /\ view' = [stage |-> "completed", busy |-> FALSE, handle |-> NoJob,
              result |-> view.result, sent |-> TRUE]

MailUntouched ==
  <<current, cancelled, picking, task, serving, answer, cancels, job, late>>

MailAnswered(m) ==
  /\ mail[m].phase = "ok"
  /\ mail' = [mail EXCEPT ![m] = NoMail]
  /\ IF mail[m].token \in cancelled
       THEN UNCHANGED <<view, active, lost>>
       ELSE Sent /\ Overtakes(mail[m].job)
  /\ UNCHANGED MailUntouched

\* A 404 is taken for a delivery, and not checked against the token.
MailMissing(m) ==
  /\ mail[m].phase = "missing"
  /\ mail' = [mail EXCEPT ![m] = NoMail]
  /\ Sent
  /\ Overtakes(mail[m].job)
  /\ UNCHANGED MailUntouched

\* Mutation: an error that is no answer of the server has no handler.
AskAddressNever == UNCHANGED view

AskAddressAgain ==
  view' = Page("awaitingEmail", FALSE, view.handle)

\* Nor is another error.
MailFails(m) ==
  /\ mail[m].phase \in {"sent", "ok", "missing"}
  /\ mail' = [mail EXCEPT ![m] =
       IF mail[m].phase = "sent" THEN In(m, "abandoned") ELSE NoMail]
  /\ AskAddressAgain
  /\ Overtakes(mail[m].job)
  /\ UNCHANGED <<active, MailUntouched>>

----------------------------------------------------------------------------
(* The routes.                                                             *)

Present(s) == job[s] \in Queued

ClientUntouched == <<page, cancels, mail, lost>>

\* Every answer that is not 200 or 202, and every error of the route.
RefuseUpload(s) ==
  /\ serving[s] \in {"received", "fast"}
  /\ Loses(IF serving[s] = "fast" THEN {s} ELSE {}, "dropped")
  /\ serving' = [serving EXCEPT ![s] = "idle"]
  /\ answer' = [answer EXCEPT ![s] = IF task[s] = "uploading" THEN "refused" ELSE @]
  /\ UNCHANGED <<page, cancels, mail, job, late>>

CreateAnalysisJob(s) ==
  /\ serving[s] = "received"
  /\ serving' = [serving EXCEPT ![s] = "fast"]
  /\ job' = [job EXCEPT ![s] = "processing"]
  /\ UNCHANGED <<ClientUntouched, answer, late>>

Reply(s, what) ==
  /\ serving' = [serving EXCEPT ![s] = "idle"]
  /\ answer' = [answer EXCEPT ![s] = IF task[s] = "uploading" THEN what ELSE @]

\* waitForFastResult: the report is deleted when it is read.
FastReport(s) ==
  /\ serving[s] = "fast"
  /\ job[s] = "awaiting_email"
  /\ job' = [job EXCEPT ![s] = "gone"]
  /\ Reply(s, "fast")
  /\ UNCHANGED <<ClientUntouched, late>>

FastTerminal(s) ==
  /\ serving[s] = "fast"
  /\ Present(s)
  /\ s \in late
  /\ job' = [job EXCEPT ![s] = "gone"]
  /\ Reply(s, "expired")
  /\ UNCHANGED <<ClientUntouched, late>>

\* No row any more, or no report at the deadline: both answer 202.
FastQueued(s) ==
  /\ serving[s] = "fast"
  /\ job[s] # "awaiting_email"
  /\ Reply(s, "queued")
  /\ UNCHANGED <<ClientUntouched, job, late>>

ServeStatus(s) ==
  /\ task[s] = "asking"
  /\ answer[s] = "none"
  /\ answer' = [answer EXCEPT ![s] =
       IF ~Present(s) THEN "missing"
       ELSE IF s \in late THEN "expired" ELSE job[s]]
  /\ job' = IF Present(s) /\ s \in late THEN [job EXCEPT ![s] = "gone"] ELSE job
  /\ UNCHANGED <<ClientUntouched, serving, late>>

\* attachEmail; an abandoned request may reach the server all the same.
ServeEmail(m) ==
  /\ mail[m].phase \in {"sent", "abandoned"}
  /\ LET s == mail[m].job
         accepted == job[s] = "awaiting_email" /\ s \notin late
     IN /\ job' = IF accepted THEN [job EXCEPT ![s] = "email_pending"] ELSE job
        /\ mail' = [mail EXCEPT ![m] =
             IF mail[m].phase = "abandoned" THEN NoMail
             ELSE In(m, IF accepted THEN "ok" ELSE "missing")]
  /\ UNCHANGED <<page, cancels, lost, serving, answer, late>>

DropEmail(m) ==
  /\ mail[m].phase = "abandoned"
  /\ mail' = [mail EXCEPT ![m] = NoMail]
  /\ UNCHANGED <<page, cancels, lost, serving, answer, job, late>>

\* cancelJob finds nothing once the report is being sent.
ServeCancel(s) ==
  /\ s \in cancels
  /\ cancels' = cancels \ {s}
  /\ job' = IF job[s] \in Queued \ {"email_sending"}
              THEN [job EXCEPT ![s] = "gone"] ELSE job
  /\ UNCHANGED <<page, mail, lost, serving, answer, late>>

\* catchError((_) {})
CancelFails(s) ==
  /\ s \in cancels
  /\ cancels' = cancels \ {s}
  /\ Loses({s}, "dropped")
  /\ UNCHANGED <<page, mail, serving, answer, job, late>>

----------------------------------------------------------------------------
(* What the worker and the sweep do to a job meanwhile: WorkerAsSeen of     *)
(* AnalysisJobs says that they do no more.                                 *)

Work(s) ==
  /\ \E status \in SeenStatuses :
       /\ <<job[s], status>> \in WorkerMoves
       /\ job' = [job EXCEPT ![s] = status]
  /\ UNCHANGED <<page, net, late>>

Lapse(s) ==
  /\ Present(s)
  /\ s \notin late
  /\ late' = late \cup {s}
  /\ UNCHANGED <<page, net, job>>

Sweep(s) ==
  /\ Present(s)
  /\ s \in late
  /\ job' = [job EXCEPT ![s] = "gone"]
  /\ UNCHANGED <<page, net, late>>

----------------------------------------------------------------------------

Visitor ==
  \/ Pick \/ PickNothing \/ PickInVain
  \/ Cancel \/ Reset \/ Dispose
  \/ \E s \in Scans : Analyze(s)
  \/ \E m \in Mails : SendEmail(m)

Resumes(s) ==
  UploadAnswered(s) \/ AnswerUnwanted(s) \/ PollAgain(s) \/ StatusAnswered(s)
    \/ StatusMissing(s) \/ UploadRefused(s)

MailResumes(m) == MailAnswered(m) \/ MailMissing(m)

ServeUpload(s) ==
  RefuseUpload(s) \/ CreateAnalysisJob(s) \/ FastReport(s) \/ FastTerminal(s)
    \/ FastQueued(s)

Next ==
  \/ Visitor
  \/ \E s \in Scans :
       Resumes(s) \/ RequestFails(s) \/ ServeUpload(s) \/ ServeStatus(s)
         \/ ServeCancel(s) \/ CancelFails(s) \/ Work(s) \/ Lapse(s) \/ Sweep(s)
  \/ \E m \in Mails : MailResumes(m) \/ MailFails(m) \/ ServeEmail(m) \/ DropEmail(m)

\* Timers and awaited calls come back, the server answers what reaches it, and
\* the TTL and the sweep go on.  Nothing is assumed of the visitor or the worker.
\* The steps of a disjunction here wait for one another.
Fairness ==
  /\ \A s \in Scans :
       /\ WF_vars(Resumes(s) \/ ServeUpload(s) \/ ServeStatus(s))
       /\ WF_vars(Lapse(s) \/ Sweep(s))
  /\ \A m \in Mails : WF_vars(MailResumes(m) \/ ServeEmail(m))

Spec == Init /\ [][Next]_vars

FairSpec == Spec /\ Fairness

----------------------------------------------------------------------------
(* Properties.                                                             *)

\* Every variable has its type (ScanState, and the fields of the view model).
ScanTypeOK ==
  /\ view \in View
  /\ active \in Scans \cup {NoJob}
  /\ current \in Token \cup {NoToken}
  /\ cancelled \subseteq Token
  /\ task \in [Scans -> {"new", "uploading", "waiting", "asking", "ended"}]
  /\ serving \in [Scans -> {"idle", "received", "fast"}]
  /\ answer \in [Scans -> Answers]
  /\ job \in [Scans -> SeenStatuses]
  /\ late \subseteq Scans
  /\ mail \in [Mails -> Call]
  /\ cancels \subseteq Scans
  /\ picking \in BOOLEAN
  /\ lost \subseteq Scans \X {"unheard", "dropped"}

\* A cancelled scan never puts its handle or its report on the page again,
\* whichever of its answers is still on the way (throwIfCancelled).
CancelledIsSilent ==
  \A t \in cancelled : view.handle # t.job /\ (t.of = "scan" => view.result # t.job)

\* The page can still end the job of s, or is about to learn its handle.
InReach(s) ==
  \/ view.handle = s
  \/ s \in cancels
  \/ task[s] = "uploading"

Lost(s, reasons) == \E why \in reasons : <<s, why>> \in lost

\* A job that nobody has ended stays within reach of its page until its TTL is
\* over, however scans overlap.  Only these take it away: its scan is stopped
\* before the page knows the handle, a request for it fails, and another call
\* takes the page while it shows the handle or waits for it.
JobsInReach ==
  \A s \in Scans \ late :
    job[s] \in {"processing", "awaiting_email"} /\ ~InReach(s)
      => Lost(s, {"unheard", "dropped"})

\* What the page says of a cancelled scan, "The temporary job and local data have
\* been cleared." (public_pages.dart:738; docs/Modification_Request_1.md:294 has
\* the purge run "When the user cancels."): once its upload is over, its job has
\* ended or the request to end it is on its way, unless a request failed or
\* another scan was in between.  A scan cancelled during its upload is told its
\* handle afterwards, and drops it.
CancelPurges ==
  view.stage = "cancelled" =>
    \A s \in Scans \ late :
      /\ ScanToken(s) \in cancelled
      /\ task[s] = "ended"
      /\ serving[s] = "idle"
      /\ ~Lost(s, {"dropped"})
     => job[s] \notin {"processing", "awaiting_email"} \/ s \in cancels

\* Why it never does: a handle is on the page only once the upload of its scan
\* is over, a report only once all of it is, and a token is in use only while
\* its scan runs, or for an address given after the upload.
ScanInv ==
  /\ ScanTypeOK
  /\ CancelledIsSilent
  /\ \A s \in Scans :
       /\ view.handle = s => task[s] \notin {"new", "uploading"}
       /\ view.result = s => task[s] = "ended"
       /\ current = ScanToken(s) => task[s] \in {"uploading", "waiting", "asking"}
  /\ \A t \in cancelled \cup {current} :
       t.of = "mail" => task[t.job] \notin {"new", "uploading"}

\* The page never stays busy: every scan and every email request gives the
\* page back, whatever was lost, cancelled or started meanwhile.
BusyEnds == view.busy ~> ~view.busy
============================================================================
