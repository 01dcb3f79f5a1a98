-------------------------- MODULE ScanView_proofs --------------------------
(***************************************************************************)
(* Proofs about ScanView for any number of scans and email requests.       *)
(***************************************************************************)
EXTENDS ScanView, TLAPS

\* Tokens of the three kinds differ.
LEMMA Tokens ==
  /\ \A s \in Scans : ScanToken(s) \in Token /\ ScanToken(s).of = "scan"
                        /\ ScanToken(s).job = s
  /\ NoToken.of = "none" /\ NoToken \notin Token
  /\ \A t \in Token : t.job \in Scans /\ t.job # NoJob
  /\ \A t \in Token : t.of = "scan" => t = ScanToken(t.job)
BY ScanAssumption DEF ScanToken, Token, NoToken

\* The initial state satisfies the invariant.
LEMMA ScanInit == Init => ScanInv
<1> SUFFICES ASSUME Init PROVE ScanInv
  OBVIOUS
<1>1. ScanTypeOK
  BY DEF Init, ScanTypeOK, View, Call, Fresh, NoMail, Token, NoToken, Stages, Answers, SeenStatuses, Queued
<1>2. \A s \in Scans : ScanToken(s) # NoToken
  BY Tokens
<1>3. QED
  BY <1>1, <1>2, Tokens, ScanAssumption
     DEF Init, ScanInv, CancelledIsSilent, Fresh

(***************************************************************************)
(* Types.                                                                  *)

USE DEF page, net

\* What the page can show and what a call of sendEmail can be.
LEMMA Records ==
  ASSUME ScanTypeOK
  PROVE  /\ Fresh \in View /\ NoMail \in Call
         /\ view.handle \in Scans \cup {NoJob}
         /\ \A r \in Scans :
              [stage |-> "completed", busy |-> FALSE, handle |-> view.handle,
               result |-> r, sent |-> view.sent] \in View
         /\ Sent => view' \in View /\ active' = NoJob
         /\ \A stage \in Stages, busy \in BOOLEAN, handle \in Scans \cup {NoJob} :
              Page(stage, busy, handle) \in View
         /\ \A m \in Mails, phase \in {"free", "sent", "abandoned", "ok", "missing"} :
              In(m, phase) \in Call
<1>1. Sent => view' \in View /\ active' = NoJob
  BY DEF ScanTypeOK, View, Sent, Stages
<1>2. QED
  BY <1>1 DEF ScanTypeOK, View, Call, Fresh, NoMail, Page, In, Stages

\* What a return of analyze(), or its next wait, does to its own variables.
LEMMA Returns ==
  ASSUME ScanTypeOK, NEW s \in Scans, Ends(s) \/ Continues(s)
  PROVE  /\ task' \in [Scans -> {"new", "uploading", "waiting", "asking", "ended"}]
         /\ answer' \in [Scans -> Answers]
         /\ current' \in Token \cup {NoToken}
BY Tokens DEF ScanTypeOK, Ends, Continues, Answers

\* What another call takes from the page is a job with its scan.
LEMMA Losses ==
  ASSUME ScanTypeOK, NEW s
  PROVE  /\ Overtakes(s) => lost' \subseteq Scans \X {"unheard", "dropped"}
         /\ Loses(Overtaken(s), "dropped") =>
              lost' \subseteq Scans \X {"unheard", "dropped"}
         /\ Overtaken(s) \subseteq Scans
<1>1. /\ lost \subseteq Scans \X {"unheard", "dropped"}
      /\ view.handle \in Scans \cup {NoJob}
  BY DEF ScanTypeOK, View
<1>2. {view.handle} \ {s, NoJob} \subseteq Scans /\ Overtaken(s) \subseteq Scans
  BY <1>1 DEF Overtaken
<1>3. QED
  BY <1>1, <1>2 DEF Overtakes, Loses

\* The types of what a call of analyze() that goes on leaves behind.
LEMMA GoesOn ==
  ASSUME ScanTypeOK, NEW s \in Scans, Ends(s) \/ Continues(s), UNCHANGED Untouched,
         view' \in View, active' \in Scans \cup {NoJob},
         lost' \subseteq Scans \X {"unheard", "dropped"}
  PROVE  ScanTypeOK'
<1>1. /\ task' \in [Scans -> {"new", "uploading", "waiting", "asking", "ended"}]
      /\ answer' \in [Scans -> Answers]
      /\ current' \in Token \cup {NoToken}
  BY Returns
<1>2. QED
  BY <1>1 DEF ScanTypeOK, Untouched

\* A request that fails keeps the types.
LEMMA FailTypes ==
  ASSUME ScanTypeOK, NEW s \in Scans, RequestFails(s)
  PROVE  ScanTypeOK'
<1>1. view \in View /\ active \in Scans \cup {NoJob}
  BY DEF ScanTypeOK
<1>2. view' \in View /\ active' \in Scans \cup {NoJob}
  BY <1>1, Records DEF RequestFails, CallFails, Shows, Stages
<1>3. lost' \subseteq Scans \X {"unheard", "dropped"}
  <2>1. lost \subseteq Scans \X {"unheard", "dropped"}
    BY DEF ScanTypeOK
  <2>2. Overtaken(s) \subseteq Scans
    BY Losses
  <2>3. QED
    BY <2>1, <2>2 DEF RequestFails, Loses
<1>4. Ends(s) /\ UNCHANGED Untouched
  BY DEF RequestFails, CallFails
<1>5. QED
  BY <1>2, <1>3, <1>4, GoesOn

\* So does a call of analyze() that goes on.
LEMMA ResumeTypes ==
  ASSUME ScanTypeOK, NEW s \in Scans, Resumes(s)
  PROVE  ScanTypeOK'
<1>1. /\ view \in View /\ active \in Scans \cup {NoJob}
      /\ view.handle \in Scans \cup {NoJob}
      /\ lost \subseteq Scans \X {"unheard", "dropped"}
  BY Records DEF ScanTypeOK
<1>2. view' \in View /\ active' \in Scans \cup {NoJob}
  <2>1. CASE UploadAnswered(s)
    BY <1>1, <2>1, Records DEF UploadAnswered, Stages
  <2>2. CASE StatusAnswered(s)
    BY <1>1, <2>2, Records DEF StatusAnswered, Shows, Stages
  <2>3. CASE PollAgain(s) \/ AnswerUnwanted(s) \/ StatusMissing(s) \/ UploadRefused(s)
    BY <1>1, <2>3, Records
       DEF PollAgain, AnswerUnwanted, ThrowCancelled, StatusMissing, UploadRefused, CallFails,
           Shows, Stages
  <2>4. QED
    BY <2>1, <2>2, <2>3 DEF Resumes
<1>3. lost' \subseteq Scans \X {"unheard", "dropped"}
  BY <1>1, Losses
     DEF Resumes, UploadAnswered, AnswerUnwanted, PollAgain, StatusAnswered, StatusMissing,
         UploadRefused
<1>4. CASE Ends(s) \/ Continues(s)
  <2>1. UNCHANGED Untouched
    BY DEF Resumes, UploadAnswered, AnswerUnwanted, PollAgain, StatusAnswered, StatusMissing,
       UploadRefused, CallFails
  <2>2. QED
    BY <1>2, <1>3, <1>4, <2>1, GoesOn
<1>5. CASE /\ task' = [task EXCEPT ![s] = "asking"]
           /\ UNCHANGED <<answer, current, view, active, lost>> /\ UNCHANGED Untouched
  BY <1>5 DEF ScanTypeOK, Untouched
<1>6. QED
  BY <1>4, <1>5
     DEF Resumes, UploadAnswered, AnswerUnwanted, PollAgain, StatusAnswered, StatusMissing,
         UploadRefused, CallFails, ThrowCancelled

\* Every step keeps the types.
LEMMA ScanTypes == ScanTypeOK /\ [Next]_vars => ScanTypeOK'
<1> SUFFICES ASSUME ScanTypeOK, [Next]_vars PROVE ScanTypeOK'
  OBVIOUS
<1> USE DEF ScanTypeOK, SeenStatuses, Queued
<1>2. CASE Pick \/ PickNothing \/ PickInVain
  BY Records, <1>2 DEF Pick, PickNothing, PickInVain, Stages
<1>3. CASE Cancel
  BY Records, Tokens, <1>3 DEF Cancel, Flagged, Ask, Unheard, Loses, Stages
<1>4. CASE Reset
  BY Records, Tokens, <1>4 DEF Reset, Flagged, Ask, Unheard, Loses, View, Stages, Answers
<1>5. CASE Dispose
  <2>1. /\ task' \in [Scans -> {"new", "uploading", "waiting", "asking", "ended"}]
        /\ answer' \in [Scans -> Answers]
    BY <1>5 DEF Dispose, Answers
  <2>2. mail' \in [Mails -> Call]
    BY <1>5, Records DEF Dispose
  <2>3. view' \in View /\ current' = NoToken /\ active' = NoJob
    BY <1>5, Records DEF Dispose
  <2>4. /\ cancelled' \subseteq Token /\ cancels' \subseteq Scans
        /\ lost' \subseteq Scans \X {"unheard", "dropped"}
    BY <1>5 DEF Dispose, Flagged, Ask, Unheard, Loses
  <2>5. QED
    BY <1>5, <2>1, <2>2, <2>3, <2>4 DEF Dispose
<1>6. ASSUME NEW s \in Scans, Analyze(s) PROVE ScanTypeOK'
  BY Tokens, <1>6 DEF Analyze, Dropped, Loses, View, Stages
<1>7. ASSUME NEW s \in Scans, Resumes(s) PROVE ScanTypeOK'
  BY <1>7, ResumeTypes
<1>13. ASSUME NEW s \in Scans, RequestFails(s) PROVE ScanTypeOK'
  BY <1>13, FailTypes
<1>14. ASSUME NEW s \in Scans, RefuseUpload(s) PROVE ScanTypeOK'
  BY <1>14 DEF RefuseUpload, Loses, Answers
<1>15. ASSUME NEW s \in Scans, CreateAnalysisJob(s) PROVE ScanTypeOK'
  BY <1>15 DEF CreateAnalysisJob, ClientUntouched
<1>16. ASSUME NEW s \in Scans, FastReport(s) PROVE ScanTypeOK'
  BY <1>16 DEF FastReport, Reply, ClientUntouched, Answers
<1>17. ASSUME NEW s \in Scans, FastTerminal(s) PROVE ScanTypeOK'
  BY <1>17 DEF FastTerminal, Reply, ClientUntouched, Answers
<1>18. ASSUME NEW s \in Scans, FastQueued(s) PROVE ScanTypeOK'
  BY <1>18 DEF FastQueued, Reply, ClientUntouched, Answers
<1>19. ASSUME NEW s \in Scans, ServeStatus(s) PROVE ScanTypeOK'
  BY <1>19 DEF ServeStatus, ClientUntouched, Present, Answers
<1>20. ASSUME NEW s \in Scans, ServeCancel(s) PROVE ScanTypeOK'
  BY <1>20 DEF ServeCancel
<1>21. ASSUME NEW s \in Scans, CancelFails(s) PROVE ScanTypeOK'
  BY <1>21 DEF CancelFails, Loses
<1>22. ASSUME NEW s \in Scans, Work(s) PROVE ScanTypeOK'
  BY <1>22 DEF Work, WorkerMoves
<1>23. ASSUME NEW s \in Scans, Lapse(s) PROVE ScanTypeOK'
  BY <1>23 DEF Lapse, Present
<1>24. ASSUME NEW s \in Scans, Sweep(s) PROVE ScanTypeOK'
  BY <1>24 DEF Sweep, Present
<1>25. ASSUME NEW m \in Mails, SendEmail(m) PROVE ScanTypeOK'
  <2>1. view.handle \in Scans
    BY <1>25, Records DEF SendEmail
  <2>2. [of |-> "mail", job |-> view.handle] \in Token
    BY <2>1 DEF Token
  <2>3. current' \in Token \cup {NoToken}
    BY <1>25, <2>2 DEF SendEmail
  <2>4. mail' \in [Mails -> Call]
    BY <1>25, <2>1, <2>2 DEF SendEmail, Call
  <2>5. view' \in View
    BY <1>25, <2>1, Records DEF SendEmail, Stages
  <2>6. QED
    BY <1>25, <2>3, <2>4, <2>5 DEF SendEmail
<1>26. ASSUME NEW m \in Mails, MailAnswered(m) PROVE ScanTypeOK'
  BY Records, <1>26 DEF MailAnswered, MailUntouched, Overtakes, Loses
<1>27. ASSUME NEW m \in Mails, MailMissing(m) PROVE ScanTypeOK'
  BY Records, <1>27 DEF MailMissing, MailUntouched, Overtakes, Loses
<1>28. ASSUME NEW m \in Mails, MailFails(m) PROVE ScanTypeOK'
  BY Records, <1>28 DEF MailFails, MailUntouched, AskAddressAgain, Overtakes, Loses, View, Stages
<1>29. ASSUME NEW m \in Mails, ServeEmail(m) PROVE ScanTypeOK'
  BY Records, <1>29 DEF ServeEmail
<1>30. ASSUME NEW m \in Mails, DropEmail(m) PROVE ScanTypeOK'
  BY Records, <1>30 DEF DropEmail
<1>31. CASE UNCHANGED vars
  BY <1>31 DEF vars
<1>32. QED
  BY <1>2, <1>3, <1>4, <1>5, <1>6, <1>7, <1>13, <1>14, <1>15, <1>16, <1>17, <1>18, <1>19, <1>20, <1>21, <1>22, <1>23, <1>24, <1>25, <1>26, <1>27, <1>28, <1>29, <1>30, <1>31
     DEF Next, Visitor, MailResumes, ServeUpload

(***************************************************************************)
(* The invariant.                                                          *)

\* A visitor who stops a scan sets the flag of the token in use and takes the
\* handle off the page.
LEMMA StopStep ==
  ASSUME ScanInv, ScanTypeOK', cancelled' = Flagged, view'.handle = NoJob,
         \/ view'.result = view.result /\ current' = current /\ task' = task
         \/ /\ view'.result = NoJob /\ current' = NoToken
            /\ \A s \in Scans : task'[s] = task[s] \/ (task[s] # "new" /\ task'[s] = "ended")
  PROVE  ScanInv'
<1>1. \A t \in cancelled' : t \in Token /\ t \in cancelled \cup {current}
  BY DEF Flagged, ScanInv, ScanTypeOK
<1>2. CancelledIsSilent'
  <2>1. SUFFICES ASSUME NEW t \in cancelled' PROVE (t.of = "scan" => view'.result # t.job)
    BY <1>1, Tokens, ScanAssumption DEF CancelledIsSilent
  <2>2. CASE t \in cancelled
    BY <2>2, <1>1, Tokens DEF ScanInv, CancelledIsSilent
  <2>3. CASE t = current
    <3>1. SUFFICES ASSUME t.of = "scan", view'.result = t.job PROVE FALSE
      OBVIOUS
    <3>2. t = ScanToken(t.job) /\ t.job \in Scans /\ t.job # NoJob
      BY <1>1, <3>1, Tokens
    <3>3. view.result = t.job
      BY <3>1, <3>2
    <3>4. QED
      BY <2>3, <3>2, <3>3 DEF ScanInv
  <2>4. QED
    BY <1>1, <2>2, <2>3
<1>3. \A s \in Scans :
        /\ view'.handle = s => task'[s] \notin {"new", "uploading"}
        /\ view'.result = s => task'[s] = "ended"
        /\ current' = ScanToken(s) => task'[s] \in {"uploading", "waiting", "asking"}
  BY Tokens, ScanAssumption DEF ScanInv
<1>4. \A t \in cancelled' \cup {current'} :
        t.of = "mail" => task'[t.job] \notin {"new", "uploading"}
  <2>1. SUFFICES ASSUME NEW t \in cancelled' \cup {current'}, t.of = "mail"
                 PROVE task'[t.job] \notin {"new", "uploading"}
    OBVIOUS
  <2>2. t \in cancelled \cup {current} /\ t \in Token
    BY <1>1, <2>1, Tokens DEF ScanInv, ScanTypeOK
  <2>3. QED
    BY <2>1, <2>2, Tokens DEF ScanInv
<1>5. QED
  BY <1>2, <1>3, <1>4 DEF ScanInv

\* analyze() returns, and shows its own report or none.
LEMMA EndStep ==
  ASSUME ScanInv, ScanTypeOK', NEW s \in Scans, Ends(s),
         task[s] \in {"uploading", "waiting", "asking"}, UNCHANGED cancelled,
         view'.handle \in {view.handle, NoJob},
         view'.result = view.result \/ (view'.result = s /\ ~IsCancelled(s))
  PROVE  ScanInv'
<1>1. \A r \in Scans : task'[r] = IF r = s THEN "ended" ELSE task[r]
  BY DEF Ends, ScanInv, ScanTypeOK
<1>2. CancelledIsSilent'
  BY Tokens, ScanAssumption DEF ScanInv, ScanTypeOK, CancelledIsSilent, IsCancelled
<1>3. \A r \in Scans :
        /\ view'.handle = r => task'[r] \notin {"new", "uploading"}
        /\ view'.result = r => task'[r] = "ended"
        /\ current' = ScanToken(r) => task'[r] \in {"uploading", "waiting", "asking"}
  BY <1>1, Tokens, ScanAssumption DEF ScanInv, Ends
<1>4. \A t \in cancelled' \cup {current'} :
        t.of = "mail" => task'[t.job] \notin {"new", "uploading"}
  <2>1. SUFFICES ASSUME NEW t \in cancelled' \cup {current'}, t.of = "mail"
                 PROVE task'[t.job] \notin {"new", "uploading"}
    OBVIOUS
  <2>2. t \in cancelled \cup {current} /\ t \in Token
    BY <2>1, Tokens DEF ScanInv, ScanTypeOK, Ends
  <2>3. QED
    BY <1>1, <2>1, <2>2, Tokens DEF ScanInv
<1>5. QED
  BY <1>2, <1>3, <1>4 DEF ScanInv

\* analyze() waits for its next turn, and may have learnt its handle.
LEMMA ContinueStep ==
  ASSUME ScanInv, ScanTypeOK', NEW s \in Scans, UNCHANGED <<current, cancelled>>,
         NEW w \in {"waiting", "asking"}, task' = [task EXCEPT ![s] = w],
         task[s] \in {"uploading", "waiting", "asking"}, view'.result = view.result,
         \/ view'.handle = view.handle
         \/ view'.handle = s /\ task[s] = "uploading" /\ ~IsCancelled(s)
  PROVE  ScanInv'
<1>1. \A r \in Scans : task'[r] = IF r = s THEN w ELSE task[r]
  BY DEF ScanInv, ScanTypeOK
<1>2. CancelledIsSilent'
  <2>1. \A t \in cancelled : t.of = "scan" => view'.result # t.job
    BY DEF ScanInv, CancelledIsSilent
  <2>2. ASSUME NEW t \in cancelled PROVE view'.handle # t.job
    <3>1. t \in Token /\ t.of \in {"scan", "mail"} /\ view.handle # t.job
      BY DEF ScanInv, ScanTypeOK, CancelledIsSilent, Token
    <3>2. SUFFICES ASSUME view'.handle = s, t.job = s, task[s] = "uploading", ~IsCancelled(s)
                   PROVE FALSE
      BY <3>1
    <3>3. CASE t.of = "scan"
      BY <3>1, <3>2, <3>3, Tokens DEF IsCancelled
    <3>4. CASE t.of = "mail"
      BY <3>2, <3>4 DEF ScanInv
    <3>5. QED
      BY <3>1, <3>3, <3>4
  <2>3. cancelled' = cancelled
    OBVIOUS
  <2>4. QED
    BY <2>1, <2>2, <2>3 DEF CancelledIsSilent
<1>3. \A r \in Scans :
        /\ view'.handle = r => task'[r] \notin {"new", "uploading"}
        /\ view'.result = r => task'[r] = "ended"
        /\ current' = ScanToken(r) => task'[r] \in {"uploading", "waiting", "asking"}
  BY <1>1 DEF ScanInv
<1>4. \A t \in cancelled' \cup {current'} :
        t.of = "mail" => task'[t.job] \notin {"new", "uploading"}
  <2>1. SUFFICES ASSUME NEW t \in cancelled \cup {current}, t.of = "mail"
                 PROVE task'[t.job] \notin {"new", "uploading"}
    OBVIOUS
  <2>2. t \in Token
    BY <2>1, Tokens DEF ScanInv, ScanTypeOK
  <2>3. QED
    BY <1>1, <2>1, <2>2, Tokens DEF ScanInv
<1>5. QED
  BY <1>2, <1>3, <1>4 DEF ScanInv

\* A step that at most takes the handle off the page.
LEMMA ViewStep ==
  ASSUME ScanInv, ScanTypeOK', UNCHANGED <<current, cancelled, task>>,
         view'.handle \in {view.handle, NoJob}, view'.result = view.result
  PROVE  ScanInv'
<1>1. \A t \in cancelled : t.job # NoJob
  BY Tokens DEF ScanInv, ScanTypeOK
<1>2. QED
  BY <1>1, ScanAssumption DEF ScanInv, CancelledIsSilent

\* A scan starts with a page of its own.
LEMMA AnalyzeStep ==
  ASSUME ScanInv, ScanTypeOK', NEW s \in Scans, Analyze(s)
  PROVE  ScanInv'
<1>1. \A r \in Scans : task'[r] = IF r = s THEN "uploading" ELSE task[r]
  BY DEF Analyze, ScanInv, ScanTypeOK
<1>2. /\ view'.handle = NoJob /\ view'.result = NoJob /\ current' = ScanToken(s)
      /\ cancelled' = cancelled /\ task[s] = "new"
  BY DEF Analyze
<1>3. CancelledIsSilent'
  BY <1>2, Tokens DEF ScanInv, ScanTypeOK, CancelledIsSilent
<1>4. \A r \in Scans :
        /\ view'.handle = r => task'[r] \notin {"new", "uploading"}
        /\ view'.result = r => task'[r] = "ended"
        /\ current' = ScanToken(r) => task'[r] \in {"uploading", "waiting", "asking"}
  BY <1>1, <1>2, Tokens, ScanAssumption
<1>5. \A t \in cancelled' \cup {current'} :
        t.of = "mail" => task'[t.job] \notin {"new", "uploading"}
  <2>1. SUFFICES ASSUME NEW t \in cancelled, t.of = "mail"
                 PROVE task'[t.job] \notin {"new", "uploading"}
    BY <1>2, Tokens
  <2>2. t \in Token /\ task[t.job] \notin {"new", "uploading"}
    BY <2>1 DEF ScanInv, ScanTypeOK
  <2>3. QED
    BY <1>1, <1>2, <2>2, Tokens
<1>6. QED
  BY <1>3, <1>4, <1>5 DEF ScanInv

\* An address is given for the handle on the page.
LEMMA SendStep ==
  ASSUME ScanInv, ScanTypeOK', NEW m \in Mails, SendEmail(m)
  PROVE  ScanInv'
<1>1. /\ view'.handle = view.handle /\ view'.result = view.result
      /\ view.handle \in Scans
      /\ task' = task /\ cancelled' = cancelled
      /\ \/ current' = current
         \/ current' = [of |-> "mail", job |-> view.handle]
  BY Records DEF SendEmail, Page, ScanInv
<1>2. QED
  BY <1>1, Tokens DEF ScanInv, CancelledIsSilent

\* Every step of the specification keeps the invariant.
LEMMA ScanNext == ScanInv /\ [Next]_vars => ScanInv'
<1> SUFFICES ASSUME ScanInv, [Next]_vars PROVE ScanInv'
  OBVIOUS
<1>1. ScanTypeOK /\ ScanTypeOK'
  BY ScanTypes DEF ScanInv
<1>2. ASSUME Cancel \/ Reset \/ Dispose PROVE ScanInv'
  <2>1. Fresh.handle = NoJob /\ Fresh.result = NoJob
    BY DEF Fresh
  <2>2. CASE Cancel
    BY <1>1, <2>2, StopStep DEF Cancel, Page
  <2>3. CASE Reset
    BY <1>1, <2>1, <2>3, StopStep DEF Reset
  <2>4. CASE Dispose
    BY <1>1, <2>1, <2>4, StopStep DEF Dispose, ScanTypeOK
  <2>5. QED
    BY <1>2, <2>2, <2>3, <2>4
<1>3. ASSUME NEW s \in Scans, Analyze(s) PROVE ScanInv'
  BY <1>1, <1>3, AnalyzeStep
<1>4. ASSUME NEW m \in Mails, SendEmail(m) PROVE ScanInv'
  BY <1>1, <1>4, SendStep
<1>5. ASSUME NEW s \in Scans, UploadAnswered(s) PROVE ScanInv'
  <2>1. task[s] = "uploading" /\ ~IsCancelled(s) /\ UNCHANGED cancelled
    BY <1>5 DEF UploadAnswered, Goes, Untouched
  <2>2. \/ /\ Ends(s) /\ view'.handle \in {view.handle, NoJob}
           /\ view'.result \in {view.result, s}
        \/ Continues(s) /\ view'.handle = s /\ view'.result = view.result
    BY <1>5 DEF UploadAnswered, Page
  <2>3. QED
    BY <1>1, <2>1, <2>2, EndStep, ContinueStep DEF Continues
<1>6. ASSUME NEW s \in Scans, AnswerUnwanted(s) PROVE ScanInv'
  BY <1>1, <1>6, EndStep DEF AnswerUnwanted, ThrowCancelled, Shows, Page, Untouched
<1>7. ASSUME NEW s \in Scans, PollAgain(s) PROVE ScanInv'
  <2>1. CASE IsCancelled(s)
    BY <1>1, <1>7, <2>1, EndStep DEF PollAgain, Shows, Page, Untouched
  <2>2. CASE ~IsCancelled(s)
    BY <1>1, <1>7, <2>2, ContinueStep DEF PollAgain, Untouched
  <2>3. QED
    BY <2>1, <2>2
<1>8. ASSUME NEW s \in Scans, StatusAnswered(s) PROVE ScanInv'
  <2>1. task[s] = "asking" /\ UNCHANGED cancelled
    BY <1>8 DEF StatusAnswered, Untouched
  <2>2. /\ Ends(s) \/ Continues(s)
        /\ Continues(s) => view'.handle = view.handle \/ Ends(s)
        /\ view'.handle \in {view.handle, NoJob} /\ view'.result = view.result
    BY <1>8 DEF StatusAnswered, Shows, Page
  <2>3. QED
    BY <1>1, <2>1, <2>2, EndStep, ContinueStep DEF Continues
<1>9. ASSUME NEW s \in Scans, StatusMissing(s) PROVE ScanInv'
  BY <1>1, <1>9, EndStep DEF StatusMissing, Shows, Page, Untouched
<1>10. ASSUME NEW s \in Scans, UploadRefused(s) \/ RequestFails(s) PROVE ScanInv'
  BY <1>1, <1>10, EndStep DEF UploadRefused, RequestFails, CallFails, Shows, Page, Untouched
<1>11. ASSUME NEW m \in Mails, MailAnswered(m) \/ MailMissing(m) \/ MailFails(m) PROVE ScanInv'
  BY <1>1, <1>11, ViewStep
     DEF MailAnswered, MailMissing, MailFails, Sent, AskAddressAgain, Page, MailUntouched
<1>12. ASSUME NEW s \in Scans, ServeUpload(s) \/ ServeStatus(s) PROVE ScanInv'
  BY <1>1, <1>12, ViewStep
     DEF ServeUpload, RefuseUpload, CreateAnalysisJob, FastReport, FastTerminal, FastQueued,
         ServeStatus, ClientUntouched
<1>13. ASSUME NEW s \in Scans, ServeCancel(s) \/ CancelFails(s) PROVE ScanInv'
  BY <1>1, <1>13, ViewStep DEF ServeCancel, CancelFails
<1>14. ASSUME NEW s \in Scans, Work(s) \/ Lapse(s) \/ Sweep(s) PROVE ScanInv'
  BY <1>1, <1>14, ViewStep DEF Work, Lapse, Sweep
<1>15. ASSUME NEW m \in Mails, ServeEmail(m) \/ DropEmail(m) PROVE ScanInv'
  BY <1>1, <1>15, ViewStep DEF ServeEmail, DropEmail
<1>16. CASE Pick \/ PickNothing \/ PickInVain
  BY <1>1, <1>16, ViewStep DEF Pick, PickNothing, PickInVain, Page
<1>17. CASE UNCHANGED vars
  BY <1>1, <1>17, ViewStep DEF vars
<1>18. QED
  BY <1>2, <1>3, <1>4, <1>5, <1>6, <1>7, <1>8, <1>9, <1>10, <1>11, <1>12, <1>13, <1>14,
     <1>15, <1>16, <1>17 DEF Next, Visitor, Resumes, MailResumes

\* The inductive invariant holds in every reachable state.
THEOREM ScanInvariant == Spec => []ScanInv
<1>1. QED
  BY ScanInit, ScanNext, PTL DEF Spec

\* Every variable of the page and of the routes keeps its type.
THEOREM ScanTypeCorrect == Spec => []ScanTypeOK
<1>1. ScanInv => ScanTypeOK
  BY DEF ScanInv
<1>2. QED
  BY <1>1, ScanInvariant, PTL

\* No answer that arrives after a cancellation puts a handle or a report of the
\* cancelled scan on the page, in any interleaving of any number of scans.
THEOREM SilentAfterCancel == Spec => []CancelledIsSilent
<1>1. ScanInv => CancelledIsSilent
  BY DEF ScanInv
<1>2. QED
  BY <1>1, ScanInvariant, PTL

(***************************************************************************)
(* The jobs within reach of the page.                                      *)

Running(s) == task[s] \in {"uploading", "waiting", "asking"}

InFlight(m) == mail[m].phase \in {"sent", "ok", "missing"}

Live == {"processing", "awaiting_email"}

\* Handles that the page keeps, or that a cancellation on its way names.
Named == cancels \cup {view.handle, active}

\* What the page has taken from a job for good.
Forfeit(s) == Lost(s, {"unheard", "dropped"})

\* The upload route and the answers fit what has become of the job: an answer
\* that ends the scan is given only about a job that is over, and a handle is on
\* the page, or in a cancellation, only once the route has left the job.
RouteAt(s) ==
  /\ task[s] = "new" =>
       /\ job[s] = "none" /\ serving[s] = "idle" /\ answer[s] = "none"
       /\ s \notin cancels \cup {active} /\ \A t \in cancelled : t.job # s
  /\ serving[s] # "idle" => answer[s] = "none" /\ task[s] \in {"uploading", "ended"}
  /\ serving[s] = "received" => job[s] = "none"
  /\ answer[s] \in {"fast", "expired", "missing"} => job[s] \in {"none", "gone"}
  /\ answer[s] = "refused" => job[s] \in {"none", "gone"} \/ Forfeit(s)
  /\ answer[s] = "awaiting_email" => job[s] # "processing"
  /\ s \in Named => serving[s] = "idle"

Routes == \A s \in Scans : RouteAt(s)

\* As long as a job is not forfeit, its upload holds the token in use, its
\* handle on the page is the active one, and its address is asked for, and
\* given, only once its report is there.
PageAt(s) ==
  /\ task[s] = "uploading" => current = ScanToken(s) /\ ~IsCancelled(s)
  /\ view.handle = s => active = s /\ (view.stage = "awaitingEmail" => job[s] # "processing")
  /\ \A m \in Mails : InFlight(m) /\ mail[m].job = s =>
       /\ task[s] # "new" /\ serving[s] = "idle" /\ job[s] # "processing"
       /\ mail[m].phase # "sent" => job[s] # "awaiting_email" \/ s \in late

Pages == \A s \in Scans : ~Forfeit(s) => PageAt(s)

\* A job that is there, or about to be stored, and that nobody has lost.
Wanted(s) == (job[s] \in Live \/ serving[s] = "received") /\ s \notin late /\ ~Forfeit(s)

Reach == \A s \in Scans : Wanted(s) => InReach(s)

\* What is lost stays lost.
LEMMA LostStays ==
  ASSUME [Next]_vars
  PROVE  lost \subseteq lost' /\ \A s \in Scans : Forfeit(s) => Forfeit(s)'
<1>1. ASSUME NEW u \in Scans, Resumes(u) \/ RequestFails(u) PROVE lost \subseteq lost'
  BY <1>1 DEF Resumes, UploadAnswered, AnswerUnwanted, PollAgain, StatusAnswered, StatusMissing,
       UploadRefused, RequestFails, Overtakes, Loses
<1>2. ASSUME NEW u \in Scans,
             \/ ServeUpload(u) \/ ServeStatus(u) \/ ServeCancel(u) \/ CancelFails(u)
             \/ Work(u) \/ Lapse(u) \/ Sweep(u) \/ Analyze(u)
      PROVE  lost \subseteq lost'
  BY <1>2 DEF ServeUpload, RefuseUpload, CreateAnalysisJob, FastReport, FastTerminal, FastQueued,
       ServeStatus, ClientUntouched, ServeCancel, CancelFails, Work, Lapse, Sweep, Analyze, Loses
<1>3. ASSUME NEW m \in Mails,
             SendEmail(m) \/ MailResumes(m) \/ MailFails(m) \/ ServeEmail(m) \/ DropEmail(m)
      PROVE  lost \subseteq lost'
  BY <1>3 DEF SendEmail, MailResumes, MailAnswered, MailMissing, MailFails, ServeEmail, DropEmail,
       Overtakes, Loses, MailUntouched
<1>4. ASSUME Pick \/ PickNothing \/ PickInVain \/ Cancel \/ Reset \/ Dispose
      PROVE  lost \subseteq lost'
  BY <1>4 DEF Pick, PickNothing, PickInVain, Cancel, Reset, Dispose, Loses
<1>5. lost \subseteq lost'
  <2>1. CASE UNCHANGED vars
    BY <2>1 DEF vars
  <2>2. QED
    BY <1>1, <1>2, <1>3, <1>4, <2>1 DEF Next, Visitor
<1>6. QED
  BY <1>5 DEF Forfeit, Lost

\* What a visitor who stops a scan leaves of the routes: only tokens of scans
\* that have started are cancelled.
LEMMA RoutesStop ==
  ASSUME ScanInv, Routes, Cancel \/ Reset \/ Dispose,
         \A s \in Scans : Forfeit(s) => Forfeit(s)'
  PROVE  Routes'
<1> SUFFICES ASSUME NEW s \in Scans PROVE RouteAt(s)'
  BY DEF Routes
<1>1. RouteAt(s) /\ Fresh.handle = NoJob
  BY DEF Routes, Fresh
<1>2. /\ UNCHANGED <<serving, job, late>> /\ Named' \subseteq Named \cup {NoJob}
      /\ cancels' \subseteq cancels \cup {view.handle, active} /\ active' = NoJob
      /\ cancelled' = Flagged
      /\ task'[s] = task[s] \/ (task[s] # "new" /\ task'[s] = "ended")
      /\ answer'[s] \in {answer[s], "none"}
  BY <1>1 DEF Cancel, Reset, Dispose, Page, Ask, Named, ScanInv, ScanTypeOK
<1>3. task[s] = "new" => \A t \in cancelled' : t.job # s
  <2>1. SUFFICES ASSUME task[s] = "new", NEW t \in cancelled' PROVE t.job # s
    OBVIOUS
  <2>2. CASE t \in cancelled
    BY <1>1, <2>1, <2>2 DEF RouteAt
  <2>3. CASE t = current /\ t \in Token
    BY <2>1, <2>3, Tokens DEF ScanInv, Token
  <2>4. QED
    BY <1>2, <2>1, <2>2, <2>3 DEF Flagged, ScanInv, ScanTypeOK
<1>4. task'[s] = "new" => task[s] = "new"
  BY <1>2
<1>5. task[s] = "new" => s \notin cancels' \cup {active'}
  BY <1>1, <1>2, ScanAssumption DEF RouteAt, ScanInv
<1>6. QED
  BY <1>1, <1>2, <1>3, <1>4, <1>5, ScanAssumption DEF RouteAt

\* Nothing that concerns the scan s has changed for the worse.
LEMMA RouteStays ==
  ASSUME NEW s \in Scans, RouteAt(s), UNCHANGED cancelled, Forfeit(s) => Forfeit(s)',
         task'[s] = task[s], serving'[s] = serving[s], answer'[s] \in {answer[s], "none"},
         job'[s] = job[s] \/ (<<job[s], job'[s]>> \in WorkerMoves \cup (Queued \X {"gone"}))
           \/ <<job[s], job'[s]>> = <<"awaiting_email", "email_pending">>,
         s \in Named' => s \in Named, task[s] = "new" => s \notin cancels' \cup {active'}
  PROVE  RouteAt(s)'
BY DEF RouteAt, WorkerMoves, Queued

\* Every step keeps the routes and the jobs in step.
LEMMA RoutesNext == ScanInv /\ Routes /\ [Next]_vars => Routes'
<1> SUFFICES ASSUME ScanInv, Routes, [Next]_vars PROVE Routes'
  OBVIOUS
<1>1. ScanTypeOK
  BY DEF ScanInv
<1>0. \A s \in Scans : Forfeit(s) => Forfeit(s)'
  BY LostStays
<1>2. CASE Cancel \/ Reset \/ Dispose
  BY <1>0, <1>2, RoutesStop
<1>3. SUFFICES ASSUME NEW s \in Scans, ~(Cancel \/ Reset \/ Dispose) PROVE RouteAt(s)'
  BY <1>2 DEF Routes
<1>4. RouteAt(s) /\ (Forfeit(s) => Forfeit(s)')
  BY <1>0 DEF Routes
<1>5. ASSUME NEW u \in Scans, Analyze(u) PROVE RouteAt(s)'
  <2>1. CASE u = s
    <3>1. /\ task'[s] = "uploading" /\ serving'[s] = "received" /\ job'[s] = "none"
          /\ answer'[s] = "none" /\ s \notin Named'
      BY ScanAssumption, <1>1, <1>4, <1>5, <2>1 DEF Analyze, RouteAt, Named, ScanTypeOK
    <3>2. QED
      BY <3>1 DEF RouteAt
  <2>2. CASE u # s
    <3>1. /\ UNCHANGED <<cancelled, cancels, active, job, answer>> /\ s # view'.handle
          /\ task'[s] = task[s] /\ serving'[s] = serving[s]
      BY <1>1, <1>5, <2>2, ScanAssumption DEF Analyze, ScanTypeOK
    <3>2. QED
      BY <1>4, <3>1, RouteStays DEF Named, RouteAt
  <2>3. QED
    BY <2>1, <2>2
<1>6. ASSUME NEW u \in Scans, Ends(u) \/ Continues(u), answer[u] # "none" \/ task[u] # "uploading",
             Running(u), UNCHANGED <<cancelled, serving, job, cancels>>,
             view'.handle \in {view.handle, NoJob, u}, active' \in {active, NoJob, u}
      PROVE  RouteAt(s)'
  <2>1. CASE u = s
    <3>1. serving[s] = "idle"
      BY <1>4, <1>6, <2>1 DEF RouteAt, Running
    <3>2. task'[s] \in {"ended", "waiting"} /\ answer'[s] = "none"
      BY <1>1, <1>6, <2>1 DEF Ends, Continues, ScanTypeOK
    <3>3. QED
      BY <1>6, <3>1, <3>2 DEF RouteAt
  <2>2. CASE u # s
    <3>0. (s \in Named' => s \in Named) /\ (task[s] = "new" => s \notin cancels' \cup {active'})
      BY <1>4, <1>6, <2>2, ScanAssumption DEF Named, RouteAt
    <3>1. task'[s] = task[s] /\ answer'[s] = answer[s]
      BY <1>1, <1>6, <2>2 DEF Ends, Continues, ScanTypeOK
    <3>2. QED
      BY <1>4, <1>6, <3>0, <3>1, RouteStays
  <2>3. QED
    BY <2>1, <2>2
<1>7. ASSUME NEW u \in Scans,
             \/ UploadAnswered(u) \/ AnswerUnwanted(u) \/ StatusAnswered(u) \/ StatusMissing(u)
             \/ UploadRefused(u)
      PROVE  RouteAt(s)'
  <2>1. /\ Ends(u) \/ Continues(u)
        /\ answer[u] # "none" \/ task[u] # "uploading"
        /\ Running(u) /\ UNCHANGED <<cancelled, serving, job, cancels>>
    BY <1>7 DEF UploadAnswered, AnswerUnwanted, StatusAnswered, StatusMissing, UploadRefused,
         ThrowCancelled, CallFails, Untouched, Running
  <2>2. view'.handle \in {view.handle, NoJob, u} /\ active' \in {active, NoJob, u}
    BY <1>7 DEF UploadAnswered, AnswerUnwanted, StatusAnswered, StatusMissing, UploadRefused,
         ThrowCancelled, CallFails, Shows, Page
  <2>3. QED
    BY <1>6, <2>1, <2>2
<1>8. ASSUME NEW u \in Scans, PollAgain(u) PROVE RouteAt(s)'
  <2>1. /\ Running(u) /\ task[u] = "waiting" /\ UNCHANGED <<cancelled, serving, job, cancels>>
        /\ view'.handle \in {view.handle, NoJob} /\ active' \in {active, NoJob}
    BY <1>8 DEF PollAgain, Untouched, Running, Shows, Page
  <2>2. CASE Ends(u)
    BY <1>6, <2>1, <2>2
  <2>3. CASE task' = [task EXCEPT ![u] = "asking"] /\ UNCHANGED answer
    BY <1>1, <1>4, <2>1, <2>3, ScanAssumption DEF RouteAt, Named, ScanTypeOK
  <2>4. QED
    BY <1>8, <2>2, <2>3 DEF PollAgain
<1>9. ASSUME NEW u \in Scans, RequestFails(u) PROVE RouteAt(s)'
  <2>1. /\ UNCHANGED <<cancelled, serving, job, cancels>>
        /\ view'.handle \in {view.handle, NoJob} /\ active' \in {active, NoJob} /\ task[u] \in {"uploading", "asking"}
    BY <1>9 DEF RequestFails, CallFails, Untouched, Shows, Page
  <2>2. task'[s] = (IF u = s THEN "ended" ELSE task[s])
          /\ answer'[s] = (IF u = s THEN "none" ELSE answer[s])
    BY <1>1, <1>9 DEF RequestFails, CallFails, Ends, ScanTypeOK
  <2>3. QED
    BY <1>4, <2>1, <2>2, ScanAssumption DEF RouteAt, Named
<1>10. ASSUME NEW m \in Mails,
              SendEmail(m) \/ MailAnswered(m) \/ MailMissing(m) \/ MailFails(m) \/ DropEmail(m)
       PROVE  RouteAt(s)'
  <2>1. /\ UNCHANGED <<task, cancelled, serving, answer, job, cancels>>
        /\ view'.handle \in {view.handle, NoJob} /\ active' \in {active, NoJob}
    BY <1>10 DEF SendEmail, MailAnswered, MailMissing, MailFails, DropEmail, MailUntouched, Sent,
         AskAddressAgain, Page
  <2>2. QED
    <3>1. (s \in Named' => s \in Named) /\ (task[s] = "new" => s \notin cancels' \cup {active'})
      BY <1>4, <2>1, ScanAssumption DEF Named, RouteAt
    <3>2. QED
      BY <1>4, <2>1, <3>1, RouteStays
<1>11. ASSUME NEW m \in Mails, ServeEmail(m) PROVE RouteAt(s)'
  <2>1. /\ UNCHANGED <<view, active, task, cancelled, cancels, serving, answer>>
        /\ job'[s] = job[s] \/ (job[s] = "awaiting_email" /\ job'[s] = "email_pending")
    BY <1>1, <1>11 DEF ServeEmail, ScanTypeOK
  <2>2. QED
    BY <1>4, <2>1, RouteStays DEF Named, RouteAt
<1>12. ASSUME NEW u \in Scans,
              \/ ServeCancel(u) \/ CancelFails(u) \/ Work(u) \/ Lapse(u) \/ Sweep(u)
       PROVE  RouteAt(s)'
  <2>1. /\ UNCHANGED <<view, active, task, cancelled, serving, answer>>
        /\ cancels' \subseteq cancels
    BY <1>12 DEF ServeCancel, CancelFails, Work, Lapse, Sweep
  <2>2. job'[s] = job[s] \/ <<job[s], job'[s]>> \in WorkerMoves \cup (Queued \X {"gone"})
    BY <1>1, <1>12 DEF ServeCancel, CancelFails, Work, Lapse, Sweep, Present, ScanTypeOK
  <2>3. QED
    BY <1>4, <2>1, <2>2, RouteStays DEF Named, RouteAt
<1>13. ASSUME NEW u \in Scans, ServeUpload(u) \/ ServeStatus(u) PROVE RouteAt(s)'
  <2>1. UNCHANGED <<view, active, cancels, task, cancelled>>
    BY <1>13 DEF ServeUpload, RefuseUpload, CreateAnalysisJob, FastReport, FastTerminal,
         FastQueued, ServeStatus, ClientUntouched
  <2>2. CASE u # s
    <3>1. serving'[s] = serving[s] /\ job'[s] = job[s] /\ answer'[s] = answer[s]
      BY <1>1, <1>13, <2>2 DEF ServeUpload, RefuseUpload, CreateAnalysisJob, FastReport,
           FastTerminal, FastQueued, ServeStatus, ClientUntouched, Reply, ScanTypeOK
    <3>2. QED
      BY <1>4, <2>1, <3>1, RouteStays DEF Named, RouteAt
  <2>3. CASE u = s
    <3>1. CASE RefuseUpload(s)
      <4>1. /\ serving'[s] = "idle" /\ job'[s] = job[s]
            /\ answer'[s] = (IF task[s] = "uploading" THEN "refused" ELSE answer[s])
            /\ serving[s] = "fast" => Forfeit(s)'
            /\ serving[s] \in {"received", "fast"}
        BY <1>1, <3>1 DEF RefuseUpload, Loses, Forfeit, Lost, ScanTypeOK
      <4>2. QED
        BY <1>4, <2>1, <4>1 DEF RouteAt, Named
    <3>2. CASE CreateAnalysisJob(s)
      <4>1. /\ serving'[s] = "fast" /\ job'[s] = "processing" /\ answer'[s] = answer[s]
            /\ serving[s] = "received"
        BY <1>1, <3>2 DEF CreateAnalysisJob, ScanTypeOK
      <4>2. QED
        BY <1>4, <2>1, <4>1 DEF RouteAt, Named
    <3>3. CASE FastReport(s) \/ FastTerminal(s) \/ FastQueued(s)
      <4>1. PICK what \in {"fast", "expired", "queued"} :
              /\ Reply(s, what) /\ serving[s] = "fast"
              /\ IF what = "queued" THEN job' = job ELSE job' = [job EXCEPT ![s] = "gone"]
        BY <3>3 DEF FastReport, FastTerminal, FastQueued
      <4>2. /\ serving'[s] = "idle"
            /\ answer'[s] = (IF task[s] = "uploading" THEN what ELSE answer[s])
        BY <1>1, <4>1 DEF Reply, ScanTypeOK
      <4>3. job'[s] = (IF what = "queued" THEN job[s] ELSE "gone")
        BY <1>1, <4>1 DEF ScanTypeOK
      <4>4. QED
        BY <1>4, <2>1, <4>1, <4>2, <4>3 DEF RouteAt, Named
    <3>4. CASE ServeStatus(s)
      <4>1. task[s] = "asking" /\ serving'[s] = serving[s] /\ serving[s] = "idle"
        BY <1>4, <3>4 DEF ServeStatus, RouteAt
      <4>2. CASE ~Present(s)
        <5>1. answer'[s] = "missing" /\ job'[s] = job[s] /\ job[s] \in {"none", "gone"}
          BY <1>1, <3>4, <4>2 DEF ServeStatus, Present, ScanTypeOK, SeenStatuses
        <5>2. QED
          BY <1>4, <2>1, <4>1, <5>1 DEF RouteAt, Named
      <4>3. CASE Present(s) /\ s \in late
        <5>1. answer'[s] = "expired" /\ job'[s] = "gone"
          BY <1>1, <3>4, <4>3 DEF ServeStatus, ScanTypeOK
        <5>2. QED
          BY <1>4, <2>1, <4>1, <5>1 DEF RouteAt, Named
      <4>4. CASE Present(s) /\ s \notin late
        <5>1. answer'[s] = job[s] /\ job'[s] = job[s]
          BY <1>1, <3>4, <4>4 DEF ServeStatus, ScanTypeOK
        <5>2. QED
          BY <1>4, <2>1, <4>1, <4>4, <5>1 DEF RouteAt, Named, Present, Queued
      <4>5. QED
        BY <4>2, <4>3, <4>4
    <3>5. QED
      BY <1>13, <2>3, <3>1, <3>2, <3>3, <3>4 DEF ServeUpload
  <2>4. QED
    BY <2>2, <2>3
<1>14. CASE Pick \/ PickNothing \/ PickInVain
  <2>1. /\ UNCHANGED <<active, task, cancelled, cancels, serving, answer, job>>
        /\ view'.handle = view.handle
    BY <1>14 DEF Pick, PickNothing, PickInVain, Page
  <2>2. QED
    BY <1>4, <2>1, RouteStays DEF Named, RouteAt
<1>15. CASE UNCHANGED vars
  BY <1>4, <1>15, RouteStays DEF vars, Named, RouteAt
<1>16. QED
  BY <1>3, <1>5, <1>7, <1>8, <1>9, <1>10, <1>11, <1>12, <1>13, <1>14, <1>15
     DEF Next, Visitor, Resumes, MailResumes

\* What becomes of a job without the page: it moves on, and is created only
\* while its route is at work.
Moved(s) ==
  \/ job'[s] = job[s]
  \/ <<job[s], job'[s]>> \in WorkerMoves \cup (Queued \X {"gone"})
  \/ <<job[s], job'[s]>> = <<"awaiting_email", "email_pending">>
  \/ serving[s] = "received"

\* The page keeps what PageAt says while the server and the worker go on.
LEMMA WorldStep ==
  ASSUME ScanInv, Routes, NEW s \in Scans, PageAt(s),
         UNCHANGED <<view, active, current, task, cancelled>>, Moved(s), late \subseteq late',
         serving[s] = "idle" => serving'[s] = "idle",
         \A m \in Mails : InFlight(m)' =>
           /\ InFlight(m) /\ mail'[m].job = mail[m].job
           /\ \/ mail'[m].phase = mail[m].phase
              \/ mail[m].job = s => job'[s] # "awaiting_email" \/ s \in late
  PROVE  PageAt(s)'
<1>1. serving[s] = "idle" /\ job[s] # "processing" => job'[s] # "processing"
  BY DEF Moved, WorkerMoves
<1>2. serving[s] = "idle" /\ job[s] \notin Live => job'[s] \notin Live
  BY DEF Moved, WorkerMoves, Live
<1>3. view.handle = s => serving[s] = "idle"
  BY DEF Routes, RouteAt, Named
<1>4. task'[s] = "uploading" => current' = ScanToken(s) /\ ~IsCancelled(s)'
  BY DEF PageAt, IsCancelled
<1>5. view'.handle = s => active' = s /\ (view'.stage = "awaitingEmail" => job'[s] # "processing")
  BY <1>1, <1>3 DEF PageAt
<1>6. ASSUME NEW m \in Mails, InFlight(m)', mail'[m].job = s
      PROVE  /\ task'[s] # "new" /\ serving'[s] = "idle" /\ job'[s] # "processing"
             /\ mail'[m].phase # "sent" => job'[s] # "awaiting_email" \/ s \in late'
  <2>1. task[s] # "new" /\ serving[s] = "idle" /\ job[s] # "processing"
    BY <1>6 DEF PageAt
  <2>2. mail[m].phase # "sent" => job[s] # "awaiting_email" \/ s \in late
    BY <1>6 DEF PageAt
  <2>3. job'[s] # "processing" /\ (job[s] # "awaiting_email" => job'[s] # "awaiting_email")
    BY <1>1, <1>2, <2>1 DEF Live
  <2>4. QED
    BY <1>6, <2>1, <2>2, <2>3
<1>7. QED
  BY <1>4, <1>5, <1>6 DEF PageAt

\* A call of analyze() goes on.  The page shows the handle of its own scan, or
\* the job of the page is forfeit.
LEMMA PageResume ==
  ASSUME ScanInv, Routes, NEW s \in Scans, PageAt(s), ~Forfeit(s)',
         NEW u \in Scans, Resumes(u) \/ RequestFails(u)
  PROVE  PageAt(s)'
<1>1. /\ task \in [Scans -> {"new", "uploading", "waiting", "asking", "ended"}]
      /\ answer \in [Scans -> Answers]
  BY DEF ScanInv, ScanTypeOK
<1>2. UNCHANGED <<serving, job, mail, late, cancelled>>
  BY DEF Resumes, UploadAnswered, AnswerUnwanted, PollAgain, StatusAnswered, StatusMissing,
     UploadRefused, RequestFails, CallFails, Untouched
<1>3. /\ task'[u] \in {"waiting", "asking", "ended"} /\ \A r \in Scans \ {u} : task'[r] = task[r]
      /\ current' = current \/ current = ScanToken(u)
  BY <1>1 DEF Resumes, UploadAnswered, AnswerUnwanted, PollAgain, StatusAnswered, StatusMissing,
     UploadRefused, RequestFails, CallFails, ThrowCancelled, Ends, Continues
<1>4. task'[s] = "uploading" => current' = ScanToken(s) /\ ~IsCancelled(s)'
  BY <1>2, <1>3, Tokens DEF PageAt, IsCancelled
<1>5. ASSUME view.handle = s, u # s PROVE UNCHANGED <<view, active>>
  <2>1. s \notin {u, NoJob}
    BY <1>5, ScanAssumption
  <2>2. ~Overtakes(u)
    BY <1>5, <2>1 DEF Overtakes, Loses, Forfeit, Lost
  <2>3. CASE PollAgain(u)
    BY <2>2, <2>3 DEF PollAgain
  <2>4. CASE UploadRefused(u) \/ RequestFails(u)
    <3>1. IsCancelled(u)
      BY <1>5, <2>1, <2>4
         DEF UploadRefused, RequestFails, Overtaken, Loses, Forfeit, Lost
    <3>2. QED
      BY <2>4, <3>1 DEF UploadRefused, RequestFails, CallFails
  <2>5. QED
    BY <2>2, <2>3, <2>4 DEF Resumes, UploadAnswered, AnswerUnwanted, StatusAnswered, StatusMissing
<1>6. view'.handle = s => active' = s /\ (view'.stage = "awaitingEmail" => job'[s] # "processing")
  <2>1. SUFFICES ASSUME view'.handle = s
                 PROVE  active' = s /\ (view'.stage = "awaitingEmail" => job[s] # "processing")
    BY <1>2
  <2>2. s # NoJob
    BY ScanAssumption
  <2>3. CASE UNCHANGED <<view, active>>
    BY <2>1, <2>3 DEF PageAt
  <2>4. CASE UploadAnswered(u)
    <3>1. view.handle # u
      BY <2>4 DEF UploadAnswered, ScanInv
    <3>2. view.handle = s => UNCHANGED <<view, active>>
      BY <1>5, <3>1
    <3>3. view.handle # s => active' = s /\ view'.stage = "processing"
      BY <2>1, <2>2, <2>4 DEF UploadAnswered, Page
    <3>4. QED
      BY <2>3, <3>2, <3>3
  <2>5. CASE StatusAnswered(u)
    <3>1. view.handle = s /\ UNCHANGED active
      BY <2>1, <2>2, <2>5 DEF StatusAnswered, Shows, Page
    <3>2. CASE u = s
      <4>1. view'.stage = "awaitingEmail" => answer[s] = "awaiting_email"
        BY <2>1, <2>2, <2>5, <3>2 DEF StatusAnswered, Shows, Page
      <4>2. QED
        BY <3>1, <4>1 DEF Routes, RouteAt, PageAt
    <3>3. QED
      BY <1>5, <2>3, <3>1, <3>2
  <2>6. QED
    BY <2>1, <2>2, <2>3, <2>4, <2>5
       DEF Resumes, AnswerUnwanted, ThrowCancelled, PollAgain, StatusMissing, UploadRefused,
           RequestFails, CallFails, Shows, Page
<1>7. \A m \in Mails : InFlight(m)' /\ mail'[m].job = s =>
        /\ task'[s] # "new" /\ serving'[s] = "idle" /\ job'[s] # "processing"
        /\ mail'[m].phase # "sent" => job'[s] # "awaiting_email" \/ s \in late'
  BY <1>2, <1>3 DEF PageAt, InFlight
<1>8. QED
  BY <1>4, <1>6, <1>7 DEF PageAt

\* A visitor stops whatever is under way.
LEMMA PageStop ==
  ASSUME ScanInv, NEW s \in Scans, PageAt(s), ~Forfeit(s)', Cancel \/ Reset \/ Dispose
  PROVE  PageAt(s)'
<1>1. view'.handle = NoJob /\ UNCHANGED <<serving, job, late>> /\ Loses(Unheard, "unheard")
  BY DEF Cancel, Reset, Dispose, Fresh, Page
<1>2. task'[s] \in {task[s], "ended"} /\ (task'[s] # task[s] => task[s] # "new")
  BY DEF Cancel, Reset, Dispose, ScanInv, ScanTypeOK
<1>3. task[s] # "uploading"
  <2>1. s \notin Unheard
    BY <1>1 DEF Loses, Forfeit, Lost
  <2>2. QED
    BY <2>1 DEF Unheard, PageAt
<1>4. ASSUME NEW m \in Mails, InFlight(m)' PROVE InFlight(m) /\ mail'[m] = mail[m]
  <2>1. CASE UNCHANGED mail
    BY <1>4, <2>1 DEF InFlight
  <2>2. CASE Dispose
    BY <1>4, <2>2 DEF Dispose, InFlight, In, NoMail
  <2>3. QED
    BY <2>1, <2>2 DEF Cancel, Reset
<1>5. QED
  BY <1>1, <1>2, <1>3, <1>4, ScanAssumption DEF PageAt

\* The next scan takes the page.
LEMMA PageAnalyze ==
  ASSUME ScanInv, Routes, NEW s \in Scans, PageAt(s), ~Forfeit(s)', NEW u \in Scans, Analyze(u)
  PROVE  PageAt(s)'
<1>1. /\ view'.handle = NoJob /\ current' = ScanToken(u)
      /\ UNCHANGED <<job, late, mail, cancelled>>
      /\ task' = [task EXCEPT ![u] = "uploading"] /\ serving' = [serving EXCEPT ![u] = "received"]
      /\ task[u] = "new"
  BY DEF Analyze
<1>2. CASE u = s
  <2>1. ~IsCancelled(s)'
    BY <1>1, <1>2, Tokens DEF Routes, RouteAt, IsCancelled
  <2>2. \A m \in Mails : InFlight(m)' => mail'[m].job # s
    BY <1>1, <1>2 DEF PageAt, InFlight
  <2>3. QED
    BY <1>1, <1>2, <2>1, <2>2, ScanAssumption DEF PageAt
<1>3. CASE u # s
  <2>1. task'[s] = task[s] /\ serving'[s] = serving[s]
    BY <1>1, <1>3 DEF ScanInv, ScanTypeOK
  <2>2. s \notin Dropped
    BY DEF Analyze, Loses, Forfeit, Lost
  <2>3. task[s] # "uploading"
    BY <2>2 DEF Dropped, PageAt, IsCancelled
  <2>4. QED
    BY <1>1, <2>1, <2>3, ScanAssumption DEF PageAt, InFlight
<1>4. QED
  BY <1>2, <1>3

\* An address is given, or a call of sendEmail() comes back.
LEMMA PageMail ==
  ASSUME ScanInv, Routes, NEW s \in Scans, PageAt(s), ~Forfeit(s)',
         NEW m \in Mails, SendEmail(m) \/ MailResumes(m) \/ MailFails(m)
  PROVE  PageAt(s)'
<1>1. UNCHANGED <<task, serving, job, late, cancelled>> /\ mail \in [Mails -> Call]
  BY DEF SendEmail, MailResumes, MailAnswered, MailMissing, MailFails, MailUntouched, ScanInv,
     ScanTypeOK
<1>2. s # NoJob /\ ScanToken(s) # NoToken
  BY ScanAssumption, Tokens
<1>3. CASE SendEmail(m)
  <2>1. /\ view'.handle = view.handle /\ view'.stage = "sendingEmail" /\ UNCHANGED active
        /\ view.stage = "awaitingEmail"
        /\ current' = current \/ current = NoToken
        /\ mail'[m].job = view.handle /\ mail'[m].phase = "sent"
        /\ \A n \in Mails \ {m} : mail'[n] = mail[n]
    BY <1>1, <1>3 DEF SendEmail, Page
  <2>2. view.handle = s =>
          task[s] # "new" /\ serving[s] = "idle" /\ job[s] # "processing"
    BY <2>1 DEF ScanInv, Routes, RouteAt, Named, PageAt
  <2>3. QED
    BY <1>1, <1>2, <2>1, <2>2 DEF PageAt, InFlight, IsCancelled
<1>4. CASE MailResumes(m) \/ MailFails(m)
  <2>1. InFlight(m) /\ UNCHANGED current
    BY <1>4 DEF MailResumes, MailAnswered, MailMissing, MailFails, MailUntouched, InFlight
  <2>2. \A n \in Mails : InFlight(n)' => mail'[n] = mail[n] /\ InFlight(n)
    BY <1>1, <1>4 DEF MailResumes, MailAnswered, MailMissing, MailFails, NoMail, In, InFlight
  <2>3. view'.handle = s => active' = s /\ (view'.stage = "awaitingEmail" => job'[s] # "processing")
    <3>1. CASE MailFails(m)
      <4>1. view'.handle = view.handle /\ UNCHANGED active /\ Overtakes(mail[m].job)
        BY <3>1 DEF MailFails, AskAddressAgain, Page
      <4>2. view.handle = s => mail[m].job = s
        BY <1>2, <4>1 DEF Overtakes, Loses, Forfeit, Lost
      <4>3. QED
        BY <1>1, <2>1, <4>1, <4>2 DEF PageAt
    <3>2. CASE UNCHANGED <<view, active>>
      BY <1>1, <3>2 DEF PageAt
    <3>3. CASE Sent
      BY <1>2, <3>3 DEF Sent
    <3>4. QED
      BY <1>4, <3>1, <3>2, <3>3 DEF MailResumes, MailAnswered, MailMissing
  <2>4. QED
    BY <1>1, <2>1, <2>2, <2>3 DEF PageAt, IsCancelled
<1>5. QED
  BY <1>3, <1>4

\* Every step keeps the page in order for the jobs it has not forfeited.
LEMMA PagesNext == ScanInv /\ Routes /\ Pages /\ [Next]_vars => Pages'
<1> SUFFICES ASSUME ScanInv, Routes, Pages, [Next]_vars, NEW s \in Scans, ~Forfeit(s)'
             PROVE  PageAt(s)'
  BY DEF Pages
<1>1. PageAt(s) /\ ScanTypeOK
  BY LostStays DEF Pages, ScanInv
<1>2. CASE Cancel \/ Reset \/ Dispose
  BY <1>1, <1>2, PageStop
<1>3. CASE \E u \in Scans : Analyze(u)
  BY <1>1, <1>3, PageAnalyze
<1>4. CASE \E u \in Scans : Resumes(u) \/ RequestFails(u)
  BY <1>1, <1>4, PageResume
<1>5. CASE \E m \in Mails : SendEmail(m) \/ MailResumes(m) \/ MailFails(m)
  BY <1>1, <1>5, PageMail
<1>6. CASE Pick \/ PickNothing \/ PickInVain
  <2>1. /\ view'.handle = view.handle /\ view'.stage \in {view.stage, "selectingFile", "idle"}
        /\ UNCHANGED <<active, current, cancelled, task, serving, job, late, mail>>
    BY <1>6 DEF Pick, PickNothing, PickInVain, Page
  <2>2. QED
    BY <1>1, <2>1 DEF PageAt, IsCancelled, InFlight
<1>7. ASSUME NEW m \in Mails, ServeEmail(m) \/ DropEmail(m) PROVE PageAt(s)'
  <2>1. UNCHANGED <<view, active, current, task, cancelled, late, serving>>
    BY <1>7 DEF ServeEmail, DropEmail
  <2>2. Moved(s)
    BY <1>1, <1>7 DEF ServeEmail, DropEmail, Moved, ScanTypeOK
  <2>3. ASSUME NEW n \in Mails, InFlight(n)'
        PROVE  /\ InFlight(n) /\ mail'[n].job = mail[n].job
               /\ \/ mail'[n].phase = mail[n].phase
                  \/ mail[n].job = s => job'[s] # "awaiting_email" \/ s \in late
    <3>1. CASE n # m
      BY <1>1, <1>7, <2>3, <3>1 DEF ServeEmail, DropEmail, InFlight, ScanTypeOK
    <3>2. CASE n = m
      <4>1. ServeEmail(m) /\ mail[m].phase = "sent" /\ mail'[m].job = mail[m].job
        BY <1>1, <1>7, <2>3, <3>2 DEF ServeEmail, DropEmail, InFlight, In, NoMail, ScanTypeOK
      <4>2. mail[m].job = s => job'[s] # "awaiting_email" \/ s \in late
        BY <1>1, <4>1 DEF ServeEmail, ScanTypeOK
      <4>3. QED
        BY <3>2, <4>1, <4>2 DEF InFlight
    <3>3. QED
      BY <3>1, <3>2
  <2>4. QED
    BY <1>1, <2>1, <2>2, <2>3, WorldStep
<1>8. ASSUME NEW u \in Scans,
             \/ ServeUpload(u) \/ ServeStatus(u) \/ ServeCancel(u) \/ CancelFails(u)
             \/ Work(u) \/ Lapse(u) \/ Sweep(u)
      PROVE  PageAt(s)'
  <2>1. UNCHANGED <<view, active, current, task, cancelled, mail>> /\ late \subseteq late'
    BY <1>8 DEF ServeUpload, RefuseUpload, CreateAnalysisJob, FastReport, FastTerminal,
         FastQueued, ServeStatus, ClientUntouched, ServeCancel, CancelFails, Work, Lapse, Sweep
  <2>2. Moved(s) /\ (serving[s] = "idle" => serving'[s] = "idle")
    <3>1. CASE ServeUpload(u) \/ ServeStatus(u)
      BY <1>1, <3>1 DEF ServeUpload, RefuseUpload, CreateAnalysisJob, FastReport, FastTerminal,
           FastQueued, ServeStatus, ClientUntouched, Reply, Present, Moved, ScanTypeOK, Queued
    <3>2. CASE ServeCancel(u) \/ CancelFails(u) \/ Work(u) \/ Lapse(u) \/ Sweep(u)
      BY <1>1, <3>2 DEF ServeCancel, CancelFails, Work, Lapse, Sweep, Present, Moved, ScanTypeOK
    <3>3. QED
      BY <1>8, <3>1, <3>2
  <2>3. \A m \in Mails : InFlight(m)' => InFlight(m)
    BY <2>1 DEF InFlight
  <2>4. QED
    BY <1>1, <2>1, <2>2, <2>3, WorldStep
<1>9. CASE UNCHANGED vars
  BY <1>1, <1>9 DEF vars, PageAt, IsCancelled, InFlight
<1>10. QED
  BY <1>2, <1>3, <1>4, <1>5, <1>6, <1>7, <1>8, <1>9 DEF Next, Visitor

\* A job is wanted from the start of its scan on, and never again once it is
\* over, late or lost.
LEMMA WantedFrom ==
  ASSUME ScanInv, [Next]_vars, NEW s \in Scans, Wanted(s)'
  PROVE  Wanted(s) \/ Analyze(s)
<1> USE DEF Wanted, Live
<1>1. ScanTypeOK /\ (Forfeit(s) => Forfeit(s)')
  BY LostStays DEF ScanInv
<1>2. CASE UNCHANGED <<job, serving, late>>
  BY <1>1, <1>2
<1>3. ASSUME NEW u \in Scans, Analyze(u) PROVE Wanted(s) \/ Analyze(s)
  BY <1>1, <1>3 DEF Analyze, ScanTypeOK
<1>4. ASSUME NEW u \in Scans, ServeUpload(u) \/ ServeStatus(u) PROVE Wanted(s)
  <2>1. CASE RefuseUpload(u) \/ CreateAnalysisJob(u)
    BY <1>1, <2>1 DEF RefuseUpload, CreateAnalysisJob, ClientUntouched, ScanTypeOK
  <2>2. CASE FastReport(u) \/ FastTerminal(u) \/ FastQueued(u)
    BY <1>1, <2>2 DEF FastReport, FastTerminal, FastQueued, Reply, ClientUntouched, ScanTypeOK
  <2>3. CASE ServeStatus(u)
    BY <1>1, <2>3 DEF ServeStatus, ClientUntouched, ScanTypeOK
  <2>4. QED
    BY <1>4, <2>1, <2>2, <2>3 DEF ServeUpload
<1>5. ASSUME NEW u \in Scans,
             ServeCancel(u) \/ CancelFails(u) \/ Work(u) \/ Lapse(u) \/ Sweep(u)
      PROVE  Wanted(s)
  BY <1>1, <1>5 DEF ServeCancel, CancelFails, Work, WorkerMoves, Lapse, Sweep, ScanTypeOK
<1>6. ASSUME NEW m \in Mails, ServeEmail(m) PROVE Wanted(s)
  BY <1>1, <1>6 DEF ServeEmail, ScanTypeOK
<1>7. ASSUME NEW u \in Scans, Resumes(u) \/ RequestFails(u)
      PROVE  UNCHANGED <<job, serving, late>>
  BY <1>7 DEF Resumes, UploadAnswered, AnswerUnwanted, PollAgain, StatusAnswered, StatusMissing,
       UploadRefused, RequestFails, CallFails, Untouched
<1>8. ASSUME NEW m \in Mails, SendEmail(m) \/ MailResumes(m) \/ MailFails(m) \/ DropEmail(m)
      PROVE  UNCHANGED <<job, serving, late>>
  BY <1>8 DEF SendEmail, MailResumes, MailAnswered, MailMissing, MailFails, DropEmail, MailUntouched
<1>9. CASE Cancel \/ Reset \/ Dispose \/ Pick \/ PickNothing \/ PickInVain
  BY <1>2, <1>9 DEF Cancel, Reset, Dispose, Pick, PickNothing, PickInVain
<1>10. CASE UNCHANGED vars
  BY <1>2, <1>10 DEF vars
<1>11. QED
  BY <1>2, <1>3, <1>4, <1>5, <1>6, <1>7, <1>8, <1>9, <1>10 DEF Next, Visitor

\* A request to cancel a job stays on its way until it is served or fails.
LEMMA CancelsStay ==
  ASSUME ScanInv, [Next]_vars, NEW s \in cancels, ~ServeCancel(s), ~CancelFails(s)
  PROVE  s \in cancels'
<1>1. s \in Scans
  BY DEF ScanInv, ScanTypeOK
<1>2. CASE UNCHANGED cancels
  BY <1>2
<1>3. CASE Cancel \/ Reset \/ Dispose
  BY <1>3 DEF Cancel, Reset, Dispose, Ask
<1>4. ASSUME NEW u \in Scans, ServeCancel(u) \/ CancelFails(u) PROVE s \in cancels'
  BY <1>4 DEF ServeCancel, CancelFails
<1>5. ASSUME NEW u \in Scans,
             \/ Resumes(u) \/ RequestFails(u) \/ ServeUpload(u) \/ ServeStatus(u)
             \/ Work(u) \/ Lapse(u) \/ Sweep(u) \/ Analyze(u)
      PROVE  UNCHANGED cancels
  BY <1>5 DEF Resumes, UploadAnswered, AnswerUnwanted, PollAgain, StatusAnswered, StatusMissing,
       UploadRefused, RequestFails, CallFails, Untouched, ServeUpload, RefuseUpload,
       CreateAnalysisJob, FastReport, FastTerminal, FastQueued, ServeStatus, ClientUntouched,
       Work, Lapse, Sweep, Analyze
<1>6. ASSUME NEW m \in Mails,
             SendEmail(m) \/ MailResumes(m) \/ MailFails(m) \/ ServeEmail(m) \/ DropEmail(m)
      PROVE  UNCHANGED cancels
  BY <1>6 DEF SendEmail, MailResumes, MailAnswered, MailMissing, MailFails, ServeEmail, DropEmail,
       MailUntouched
<1>7. CASE Pick \/ PickNothing \/ PickInVain
  BY <1>2, <1>7 DEF Pick, PickNothing, PickInVain
<1>8. QED
  BY <1>1, <1>2, <1>3, <1>4, <1>5, <1>6, <1>7 DEF Next, Visitor, vars

\* Whoever stops the scans has the job that the page names cancelled, and loses
\* one whose handle has not come yet.
LEMMA ReachStop ==
  ASSUME ScanInv, NEW s \in Scans, PageAt(s), InReach(s), Wanted(s)', Cancel \/ Reset \/ Dispose
  PROVE  InReach(s)'
<1>1. s # NoJob /\ ~Forfeit(s)'
  BY ScanAssumption DEF Wanted
<1>2. CASE s \in cancels
  BY <1>2 DEF Cancel, Reset, Dispose, Ask, InReach
<1>3. CASE view.handle = s
  BY <1>1, <1>3 DEF Cancel, Reset, Dispose, Ask, PageAt, InReach
<1>4. CASE task[s] = "uploading"
  <2>1. s \in Unheard
    BY <1>4 DEF Unheard, PageAt
  <2>2. QED
    BY <1>1, <2>1 DEF Cancel, Reset, Dispose, Loses, Forfeit, Lost
<1>5. QED
  BY <1>2, <1>3, <1>4 DEF InReach

\* What a call of analyze() that goes on leaves within reach.
LEMMA ReachResume ==
  ASSUME ScanInv, Routes, NEW s \in Scans \ cancels, PageAt(s), InReach(s), Wanted(s)',
         NEW u \in Scans, Resumes(u) \/ RequestFails(u)
  PROVE  InReach(s)'
<1>1. task \in [Scans -> {"new", "uploading", "waiting", "asking", "ended"}]
  BY DEF ScanInv, ScanTypeOK
<1>2. UNCHANGED <<serving, job>> /\ s # NoJob /\ ~Forfeit(s)'
  BY ScanAssumption
     DEF Resumes, UploadAnswered, AnswerUnwanted, PollAgain, StatusAnswered, StatusMissing,
         UploadRefused, RequestFails, CallFails, Untouched, Wanted
<1>3. \A r \in Scans \ {u} : task'[r] = task[r]
  BY <1>1 DEF Resumes, UploadAnswered, AnswerUnwanted, PollAgain, StatusAnswered, StatusMissing,
     UploadRefused, RequestFails, CallFails, ThrowCancelled, Ends, Continues
<1>4. CASE u # s
  <2>1. CASE task[s] = "uploading"
    BY <1>3, <1>4, <2>1 DEF InReach
  <2>2. CASE view.handle = s
    <3>1. view' = view
      BY <1>2, <1>4, <2>2
         DEF Resumes, UploadAnswered, AnswerUnwanted, PollAgain, StatusAnswered, StatusMissing,
             UploadRefused, RequestFails, CallFails, Overtakes, Overtaken, Loses, Forfeit, Lost
    <3>2. QED
      BY <2>2, <3>1 DEF InReach
  <2>3. QED
    BY <2>1, <2>2 DEF InReach
<1>5. CASE u = s
  <2>1. answer[s] \notin {"fast", "expired", "missing"}
    BY <1>2, <1>5 DEF Resumes, Routes, RouteAt, Wanted, Live
  <2>2. answer[s] # "refused" \/ ~UploadRefused(s)
    <3>1. answer[s] = "refused" => Forfeit(s) \/ (job[s] \in {"none", "gone"} /\ serving[s] = "idle")
      BY DEF Routes, RouteAt
    <3>2. ~Forfeit(s)
      BY <1>2, <1>5 DEF Resumes, UploadAnswered, AnswerUnwanted, PollAgain, StatusAnswered,
         StatusMissing, UploadRefused, RequestFails, Overtakes, Loses, Forfeit, Lost
    <3>3. QED
      BY <1>2, <3>1, <3>2 DEF Wanted, Live
  <2>3. ~IsCancelled(s)
    <3>1. CASE task[s] = "uploading"
      BY <3>1 DEF PageAt
    <3>2. CASE view.handle = s
      BY <3>2, Tokens DEF ScanInv, CancelledIsSilent, IsCancelled
    <3>3. QED
      BY <3>1, <3>2 DEF InReach
  <2>4. CASE UploadAnswered(s)
    BY <2>1, <2>4 DEF UploadAnswered, Page, InReach
  <2>5. CASE StatusAnswered(s)
    <3>1. view.handle = s
      BY <2>5 DEF StatusAnswered, InReach
    <3>2. view'.handle = s
      BY <2>1, <2>5, <3>1 DEF StatusAnswered, Page
    <3>3. QED
      BY <3>2 DEF InReach
  <2>6. CASE PollAgain(s)
    BY <1>1, <2>3, <2>6 DEF PollAgain, InReach
  <2>7. CASE RequestFails(s)
    BY <1>2, <2>7 DEF RequestFails, Loses, Forfeit, Lost
  <2>8. QED
    BY <1>5, <2>1, <2>2, <2>3, <2>4, <2>5, <2>6, <2>7
       DEF Resumes, AnswerUnwanted, ThrowCancelled, Goes, StatusMissing, UploadRefused
<1>6. QED
  BY <1>4, <1>5

\* A call of sendEmail() takes only a job that is over off the page, or that the
\* page forfeits.
LEMMA ReachMail ==
  ASSUME ScanInv, NEW s \in Scans \ cancels, PageAt(s), InReach(s), Wanted(s),
         ~Forfeit(s)', NEW m \in Mails, SendEmail(m) \/ MailResumes(m) \/ MailFails(m)
  PROVE  InReach(s)'
<1>1. UNCHANGED task
  BY DEF SendEmail, MailResumes, MailAnswered, MailMissing, MailFails, MailUntouched
<1>2. CASE view' = view \/ view'.handle = view.handle
  BY <1>1, <1>2 DEF InReach
<1>3. CASE SendEmail(m) \/ MailFails(m)
  BY <1>2, <1>3 DEF SendEmail, MailFails, AskAddressAgain, Page
<1>4. CASE MailResumes(m) /\ view' # view
  <2>1. InFlight(m) /\ mail[m].phase # "sent" /\ Overtakes(mail[m].job)
    BY <1>4 DEF MailResumes, MailAnswered, MailMissing, InFlight
  <2>2. CASE view.handle = s
    <3>1. mail[m].job = s
      BY <2>1, <2>2, ScanAssumption DEF Overtakes, Loses, Forfeit, Lost
    <3>2. job[s] \notin Live \/ s \in late
      BY <2>1, <3>1 DEF PageAt, Live
    <3>3. serving[s] = "idle"
      BY <2>1, <3>1 DEF PageAt
    <3>4. QED
      BY <3>2, <3>3 DEF Wanted
  <2>3. QED
    BY <1>1, <2>2 DEF InReach
<1>5. QED
  BY <1>2, <1>3, <1>4

\* Every step keeps the jobs within reach.
LEMMA ReachNext == ScanInv /\ Routes /\ Pages /\ Reach /\ [Next]_vars => Reach'
<1> SUFFICES ASSUME ScanInv, Routes, Pages, Reach, [Next]_vars, NEW s \in Scans, Wanted(s)'
             PROVE  InReach(s)'
  BY DEF Reach
<1>1. ~Forfeit(s) /\ ~Forfeit(s)' /\ PageAt(s)
  BY LostStays DEF Wanted, Pages
<1>2. CASE Analyze(s)
  BY <1>2 DEF Analyze, InReach, ScanInv, ScanTypeOK
<1>3. SUFFICES ASSUME Wanted(s), InReach(s) PROVE InReach(s)'
  BY <1>2, WantedFrom DEF Reach
<1>4. CASE s \in cancels
  <2>1. ~CancelFails(s)
    BY <1>1 DEF CancelFails, Loses, Forfeit, Lost
  <2>2. ASSUME ServeCancel(s) PROVE FALSE
    <3>1. serving[s] = "idle" /\ serving' = serving
      BY <1>4, <2>2 DEF Routes, RouteAt, Named, ServeCancel
    <3>2. job[s] \in Live
      BY <1>3, <3>1 DEF Wanted
    <3>3. job'[s] = "gone"
      BY <2>2, <3>2 DEF ServeCancel, Live, Queued, ScanInv, ScanTypeOK
    <3>4. QED
      BY <3>1, <3>3 DEF Wanted, Live
  <2>3. QED
    BY <1>4, <2>1, <2>2, CancelsStay DEF InReach
<1>5. CASE s \notin cancels
  <2>1. CASE Cancel \/ Reset \/ Dispose
    BY <1>1, <1>3, <2>1, ReachStop
  <2>2. CASE \E u \in Scans : Resumes(u) \/ RequestFails(u)
    BY <1>1, <1>3, <1>5, <2>2, ReachResume
  <2>3. CASE \E m \in Mails : SendEmail(m) \/ MailResumes(m) \/ MailFails(m)
    BY <1>1, <1>3, <1>5, <2>3, ReachMail
  <2>4. ASSUME NEW u \in Scans, Analyze(u), u # s PROVE InReach(s)'
    <3>1. s \notin Dropped
      BY <1>1, <2>4 DEF Analyze, Loses, Forfeit, Lost
    <3>2. QED
      BY <1>1, <1>3, <1>5, <3>1 DEF InReach, Dropped, PageAt, IsCancelled
  <2>5. CASE view'.handle = view.handle /\ UNCHANGED task
    BY <1>3, <1>5, <2>5 DEF InReach
  <2>6. CASE Pick \/ PickNothing \/ PickInVain
    BY <2>5, <2>6 DEF Pick, PickNothing, PickInVain, Page
  <2>7. ASSUME NEW u \in Scans, 
               \/ ServeUpload(u) \/ ServeStatus(u) \/ ServeCancel(u) \/ CancelFails(u)
               \/ Work(u) \/ Lapse(u) \/ Sweep(u)
        PROVE  UNCHANGED <<view, task>>
    BY <2>7 DEF ServeUpload, RefuseUpload, CreateAnalysisJob, FastReport, FastTerminal,
         FastQueued, ServeStatus, ClientUntouched, ServeCancel, CancelFails, Work, Lapse, Sweep
  <2>8. ASSUME NEW m \in Mails, ServeEmail(m) \/ DropEmail(m) PROVE UNCHANGED <<view, task>>
    BY <2>8 DEF ServeEmail, DropEmail
  <2>9. CASE UNCHANGED vars
    BY <2>5, <2>9 DEF vars
  <2>10. QED
    BY <1>2, <2>1, <2>2, <2>3, <2>4, <2>5, <2>6, <2>7, <2>8, <2>9 DEF Next, Visitor
<1>6. QED
  BY <1>4, <1>5

\* At first there is nothing to reach.
LEMMA ReachInit == Init => Routes /\ Pages /\ Reach
<1> SUFFICES ASSUME Init PROVE Routes /\ Pages /\ Reach
  OBVIOUS
<1>1. view.handle = NoJob /\ \A m \in Mails : mail[m].phase = "free"
  BY DEF Init, Fresh, NoMail
<1>2. Pages
  BY <1>1, ScanAssumption DEF Init, Pages, PageAt, InFlight
<1>3. Routes
  BY <1>1, ScanAssumption DEF Init, Routes, RouteAt, Named
<1>4. QED
  BY <1>2, <1>3 DEF Init, Reach, Wanted, Live

\* A stored job that nobody has ended stays within reach of its page until its
\* TTL is over (analyze, _poll, sendEmail, cancel, reset and dispose of
\* scan_view_model.dart, and the routes that serve them), however many scans
\* overlap.  It leaves only when its own scan is stopped before its handle is
\* known, when a request for it fails, or when another call takes the page from it.
THEOREM JobsStayInReach == Spec => []JobsInReach
<1> DEFINE Inv == ScanInv /\ Routes /\ Pages /\ Reach
<1>1. Init => Inv
  BY ScanInit, ReachInit
<1>2. Inv /\ [Next]_vars => Inv'
  BY ScanNext, RoutesNext, PagesNext, ReachNext
<1>3. Inv => JobsInReach
  BY DEF Reach, Wanted, Forfeit, Live, JobsInReach
<1>4. QED
  BY <1>1, <1>2, <1>3, PTL DEF Spec
============================================================================
