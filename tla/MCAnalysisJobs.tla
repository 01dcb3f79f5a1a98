-------------------------- MODULE MCAnalysisJobs --------------------------
(* Instances of AnalysisJobs for TLC. *)
EXTENDS AnalysisJobs, TLC

\* Ids are drawn at random and only compared for equality.
JobSymmetry == Permutations(Jobs)

\* Admission alone: no worker claims anything, so jobs wait, are cancelled, or
\* expire.  The count does not look at the status of a live row.
AdmissionNext ==
  \/ \E j \in Jobs : Create(j) \/ Request(j) \/ Clock(j)
  \/ RecoverAndPurge

AdmissionSpec == Init /\ [][AdmissionNext]_vars

\* Uploads without end: the id of a job that is gone, and that no task holds any
\* more, is drawn again.
Forget(j) ==
  /\ ~Present(j) /\ j \notin creating /\ ~Fresh(j)
  /\ \A t \in tasks : t.job # j
  /\ log' = [log EXCEPT ![j] = <<>>]
  /\ arrivals' = SelectSeq(arrivals, LAMBDA k : k # j)
  /\ issued' = [issued EXCEPT ![j] = 0]
  /\ mails' = [mails EXCEPT ![j] = 0]
  /\ mislaid' = [mislaid EXCEPT ![j] = 0]
  /\ UNCHANGED <<row, creating, tasks>>

EndlessSpec ==
  Init /\ [][Next \/ \E j \in Jobs : Forget(j)]_vars /\ WF_vars(RecoverAndPurge)
===========================================================================
