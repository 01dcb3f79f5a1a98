--------------------------- MODULE JobLifecycle ---------------------------
(***************************************************************************)
(* What the queue promises about its jobs, whoever crashes, retries or     *)
(* races: an upload is analysed at most once, a job ends in exactly one    *)
(* way, it ends by a delivery only after its report exists, at most one    *)
(* message leaves for it with the service's knowledge, and after that one  *)
(* no other.  Messages that the service wrongly takes for unsent may come  *)
(* before it, within a bound; no message at all leaves for a job that      *)
(* failed or was answered on the fast path.  Endings are named by the      *)
(* aggregate event that records them.                                      *)
(***************************************************************************)
EXTENDS Naturals

CONSTANTS
  Jobs,
  MaxMessages   \* attempts to deliver a report

VARIABLES
  stage,    \* of each job: "none", "pending", "reported", or how it ended
  mailed,   \* messages of each job that were sent, or may have been for all the
            \* service knows
  mislaid   \* messages of each job that left while the service takes them for
            \* unsent

vars == <<stage, mailed, mislaid>>

\* Endings open to a job that has no report yet, and to one that has.
EndsPending == {"analysis_failed", "analysis_expired", "analysis_cancelled"}

EndsReported ==
  {"analysis_fast_completed", "email_sent", "email_failed",
   "analysis_expired", "analysis_cancelled"}

Stages == {"none", "pending", "reported"} \cup EndsPending \cup EndsReported

\* Endings without any message, and without one the service knows of: a visitor
\* may cancel a delivery that is to be tried again.
Unreported == {"analysis_failed", "analysis_fast_completed"}

Unmailed == {"analysis_failed", "analysis_fast_completed", "analysis_cancelled"}

Init ==
  /\ stage = [j \in Jobs |-> "none"]
  /\ mailed = [j \in Jobs |-> 0]
  /\ mislaid = [j \in Jobs |-> 0]

Accept(j) ==
  /\ stage[j] = "none"
  /\ stage' = [stage EXCEPT ![j] = "pending"]
  /\ UNCHANGED <<mailed, mislaid>>

Analyse(j) ==
  /\ stage[j] = "pending"
  /\ stage' = [stage EXCEPT ![j] = "reported"]
  /\ UNCHANGED <<mailed, mislaid>>

MayEnd(j, outcome) ==
  /\ \/ stage[j] = "pending" /\ outcome \in EndsPending
     \/ stage[j] = "reported" /\ outcome \in EndsReported
  /\ outcome \in Unmailed => mailed[j] = 0
  /\ outcome \in Unreported => mislaid[j] = 0
  /\ outcome = "email_sent" => mailed[j] = 1

\* A sweep may end several jobs at once.
End ==
  /\ stage' \in [Jobs -> Stages]
  /\ \A j \in Jobs : stage'[j] = stage[j] \/ MayEnd(j, stage'[j])
  /\ UNCHANGED <<mailed, mislaid>>

\* A dialogue with the SMTP server may outlive its lease or the job's TTL.
MayMail(j) ==
  /\ stage[j] \in {"reported", "email_failed", "analysis_expired"}
  /\ mailed[j] = 0
  /\ mislaid[j] < MaxMessages

Deliver(j) ==
  /\ MayMail(j)
  /\ mailed' = [mailed EXCEPT ![j] = 1]
  /\ UNCHANGED <<stage, mislaid>>

Mislay(j) ==
  /\ MayMail(j)
  /\ mislaid' = [mislaid EXCEPT ![j] = @ + 1]
  /\ UNCHANGED <<stage, mailed>>

Next ==
  \/ \E j \in Jobs : Accept(j) \/ Analyse(j) \/ Deliver(j) \/ Mislay(j)
  \/ End

Spec == Init /\ [][Next]_vars
===========================================================================
