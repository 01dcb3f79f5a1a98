------------------------ MODULE PublicSubmissions ------------------------
(***************************************************************************)
(* Verification challenges (shared/public-verification.ts) and the two     *)
(* kinds of submission that consume one inside a transaction: uploads,     *)
(* whose transaction does nothing else, and role requests, which go on to  *)
(* look for an identical request and store theirs (role-requests/routes.ts)*)
(*                                                                         *)
(* One action per statement that takes a lock or reads what others write.  *)
(* PostgreSQL runs the transactions at READ COMMITTED: a DELETE waits for  *)
(* the transaction that holds its row and then looks again, uncommitted    *)
(* inserts are invisible, and now() is the start of the transaction.       *)
(***************************************************************************)
EXTENDS Integers

CONSTANTS
  Challenges,   \* cookie tokens, fresh for each challenge
  Submissions,  \* requests that get as far as a transaction
  Contents,     \* normalized role requests (dedupe_hash)
  Upload,       \* stands for the content of an upload
  NoOne,        \* no transaction, no token
  Ttl,          \* challengeTtlSeconds
  Window,       \* ROLE_REQUEST_DEDUPE_MINUTES
  MaxClock      \* bound on the clock

ASSUME SubmissionsAssumption ==
  /\ Upload \notin Contents
  /\ NoOne \notin Submissions
  /\ Ttl \in Nat \ {0}
  /\ Window \in Nat \ {0}
  /\ MaxClock \in Nat

VARIABLES
  clock,
  issued,     \* challenges that have been issued
  rows,       \* committed rows of public_verification_challenges
  expiresAt,  \* expires_at of each issued challenge
  deleter,    \* the open transaction that has deleted the row of a challenge
  owner,      \* the open transaction that holds the advisory lock of a content
  sub,        \* the submissions
  stored      \* committed rows of role_requests

vars == <<clock, issued, rows, expiresAt, deleter, owner, sub, stored>>

Stages == {"idle", "begun", "unmatched", "matched", "locked", "found", "inserted",
           "accepted", "duplicate", "lost", "wrong", "refused", "failed"}

\* Transactions that have deleted the row of their challenge.
Consuming == {"matched", "locked", "found", "inserted"}

\* Transactions that hold the advisory lock of their content.
Searching == {"locked", "found", "inserted"}

Open == Consuming \cup {"begun", "unmatched"}

\* Committed, whatever the visitor was told.
Committed == {"accepted", "duplicate", "lost"}

Submission ==
  [stage : Stages, token : Challenges \cup {NoOne}, right : BOOLEAN,
   content : Contents \cup {Upload}, now : Nat]

NoSubmission ==
  [stage |-> "idle", token |-> NoOne, right |-> FALSE, content |-> Upload, now |-> 0]

Init ==
  /\ clock = 0
  /\ issued = {} /\ rows = {}
  /\ expiresAt = [c \in Challenges |-> 0]
  /\ deleter = [c \in Challenges |-> NoOne]
  /\ owner = [h \in Contents |-> NoOne]
  /\ sub = [s \in Submissions |-> NoSubmission]
  /\ stored = {}

---------------------------------------------------------------------------
(* Challenges.                                                             *)

Expired == {c \in rows : expiresAt[c] <= clock}

\* A DELETE of the expired rows waits for whoever is deleting one of them.
Unlocked == \A c \in Expired : deleter[c] = NoOne

Issue(c) ==
  /\ c \notin issued /\ Unlocked
  /\ issued' = issued \cup {c}
  /\ rows' = (rows \ Expired) \cup {c}
  /\ expiresAt' = [expiresAt EXCEPT ![c] = clock + Ttl]
  /\ UNCHANGED <<clock, deleter, owner, sub, stored>>

\* Scheduled by the worker with its sweeps.
Purge ==
  /\ Expired # {} /\ Unlocked
  /\ rows' = rows \ Expired
  /\ UNCHANGED <<clock, issued, expiresAt, deleter, owner, sub, stored>>

---------------------------------------------------------------------------
(* Submissions.                                                            *)

Goes(s, stage) == sub' = [sub EXCEPT ![s].stage = stage]

\* The cookie is one the server has set; it may have been used or be stale.
Begin(s, c, right, content) ==
  /\ sub[s].stage = "idle" /\ c \in issued
  /\ sub' = [sub EXCEPT ![s] =
       [stage |-> "begun", token |-> c, right |-> right, content |-> content,
        now |-> clock]]
  /\ UNCHANGED <<clock, issued, rows, expiresAt, deleter, owner, stored>>

Valid(s) == sub[s].token \in rows /\ expiresAt[sub[s].token] > sub[s].now

\* Mutation: the row is read, and not held until the transaction ends.
DeleteOnlyReads(s) ==
  /\ sub[s].stage = "begun" /\ Valid(s)
  /\ Goes(s, "matched")
  /\ UNCHANGED <<clock, issued, rows, expiresAt, deleter, owner, stored>>

\* The DELETE of the challenge, when it finds the row.
Delete(s) ==
  /\ sub[s].stage = "begun" /\ Valid(s)
  /\ deleter[sub[s].token] = NoOne
  /\ deleter' = [deleter EXCEPT ![sub[s].token] = s]
  /\ Goes(s, "matched")
  /\ UNCHANGED <<clock, issued, rows, expiresAt, owner, stored>>

\* Mutation: FOR UPDATE SKIP LOCKED.
DeleteSkipsLocked(s) ==
  /\ sub[s].stage = "begun"
  /\ ~Valid(s) \/ deleter[sub[s].token] # NoOne
  /\ Goes(s, "unmatched")
  /\ UNCHANGED <<clock, issued, rows, expiresAt, deleter, owner, stored>>

DeleteFindsNothing(s) ==
  /\ sub[s].stage = "begun" /\ ~Valid(s)
  /\ Goes(s, "unmatched")
  /\ UNCHANGED <<clock, issued, rows, expiresAt, deleter, owner, stored>>

\* Mutation: the advisory lock belongs to the session and outlives the
\* transaction.
ReleaseKeepsLock(s) ==
  /\ deleter' = [c \in Challenges |-> IF deleter[c] = s THEN NoOne ELSE deleter[c]]
  /\ UNCHANGED owner

\* What the end of a transaction releases.
Release(s) ==
  /\ deleter' = [c \in Challenges |-> IF deleter[c] = s THEN NoOne ELSE deleter[c]]
  /\ owner' = [h \in Contents |-> IF owner[h] = s THEN NoOne ELSE owner[h]]

RollBack(s, stage) ==
  /\ Release(s)
  /\ Goes(s, stage)
  /\ UNCHANGED <<clock, issued, rows, expiresAt, stored>>

\* PublicVerificationError leaves the callback of the transaction.
Refuse(s) ==
  \/ sub[s].stage = "unmatched" /\ RollBack(s, "refused")
  \/ sub[s].stage = "matched" /\ ~sub[s].right /\ RollBack(s, "wrong")

\* A statement fails, or the process or its connection dies.
Fail(s) ==
  /\ sub[s].stage \in Open
  /\ RollBack(s, "failed")

\* Mutation: nothing is locked.
LockForgotten(s) ==
  /\ sub[s].stage = "matched" /\ sub[s].right /\ sub[s].content # Upload
  /\ Goes(s, "locked")
  /\ UNCHANGED <<clock, issued, rows, expiresAt, deleter, owner, stored>>

\* pg_advisory_xact_lock.
Lock(s) ==
  /\ sub[s].stage = "matched" /\ sub[s].right /\ sub[s].content # Upload
  /\ owner[sub[s].content] = NoOne
  /\ owner' = [owner EXCEPT ![sub[s].content] = s]
  /\ Goes(s, "locked")
  /\ UNCHANGED <<clock, issued, rows, expiresAt, deleter, stored>>

Identical(s) ==
  {r \in stored : r.content = sub[s].content /\ r.at >= sub[s].now - Window}

\* The SELECT, and the INSERT if it finds nothing.
Search(s) ==
  /\ sub[s].stage = "locked"
  /\ Goes(s, IF Identical(s) = {} THEN "inserted" ELSE "found")
  /\ UNCHANGED <<clock, issued, rows, expiresAt, deleter, owner, stored>>

Complete(s) ==
  \/ sub[s].stage \in {"found", "inserted"}
  \/ sub[s].stage = "matched" /\ sub[s].right /\ sub[s].content = Upload

NewRow(s) == [content |-> sub[s].content, at |-> sub[s].now, by |-> s]

\* COMMIT, acknowledged or not.
Commit(s, stage) ==
  /\ Complete(s)
  /\ rows' = rows \ {sub[s].token}
  /\ stored' = IF sub[s].stage = "inserted" THEN stored \cup {NewRow(s)} ELSE stored
  /\ Release(s)
  /\ Goes(s, stage)
  /\ UNCHANGED <<clock, issued, expiresAt>>

Answer(s) ==
  \/ Commit(s, IF sub[s].stage = "found" THEN "duplicate" ELSE "accepted")
  \/ Commit(s, "lost")

Tick ==
  /\ clock < MaxClock
  /\ clock' = clock + 1
  /\ UNCHANGED <<issued, rows, expiresAt, deleter, owner, sub, stored>>

---------------------------------------------------------------------------
Step(s) ==
  \/ Delete(s) \/ DeleteFindsNothing(s) \/ Refuse(s)
  \/ Lock(s) \/ Search(s) \/ Answer(s)

Next ==
  \/ \E c \in Challenges : Issue(c)
  \/ \E s \in Submissions : Step(s) \/ Fail(s)
  \/ \E s \in Submissions, c \in Challenges, right \in BOOLEAN,
        content \in Contents \cup {Upload} : Begin(s, c, right, content)
  \/ Purge \/ Tick

Spec == Init /\ [][Next]_vars

\* Statements end.  Nothing else is assumed: not that a submission ever fails,
\* nor that the clock or the purge goes on.
FairSpec == Spec /\ \A s \in Submissions : WF_vars(Step(s))

---------------------------------------------------------------------------
(* Properties.                                                             *)

\* Every variable has its type.
SubTypeOK ==
  /\ clock \in Nat
  /\ rows \subseteq issued /\ issued \subseteq Challenges
  /\ expiresAt \in [Challenges -> Nat]
  /\ deleter \in [Challenges -> Submissions \cup {NoOne}]
  /\ owner \in [Contents -> Submissions \cup {NoOne}]
  /\ sub \in [Submissions -> Submission]
  /\ stored \subseteq [content : Contents, at : Nat, by : Submissions]

Consumers(c) == {s \in Submissions : sub[s].stage \in Committed /\ sub[s].token = c}

\* "One-use": whatever requests carry the same cookie at the same time, and
\* whatever is rolled back, a challenge admits one submission, with the right
\* answer and begun in time.
OneUse ==
  \A c \in Challenges :
    /\ \A s, t \in Consumers(c) : s = t
    /\ \A s \in Consumers(c) : sub[s].right /\ sub[s].now < expiresAt[c] /\ c \notin rows

\* Identical requests are stored once per window, even when they arrive
\* together, wait for each other, roll back, or repeat one whose answer was lost.
WindowHolds ==
  \A q, r \in stored :
    q.content = r.content /\ q.by # r.by
      => q.at + Window < r.at \/ r.at + Window < q.at

\* A visitor who was told 202 finds the request stored, as theirs or as the
\* identical one of the window.
NothingLost ==
  \A s \in Submissions :
    sub[s].stage \in {"accepted", "duplicate"} /\ sub[s].content # Upload
      => \E r \in stored : r.content = sub[s].content /\ r.at + Window >= sub[s].now

\* The abstract state: a challenge that is gone was used by a commit, or purged.
ChallengeOf(c) ==
  IF c \notin issued THEN "fresh"
  ELSE IF c \in rows THEN "open"
  ELSE IF Consumers(c) # {} THEN "used" ELSE "over"

OutcomeOf(s) ==
  IF sub[s].stage = "idle" THEN "none"
  ELSE IF sub[s].stage \in Open THEN "asked" ELSE sub[s].stage

RequestOf(s) ==
  [token |-> sub[s].token, right |-> sub[s].right, content |-> sub[s].content,
   now |-> sub[s].now]

Atomic == INSTANCE AtomicSubmissions
            WITH challenge <- [c \in Challenges |-> ChallengeOf(c)],
                 until <- expiresAt,
                 request <- [s \in Submissions |-> RequestOf(s)],
                 outcome <- [s \in Submissions |-> OutcomeOf(s)]

\* The statements, locks and rollbacks of the transactions implement submissions
\* that take effect in one step each, at the COMMIT, or leave no trace: not even
\* a wrong answer uses its challenge up, which docs/security-model.md:5 says of it.
ActsAtomically == Atomic!Spec

\* Row lock and advisory lock are taken in the same order by everybody: no
\* submission waits for ever.
EveryoneAnswered ==
  \A s \in Submissions : sub[s].stage = "begun" ~> sub[s].stage \notin Open

---------------------------------------------------------------------------
(* The inductive invariant behind OneUse, WindowHolds and NothingLost.     *)

LocksMatchStages ==
  /\ \A s \in Submissions :
       /\ sub[s].stage # "idle" => sub[s].token \in issued
       /\ sub[s].stage \in Consuming => deleter[sub[s].token] = s
       /\ sub[s].stage \in Searching =>
            sub[s].content # Upload /\ sub[s].right /\ owner[sub[s].content] = s
  /\ \A c \in Challenges : deleter[c] # NoOne =>
       /\ sub[deleter[c]].stage \in Consuming /\ sub[deleter[c]].token = c
       /\ c \in rows /\ sub[deleter[c]].now < expiresAt[c]
  /\ \A h \in Contents : owner[h] # NoOne =>
       sub[owner[h]].stage \in Searching /\ sub[owner[h]].content = h

\* What a transaction has found stays true while it holds its lock.
SearchesHold ==
  \A s \in Submissions :
    /\ sub[s].stage = "inserted" => Identical(s) = {}
    /\ sub[s].stage = "found" => Identical(s) # {}

SubInv ==
  SubTypeOK /\ LocksMatchStages /\ SearchesHold /\ OneUse /\ WindowHolds /\ NothingLost
===========================================================================
