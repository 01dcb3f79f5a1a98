--------------------------- MODULE AdminSession ----------------------------
(***************************************************************************)
(* Sign-in of the one administrator (auth/service.ts, auth/routes.ts):     *)
(* login, the check in front of every protected route, logout, and the     *)
(* change of username or password that revokes all sessions.               *)
(*                                                                         *)
(* A credential is a generation: every change of the account starts a new  *)
(* one.  A login reads it in one transaction and creates its session in    *)
(* another.  A change locks the account row, updates every session row in  *)
(* one statement, which keeps those rows locked, and commits.              *)
(***************************************************************************)
EXTENDS Integers

CONSTANTS
  Requests,       \* requests under way at once
  Sessions,       \* tokens, fresh for each login
  NoSession,
  Idle,           \* SESSION_IDLE_MINUTES
  Absolute,       \* SESSION_ABSOLUTE_HOURS
  MaxClock,       \* bound on the clock
  MaxGeneration   \* bound on the changes of the account

ASSUME SessionAssumption ==
  /\ NoSession \notin Sessions
  /\ Idle \in Nat \ {0}
  /\ Absolute \in Nat \ {0}
  /\ MaxClock \in Nat
  /\ MaxGeneration \in Nat

VARIABLES
  clock,
  generation,  \* of the credentials in admin_account
  session,     \* admin_sessions, by token
  req          \* the requests

vars == <<clock, generation, session, req>>

\* `generation` is the one the login verified.  `raced` (only to state
\* properties): when the row was inserted, those credentials had been replaced,
\* or were about to be by a change that had already revoked the sessions it saw.
Row ==
  [stored : BOOLEAN, revoked : BOOLEAN, lastUsed : Nat, expires : Nat,
   generation : Nat, raced : BOOLEAN]

NoRow ==
  [stored |-> FALSE, revoked |-> FALSE, lastUsed |-> 0, expires |-> 0,
   generation |-> 0, raced |-> FALSE]

\* A request holds the account row while it is "locked" or "revoking".
Request ==
  [stage : {"idle", "verified", "checking", "authenticated", "locked", "revoking"},
   token : Sessions \cup {NoSession}, now : Nat, generation : Nat,
   swept : SUBSET Sessions]

NoRequest ==
  [stage |-> "idle", token |-> NoSession, now |-> 0, generation |-> 0, swept |-> {}]

Changing == {"locked", "revoking"}

Init ==
  /\ clock = 0
  /\ generation = 0
  /\ session = [t \in Sessions |-> NoRow]
  /\ req = [q \in Requests |-> NoRequest]

Tick ==
  /\ clock < MaxClock
  /\ clock' = clock + 1
  /\ UNCHANGED <<generation, session, req>>

Live(t) == session[t].stored /\ ~session[t].revoked

\* The row of a session is locked by a change that has not committed yet.
Locked(t) == \E q \in Requests : req[q].stage = "revoking" /\ t \in req[q].swept

---------------------------------------------------------------------------
(* Login.                                                                  *)

\* lookup_admin_credentials and the verification of the password; a wrong
\* username or password ends the request and changes nothing.
LoginVerifies(q) ==
  /\ req[q].stage = "idle"
  /\ req' = [req EXCEPT ![q] = [NoRequest EXCEPT !.stage = "verified",
                                                 !.generation = generation]]
  /\ UNCHANGED <<clock, generation, session>>

\* Mutation: a session is created already expired.
NoExpiry(now) == -1

Expiry(now) == now + Absolute

LoginCreates(q, t) ==
  LET g == req[q].generation
      raced == g # generation \/ \E p \in Requests : req[p].stage = "revoking"
  IN
  /\ req[q].stage = "verified"
  /\ ~session[t].stored
  /\ session' = [session EXCEPT ![t] =
       [stored |-> TRUE, revoked |-> FALSE, lastUsed |-> clock,
        expires |-> Expiry(clock), generation |-> g, raced |-> raced]]
  /\ req' = [req EXCEPT ![q] = NoRequest]
  /\ UNCHANGED <<clock, generation>>

---------------------------------------------------------------------------
(* The check in front of a protected route, and what follows it in         *)
(* transactions of their own.                                              *)

\* now() is the start of the transaction, also if its UPDATE has to wait.
Arrive(q, t) ==
  /\ req[q].stage = "idle"
  /\ session[t].stored
  /\ req' = [req EXCEPT ![q] = [NoRequest EXCEPT !.stage = "checking", !.token = t,
                                                 !.now = clock]]
  /\ UNCHANGED <<clock, generation, session>>

\* Past this point a session is not accepted any more.
Deadline(t) ==
  IF session[t].lastUsed + Idle < session[t].expires
  THEN session[t].lastUsed + Idle ELSE session[t].expires

\* Mutation: the idle limit is forgotten.
AcceptedWhileNotExpired(t, now) == Live(t) /\ now < session[t].expires

Accepted(t, now) == Live(t) /\ now < Deadline(t)

Authenticate(q) ==
  LET t == req[q].token IN
  /\ req[q].stage = "checking"
  /\ ~Locked(t)
  /\ Accepted(t, req[q].now)
  /\ session' = [session EXCEPT ![t].lastUsed = req[q].now]
  /\ req' = [req EXCEPT ![q].stage = "authenticated"]
  /\ UNCHANGED <<clock, generation>>

Refuse(q) ==
  /\ req[q].stage = "checking"
  /\ ~Locked(req[q].token)
  /\ ~Accepted(req[q].token, req[q].now)
  /\ req' = [req EXCEPT ![q] = NoRequest]
  /\ UNCHANGED <<clock, generation, session>>

\* Any other protected route: its transaction does not look at the session.
Act(q) ==
  /\ req[q].stage = "authenticated"
  /\ req' = [req EXCEPT ![q] = NoRequest]
  /\ UNCHANGED <<clock, generation, session>>

Logout(q) ==
  /\ req[q].stage = "authenticated"
  /\ ~Locked(req[q].token)
  /\ session' = [session EXCEPT ![req[q].token].revoked = TRUE]
  /\ req' = [req EXCEPT ![q] = NoRequest]
  /\ UNCHANGED <<clock, generation>>

---------------------------------------------------------------------------
(* The change of the account.                                              *)

\* Mutation: the account is read without FOR UPDATE.
ReadAccount(q) ==
  /\ req[q].stage = "authenticated"
  /\ req' = [req EXCEPT ![q].stage = "locked", ![q].generation = generation]
  /\ UNCHANGED <<clock, generation, session>>

\* SELECT ... FOR UPDATE waits for another change and reads what it has left;
\* the password must be that of the row it reads.
LockAccount(q) ==
  /\ req[q].stage = "authenticated"
  /\ \A p \in Requests : req[p].stage \notin Changing
  /\ req' = [req EXCEPT ![q].stage = "locked", ![q].generation = generation]
  /\ UNCHANGED <<clock, generation, session>>

\* Mutation: only the session that asked is revoked.
RevokeOwn(q) ==
  /\ req[q].stage = "locked"
  /\ generation < MaxGeneration
  /\ req' = [req EXCEPT ![q].stage = "revoking",
                        ![q].swept = {t \in {req[q].token} : Live(t)}]
  /\ UNCHANGED <<clock, generation, session>>

\* UPDATE admin_sessions: the rows that are there when the statement starts.
RevokeAll(q) ==
  /\ req[q].stage = "locked"
  /\ generation < MaxGeneration
  /\ req' = [req EXCEPT ![q].stage = "revoking", ![q].swept = {t \in Sessions : Live(t)}]
  /\ UNCHANGED <<clock, generation, session>>

CommitChange(q) ==
  /\ req[q].stage = "revoking"
  /\ generation' = generation + 1
  /\ session' = [t \in Sessions |->
       IF t \in req[q].swept THEN [session[t] EXCEPT !.revoked = TRUE] ELSE session[t]]
  /\ req' = [req EXCEPT ![q] = NoRequest]
  /\ UNCHANGED clock

\* A wrong password ends the transaction without a change; so does an error.
Abandon(q) ==
  /\ req[q].stage # "idle"
  /\ req' = [req EXCEPT ![q] = NoRequest]
  /\ UNCHANGED <<clock, generation, session>>

---------------------------------------------------------------------------
Step(q) ==
  \/ LoginVerifies(q)
  \/ \E t \in Sessions : LoginCreates(q, t) \/ Arrive(q, t)
  \/ Authenticate(q) \/ Refuse(q) \/ Act(q) \/ Logout(q)
  \/ LockAccount(q) \/ RevokeAll(q) \/ CommitChange(q) \/ Abandon(q)

Next == Tick \/ \E q \in Requests : Step(q)

Spec == Init /\ [][Next]_vars

---------------------------------------------------------------------------
(* Properties.                                                             *)

\* Every variable stays in its domain.
SessionTypeOK ==
  /\ clock \in Nat
  /\ generation \in Nat
  /\ session \in [Sessions -> Row]
  /\ req \in [Requests -> Request]

\* After a change of the account the old credentials keep nobody signed in,
\* but for logins that had verified them and were still to create their
\* session when the change revoked the others.
SurvivorsWereInFlight ==
  \A t \in Sessions : Live(t) /\ session[t].generation # generation => session[t].raced

\* A change was verified against the credentials it replaces: of two changes at
\* the same time, the second must know what the first has set.
ChangesVerified ==
  [][generation' # generation =>
       \E q \in Requests : req[q].stage = "revoking" /\ req[q].generation = generation]_vars

Dead(t) == session[t].stored /\ (session[t].revoked \/ Deadline(t) <= clock)

\* A check that arrived while the session was alive and is still to be decided.
Pending(t) ==
  \E q \in Requests : req[q].stage = "checking" /\ req[q].token = t /\ req[q].now < Deadline(t)

\* A session that was revoked stays so, and one that has lapsed is not brought
\* back by its use: only a check that arrived in time, and waited for a lock,
\* may still prolong it.
DeadStaysDead ==
  [][\A t \in Sessions :
       /\ session[t].revoked => session'[t].revoked
       /\ Dead(t) /\ ~Pending(t) => Dead(t)']_vars

\* What keeps the first two true: one change at a time, which has read the
\* credentials it replaces, and whose revocation misses only later logins.
Changes ==
  \A q \in Requests :
    /\ req[q].stage \in Changing =>
         /\ req[q].generation = generation
         /\ \A p \in Requests \ {q} : req[p].stage \notin Changing
    /\ req[q].stage = "revoking" =>
         \A t \in Sessions : Live(t) => t \in req[q].swept \/ session[t].raced

SessionInv == SessionTypeOK /\ SurvivorsWereInFlight /\ Changes
=============================================================================
