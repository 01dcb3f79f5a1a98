------------------------ MODULE AdminSession_proofs ------------------------
(***************************************************************************)
(* Proofs about AdminSession for any number of requests and sessions.      *)
(***************************************************************************)
EXTENDS AdminSession, TLAPS

USE DEF Changing

\* The initial state satisfies the invariant.
LEMMA SessionInit == Init => SessionInv
<1> SUFFICES ASSUME Init PROVE SessionInv
  OBVIOUS
<1>1. NoRow \in Row /\ NoRequest \in Request
  BY DEF NoRow, Row, NoRequest, Request
<1>2. SessionTypeOK
  BY <1>1 DEF Init, SessionTypeOK
<1>3. \A t \in Sessions : ~Live(t)
  BY DEF Init, Live, NoRow
<1>4. \A q \in Requests : req[q].stage = "idle"
  BY DEF Init, NoRequest
<1>5. QED
  BY <1>2, <1>3, <1>4 DEF SessionInv, SurvivorsWereInFlight, Changes

\* A request that becomes r, while no session and no credential changes, keeps
\* the invariant if r changes nothing, or holds the account alone, on the
\* present credentials, and revokes what is live.
LEMMA RequestStep ==
  ASSUME SessionInv, NEW q \in Requests, NEW r \in Request,
         req' = [req EXCEPT ![q] = r], UNCHANGED <<generation, session>>, clock' \in Nat,
         r.stage \in Changing =>
           /\ r.generation = generation
           /\ \A p \in Requests \ {q} : req[p].stage \notin Changing,
         r.stage = "revoking" => \A t \in Sessions : Live(t) => t \in r.swept
  PROVE  SessionInv'
<1>1. SessionTypeOK'
  BY DEF SessionInv, SessionTypeOK
<1>2. \A p \in Requests : req'[p] = IF p = q THEN r ELSE req[p]
  BY DEF SessionInv, SessionTypeOK
<1>3. \A t \in Sessions : Live(t)' <=> Live(t)
  BY DEF Live
<1>4. SurvivorsWereInFlight'
  BY <1>3 DEF SessionInv, SurvivorsWereInFlight
<1>5. Changes'
  <2>1. SUFFICES ASSUME NEW p \in Requests, req'[p].stage \in Changing
                 PROVE  /\ req'[p].generation = generation
                        /\ \A o \in Requests \ {p} : req'[o].stage \notin Changing
                        /\ req'[p].stage = "revoking" =>
                             \A t \in Sessions : Live(t) => t \in req'[p].swept \/ session[t].raced
    BY <1>3 DEF Changes
  <2>2. CASE p = q
    BY <1>2, <2>1, <2>2
  <2>3. CASE p # q
    BY <1>2, <2>1, <2>3 DEF SessionInv, Changes
  <2>4. QED
    BY <2>2, <2>3
<1>6. QED
  BY <1>1, <1>4, <1>5 DEF SessionInv

\* A request that is over changes nothing any more.
LEMMA RequestOver ==
  ASSUME SessionInv, NEW q \in Requests, req' = [req EXCEPT ![q] = NoRequest],
         UNCHANGED <<generation, session>>, clock' \in Nat
  PROVE  SessionInv'
<1>1. NoRequest \in Request /\ NoRequest.stage = "idle"
  BY DEF NoRequest, Request
<1>2. QED
  BY <1>1, RequestStep

\* A request that only uses or revokes a session, without a part in a change.
LEMMA UseStep ==
  ASSUME SessionInv, NEW q \in Requests, NEW r \in Request, r.stage \notin Changing,
         req' = [req EXCEPT ![q] = r], UNCHANGED <<clock, generation>>,
         session' \in [Sessions -> Row],
         \A u \in Sessions : /\ Live(u)' => Live(u)
                             /\ session'[u].raced = session[u].raced
                             /\ session'[u].generation = session[u].generation
  PROVE  SessionInv'
<1>1. SessionTypeOK'
  BY DEF SessionInv, SessionTypeOK
<1>2. \A p \in Requests : req'[p] = IF p = q THEN r ELSE req[p]
  BY DEF SessionInv, SessionTypeOK
<1>3. SurvivorsWereInFlight'
  BY DEF SessionInv, SurvivorsWereInFlight
<1>4. Changes'
  BY <1>2 DEF SessionInv, Changes
<1>5. QED
  BY <1>1, <1>3, <1>4 DEF SessionInv

\* A new session is noted as raced whenever its login was overtaken.
LEMMA LoginCreatesStep ==
  ASSUME SessionInv, NEW q \in Requests, NEW t \in Sessions, LoginCreates(q, t)
  PROVE  SessionInv'
<1> DEFINE raced == \/ req[q].generation # generation
                    \/ \E p \in Requests : req[p].stage = "revoking"
<1> DEFINE row == [stored |-> TRUE, revoked |-> FALSE, lastUsed |-> clock,
                   expires |-> clock + Absolute, generation |-> req[q].generation,
                   raced |-> raced]
<1>1. /\ session' = [session EXCEPT ![t] = row]
      /\ req' = [req EXCEPT ![q] = NoRequest]
      /\ UNCHANGED <<clock, generation>>
      /\ req[q].stage = "verified"
  BY DEF LoginCreates, Expiry
<1>2. raced \in BOOLEAN
  OBVIOUS
<1> HIDE DEF raced
<1>3. row \in Row
  BY <1>2, SessionAssumption DEF SessionInv, SessionTypeOK, Row, Request
<1>4. NoRequest \in Request /\ NoRequest.stage = "idle"
  BY DEF NoRequest, Request
<1>5. SessionTypeOK'
  BY <1>1, <1>3, <1>4 DEF SessionInv, SessionTypeOK
<1>6. \A u \in Sessions : session'[u] = IF u = t THEN row ELSE session[u]
  BY <1>1 DEF SessionInv, SessionTypeOK
<1>7. \A p \in Requests : req'[p] = IF p = q THEN NoRequest ELSE req[p]
  BY <1>1 DEF SessionInv, SessionTypeOK
<1>8. SurvivorsWereInFlight'
  <2>1. SUFFICES ASSUME NEW u \in Sessions, Live(u)', session'[u].generation # generation
                 PROVE  session'[u].raced
    BY <1>1 DEF SurvivorsWereInFlight
  <2>2. CASE u = t
    <3>1. session'[u] = row
      BY <1>6, <2>2
    <3>2. req[q].generation # generation
      BY <2>1, <3>1
    <3>3. raced
      BY <3>2 DEF raced
    <3>4. QED
      BY <3>1, <3>3
  <2>3. CASE u # t
    BY <1>6, <2>1, <2>3 DEF SessionInv, SurvivorsWereInFlight, Live
  <2>4. QED
    BY <2>2, <2>3
<1>9. Changes'
  <2>1. SUFFICES ASSUME NEW p \in Requests, req'[p].stage \in Changing
                 PROVE  /\ req'[p].generation = generation
                        /\ \A o \in Requests \ {p} : req'[o].stage \notin Changing
                        /\ req'[p].stage = "revoking" =>
                             \A u \in Sessions : Live(u)' => u \in req'[p].swept \/ session'[u].raced
    BY <1>1 DEF Changes
  <2>2. p # q /\ req'[p] = req[p]
    BY <1>4, <1>7, <2>1
  <2>3. /\ req'[p].generation = generation
        /\ \A o \in Requests \ {p} : req'[o].stage \notin Changing
    BY <1>4, <1>7, <2>1, <2>2 DEF SessionInv, Changes
  <2>4. ASSUME req'[p].stage = "revoking", NEW u \in Sessions, Live(u)'
        PROVE  u \in req'[p].swept \/ session'[u].raced
    <3>1. CASE u = t
      <4>1. raced
        BY <2>2, <2>4 DEF raced
      <4>2. QED
        BY <1>6, <3>1, <4>1
    <3>2. CASE u # t
      BY <1>6, <2>2, <2>4, <3>2 DEF SessionInv, Changes, Live
    <3>3. QED
      BY <3>1, <3>2
  <2>5. QED
    BY <2>3, <2>4
<1>10. QED
  BY <1>5, <1>8, <1>9 DEF SessionInv

\* The commit of a change revokes every live session that was not raced.
LEMMA CommitChangeStep ==
  ASSUME SessionInv, NEW q \in Requests, CommitChange(q)
  PROVE  SessionInv'
<1>1. /\ generation' = generation + 1
      /\ session' = [t \in Sessions |->
           IF t \in req[q].swept THEN [session[t] EXCEPT !.revoked = TRUE] ELSE session[t]]
      /\ req' = [req EXCEPT ![q] = NoRequest]
      /\ UNCHANGED clock
      /\ req[q].stage = "revoking"
  BY DEF CommitChange
<1>2. NoRequest \in Request /\ NoRequest.stage = "idle"
  BY DEF NoRequest, Request
<1>3. \A t \in Sessions : [session[t] EXCEPT !.revoked = TRUE] \in Row
  BY DEF SessionInv, SessionTypeOK, Row
<1>4. SessionTypeOK'
  BY <1>1, <1>2, <1>3 DEF SessionInv, SessionTypeOK
<1>5. ASSUME NEW t \in Sessions, Live(t)' PROVE session'[t] = session[t] /\ session[t].raced
  <2>1. CASE t \in req[q].swept
    BY <1>1, <1>5, <2>1 DEF Live, SessionInv, SessionTypeOK, Row
  <2>2. CASE t \notin req[q].swept
    <3>1. session'[t] = session[t] /\ Live(t)
      BY <1>1, <1>5, <2>2 DEF Live
    <3>2. QED
      BY <1>1, <2>2, <3>1 DEF SessionInv, Changes
  <2>3. QED
    BY <2>1, <2>2
<1>6. SurvivorsWereInFlight'
  BY <1>5 DEF SurvivorsWereInFlight
<1>7. \A p \in Requests : req'[p].stage \notin Changing
  BY <1>1, <1>2 DEF SessionInv, SessionTypeOK, Changes
<1>8. QED
  BY <1>4, <1>6, <1>7 DEF SessionInv, Changes

\* Every step keeps the invariant.
LEMMA SessionNext == SessionInv /\ [Next]_vars => SessionInv'
<1> SUFFICES ASSUME SessionInv, [Next]_vars PROVE SessionInv'
  OBVIOUS
<1>1. SessionTypeOK
  BY DEF SessionInv
<1>2. CASE Tick \/ UNCHANGED vars
  <2>1. UNCHANGED <<generation, session, req>> /\ clock' \in Nat
    BY <1>1, <1>2 DEF Tick, vars, SessionTypeOK
  <2>2. QED
    BY <2>1 DEF SessionInv, SessionTypeOK, SurvivorsWereInFlight, Changes, Live
<1>3. ASSUME NEW q \in Requests, LoginVerifies(q) PROVE SessionInv'
  <2> DEFINE r == [NoRequest EXCEPT !.stage = "verified", !.generation = generation]
  <2>1. r \in Request /\ r.stage = "verified"
    BY <1>1 DEF NoRequest, Request, SessionTypeOK
  <2>2. req' = [req EXCEPT ![q] = r] /\ UNCHANGED <<generation, session>> /\ clock' \in Nat
    BY <1>1, <1>3 DEF LoginVerifies, SessionTypeOK
  <2> HIDE DEF r
  <2>3. QED
    BY <2>1, <2>2, RequestStep
<1>4. ASSUME NEW q \in Requests, NEW t \in Sessions, LoginCreates(q, t) PROVE SessionInv'
  BY <1>4, LoginCreatesStep
<1>5. ASSUME NEW q \in Requests, NEW t \in Sessions, Arrive(q, t) PROVE SessionInv'
  <2> DEFINE r == [NoRequest EXCEPT !.stage = "checking", !.token = t, !.now = clock]
  <2>1. r \in Request /\ r.stage = "checking"
    BY <1>1 DEF NoRequest, Request, SessionTypeOK
  <2>2. req' = [req EXCEPT ![q] = r] /\ UNCHANGED <<generation, session>> /\ clock' \in Nat
    BY <1>1, <1>5 DEF Arrive, SessionTypeOK
  <2> HIDE DEF r
  <2>3. QED
    BY <2>1, <2>2, RequestStep
<1>6. ASSUME NEW q \in Requests, Authenticate(q) \/ Logout(q) PROVE SessionInv'
  <2> DEFINE t == req[q].token
  <2>1. ASSUME Authenticate(q) PROVE SessionInv'
    <3> DEFINE r == [req[q] EXCEPT !.stage = "authenticated"]
    <3>1. r \in Request /\ r.stage = "authenticated"
      BY <1>1 DEF Request, SessionTypeOK
    <3>2. /\ session' = [session EXCEPT ![t].lastUsed = req[q].now]
          /\ req' = [req EXCEPT ![q] = r] /\ UNCHANGED <<clock, generation>>
      BY <1>1, <2>1 DEF Authenticate, SessionTypeOK
    <3>3. req[q].now \in Nat
      BY <1>1 DEF SessionTypeOK, Request
    <3>4. ASSUME NEW u \in Sessions
          PROVE  session'[u] \in {session[u], [session[u] EXCEPT !.lastUsed = req[q].now]}
      BY <1>1, <3>2 DEF SessionTypeOK
    <3>5. ASSUME NEW u \in Sessions
          PROVE  /\ session'[u] \in Row /\ (Live(u)' => Live(u))
                 /\ session'[u].raced = session[u].raced
                 /\ session'[u].generation = session[u].generation
      BY <1>1, <3>3, <3>4 DEF SessionTypeOK, Row, Live
    <3>6. session' \in [Sessions -> Row]
      BY <1>1, <3>2, <3>5 DEF SessionTypeOK
    <3> HIDE DEF r
    <3>7. QED
      BY <3>1, <3>2, <3>5, <3>6, UseStep
  <2>2. ASSUME Logout(q) PROVE SessionInv'
    <3>1. NoRequest \in Request /\ NoRequest.stage = "idle"
      BY DEF NoRequest, Request
    <3>2. /\ session' = [session EXCEPT ![t].revoked = TRUE]
          /\ req' = [req EXCEPT ![q] = NoRequest] /\ UNCHANGED <<clock, generation>>
      BY <2>2 DEF Logout
    <3>3. ASSUME NEW u \in Sessions
          PROVE  session'[u] \in {session[u], [session[u] EXCEPT !.revoked = TRUE]}
      BY <1>1, <3>2 DEF SessionTypeOK
    <3>4. ASSUME NEW u \in Sessions
          PROVE  /\ session'[u] \in Row /\ (Live(u)' => Live(u))
                 /\ session'[u].raced = session[u].raced
                 /\ session'[u].generation = session[u].generation
      BY <1>1, <3>3 DEF SessionTypeOK, Row, Live
    <3>5. session' \in [Sessions -> Row]
      BY <1>1, <3>2, <3>4 DEF SessionTypeOK
    <3>6. QED
      BY <3>1, <3>2, <3>4, <3>5, UseStep
  <2>3. QED
    BY <1>6, <2>1, <2>2
<1>7. ASSUME NEW q \in Requests, Refuse(q) \/ Act(q) \/ Abandon(q) PROVE SessionInv'
  BY <1>1, <1>7, RequestOver DEF Refuse, Act, Abandon, SessionTypeOK
<1>8. ASSUME NEW q \in Requests, LockAccount(q) PROVE SessionInv'
  <2> DEFINE r == [req[q] EXCEPT !.stage = "locked", !.generation = generation]
  <2>1. r \in Request /\ r.stage = "locked" /\ r.generation = generation
    BY <1>1 DEF Request, SessionTypeOK
  <2>2. /\ req' = [req EXCEPT ![q] = r] /\ UNCHANGED <<generation, session>> /\ clock' \in Nat
        /\ \A p \in Requests : req[p].stage \notin Changing
    BY <1>1, <1>8 DEF LockAccount, SessionTypeOK
  <2> HIDE DEF r
  <2>3. QED
    BY <2>1, <2>2, RequestStep
<1>9. ASSUME NEW q \in Requests, RevokeAll(q) PROVE SessionInv'
  <2> DEFINE r == [req[q] EXCEPT !.stage = "revoking", !.swept = {t \in Sessions : Live(t)}]
  <2>0. {t \in Sessions : Live(t)} \in SUBSET Sessions
    OBVIOUS
  <2>1. /\ r \in Request /\ r.stage = "revoking" /\ r.generation = req[q].generation
        /\ r.swept = {t \in Sessions : Live(t)}
    BY <1>1, <2>0 DEF Request, SessionTypeOK
  <2>2. /\ req' = [req EXCEPT ![q] = r] /\ UNCHANGED <<generation, session>> /\ clock' \in Nat
        /\ req[q].stage = "locked"
    BY <1>1, <1>9 DEF RevokeAll, SessionTypeOK
  <2> HIDE DEF r
  <2>3. /\ r.generation = generation
        /\ \A p \in Requests \ {q} : req[p].stage \notin Changing
    BY <2>1, <2>2 DEF SessionInv, Changes
  <2>4. \A t \in Sessions : Live(t) => t \in r.swept
    BY <2>1
  <2>5. QED
    BY <2>1, <2>2, <2>3, <2>4, RequestStep
<1>10. ASSUME NEW q \in Requests, CommitChange(q) PROVE SessionInv'
  BY <1>10, CommitChangeStep
<1>11. QED
  BY <1>2, <1>3, <1>4, <1>5, <1>6, <1>7, <1>8, <1>9, <1>10 DEF Next, Step

\* One change at a time, its revocation misses only later logins, and every
\* variable stays in its domain, in every reachable state.
THEOREM SessionInvariant == Spec => []SessionInv
<1>1. QED
  BY SessionInit, SessionNext, PTL DEF Spec

\* Whoever is signed in with credentials that were replaced had a login in
\* flight at the change (auth/service.ts:23-35 against 78-93).
THEOREM OldCredentialsOut == Spec => []SurvivorsWereInFlight
<1>1. SessionInv => SurvivorsWereInFlight
  BY DEF SessionInv
<1>2. QED
  BY <1>1, SessionInvariant, PTL

\* A change is verified against the credentials it replaces (the FOR UPDATE of
\* auth/service.ts:79).
THEOREM ChangeKnowsCredentials == Spec => ChangesVerified
<1>1. SessionInv /\ [Next]_vars =>
        [generation' # generation =>
           \E q \in Requests : req[q].stage = "revoking" /\ req[q].generation = generation]_vars
  <2> SUFFICES ASSUME SessionInv, Next, generation' # generation
               PROVE  \E q \in Requests : req[q].stage = "revoking" /\ req[q].generation = generation
    BY DEF vars
  <2>1. PICK q \in Requests : CommitChange(q)
    BY DEF Next, Step, Tick, LoginVerifies, LoginCreates, Arrive, Authenticate, Refuse, Act,
           Logout, LockAccount, RevokeAll, Abandon
  <2>2. QED
    BY <2>1 DEF CommitChange, SessionInv, Changes
<1>2. QED
  BY <1>1, SessionInvariant, PTL DEF Spec, ChangesVerified

\* Every variable stays in its domain.
THEOREM SessionTypeCorrect == Spec => []SessionTypeOK
<1>1. SessionInv => SessionTypeOK
  BY DEF SessionInv
<1>2. QED
  BY <1>1, SessionInvariant, PTL

---------------------------------------------------------------------------
(* Sessions that are dead.                                                 *)

\* The stages of a request that carries a token.
Owning == {"checking", "authenticated", "locked", "revoking"}

\* Tokens of requests, and the rows that a change sweeps, are rows of the
\* table; nothing is revoked before it is stored.
TokensStored ==
  /\ \A t \in Sessions : session[t].revoked => session[t].stored
  /\ \A q \in Requests : req[q].stage \in Owning =>
       req[q].token \in Sessions /\ session[req[q].token].stored
  /\ \A q \in Requests : req[q].stage = "revoking" => \A t \in req[q].swept : session[t].stored

\* A request that becomes r, where the table of sessions keeps its rows and r
\* refers to stored ones only, leaves the tokens stored.
LEMMA TokensKept ==
  ASSUME SessionTypeOK, TokensStored, NEW q \in Requests, NEW r,
         req' = [req EXCEPT ![q] = r],
         \A t \in Sessions : session[t].stored => session'[t].stored,
         \A t \in Sessions : session'[t].revoked => session'[t].stored,
         r.stage \in Owning => r.token \in Sessions /\ session'[r.token].stored,
         r.stage = "revoking" => r.swept \subseteq Sessions /\ \A t \in r.swept : session'[t].stored
  PROVE  TokensStored'
<1>1. \A p \in Requests : req'[p] = IF p = q THEN r ELSE req[p]
  BY DEF SessionTypeOK
<1>2. \A p \in Requests : req[p].swept \subseteq Sessions
  BY DEF SessionTypeOK, Request
<1>3. QED
  BY <1>1, <1>2 DEF TokensStored

\* A request that is over leaves them stored too.
LEMMA TokensOver ==
  ASSUME SessionTypeOK, TokensStored, NEW q \in Requests, req' = [req EXCEPT ![q] = NoRequest],
         \A t \in Sessions : session[t].stored => session'[t].stored,
         \A t \in Sessions : session'[t].revoked => session'[t].stored
  PROVE  TokensStored'
<1>1. NoRequest.stage = "idle"
  BY DEF NoRequest
<1>2. QED
  BY <1>1, TokensKept DEF Owning

\* Every step leaves them stored: no row is ever deleted, and a token is taken
\* from a cookie that some row answers to.
LEMMA TokensNext == SessionTypeOK /\ TokensStored /\ [Next]_vars => TokensStored'
<1> SUFFICES ASSUME SessionTypeOK, TokensStored, [Next]_vars PROVE TokensStored'
  OBVIOUS
<1> DEFINE Kept == /\ \A t \in Sessions : session[t].stored => session'[t].stored
                   /\ \A t \in Sessions : session'[t].revoked => session'[t].stored
<1>1. UNCHANGED session => Kept
  BY DEF TokensStored
<1>2. CASE Tick \/ UNCHANGED vars
  BY <1>2 DEF Tick, vars, TokensStored
<1>3. ASSUME NEW q \in Requests, LoginVerifies(q) PROVE TokensStored'
  <2> DEFINE r == [NoRequest EXCEPT !.stage = "verified", !.generation = generation]
  <2>1. r.stage = "verified"
    BY DEF NoRequest
  <2>2. req' = [req EXCEPT ![q] = r] /\ Kept
    BY <1>1, <1>3 DEF LoginVerifies
  <2> HIDE DEF r
  <2>3. QED
    BY <2>1, <2>2, TokensKept DEF Owning
<1>4. ASSUME NEW q \in Requests, NEW t \in Sessions, LoginCreates(q, t) PROVE TokensStored'
  <2>1. \A u \in Sessions : u # t => session'[u] = session[u]
    BY <1>4 DEF LoginCreates, SessionTypeOK
  <2>2. session'[t].stored
    BY <1>4 DEF LoginCreates, SessionTypeOK
  <2>3. Kept
    BY <2>1, <2>2 DEF TokensStored
  <2>4. req' = [req EXCEPT ![q] = NoRequest]
    BY <1>4 DEF LoginCreates
  <2>5. QED
    BY <2>3, <2>4, TokensOver
<1>5. ASSUME NEW q \in Requests, NEW t \in Sessions, Arrive(q, t) PROVE TokensStored'
  <2> DEFINE r == [NoRequest EXCEPT !.stage = "checking", !.token = t, !.now = clock]
  <2>1. r.stage = "checking" /\ r.token = t
    BY DEF NoRequest
  <2>2. req' = [req EXCEPT ![q] = r] /\ Kept /\ session'[t].stored
    BY <1>1, <1>5 DEF Arrive
  <2> HIDE DEF r
  <2>3. QED
    BY <2>1, <2>2, TokensKept
<1>6. ASSUME NEW q \in Requests, Authenticate(q) PROVE TokensStored'
  <2> DEFINE r == [req[q] EXCEPT !.stage = "authenticated"]
  <2>1. r.stage = "authenticated" /\ r.token = req[q].token
    BY DEF SessionTypeOK, Request
  <2>2. req' = [req EXCEPT ![q] = r]
    BY <1>6 DEF Authenticate
  <2>3. \A u \in Sessions :
          session'[u].stored = session[u].stored /\ session'[u].revoked = session[u].revoked
    BY <1>6 DEF Authenticate, SessionTypeOK, Row
  <2>4. req[q].token \in Sessions /\ session[req[q].token].stored
    BY <1>6 DEF Authenticate, TokensStored, Owning
  <2>5. Kept /\ session'[r.token].stored
    BY <2>1, <2>3, <2>4 DEF TokensStored
  <2> HIDE DEF r
  <2>6. QED
    BY <2>1, <2>2, <2>4, <2>5, TokensKept
<1>7. ASSUME NEW q \in Requests, Refuse(q) \/ Act(q) \/ Abandon(q) PROVE TokensStored'
  <2>1. UNCHANGED session /\ req' = [req EXCEPT ![q] = NoRequest]
    BY <1>7 DEF Refuse, Act, Abandon
  <2>2. QED
    BY <1>1, <2>1, TokensOver
<1>8. ASSUME NEW q \in Requests, Logout(q) PROVE TokensStored'
  <2>1. req[q].token \in Sessions /\ session[req[q].token].stored
    BY <1>8 DEF Logout, TokensStored, Owning
  <2>2. \A u \in Sessions :
          /\ session'[u].stored = session[u].stored
          /\ u # req[q].token => session'[u] = session[u]
    BY <1>8 DEF Logout, SessionTypeOK, Row
  <2>3. Kept
    BY <2>1, <2>2 DEF TokensStored
  <2>4. req' = [req EXCEPT ![q] = NoRequest]
    BY <1>8 DEF Logout
  <2>5. QED
    BY <2>3, <2>4, TokensOver
<1>9. ASSUME NEW q \in Requests, LockAccount(q) PROVE TokensStored'
  <2> DEFINE r == [req[q] EXCEPT !.stage = "locked", !.generation = generation]
  <2>1. r.stage = "locked" /\ r.token = req[q].token
    BY DEF SessionTypeOK, Request
  <2>2. req' = [req EXCEPT ![q] = r] /\ UNCHANGED session
    BY <1>9 DEF LockAccount
  <2>3. req[q].token \in Sessions /\ session[req[q].token].stored
    BY <1>9 DEF LockAccount, TokensStored, Owning
  <2> HIDE DEF r
  <2>4. QED
    BY <1>1, <2>1, <2>2, <2>3, TokensKept
<1>10. ASSUME NEW q \in Requests, RevokeAll(q) PROVE TokensStored'
  <2> DEFINE r == [req[q] EXCEPT !.stage = "revoking", !.swept = {t \in Sessions : Live(t)}]
  <2>1. r.token = req[q].token /\ r.swept = {t \in Sessions : Live(t)}
    BY DEF SessionTypeOK, Request
  <2>2. req' = [req EXCEPT ![q] = r] /\ UNCHANGED session
    BY <1>10 DEF RevokeAll
  <2>3. req[q].token \in Sessions /\ session[req[q].token].stored
    BY <1>10 DEF RevokeAll, TokensStored, Owning
  <2>4. r.swept \subseteq Sessions /\ \A t \in r.swept : session'[t].stored
    BY <2>1, <2>2 DEF Live
  <2> HIDE DEF r
  <2>5. QED
    BY <1>1, <2>1, <2>2, <2>3, <2>4, TokensKept
<1>11. ASSUME NEW q \in Requests, CommitChange(q) PROVE TokensStored'
  <2>1. \A t \in req[q].swept : session[t].stored
    BY <1>11 DEF CommitChange, TokensStored
  <2>2. \A u \in Sessions :
          /\ session'[u].stored = session[u].stored
          /\ u \notin req[q].swept => session'[u] = session[u]
    BY <1>11 DEF CommitChange, SessionTypeOK, Row
  <2>3. Kept
    BY <2>1, <2>2 DEF TokensStored
  <2>4. req' = [req EXCEPT ![q] = NoRequest]
    BY <1>11 DEF CommitChange
  <2>5. QED
    BY <2>3, <2>4, TokensOver
<1>12. QED
  BY <1>2, <1>3, <1>4, <1>5, <1>6, <1>7, <1>8, <1>9, <1>10, <1>11 DEF Next, Step

\* A row that neither loses its revocation nor is used keeps a dead session
\* dead, because its deadline stays and the clock goes on.
LEMMA DeadWhileUnused ==
  ASSUME SessionTypeOK, clock' \in Nat, clock <= clock', NEW t \in Sessions, Dead(t),
         session'[t].stored, session[t].revoked => session'[t].revoked,
         session'[t].lastUsed = session[t].lastUsed, session'[t].expires = session[t].expires
  PROVE  Dead(t)'
<1>1. session[t].lastUsed + Idle \in Nat /\ session[t].expires \in Nat
  BY SessionAssumption DEF SessionTypeOK, Row
<1>2. Deadline(t)' = Deadline(t) /\ Deadline(t) \in Nat
  BY <1>1 DEF Deadline
<1>3. clock \in Nat
  BY DEF SessionTypeOK
<1>4. QED
  BY <1>2, <1>3 DEF Dead

\* No step brings a dead session back, unless a check of it that arrived in time
\* is still pending.
LEMMA DeadNext ==
  ASSUME SessionTypeOK, TokensStored, [Next]_vars, NEW t \in Sessions
  PROVE  /\ session[t].revoked => session'[t].revoked
         /\ Dead(t) /\ ~Pending(t) => Dead(t)'
<1> DEFINE Unused == /\ session[t].stored => session'[t].stored
                     /\ session[t].revoked => session'[t].revoked
                     /\ session'[t].lastUsed = session[t].lastUsed
                     /\ session'[t].expires = session[t].expires
<1> DEFINE Goal == /\ session[t].revoked => session'[t].revoked
                   /\ Dead(t) /\ ~Pending(t) => Dead(t)'
<1>1. clock' \in Nat /\ clock <= clock'
  <2>1. clock' = clock \/ clock' = clock + 1
    BY DEF Next, Step, Tick, LoginVerifies, LoginCreates, Arrive, Authenticate, Refuse, Act,
           Logout, LockAccount, RevokeAll, CommitChange, Abandon, vars
  <2>2. clock \in Nat
    BY DEF SessionTypeOK
  <2>3. QED
    BY <2>1, <2>2
<1>2. ASSUME Unused PROVE Goal
  BY <1>1, <1>2, DeadWhileUnused DEF Dead
<1>3. ASSUME UNCHANGED session PROVE Goal
  <2>1. Unused
    BY <1>3
  <2>2. QED
    BY <1>2, <2>1
<1>4. ASSUME NEW q \in Requests, NEW u \in Sessions, LoginCreates(q, u) PROVE Goal
  <2>1. CASE u = t
    BY <1>4, <2>1 DEF LoginCreates, TokensStored, Dead
  <2>2. CASE u # t
    <3>1. Unused
      BY <1>4, <2>2 DEF LoginCreates, SessionTypeOK
    <3>2. QED
      BY <1>2, <3>1
  <2>3. QED
    BY <2>1, <2>2
<1>5. ASSUME NEW q \in Requests, Authenticate(q) PROVE Goal
  <2>1. CASE req[q].token = t
    <3>1. Pending(t) /\ ~session[t].revoked
      BY <1>5, <2>1 DEF Authenticate, Accepted, Live, Pending
    <3>2. QED
      BY <3>1
  <2>2. CASE req[q].token # t
    <3>1. Unused
      BY <1>5, <2>2 DEF Authenticate, SessionTypeOK
    <3>2. QED
      BY <1>2, <3>1
  <2>3. QED
    BY <2>1, <2>2
<1>6. ASSUME NEW q \in Requests, Logout(q) \/ CommitChange(q) PROVE Goal
  <2>1. session'[t] = session[t] \/ session'[t] = [session[t] EXCEPT !.revoked = TRUE]
    BY <1>6 DEF Logout, CommitChange, SessionTypeOK
  <2>2. Unused
    BY <2>1 DEF SessionTypeOK, Row
  <2>3. QED
    BY <1>2, <2>2
<1> HIDE DEF Goal
<1>7. Goal
  <2>1. ASSUME Tick \/ UNCHANGED vars PROVE Goal
    BY <1>3, <2>1 DEF Tick, vars
  <2>2. ASSUME NEW q \in Requests,
               \/ LoginVerifies(q) \/ Refuse(q) \/ Act(q) \/ LockAccount(q) \/ RevokeAll(q)
               \/ Abandon(q) \/ \E u \in Sessions : Arrive(q, u)
        PROVE  Goal
    <3>1. UNCHANGED session
      BY <2>2 DEF LoginVerifies, Arrive, Refuse, Act, LockAccount, RevokeAll, Abandon
    <3>2. QED
      BY <1>3, <3>1
  <2>3. QED
    BY <1>4, <1>5, <1>6, <2>1, <2>2 DEF Next, Step
<1>8. QED
  BY <1>7 DEF Goal

\* A session that was revoked stays so, and one that has lapsed is not brought
\* back by its use, except by a check that arrived in time and waited for a lock
\* (auth/service.ts:51-58).
THEOREM DeadSessionsStay == Spec => DeadStaysDead
<1>1. Init => TokensStored
  BY DEF Init, TokensStored, NoRow, NoRequest, Owning
<1>2. SessionInv => SessionTypeOK
  BY DEF SessionInv
<1>3. SessionTypeOK /\ TokensStored /\ [Next]_vars =>
        [\A t \in Sessions : /\ session[t].revoked => session'[t].revoked
                             /\ Dead(t) /\ ~Pending(t) => Dead(t)']_vars
  BY DeadNext
<1>4. QED
  BY <1>1, <1>2, <1>3, TokensNext, SessionInvariant, PTL DEF Spec, DeadStaysDead
=============================================================================
