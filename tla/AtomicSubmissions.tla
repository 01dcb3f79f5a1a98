------------------------- MODULE AtomicSubmissions -------------------------
(***************************************************************************)
(* What uploads and role requests promise, whatever waits for a lock, is   *)
(* rolled back or dies: each submission takes effect in one step, at its    *)
(* commit, or not at all.  In that step its challenge is open and becomes   *)
(* used, its answer is right, and its request is stored unless an identical *)
(* one of the window is there; what the visitor is told is what the step    *)
(* did.  A submission turned away for its challenge had none to use.        *)
(***************************************************************************)
EXTENDS Integers

CONSTANTS Challenges, Submissions, Contents, Upload, NoOne, Ttl, Window

VARIABLES
  clock,
  challenge,  \* of each challenge: "fresh", "open", "used" or "over"
  until,      \* when an open challenge stops counting
  request,    \* what each submission asks for
  outcome,    \* and what has become of it
  stored      \* role requests that are kept

vars == <<clock, challenge, until, request, outcome, stored>>

NoRequest == [token |-> NoOne, right |-> FALSE, content |-> Upload, now |-> 0]

Init ==
  /\ clock = 0
  /\ challenge = [c \in Challenges |-> "fresh"]
  /\ until = [c \in Challenges |-> 0]
  /\ request = [s \in Submissions |-> NoRequest]
  /\ outcome = [s \in Submissions |-> "none"]
  /\ stored = {}

Lapsed == {c \in Challenges : challenge[c] = "open" /\ until[c] <= clock}

Without(C) == [c \in Challenges |-> IF c \in C THEN "over" ELSE challenge[c]]

Purge ==
  /\ \E C \in SUBSET Lapsed : challenge' = Without(C)
  /\ UNCHANGED <<clock, until, request, outcome, stored>>

Issue(c) ==
  /\ challenge[c] = "fresh"
  /\ \E C \in SUBSET Lapsed : challenge' = [Without(C) EXCEPT ![c] = "open"]
  /\ until' = [until EXCEPT ![c] = clock + Ttl]
  /\ UNCHANGED <<clock, request, outcome, stored>>

Ask(s, c, right, content) ==
  /\ outcome[s] = "none" /\ challenge[c] # "fresh"
  /\ outcome' = [outcome EXCEPT ![s] = "asked"]
  /\ request' = [request EXCEPT ![s] =
       [token |-> c, right |-> right, content |-> content, now |-> clock]]
  /\ UNCHANGED <<clock, challenge, until, stored>>

Usable(s) ==
  /\ challenge[request[s].token] = "open"
  /\ until[request[s].token] > request[s].now

Identical(s) ==
  {r \in stored : r.content = request[s].content /\ r.at >= request[s].now - Window}

Keeps(s) == request[s].content # Upload /\ Identical(s) = {}

\* The answer of a submission that has taken effect may be lost.
Serve(s, answer) ==
  /\ outcome[s] = "asked" /\ Usable(s) /\ request[s].right
  /\ answer \in {"lost", IF Identical(s) = {} THEN "accepted" ELSE "duplicate"}
  /\ outcome' = [outcome EXCEPT ![s] = answer]
  /\ challenge' = [challenge EXCEPT ![request[s].token] = "used"]
  /\ stored' = IF Keeps(s)
                 THEN stored \cup {[content |-> request[s].content,
                                    at |-> request[s].now, by |-> s]}
                 ELSE stored
  /\ UNCHANGED <<clock, until, request>>

\* A submission that is refused leaves no trace, a wrong answer included.
Refuse(s, answer) ==
  /\ outcome[s] = "asked"
  /\ \/ answer = "refused" /\ ~Usable(s)
     \/ answer = "wrong" /\ Usable(s) /\ ~request[s].right
     \/ answer = "failed"
  /\ outcome' = [outcome EXCEPT ![s] = answer]
  /\ UNCHANGED <<clock, challenge, until, request, stored>>

Tick ==
  /\ clock' = clock + 1
  /\ UNCHANGED <<challenge, until, request, outcome, stored>>

Next ==
  \/ Purge \/ Tick
  \/ \E c \in Challenges : Issue(c)
  \/ \E s \in Submissions, c \in Challenges, right \in BOOLEAN,
        content \in Contents \cup {Upload} : Ask(s, c, right, content)
  \/ \E s \in Submissions :
       \/ \E answer \in {"accepted", "duplicate", "lost"} : Serve(s, answer)
       \/ \E answer \in {"refused", "wrong", "failed"} : Refuse(s, answer)

Spec == Init /\ [][Next]_vars
============================================================================
