---------------------------- MODULE WorkerPool ----------------------------
(***************************************************************************)
(* One process of the analysis worker (worker.ts, server.ts): the calls of *)
(* fillSlots that its timer makes every 250 ms whether or not an earlier   *)
(* one still awaits its claim, the tasks they start, and shutdown.  The    *)
(* queue is the number of rows a claim would find; what becomes of a       *)
(* claimed row is the business of AnalysisJobs.                            *)
(***************************************************************************)
EXTENDS Integers, FiniteSets

CONSTANTS
  Calls,        \* calls of fillSlots that can be under way at the same time
  Tasks,        \* promises of process()
  Concurrency,  \* WORKER_CONCURRENCY
  MaxArrivals   \* bound: rows that become claimable in a behaviour

ASSUME PoolAssumption ==
  /\ IsFiniteSet(Calls) /\ Calls # {}
  /\ Concurrency \in Nat \ {0}
  /\ MaxArrivals \in Nat

VARIABLES
  phase,     \* "starting", "filling" (start awaits its own call), "serving", ...
  opener,    \* the call that start awaits
  call,      \* of each call: where it is in its loop
  active,    \* the tasks in the set `active'
  awaited,   \* the tasks that stop awaits and that have not settled
  backlog,   \* claimable rows
  arrived    \* rows that became claimable so far

vars == <<phase, opener, call, active, awaited, backlog, arrived>>

Init ==
  /\ phase = "starting"
  /\ opener \in Calls
  /\ call = [f \in Calls |-> "idle"]
  /\ active = {}
  /\ awaited = {}
  /\ backlog = 0
  /\ arrived = 0

---------------------------------------------------------------------------
(* fillSlots.                                                              *)

\* Mutation: the size may reach one more than the limit.
HasSlotOffByOne(tasks) == Cardinality(tasks) <= Concurrency

\* The condition of the loop.
HasSlot(tasks) == Cardinality(tasks) < Concurrency

Timers == phase \in {"filling", "serving"}

InFlight == {f \in Calls : call[f] # "idle"}

\* recoverAndPurge is done, the timers are set, and start makes a call itself.
Start ==
  /\ phase = "starting"
  /\ phase' = "filling"
  /\ call' = [call EXCEPT ![opener] = "claiming"]
  /\ UNCHANGED <<opener, active, awaited, backlog, arrived>>

\* start throws before it sets a timer; the process ends.
StartFails ==
  /\ phase = "starting"
  /\ phase' = "exited"
  /\ UNCHANGED <<opener, call, active, awaited, backlog, arrived>>

\* A tick that finds the slots taken returns at once.
Tick(f) ==
  /\ Timers
  /\ call[f] = "idle"
  /\ HasSlot(active)
  /\ call' = [call EXCEPT ![f] = "claiming"]
  /\ UNCHANGED <<phase, opener, active, awaited, backlog, arrived>>

\* The transaction of claimNextJob commits; its result is on the way.
ClaimCommits(f) ==
  /\ call[f] = "claiming" /\ backlog > 0
  /\ backlog' = backlog - 1
  /\ call' = [call EXCEPT ![f] = "claimed"]
  /\ UNCHANGED <<phase, opener, active, awaited, arrived>>

\* The call is over.  When it is the one start awaits, the server opens its
\* port and listens for signals.
Returns(f) ==
  /\ call' = [call EXCEPT ![f] = "idle"]
  /\ phase' = IF phase = "filling" /\ f = opener THEN "serving" ELSE phase

ClaimFindsNothing(f) ==
  /\ call[f] = "claiming" /\ backlog = 0
  /\ Returns(f)
  /\ UNCHANGED <<opener, active, awaited, backlog, arrived>>

\* Mutation: an error leaves the call marked as under way.
ClaimThrowsHangs(f) ==
  /\ call[f] \in {"claiming", "claimed"}
  /\ call' = [call EXCEPT ![f] = "failed"]
  /\ UNCHANGED <<phase, opener, active, awaited, backlog, arrived>>

\* The claim fails, before its COMMIT or after it (the row then keeps a lease
\* nobody holds); fillSlots swallows the error and a later tick tries again.
ClaimThrows(f) ==
  /\ call[f] \in {"claiming", "claimed"}
  /\ Returns(f)
  /\ UNCHANGED <<opener, active, awaited, backlog, arrived>>

\* The await resumes: process() starts and the loop looks at the size again,
\* but not at `stopping'.
TaskStarts(f, t) ==
  /\ call[f] = "claimed" /\ t \notin active
  /\ active' = active \cup {t}
  /\ IF HasSlot(active')
     THEN call' = [call EXCEPT ![f] = "claiming"] /\ UNCHANGED phase
     ELSE Returns(f)
  /\ UNCHANGED <<opener, awaited, backlog, arrived>>

\* Mutation: only a promise that resolves leaves the set that stop awaits.
TaskSettlesUnnoticed(t) ==
  /\ t \in active
  /\ active' = active \ {t}
  /\ awaited' \in {awaited, awaited \ {t}}
  /\ UNCHANGED <<phase, opener, call, backlog, arrived>>

\* The promise resolves or rejects; either way it leaves the set.
TaskSettles(t) ==
  /\ t \in active
  /\ active' = active \ {t}
  /\ awaited' = awaited \ {t}
  /\ UNCHANGED <<phase, opener, call, backlog, arrived>>

---------------------------------------------------------------------------
(* Shutdown, possible once the server listens.                             *)

Stop ==
  /\ phase = "serving"
  /\ phase' = "stopping"
  /\ awaited' = active
  /\ UNCHANGED <<opener, call, active, backlog, arrived>>

\* allSettled resolves and the process exits, with whatever else it was doing.
Exit ==
  /\ phase = "stopping" /\ awaited = {}
  /\ phase' = "exited"
  /\ UNCHANGED <<opener, call, active, awaited, backlog, arrived>>

\* An upload, an address, the end of a backoff or a sweep.
RowArrives ==
  /\ arrived < MaxArrivals
  /\ arrived' = arrived + 1
  /\ backlog' = backlog + 1
  /\ UNCHANGED <<phase, opener, call, active, awaited>>

---------------------------------------------------------------------------
Running == phase # "exited"

CallStep(f) ==
  \/ ClaimCommits(f) \/ ClaimFindsNothing(f) \/ ClaimThrows(f)
  \/ \E t \in Tasks : TaskStarts(f, t)

Next ==
  /\ Running
  /\ \/ Start \/ StartFails
     \/ \E f \in Calls : Tick(f) \/ CallStep(f)
     \/ \E t \in Tasks : TaskSettles(t)
     \/ Stop \/ Exit \/ RowArrives

Spec == Init /\ [][Next]_vars

\* Timers fire, statements end, tasks settle (every part of them has a
\* timeout), and the errors that the catch block calls transient are: claims
\* that are tried for ever succeed.
Fairness ==
  /\ WF_vars(Start)
  /\ WF_vars(Exit)
  /\ WF_vars(\E f \in Calls : Tick(f))
  /\ \A f \in Calls : WF_vars(Running /\ CallStep(f))
  /\ SF_vars(\E f \in Calls : Running /\ ClaimCommits(f))
  /\ \A t \in Tasks : WF_vars(Running /\ TaskSettles(t))

FairSpec == Spec /\ Fairness

---------------------------------------------------------------------------
(* Properties.                                                             *)

\* Every variable has its type.
PoolTypeOK ==
  /\ phase \in {"starting", "filling", "serving", "stopping", "exited"}
  /\ opener \in Calls
  /\ call \in [Calls -> {"idle", "claiming", "claimed"}]
  /\ active \subseteq Tasks
  /\ awaited \subseteq active
  /\ backlog \in Nat
  /\ arrived \in Nat

\* What bounds the tasks, also while the process stops: every call under way may
\* have seen the last free slot, so overlapping calls add one task each, beyond
\* the "at most two jobs by default" of docs/migration-and-postgresql.md:9.
OverlapBounded ==
  Cardinality(active) + Cardinality(InFlight) <= Concurrency - 1 + Cardinality(Calls)

\* A row that can be claimed does not wait for ever while the process serves,
\* whatever claims fail: no call, slot or tick gets lost.
BacklogDrains == backlog > 0 /\ phase = "serving" ~> backlog = 0 \/ phase # "serving"

\* A process that has been told to stop does exit, although calls of fillSlots
\* that passed their test of `stopping' before go on claiming rows and starting
\* tasks.  (Those later tasks are not awaited: the exit may kill them.)
StopExits == phase = "stopping" ~> phase = "exited"

---------------------------------------------------------------------------
(* The inductive invariant behind OverlapBounded.                          *)

PoolInv ==
  /\ PoolTypeOK
  /\ IsFiniteSet(active)
  /\ phase = "starting" => active = {} /\ InFlight = {}
  /\ OverlapBounded
===========================================================================
