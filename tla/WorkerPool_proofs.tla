------------------------- MODULE WorkerPool_proofs -------------------------
(* The bound on the tasks of a worker process, for any number of slots and *)
(* of overlapping calls of fillSlots.                                      *)
EXTENDS WorkerPool, FiniteSetTheorems, TLAPS

\* The calls under way are a finite set, no larger than that of all calls.
LEMMA InFlightFinite ==
  ASSUME NEW F \in SUBSET Calls
  PROVE  /\ IsFiniteSet(F) /\ Cardinality(F) \in Nat
         /\ Cardinality(F) <= Cardinality(Calls) /\ Cardinality(Calls) \in Nat
BY PoolAssumption, FS_Subset, FS_CardinalityType

\* A call that passes the test of the loop keeps the bound: it saw a free slot.
LEMMA SlotSeen ==
  ASSUME NEW A, NEW F \in SUBSET Calls, IsFiniteSet(A), HasSlot(A)
  PROVE  Cardinality(A) + Cardinality(F) <= Concurrency - 1 + Cardinality(Calls)
<1>1. Cardinality(A) \in Nat
  BY FS_CardinalityType
<1>2. QED
  BY <1>1, InFlightFinite, PoolAssumption DEF HasSlot

\* A call that returns is no longer under way.
LEMMA ReturnLeaves ==
  ASSUME PoolTypeOK, NEW f \in Calls, call[f] # "idle", Returns(f)
  PROVE  /\ InFlight' = InFlight \ {f}
         /\ Cardinality(InFlight') = Cardinality(InFlight) - 1
         /\ call' \in [Calls -> {"idle", "claiming", "claimed"}]
         /\ phase' \in {phase, "serving"}
<1>1. InFlight' = InFlight \ {f} /\ f \in InFlight
  BY DEF PoolTypeOK, Returns, InFlight
<1>2. InFlight \in SUBSET Calls
  BY DEF InFlight
<1>3. QED
  BY <1>1, <1>2, InFlightFinite, FS_RemoveElement DEF Returns, PoolTypeOK

\* Every step keeps the invariant.
LEMMA PoolStep ==
  ASSUME PoolInv, [Next]_vars
  PROVE  PoolInv'
<1> USE DEF PoolInv
<1> DEFINE A == Cardinality(active)
           F == Cardinality(InFlight)
<1>1. A \in Nat /\ F \in Nat /\ InFlight \in SUBSET Calls
      /\ A + F <= Concurrency - 1 + Cardinality(Calls)
      /\ Concurrency \in Nat /\ Cardinality(Calls) \in Nat
  <2>1. InFlight \in SUBSET Calls
    BY DEF InFlight
  <2>2. QED
    BY <2>1, InFlightFinite, FS_CardinalityType, PoolAssumption DEF OverlapBounded
<1>2. InFlight' \in SUBSET Calls
  BY DEF InFlight
<1>3. CASE Start
  <2>1. active' = {} /\ IsFiniteSet({}) /\ HasSlot(active')
    BY <1>3, FS_EmptySet, PoolAssumption DEF Start, HasSlot
  <2>2. OverlapBounded'
    BY <2>1, <1>2, SlotSeen DEF OverlapBounded
  <2>3. PoolTypeOK' /\ phase' # "starting"
    BY <1>3 DEF Start, PoolTypeOK
  <2>4. QED
    BY <2>1, <2>2, <2>3
<1>4. CASE StartFails \/ Stop \/ Exit \/ RowArrives \/ UNCHANGED vars
  <2>1. active' = active /\ InFlight' = InFlight /\ (phase' = "starting" => phase = "starting")
    BY <1>4 DEF StartFails, Stop, Exit, RowArrives, vars, InFlight
  <2>2. PoolTypeOK'
    BY <1>4 DEF StartFails, Stop, Exit, RowArrives, vars, PoolTypeOK
  <2>3. QED
    BY <2>1, <2>2 DEF OverlapBounded
<1>5. ASSUME NEW f \in Calls, Tick(f)
      PROVE  PoolInv'
  <2>1. active' = active /\ HasSlot(active) /\ phase' = phase /\ phase # "starting"
    BY <1>5 DEF Tick, Timers
  <2>2. OverlapBounded'
    BY <2>1, <1>2, SlotSeen DEF OverlapBounded
  <2>3. PoolTypeOK'
    BY <1>5 DEF Tick, PoolTypeOK
  <2>4. QED
    BY <2>1, <2>2, <2>3
<1>6. ASSUME NEW f \in Calls, ClaimCommits(f)
      PROVE  PoolInv'
  <2>1. active' = active /\ InFlight' = InFlight /\ phase' = phase
    BY <1>6 DEF ClaimCommits, InFlight, PoolTypeOK
  <2>2. PoolTypeOK'
    BY <1>6 DEF ClaimCommits, PoolTypeOK
  <2>3. QED
    BY <2>1, <2>2 DEF OverlapBounded
<1>7. ASSUME NEW f \in Calls, ClaimFindsNothing(f) \/ ClaimThrows(f)
      PROVE  PoolInv'
  <2>1. /\ call[f] # "idle" /\ Returns(f) /\ phase # "starting"
        /\ UNCHANGED <<opener, active, awaited, backlog, arrived>>
    BY <1>7 DEF ClaimFindsNothing, ClaimThrows, InFlight
  <2>2. Cardinality(InFlight') = F - 1 /\ phase' \in {phase, "serving"}
    BY <2>1, ReturnLeaves
  <2>3. OverlapBounded'
    BY <1>1, <2>1, <2>2 DEF OverlapBounded
  <2>4. PoolTypeOK'
    BY <2>1, <2>2, ReturnLeaves DEF PoolTypeOK
  <2>5. QED
    BY <2>1, <2>2, <2>3, <2>4
<1>8. ASSUME NEW f \in Calls, NEW t \in Tasks, TaskStarts(f, t)
      PROVE  PoolInv'
  <2>1. /\ active' = active \cup {t} /\ t \notin active /\ call[f] = "claimed"
        /\ UNCHANGED <<opener, awaited, backlog, arrived>> /\ phase # "starting"
    BY <1>8 DEF TaskStarts, InFlight
  <2>2. IsFiniteSet(active') /\ Cardinality(active') = A + 1
    BY <2>1, FS_AddElement
  <2>3. CASE HasSlot(active')
    <3>1. call' = [call EXCEPT ![f] = "claiming"] /\ phase' = phase
      BY <1>8, <2>3 DEF TaskStarts
    <3>2. OverlapBounded'
      BY <2>2, <2>3, <1>2, SlotSeen DEF OverlapBounded
    <3>3. PoolTypeOK'
      BY <2>1, <3>1 DEF PoolTypeOK
    <3>4. QED
      BY <2>1, <2>2, <3>1, <3>2, <3>3
  <2>4. CASE ~HasSlot(active')
    <3>1. Returns(f)
      BY <1>8, <2>4 DEF TaskStarts
    <3>2. Cardinality(InFlight') = F - 1 /\ phase' \in {phase, "serving"}
      BY <2>1, <3>1, ReturnLeaves
    <3>3. OverlapBounded'
      BY <1>1, <2>2, <3>2 DEF OverlapBounded
    <3>4. PoolTypeOK'
      BY <2>1, <3>1, <3>2, ReturnLeaves DEF PoolTypeOK
    <3>5. QED
      BY <2>1, <2>2, <3>2, <3>3, <3>4
  <2>5. QED
    BY <2>3, <2>4
<1>9. ASSUME NEW t \in Tasks, TaskSettles(t)
      PROVE  PoolInv'
  <2>1. /\ active' = active \ {t} /\ t \in active /\ InFlight' = InFlight
        /\ phase' = phase
    BY <1>9 DEF TaskSettles, InFlight
  <2>2. IsFiniteSet(active') /\ Cardinality(active') = A - 1
    BY <2>1, FS_RemoveElement
  <2>3. OverlapBounded'
    BY <1>1, <2>1, <2>2 DEF OverlapBounded
  <2>4. PoolTypeOK'
    BY <1>9 DEF TaskSettles, PoolTypeOK
  <2>5. QED
    BY <2>1, <2>2, <2>3, <2>4
<1>10. QED
  BY <1>3, <1>4, <1>5, <1>6, <1>7, <1>8, <1>9 DEF Next, CallStep

\* The invariant of the pool holds in every reachable state.
THEOREM PoolInvariant == Spec => []PoolInv
<1>1. Init => PoolInv
  <2> SUFFICES ASSUME Init PROVE PoolInv
    OBVIOUS
  <2>1. PoolTypeOK /\ active = {} /\ InFlight = {}
    BY DEF Init, PoolTypeOK, InFlight
  <2>2. IsFiniteSet({}) /\ HasSlot({}) /\ InFlight \in SUBSET Calls
    BY FS_EmptySet, PoolAssumption DEF HasSlot, InFlight
  <2>3. OverlapBounded
    BY <2>1, <2>2, SlotSeen DEF OverlapBounded
  <2>4. QED
    BY <2>1, <2>2, <2>3 DEF PoolInv
<1>2. PoolInv /\ [Next]_vars => PoolInv'
  BY PoolStep
<1>3. QED
  BY <1>1, <1>2, PTL DEF Spec

\* Overlapping calls of fillSlots start at most one task more than the limit
\* for each call but the first.
THEOREM PoolBound == Spec => []OverlapBounded
<1>1. PoolInv => OverlapBounded
  BY DEF PoolInv
<1>2. QED
  BY <1>1, PoolInvariant, PTL

\* Every variable of the pool stays in its domain.
THEOREM PoolTypeCorrect == Spec => []PoolTypeOK
<1>1. PoolInv => PoolTypeOK
  BY DEF PoolInv
<1>2. QED
  BY <1>1, PoolInvariant, PTL
===========================================================================
