-------------------------- MODULE Catalog_proofs ---------------------------
(***************************************************************************)
(* Proofs about Catalog for any number of sessions, roles, seniorities and *)
(* versions.                                                               *)
(***************************************************************************)
EXTENDS Catalog, TLAPS

USE DEF Holding, Archived, Marked, Publishing

\* The first version of a role is one of its versions.
LEMMA FirstType == ASSUME NEW r \in Roles PROVE First(r) \in Versions
  BY CatalogAssumption DEF First, Versions

\* The idle transaction, and a transaction with some fields replaced, are
\* transactions.
LEMMA IdleType == Idle \in Transaction
  BY DEF Idle, Transaction

\* A session is replaced by another transaction.
LEMMA TxnUpdate ==
  ASSUME CatalogTypeOK, NEW s \in Sessions, NEW t \in Transaction,
         txn' = [txn EXCEPT ![s] = t]
  PROVE  txn' \in [Sessions -> Transaction]
  BY DEF CatalogTypeOK

\* The initial state is well typed.
LEMMA InitType == Init => CatalogTypeOK
<1> SUFFICES ASSUME Init PROVE CatalogTypeOK
  OBVIOUS
<1>1. role \in [Roles -> Role]
  BY DEF Init, Role, Times, Never
<1>2. status \in [Versions -> {"none", "draft", "published", "archived"}]
  BY DEF Init
<1>3. retired \in [Versions -> Times]
  BY DEF Init, Times
<1>4. catalogs \subseteq CatalogRow
  <2>1. {[role |-> r, seniority |-> All, version |-> First(r), active |-> TRUE] : r \in Seeded}
          \in SUBSET Entry
    <3>1. ASSUME NEW r \in Seeded
          PROVE  [role |-> r, seniority |-> All, version |-> First(r), active |-> TRUE] \in Entry
      <4>1. r \in Roles /\ First(r) \in Versions
        BY FirstType, CatalogAssumption
      <4>2. QED
        BY <4>1, CatalogAssumption DEF Entry
    <3>2. QED
      BY <3>1
  <2>2. QED
    BY <2>1 DEF Init, CatalogRow
<1>5. clock \in Nat
  BY DEF Init
<1>6. txn \in [Sessions -> Transaction]
  BY IdleType DEF Init
<1>7. QED
  BY <1>1, <1>2, <1>3, <1>4, <1>5, <1>6 DEF CatalogTypeOK

\* Every step leaves the variables in their domains.
LEMMA NextType == CatalogTypeOK /\ [Next]_vars => CatalogTypeOK'
<1> SUFFICES ASSUME CatalogTypeOK, [Next]_vars PROVE CatalogTypeOK'
  OBVIOUS
<1> USE DEF CatalogTypeOK
<1>1. ASSUME NEW r \in Roles,
             CreateRole(r) \/ Deactivate(r) \/ ArchiveRole(r) \/ RestoreRole(r)
      PROVE  CatalogTypeOK'
  <2> DEFINE Patched(q) == role' = [role EXCEPT ![r] = q]
  <2>1. ASSUME NEW q \in Role, Patched(q) PROVE role' \in [Roles -> Role]
    BY <2>1
  <2>2. role[r] \in Role /\ clock \in Times /\ Never \in Times
    BY DEF Times
  <2>3. \E q \in Role : Patched(q)
    <3>1. CASE CreateRole(r)
      <4> DEFINE q == [role[r] EXCEPT !.stored = TRUE]
      <4>1. q \in Role
        BY <2>2 DEF Role
      <4>2. QED
        BY <3>1, <4>1 DEF CreateRole
    <3>2. CASE Deactivate(r)
      <4> DEFINE q == [role[r] EXCEPT !.active = FALSE]
      <4>1. q \in Role
        BY <2>2 DEF Role
      <4>2. QED
        BY <3>2, <4>1 DEF Deactivate
    <3>3. CASE ArchiveRole(r)
      <4> DEFINE q == [role[r] EXCEPT !.active = FALSE,
                                      !.archivedAt = IF @ = Never THEN clock ELSE @]
      <4>1. q \in Role
        BY <2>2 DEF Role
      <4>2. QED
        BY <3>3, <4>1 DEF ArchiveRole
    <3>4. CASE RestoreRole(r)
      <4> DEFINE q == [role[r] EXCEPT !.active = FALSE, !.archivedAt = Never]
      <4>1. q \in Role
        BY <2>2 DEF Role
      <4>2. QED
        BY <3>4, <4>1 DEF RestoreRole
    <3>5. QED
      BY <1>1, <3>1, <3>2, <3>3, <3>4
  <2>4. role' \in [Roles -> Role]
    BY <2>1, <2>3
  <2>5. QED
    BY <2>4, <1>1 DEF CreateRole, Deactivate, ArchiveRole, RestoreRole
<1>2. ASSUME NEW s \in Sessions, NEW r \in Roles, PatchReads(s, r)
      PROVE  CatalogTypeOK'
  <2> DEFINE t == [txn[s] EXCEPT !.pc = "activating", !.role = r]
  <2>1. t \in Transaction
    BY DEF Transaction
  <2>2. txn' = [txn EXCEPT ![s] = t]
    BY <1>2 DEF PatchReads
  <2>3. QED
    BY <2>1, <2>2, <1>2, TxnUpdate DEF PatchReads
<1>3. ASSUME NEW s \in Sessions, PatchActivates(s) PROVE CatalogTypeOK'
  <2>1. role' \in [Roles -> Role]
    BY <1>3 DEF PatchActivates, Role
  <2>2. txn' \in [Sessions -> Transaction]
    BY <1>3, IdleType DEF PatchActivates
  <2>3. QED
    BY <2>1, <2>2, <1>3 DEF PatchActivates
<1>4. ASSUME NEW s \in Sessions, NEW r \in Roles, NEW n \in Seniorities, DraftReads(s, r, n)
      PROVE  CatalogTypeOK'
  <2>1. PICK k \in 1..MaxVersion :
          txn' = [txn EXCEPT ![s].pc = "drafting",
                             ![s].version = [role |-> r, seniority |-> n, number |-> k]]
    BY <1>4 DEF DraftReads, Following
  <2>2. [role |-> r, seniority |-> n, number |-> k] \in Versions
    BY DEF Versions
  <2> DEFINE t == [txn[s] EXCEPT !.pc = "drafting",
                     !.version = [role |-> r, seniority |-> n, number |-> k]]
  <2>3. t \in Transaction
    BY <2>2 DEF Transaction
  <2>4. txn' = [txn EXCEPT ![s] = t]
    BY <2>1
  <2>5. QED
    BY <2>3, <2>4, <1>4, TxnUpdate DEF DraftReads
<1>5. ASSUME NEW s \in Sessions, DraftInserts(s) PROVE CatalogTypeOK'
  BY <1>5, IdleType DEF DraftInserts
<1>6. ASSUME NEW s \in Sessions, NEW v \in Versions, Begin(s, v) PROVE CatalogTypeOK'
  <2> DEFINE t == [txn[s] EXCEPT !.pc = "begun", !.version = v, !.began = clock + 1]
  <2>0. clock + 1 \in Nat
    OBVIOUS
  <2>1. t \in Transaction
    BY <2>0 DEF Transaction
  <2>2. txn' = [txn EXCEPT ![s] = t]
    BY <1>6 DEF Begin
  <2>3. clock' \in Nat
    BY <1>6 DEF Begin
  <2>4. QED
    BY <2>1, <2>2, <2>3, <1>6, TxnUpdate DEF Begin
<1>7. ASSUME NEW s \in Sessions, LockDraft(s) PROVE CatalogTypeOK'
  <2> DEFINE t == [txn[s] EXCEPT !.pc = "locked"]
  <2>1. t \in Transaction
    BY DEF Transaction
  <2>2. txn' = [txn EXCEPT ![s] = t]
    BY <1>7 DEF LockDraft
  <2>3. QED
    BY <2>1, <2>2, <1>7, TxnUpdate DEF LockDraft
<1>8. ASSUME NEW s \in Sessions, DraftNotFound(s) PROVE CatalogTypeOK'
  BY <1>8, IdleType DEF DraftNotFound
<1>9. ASSUME NEW s \in Sessions, ArchiveStarts(s) PROVE CatalogTypeOK'
  <2>1. PublishedIn(status, txn[s].version.role) \in SUBSET Versions
    BY DEF PublishedIn
  <2> DEFINE t == [txn[s] EXCEPT !.pc = "archiving",
                     !.targets = PublishedIn(status, txn[s].version.role)]
  <2>2. t \in Transaction
    BY <2>1 DEF Transaction
  <2>3. txn' = [txn EXCEPT ![s] = t]
    BY <1>9 DEF ArchiveStarts
  <2>4. QED
    BY <2>2, <2>3, <1>9, TxnUpdate DEF ArchiveStarts
<1>10. ASSUME NEW s \in Sessions, ArchiveEnds(s) PROVE CatalogTypeOK'
  <2>1. {v \in txn[s].targets : status[v] = "published"} \in SUBSET Versions
    BY DEF Transaction
  <2> DEFINE t == [txn[s] EXCEPT !.pc = "marking",
                     !.targets = {v \in @ : status[v] = "published"}]
  <2>2. t \in Transaction
    BY <2>1 DEF Transaction
  <2>3. txn' = [txn EXCEPT ![s] = t]
    BY <1>10 DEF ArchiveEnds
  <2>4. QED
    BY <2>2, <2>3, <1>10, TxnUpdate DEF ArchiveEnds
<1>11. ASSUME NEW s \in Sessions, MarkPublished(s) PROVE CatalogTypeOK'
  <2> DEFINE t == [txn[s] EXCEPT !.pc = "listing"]
  <2>1. t \in Transaction
    BY DEF Transaction
  <2>2. txn' = [txn EXCEPT ![s] = t]
    BY <1>11 DEF MarkPublished
  <2>3. QED
    BY <2>1, <2>2, <1>11, TxnUpdate DEF MarkPublished
<1>12. ASSUME NEW s \in Sessions, ListRoles(s) PROVE CatalogTypeOK'
  <2> DEFINE Row(r, n) == [role |-> r, seniority |-> n, version |-> None, active |-> role[r].active]
  <2> DEFINE Rows(r) == {Row(r, v.seniority) : v \in PublishedIn(Updated(s), r)}
  <2> DEFINE Shown(r) == IF Rows(r) # {} THEN Rows(r)
                         ELSE IF role[r].active THEN {} ELSE {Row(r, None)}
  <2>1. ASSUME NEW r \in Roles PROVE Shown(r) \subseteq Entry
    <3>1. \A n \in Seniorities \cup {None} : Row(r, n) \in Entry
      BY DEF Entry, Role
    <3>2. Rows(r) \subseteq Entry
      BY <3>1 DEF PublishedIn, Versions
    <3>3. Row(r, None) \in Entry
      BY <3>1
    <3>4. QED
      BY <3>2, <3>3
  <2>2. UNION {Shown(r) : r \in Listable} \in SUBSET Entry
    BY <2>1 DEF Listable
  <2>3. txn' = [txn EXCEPT ![s].pc = "reading", ![s].listed = UNION {Shown(r) : r \in Listable}]
    BY <1>12 DEF ListRoles
  <2> HIDE DEF Shown
  <2> DEFINE t == [txn[s] EXCEPT !.pc = "reading", !.listed = UNION {Shown(r) : r \in Listable}]
  <2>4. t \in Transaction
    BY <2>2 DEF Transaction
  <2>5. txn' = [txn EXCEPT ![s] = t]
    BY <2>3
  <2>6. QED
    BY <2>4, <2>5, <1>12, TxnUpdate DEF ListRoles
<1>13. ASSUME NEW s \in Sessions, NEW e \in txn[s].listed, ReadVersion(s, e)
       PROVE  CatalogTypeOK'
  <2>1. PICK v \in Highest(s, e.role) :
          txn' = [txn EXCEPT ![s].listed = @ \ {e},
                             ![s].entries = @ \cup {[e EXCEPT !.version = v]}]
    BY <1>13 DEF ReadVersion
  <2>2. v \in Versions \cup {None}
    BY DEF Highest, PublishedIn
  <2>3. [e EXCEPT !.version = v] \in Entry
    <3>1. e \in Entry
      BY DEF Transaction
    <3>2. QED
      BY <2>2, <3>1 DEF Entry
  <2> DEFINE t == [txn[s] EXCEPT !.listed = @ \ {e},
                                 !.entries = @ \cup {[e EXCEPT !.version = v]}]
  <2>4. t \in Transaction
    BY <2>3 DEF Transaction
  <2>5. txn' = [txn EXCEPT ![s] = t]
    BY <2>1
  <2>6. QED
    BY <2>4, <2>5, <1>13, TxnUpdate DEF ReadVersion
<1>14. ASSUME NEW s \in Sessions, CommitPublication(s) PROVE CatalogTypeOK'
  <2>1. [id |-> txn[s].began, version |-> txn[s].began, built |-> TRUE,
         entries |-> txn[s].entries] \in CatalogRow
    BY DEF CatalogRow, Transaction
  <2>2. status' \in [Versions -> {"none", "draft", "published", "archived"}]
    BY <1>14 DEF CommitPublication, Updated
  <2>3. retired' \in [Versions -> Times]
    BY <1>14 DEF CommitPublication, Times
  <2>4. QED
    BY <2>1, <2>2, <2>3, <1>14, IdleType DEF CommitPublication
<1>15. ASSUME NEW s \in Sessions, NEW c \in catalogs, ReadSource(s, c)
       PROVE  CatalogTypeOK'
  <2>1. c.version \in Nat /\ c.entries \in SUBSET Entry
    BY DEF CatalogRow
  <2> DEFINE t == [txn[s] EXCEPT !.pc = "copying", !.source = c.version,
                                 !.entries = c.entries]
  <2>2. t \in Transaction
    BY <2>1 DEF Transaction
  <2>3. txn' = [txn EXCEPT ![s] = t]
    BY <1>15 DEF ReadSource
  <2>4. QED
    BY <2>2, <2>3, <1>15, TxnUpdate DEF ReadSource
<1>16. ASSUME NEW s \in Sessions, CommitRollback(s) PROVE CatalogTypeOK'
  <2>1. [id |-> txn[s].began, version |-> txn[s].source, built |-> FALSE,
         entries |-> txn[s].entries] \in CatalogRow
    BY DEF CatalogRow, Transaction
  <2>2. QED
    BY <2>1, <1>16, IdleType DEF CommitRollback
<1>17. ASSUME NEW s \in Sessions, RollBack(s) PROVE CatalogTypeOK'
  BY <1>17, IdleType DEF RollBack
<1>18. ASSUME NEW s \in Sessions, BeginRollback(s) PROVE CatalogTypeOK'
  <2> DEFINE t == [txn[s] EXCEPT !.pc = "rollingback", !.began = clock + 1]
  <2>1. clock + 1 \in Nat
    OBVIOUS
  <2>2. t \in Transaction
    BY <2>1 DEF Transaction
  <2>3. txn' = [txn EXCEPT ![s] = t]
    BY <1>18 DEF BeginRollback
  <2>4. QED
    BY <2>1, <2>2, <2>3, <1>18, TxnUpdate DEF BeginRollback
<1>19. CASE UNCHANGED vars
  BY <1>19 DEF vars
<1>20. QED
  BY <1>1, <1>2, <1>3, <1>4, <1>5, <1>6, <1>7, <1>8, <1>9, <1>10, <1>11, <1>12,
     <1>13, <1>14, <1>15, <1>16, <1>17, <1>18, <1>19 DEF Next, Step

\* Every variable of the catalog administration stays in its domain.
THEOREM CatalogTypeCorrect == Spec => []CatalogTypeOK
<1>1. QED
  BY InitType, NextType, PTL DEF Spec

---------------------------------------------------------------------------
(* What the steps do to the versions.                                      *)

Forward(a, b) ==
  \/ a = b
  \/ <<a, b>> \in
       {<<"none", "draft">>, <<"draft", "published">>, <<"published", "archived">>}

\* A version only moves from draft to published to archived: what a commit
\* publishes is a draft, and what it archives is published, as its locks say.
LEMMA VersionForward ==
  ASSUME CatalogTypeOK, Locks, [Next]_vars, NEW v \in Versions
  PROVE  Forward(status[v], status'[v])
<1>1. ASSUME NEW s \in Sessions, DraftInserts(s) PROVE Forward(status[v], status'[v])
  BY <1>1 DEF DraftInserts, KeyFree, CatalogTypeOK, Forward
<1>2. ASSUME NEW s \in Sessions, CommitPublication(s) PROVE Forward(status[v], status'[v])
  <2>1. status[txn[s].version] = "draft" /\ \A w \in txn[s].targets : status[w] = "published"
    BY <1>2 DEF CommitPublication, Locks
  <2>2. status' = Updated(s)
    BY <1>2 DEF CommitPublication
  <2>3. QED
    BY <2>1, <2>2 DEF Updated, Forward
<1>3. CASE UNCHANGED status
  BY <1>3 DEF Forward
<1>4. QED
  BY <1>1, <1>2, <1>3
  DEF Next, Step, vars, CreateRole, Deactivate, ArchiveRole, RestoreRole, PatchReads,
      PatchActivates, DraftReads, Begin, LockDraft, DraftNotFound, ArchiveStarts, ArchiveEnds,
      MarkPublished, ListRoles, ReadVersion, BeginRollback, ReadSource,
      CommitRollback, RollBack

\* A version that is published or archived stays so.
LEMMA SettledStays ==
  ASSUME CatalogTypeOK, Locks, [Next]_vars, NEW v \in Versions \cup {None}, Settled(v)
  PROVE  Settled(v)'
<1>1. CASE v = None
  BY <1>1 DEF Settled
<1>2. CASE v \in Versions /\ v # None
  <2>1. Forward(status[v], status'[v])
    BY <1>2, VersionForward
  <2>2. QED
    BY <2>1, <1>2 DEF Settled, Forward
<1>3. QED
  BY <1>1, <1>2

\* A role with a published version keeps one: a publication archives versions
\* of the role it publishes for, and of no other.
LEMMA StillPublished ==
  ASSUME CatalogTypeOK, Locks, [Next]_vars, NEW r \in Roles, PublishedIn(status, r) # {}
  PROVE  PublishedIn(status', r) # {}
<1>1. PICK v \in Versions : v.role = r /\ status[v] = "published"
  BY DEF PublishedIn
<1>2. CASE status'[v] = "published"
  BY <1>1, <1>2 DEF PublishedIn
<1>3. ASSUME NEW s \in Sessions, CommitPublication(s) PROVE PublishedIn(status', r) # {}
  <2>1. /\ txn[s].version \in Versions
        /\ \A w \in txn[s].targets : w.role = txn[s].version.role
    BY <1>3 DEF CommitPublication, Locks
  <2>2. status' = Updated(s)
    BY <1>3 DEF CommitPublication
  <2>3. status'[txn[s].version] = "published"
    BY <2>1, <2>2 DEF Updated
  <2>4. CASE txn[s].version.role = r
    BY <2>1, <2>3, <2>4 DEF PublishedIn
  <2>5. CASE txn[s].version.role # r
    BY <1>1, <1>2, <2>1, <2>2, <2>5 DEF Updated
  <2>6. QED
    BY <2>4, <2>5
<1>4. ASSUME NEW s \in Sessions, DraftInserts(s) PROVE PublishedIn(status', r) # {}
  BY <1>1, <1>2, <1>4 DEF DraftInserts, KeyFree, CatalogTypeOK
<1>5. CASE UNCHANGED status
  BY <1>1, <1>2, <1>5
<1>6. QED
  BY <1>3, <1>4, <1>5
  DEF Next, Step, vars, CreateRole, Deactivate, ArchiveRole, RestoreRole, PatchReads,
      PatchActivates, DraftReads, Begin, LockDraft, DraftNotFound, ArchiveStarts, ArchiveEnds,
      MarkPublished, ListRoles, ReadVersion, BeginRollback, ReadSource,
      CommitRollback, RollBack

---------------------------------------------------------------------------
(* The locks.                                                              *)

\* What Locks says of one transaction.
SoundIn(table, t) ==
  /\ t.pc \in Publishing \cup {"drafting"} => t.version \in Versions
  /\ t.pc \in Holding => table[t.version] = "draft"
  /\ t.pc \in Archived => \A v \in t.targets : table[v] = "published"
  /\ t.pc \in Archived \cup {"archiving"} => \A v \in t.targets : v.role = t.version.role

Sound(t) == SoundIn(status, t)

\* A session whose transaction stays sound, and takes only rows that nobody
\* else holds, leaves the locks in order.
LEMMA LocksStep ==
  ASSUME CatalogTypeOK, Locks, NEW s \in Sessions, NEW t \in Transaction,
         txn' = [txn EXCEPT ![s] = t], status' = status, Sound(t),
         NEW rows, HeldBy(t) \subseteq Holds(s) \cup rows, FreeFor(s, rows)
  PROVE  Locks'
<1>1. \A u \in Sessions : txn'[u] = IF u = s THEN t ELSE txn[u]
  BY DEF CatalogTypeOK
<1>2. ASSUME NEW u \in Sessions PROVE Sound(txn'[u])
  <2>1. CASE u = s
    BY <2>1, <1>1
  <2>2. CASE u # s
    BY <2>2, <1>1 DEF Locks, Sound, SoundIn
  <2>3. QED
    BY <2>1, <2>2
<1>3. ASSUME NEW u \in Sessions, NEW w \in Sessions \ {u}
      PROVE  HeldBy(txn'[u]) \cap HeldBy(txn'[w]) = {}
  <2>1. HeldBy(txn[u]) \cap HeldBy(txn[w]) = {}
    BY DEF Locks, Holds
  <2>2. CASE u # s /\ w # s
    BY <2>1, <2>2, <1>1
  <2>3. CASE u = s
    BY <2>1, <2>3, <1>1 DEF Holds, FreeFor
  <2>4. CASE w = s
    BY <2>1, <2>4, <1>1 DEF Holds, FreeFor
  <2>5. QED
    BY <2>2, <2>3, <2>4
<1>4. QED
  BY <1>2, <1>3 DEF Locks, Sound, SoundIn, Holds

\* A session that becomes idle gives up its locks.
LEMMA LocksIdle ==
  ASSUME CatalogTypeOK, Locks, NEW s \in Sessions,
         txn' = [txn EXCEPT ![s] = Idle], status' = status
  PROVE  Locks'
<1>1. Sound(Idle) /\ HeldBy(Idle) = {}
  BY DEF Sound, SoundIn, HeldBy, Idle
<1>2. FreeFor(s, {})
  BY DEF FreeFor
<1>3. QED
  BY <1>1, <1>2, IdleType, LocksStep

\* Every step leaves the locks in order.
LEMMA LocksNext ==
  ASSUME CatalogTypeOK, Locks, [Next]_vars
  PROVE  Locks'
<1>1. ASSUME UNCHANGED <<status, txn>> PROVE Locks'
  BY <1>1 DEF Locks, Holds, HeldBy
<1>2. ASSUME NEW s \in Sessions, UNCHANGED status, txn' = [txn EXCEPT ![s] = Idle] PROVE Locks'
  BY <1>2, LocksIdle
<1>3. ASSUME NEW s \in Sessions, FreeFor(s, {}), NEW r \in Roles, PatchReads(s, r) PROVE Locks'
  <2> DEFINE t == [txn[s] EXCEPT !.pc = "activating", !.role = r]
  <2>1. t \in Transaction
    BY DEF CatalogTypeOK, Transaction
  <2>2. txn' = [txn EXCEPT ![s] = t] /\ status' = status
    BY <1>3 DEF PatchReads
  <2>3. t.pc = "activating"
    BY DEF CatalogTypeOK, Transaction
  <2> HIDE DEF t
  <2>4. Sound(t) /\ HeldBy(t) = {}
    BY <2>3 DEF Sound, SoundIn, HeldBy
  <2>5. QED
    BY <2>1, <2>2, <2>4, <1>3, LocksStep
<1>4. ASSUME NEW s \in Sessions, FreeFor(s, {}), NEW r \in Roles, NEW n \in Seniorities,
             DraftReads(s, r, n)
      PROVE  Locks'
  <2>1. PICK k \in 1..MaxVersion :
          txn' = [txn EXCEPT ![s].pc = "drafting",
                             ![s].version = [role |-> r, seniority |-> n, number |-> k]]
    BY <1>4 DEF DraftReads, Following
  <2> DEFINE v == [role |-> r, seniority |-> n, number |-> k]
  <2> DEFINE t == [txn[s] EXCEPT !.pc = "drafting", !.version = v]
  <2>2. v \in Versions
    BY DEF Versions
  <2>3. t \in Transaction
    BY <2>2 DEF CatalogTypeOK, Transaction
  <2>4. txn' = [txn EXCEPT ![s] = t] /\ status' = status
    BY <2>1, <1>4 DEF DraftReads
  <2>5. t.pc = "drafting" /\ t.version = v
    BY DEF CatalogTypeOK, Transaction
  <2> HIDE DEF t
  <2>6. Sound(t) /\ HeldBy(t) = {}
    BY <2>2, <2>5 DEF Sound, SoundIn, HeldBy
  <2>7. QED
    BY <2>3, <2>4, <2>6, <1>4, LocksStep
<1>5. ASSUME NEW s \in Sessions, DraftInserts(s) PROVE Locks'
  <2>1. /\ status[txn[s].version] = "none"
        /\ txn' = [txn EXCEPT ![s] = Idle]
        /\ status' = [status EXCEPT ![txn[s].version] = "draft"]
        /\ txn[s].pc = "drafting"
    BY <1>5 DEF DraftInserts, KeyFree
  <2>2. ASSUME NEW u \in Sessions \ {s} PROVE txn'[u] = txn[u] /\ SoundIn(status', txn'[u])
    <3>1. txn'[u] = txn[u]
      BY <2>1 DEF CatalogTypeOK
    <3>2. Sound(txn[u])
      BY DEF Locks, Sound, SoundIn
    <3>3. \A v \in Versions : status[v] # "none" => status'[v] = status[v]
      BY <2>1 DEF CatalogTypeOK
    <3>4. txn[u].targets \subseteq Versions
      BY DEF CatalogTypeOK, Transaction
    <3>5. txn[u].pc \in Holding => status'[txn[u].version] = "draft"
      BY <3>2, <3>3 DEF Sound, SoundIn
    <3>6. txn[u].pc \in Archived => \A v \in txn[u].targets : status'[v] = "published"
      BY <3>2, <3>3, <3>4 DEF Sound, SoundIn
    <3>7. QED
      BY <3>1, <3>2, <3>5, <3>6 DEF Sound, SoundIn
  <2>3. txn'[s] = Idle
    BY <2>1 DEF CatalogTypeOK
  <2>4. SoundIn(status', txn'[s]) /\ HeldBy(Idle) = {}
    BY <2>3 DEF Sound, SoundIn, HeldBy, Idle
  <2>5. \A u \in Sessions : \A w \in Sessions \ {u} : HeldBy(txn'[u]) \cap HeldBy(txn'[w]) = {}
    BY <2>2, <2>3, <2>4 DEF Locks, Holds
  <2>6. QED
    BY <2>2, <2>4, <2>5 DEF Locks, Sound, SoundIn, Holds
<1>6. ASSUME NEW s \in Sessions, FreeFor(s, {}), NEW v \in Versions, Begin(s, v) PROVE Locks'
  <2> DEFINE t == [txn[s] EXCEPT !.pc = "begun", !.version = v, !.began = clock + 1]
  <2>0. clock + 1 \in Nat
    BY DEF CatalogTypeOK
  <2>1. t \in Transaction
    BY <2>0 DEF CatalogTypeOK, Transaction
  <2>2. txn' = [txn EXCEPT ![s] = t] /\ status' = status
    BY <1>6 DEF Begin
  <2>3. t.pc = "begun" /\ t.version = v
    BY DEF CatalogTypeOK, Transaction
  <2> HIDE DEF t
  <2>4. Sound(t) /\ HeldBy(t) = {}
    BY <2>3 DEF Sound, SoundIn, HeldBy
  <2>5. QED
    BY <2>1, <2>2, <2>4, <1>6, LocksStep
<1>7. ASSUME NEW s \in Sessions, LockDraft(s) PROVE Locks'
  <2> DEFINE t == [txn[s] EXCEPT !.pc = "locked"]
  <2>1. t \in Transaction
    BY DEF CatalogTypeOK, Transaction
  <2>2. txn' = [txn EXCEPT ![s] = t] /\ status' = status
    BY <1>7 DEF LockDraft
  <2>3. t.pc = "locked" /\ t.version = txn[s].version
    BY DEF CatalogTypeOK, Transaction
  <2> HIDE DEF t
  <2>4. txn[s].version \in Versions /\ status[txn[s].version] = "draft"
    BY <1>7 DEF LockDraft, Locks
  <2>5. Sound(t) /\ HeldBy(t) = {txn[s].version}
    BY <2>3, <2>4 DEF Sound, SoundIn, HeldBy
  <2>6. FreeFor(s, {txn[s].version})
    BY <1>7 DEF LockDraft
  <2>7. QED
    BY <2>1, <2>2, <2>5, <2>6, LocksStep
<1>8. ASSUME NEW s \in Sessions, FreeFor(s, {}), ArchiveStarts(s) PROVE Locks'
  <2> DEFINE t == [txn[s] EXCEPT !.pc = "archiving",
                     !.targets = PublishedIn(status, txn[s].version.role)]
  <2>0. PublishedIn(status, txn[s].version.role) \in SUBSET Versions
    BY DEF PublishedIn
  <2>1. t \in Transaction
    BY <2>0 DEF CatalogTypeOK, Transaction
  <2>2. txn' = [txn EXCEPT ![s] = t] /\ status' = status /\ txn[s].pc = "locked"
    BY <1>8 DEF ArchiveStarts
  <2>3. t.pc = "archiving" /\ t.version = txn[s].version
    BY DEF CatalogTypeOK, Transaction
  <2> HIDE DEF t
  <2>4. \A v \in t.targets : v.role = txn[s].version.role
    BY DEF t, PublishedIn, CatalogTypeOK, Transaction
  <2>5. Sound(t) /\ HeldBy(t) = Holds(s)
    BY <2>2, <2>3, <2>4 DEF Sound, SoundIn, HeldBy, Holds, Locks
  <2>6. QED
    BY <2>1, <2>2, <2>5, <1>8, LocksStep
<1>9. ASSUME NEW s \in Sessions, ArchiveEnds(s) PROVE Locks'
  <2> DEFINE t == [txn[s] EXCEPT !.pc = "marking",
                     !.targets = {v \in @ : status[v] = "published"}]
  <2>0. {v \in txn[s].targets : status[v] = "published"} \in SUBSET Versions
    BY DEF CatalogTypeOK, Transaction
  <2>1. t \in Transaction
    BY <2>0 DEF CatalogTypeOK, Transaction
  <2>2. txn' = [txn EXCEPT ![s] = t] /\ status' = status /\ txn[s].pc = "archiving"
    BY <1>9 DEF ArchiveEnds
  <2>3. /\ t.pc = "marking" /\ t.version = txn[s].version
        /\ t.targets = {v \in txn[s].targets : status[v] = "published"}
    BY DEF CatalogTypeOK, Transaction
  <2> HIDE DEF t
  <2>4. \A v \in txn[s].targets : v.role = txn[s].version.role
    BY <2>2 DEF Locks
  <2>5. Sound(t) /\ HeldBy(t) \subseteq Holds(s) \cup txn[s].targets
    BY <2>2, <2>3, <2>4 DEF Sound, SoundIn, HeldBy, Holds, Locks
  <2>6. FreeFor(s, txn[s].targets)
    BY <1>9 DEF ArchiveEnds
  <2>7. QED
    BY <2>1, <2>2, <2>5, <2>6, LocksStep
<1>10. ASSUME NEW s \in Sessions, FreeFor(s, {}), NEW t \in Transaction,
              txn' = [txn EXCEPT ![s] = t], UNCHANGED status,
              txn[s].pc \in Archived, t.pc \in Archived,
              t.version = txn[s].version, t.targets = txn[s].targets
       PROVE  Locks'
  <2>1. Sound(t) /\ HeldBy(t) = Holds(s)
    BY <1>10 DEF Sound, SoundIn, HeldBy, Holds, Locks
  <2>2. QED
    BY <2>1, <1>10, LocksStep
<1>11. ASSUME NEW s \in Sessions, FreeFor(s, {}), MarkPublished(s) PROVE Locks'
  <2> DEFINE t == [txn[s] EXCEPT !.pc = "listing"]
  <2>1. t \in Transaction /\ t.pc = "listing" /\ t.version = txn[s].version /\ t.targets = txn[s].targets
    BY DEF CatalogTypeOK, Transaction
  <2>2. txn' = [txn EXCEPT ![s] = t] /\ status' = status /\ txn[s].pc = "marking"
    BY <1>11 DEF MarkPublished
  <2> HIDE DEF t
  <2>3. QED
    BY <2>1, <2>2, <1>10, <1>11
<1>12. ASSUME NEW s \in Sessions, FreeFor(s, {}), ListRoles(s) PROVE Locks'
  <2>1. txn' \in [Sessions -> Transaction]
    BY NextType DEF CatalogTypeOK
  <2>2. /\ txn' = [txn EXCEPT ![s] = txn'[s]] /\ txn'[s].pc = "reading" /\ txn[s].pc = "listing"
        /\ txn'[s].version = txn[s].version /\ txn'[s].targets = txn[s].targets
        /\ UNCHANGED status
    BY <1>12 DEF ListRoles, CatalogTypeOK, Transaction
  <2>3. QED
    BY <2>1, <2>2, <1>10, <1>12
<1>13. ASSUME NEW s \in Sessions, FreeFor(s, {}), NEW e \in txn[s].listed, ReadVersion(s, e)
       PROVE  Locks'
  <2>1. txn' \in [Sessions -> Transaction]
    BY NextType DEF CatalogTypeOK
  <2>2. PICK v \in Highest(s, e.role) :
          txn' = [txn EXCEPT ![s].listed = @ \ {e},
                             ![s].entries = @ \cup {[e EXCEPT !.version = v]}]
    BY <1>13 DEF ReadVersion
  <2>3. /\ txn' = [txn EXCEPT ![s] = txn'[s]] /\ txn'[s].pc = txn[s].pc /\ txn[s].pc = "reading"
        /\ txn'[s].version = txn[s].version /\ txn'[s].targets = txn[s].targets
        /\ UNCHANGED status
    BY <2>2, <1>13 DEF ReadVersion, CatalogTypeOK, Transaction
  <2>4. QED
    BY <2>1, <2>3, <1>10, <1>13
<1>14. ASSUME NEW s \in Sessions, CommitPublication(s) PROVE Locks'
  <2>1. /\ txn' = [txn EXCEPT ![s] = Idle]
        /\ status' = Updated(s)
        /\ txn[s].pc = "reading"
    BY <1>14 DEF CommitPublication
  <2>2. Holds(s) = {txn[s].version} \cup txn[s].targets
    BY <2>1 DEF Holds, HeldBy
  <2>3. \A v \in Versions \ Holds(s) : status'[v] = status[v]
    BY <2>1, <2>2 DEF Updated
  <2>4. ASSUME NEW u \in Sessions \ {s} PROVE txn'[u] = txn[u] /\ SoundIn(status', txn'[u])
    <3>1. txn'[u] = txn[u]
      BY <2>1 DEF CatalogTypeOK
    <3>2. Sound(txn[u]) /\ Holds(u) \cap Holds(s) = {}
      BY DEF Locks, Sound, SoundIn
    <3>3. txn[u].targets \subseteq Versions
      BY DEF CatalogTypeOK, Transaction
    <3>4. txn[u].pc \in Holding => status'[txn[u].version] = "draft"
      BY <3>2, <2>3 DEF Sound, SoundIn, Holds, HeldBy
    <3>5. txn[u].pc \in Archived => \A v \in txn[u].targets : status'[v] = "published"
      BY <3>2, <3>3, <2>3 DEF Sound, SoundIn, Holds, HeldBy
    <3>6. QED
      BY <3>1, <3>2, <3>4, <3>5 DEF Sound, SoundIn
  <2>5. txn'[s] = Idle
    BY <2>1 DEF CatalogTypeOK
  <2>6. SoundIn(status', txn'[s]) /\ HeldBy(Idle) = {}
    BY <2>5 DEF Sound, SoundIn, HeldBy, Idle
  <2>7. \A u \in Sessions : \A w \in Sessions \ {u} : HeldBy(txn'[u]) \cap HeldBy(txn'[w]) = {}
    BY <2>4, <2>5, <2>6 DEF Locks, Holds
  <2>8. QED
    BY <2>4, <2>6, <2>7 DEF Locks, Sound, SoundIn, Holds
<1>15. ASSUME NEW s \in Sessions, FreeFor(s, {}), NEW c \in catalogs, ReadSource(s, c)
       PROVE  Locks'
  <2>1. txn' \in [Sessions -> Transaction]
    BY NextType DEF CatalogTypeOK
  <2>2. txn' = [txn EXCEPT ![s] = txn'[s]] /\ txn'[s].pc = "copying" /\ UNCHANGED status
    BY <1>15 DEF ReadSource, CatalogTypeOK, Transaction
  <2>3. Sound(txn'[s]) /\ HeldBy(txn'[s]) = {}
    BY <2>2 DEF Sound, SoundIn, HeldBy
  <2>4. QED
    BY <2>1, <2>2, <2>3, <1>15, LocksStep
<1>16. \A s \in Sessions : FreeFor(s, {})
  BY DEF FreeFor
<1>17. CASE \E r \in Roles : CreateRole(r) \/ Deactivate(r) \/ ArchiveRole(r) \/ RestoreRole(r)
  BY <1>1, <1>17 DEF CreateRole, Deactivate, ArchiveRole, RestoreRole
<1>18. ASSUME NEW s \in Sessions,
              PatchActivates(s) \/ DraftNotFound(s) \/ CommitRollback(s) \/ RollBack(s)
       PROVE  Locks'
  BY <1>2, <1>18 DEF PatchActivates, DraftNotFound, CommitRollback, RollBack
<1>19. ASSUME NEW s \in Sessions, FreeFor(s, {}), BeginRollback(s) PROVE Locks'
  <2>1. txn' \in [Sessions -> Transaction]
    BY NextType DEF CatalogTypeOK
  <2>2. txn' = [txn EXCEPT ![s] = txn'[s]] /\ txn'[s].pc = "rollingback" /\ UNCHANGED status
    BY <1>19 DEF BeginRollback, CatalogTypeOK, Transaction
  <2>3. Sound(txn'[s]) /\ HeldBy(txn'[s]) = {}
    BY <2>2 DEF Sound, SoundIn, HeldBy
  <2>4. QED
    BY <2>1, <2>2, <2>3, <1>19, LocksStep
<1>20. CASE UNCHANGED vars
  BY <1>1, <1>20 DEF vars
<1>21. QED
  BY <1>3, <1>4, <1>5, <1>6, <1>7, <1>8, <1>9, <1>11, <1>12, <1>13, <1>14, <1>15,
     <1>16, <1>17, <1>18, <1>19, <1>20 DEF Next, Step

\* What Reads says of one transaction, with its type.
Fine(t) ==
  \A e \in t.entries :
    /\ e.version \in Versions \cup {None}
    /\ Settled(e.version) \/ (t.pc = "reading" /\ e.version = t.version)

---------------------------------------------------------------------------
(* The invariant.                                                          *)

\* The initial state satisfies the invariant.
LEMMA InitInv == Init => CatInv
<1> SUFFICES ASSUME Init PROVE CatInv
  OBVIOUS
<1>1. CatalogTypeOK
  BY InitType
<1>2. \A r \in Seeded : First(r) \in Versions /\ First(r).role = r /\ status[First(r)] = "published"
  BY FirstType, CatalogAssumption DEF Init, Weighted, First
<1>3. ActiveImpliesPublished
  BY <1>2, CatalogAssumption DEF ActiveImpliesPublished, Init, PublishedIn
<1>4. NoDraftServed
  BY <1>2 DEF NoDraftServed, Init
<1>5. Activations /\ Locks /\ Reads
  BY DEF Activations, Locks, Reads, Init, Idle, Holds, HeldBy
<1>6. QED
  BY <1>1, <1>3, <1>4, <1>5 DEF CatInv

\* Every step keeps the invariant.
LEMMA NextInv == CatInv /\ [Next]_vars => CatInv'
<1> SUFFICES ASSUME CatInv, [Next]_vars PROVE CatInv'
  OBVIOUS
<1>1. CatalogTypeOK /\ Locks
  BY DEF CatInv
<1>2. CatalogTypeOK' /\ Locks'
  BY <1>1, NextType, LocksNext
<1>3. ActiveImpliesPublished'
  <2>1. SUFFICES ASSUME NEW r \in Roles, role'[r].active PROVE PublishedIn(status, r) # {}
    BY <1>1, StillPublished DEF ActiveImpliesPublished, PublishedIn
  <2>2. CASE role[r].active
    BY <2>2 DEF CatInv, ActiveImpliesPublished
  <2>3. CASE \E s \in Sessions : PatchActivates(s) /\ txn[s].role = r
    BY <2>3 DEF CatInv, Activations, PatchActivates
  <2>4. role'[r].active => role[r].active \/ \E s \in Sessions : PatchActivates(s) /\ txn[s].role = r
    <3>1. CASE \E q \in Roles :
                 CreateRole(q) \/ Deactivate(q) \/ ArchiveRole(q) \/ RestoreRole(q)
      BY <3>1, <1>1 DEF CatalogTypeOK, Role, CreateRole, Deactivate, ArchiveRole, RestoreRole
    <3>2. CASE \E s \in Sessions : PatchActivates(s)
      <4>1. PICK s \in Sessions : PatchActivates(s)
        BY <3>2
      <4>2. txn[s].role # r => role'[r] = role[r]
        BY <4>1, <1>1 DEF PatchActivates, CatalogTypeOK
      <4>3. QED
        BY <4>1, <4>2
    <3>3. CASE UNCHANGED role
      BY <3>3
    <3>4. QED
      BY <3>1, <3>2, <3>3
    DEF Next, Step, vars, PatchReads, DraftReads, DraftInserts, Begin, LockDraft, DraftNotFound,
          ArchiveStarts, ArchiveEnds, MarkPublished, ListRoles, ReadVersion, CommitPublication,
          BeginRollback, ReadSource, CommitRollback, RollBack
  <2>5. QED
    BY <2>1, <2>2, <2>3, <2>4
<1>4. Activations'
  <2>1. SUFFICES ASSUME NEW s \in Sessions, txn'[s].pc = "activating"
                 PROVE  txn'[s].role \in Roles /\ PublishedIn(status, txn'[s].role) # {}
    BY <1>1, StillPublished DEF Activations, PublishedIn
  <2>2. CASE txn[s].pc = "activating" /\ txn'[s].role = txn[s].role
    BY <2>2 DEF CatInv, Activations
  <2>3. CASE PatchReads(s, txn'[s].role) /\ txn'[s].role \in Roles
    BY <2>3 DEF PatchReads, MayActivate
  <2> DEFINE Goal == \/ txn[s].pc = "activating" /\ txn'[s].role = txn[s].role
                     \/ \E r \in Roles : PatchReads(s, r) /\ txn'[s].role = r
  <2>4. ASSUME NEW u \in Sessions, txn' = [txn EXCEPT ![u] = Idle] PROVE Goal
    BY <2>1, <2>4, <1>1 DEF CatalogTypeOK, Idle
  <2>5. ASSUME NEW u \in Sessions, NEW r \in Roles, PatchReads(u, r) PROVE Goal
    <3>1. CASE u = s
      <4>1. txn'[s].role = r
        BY <2>5, <3>1, <1>1 DEF PatchReads, CatalogTypeOK, Transaction
      <4>2. QED
        BY <2>5, <3>1, <4>1
    <3>2. CASE u # s
      BY <2>1, <2>5, <3>2, <1>1 DEF PatchReads, CatalogTypeOK
    <3>3. QED
      BY <3>1, <3>2
  <2>6. ASSUME NEW u \in Sessions, NEW r \in Roles, NEW n \in Seniorities, DraftReads(u, r, n)
        PROVE  Goal
    BY <2>1, <2>6, <1>1 DEF DraftReads, CatalogTypeOK, Transaction
  <2>7. ASSUME NEW u \in Sessions, NEW v \in Versions, Begin(u, v) PROVE Goal
    BY <2>1, <2>7, <1>1 DEF Begin, CatalogTypeOK, Transaction
  <2>8. ASSUME NEW u \in Sessions, LockDraft(u) \/ MarkPublished(u) PROVE Goal
    BY <2>1, <2>8, <1>1 DEF LockDraft, MarkPublished, CatalogTypeOK, Transaction
  <2>9. ASSUME NEW u \in Sessions, ArchiveStarts(u) \/ ArchiveEnds(u) PROVE Goal
    BY <2>1, <2>9, <1>1 DEF ArchiveStarts, ArchiveEnds, CatalogTypeOK, Transaction
  <2>10. ASSUME NEW u \in Sessions, ListRoles(u) PROVE Goal
    BY <2>1, <2>10, <1>1 DEF ListRoles, CatalogTypeOK, Transaction
  <2>11. ASSUME NEW u \in Sessions, NEW e \in txn[u].listed, ReadVersion(u, e) PROVE Goal
    BY <2>1, <2>11, <1>1 DEF ReadVersion, CatalogTypeOK, Transaction
  <2>12. ASSUME NEW u \in Sessions, NEW c \in catalogs, ReadSource(u, c) PROVE Goal
    BY <2>1, <2>12, <1>1 DEF ReadSource, CatalogTypeOK, Transaction
  <2>13. ASSUME UNCHANGED txn PROVE Goal
    <3>1. txn'[s] = txn[s]
      BY <2>13
    <3>2. QED
      BY <2>1, <3>1
  <2>14. ASSUME NEW r \in Roles,
                CreateRole(r) \/ Deactivate(r) \/ ArchiveRole(r) \/ RestoreRole(r)
         PROVE  Goal
    <3>1. UNCHANGED txn
      BY <2>14 DEF CreateRole, Deactivate, ArchiveRole, RestoreRole
    <3>2. QED
      BY <3>1, <2>13
  <2>15. ASSUME NEW u \in Sessions,
                \/ PatchActivates(u) \/ DraftInserts(u) \/ DraftNotFound(u)
                \/ CommitPublication(u) \/ CommitRollback(u) \/ RollBack(u)
         PROVE  Goal
    <3>1. txn' = [txn EXCEPT ![u] = Idle]
      BY <2>15 DEF PatchActivates, DraftInserts, DraftNotFound, CommitPublication,
                   CommitRollback, RollBack
    <3>2. QED
      BY <3>1, <2>4
  <2>16. ASSUME NEW u \in Sessions, BeginRollback(u) PROVE Goal
    BY <2>1, <2>16, <1>1 DEF BeginRollback, CatalogTypeOK, Transaction
  <2>17. ASSUME UNCHANGED vars PROVE Goal
    BY <2>17, <2>13 DEF vars
  <2> HIDE DEF Goal
  <2>18. Goal
    BY <2>5, <2>6, <2>7, <2>8, <2>9, <2>10, <2>11, <2>12, <2>14, <2>15, <2>16, <2>17
    DEF Next, Step
  <2>19. QED
    BY <2>2, <2>3, <2>18 DEF Goal
<1>5. NoDraftServed'
  <2>1. SUFFICES ASSUME NEW c \in catalogs', NEW e \in c.entries PROVE Settled(e.version)'
    BY DEF NoDraftServed, Settled
  <2>2. CASE c \in catalogs
    <3>1. e.version \in Versions \cup {None} /\ Settled(e.version)
      BY <2>2, <1>1 DEF CatInv, NoDraftServed, Settled, CatalogTypeOK, CatalogRow, Entry
    <3>2. QED
      BY <3>1, <1>1, SettledStays
  <2>3. CASE \E s \in Sessions : CommitPublication(s) /\ c.entries = txn[s].entries
    <3>1. PICK s \in Sessions : CommitPublication(s) /\ c.entries = txn[s].entries
      BY <2>3
    <3>2. e.version \in Versions \cup {None}
      BY <3>1, <1>1 DEF CatalogTypeOK, Transaction, Entry
    <3>3. CASE Settled(e.version)
      BY <3>2, <3>3, <1>1, SettledStays
    <3>4. CASE e.version = txn[s].version
      <4>1. txn[s].version \in Versions
        BY <3>1, <1>1 DEF CommitPublication, Locks
      <4>2. status'[txn[s].version] = "published"
        BY <3>1, <4>1 DEF CommitPublication, Updated
      <4>3. QED
        BY <3>4, <4>2 DEF Settled
    <3>5. QED
      BY <3>1, <3>3, <3>4 DEF CatInv, Reads
  <2>4. CASE \E s \in Sessions : CommitRollback(s) /\ c.entries = txn[s].entries
    <3>1. PICK s \in Sessions : CommitRollback(s) /\ c.entries = txn[s].entries
      BY <2>4
    <3>2. e.version \in Versions \cup {None}
      BY <3>1, <1>1 DEF CatalogTypeOK, Transaction, Entry
    <3>3. Settled(e.version)
      BY <3>1 DEF CatInv, Reads, CommitRollback
    <3>4. QED
      BY <3>2, <3>3, <1>1, SettledStays
  <2>5. ASSUME NEW s \in Sessions, CommitPublication(s), c \notin catalogs
        PROVE  c.entries = txn[s].entries
    BY <2>1, <2>5 DEF CommitPublication
  <2>6. ASSUME NEW s \in Sessions, CommitRollback(s), c \notin catalogs
        PROVE  c.entries = txn[s].entries
    BY <2>1, <2>6 DEF CommitRollback
  <2>7. CASE UNCHANGED catalogs
    BY <2>1, <2>2, <2>7
  <2>8. \/ UNCHANGED catalogs
        \/ \E s \in Sessions : CommitPublication(s) \/ CommitRollback(s)
    BY DEF Next, Step, vars, CreateRole, Deactivate, ArchiveRole, RestoreRole, PatchReads,
           PatchActivates, DraftReads, DraftInserts, Begin, LockDraft, DraftNotFound,
           ArchiveStarts, ArchiveEnds, MarkPublished, ListRoles, ReadVersion, BeginRollback,
           ReadSource, RollBack
  <2>9. QED
    BY <2>2, <2>3, <2>4, <2>5, <2>6, <2>7, <2>8
<1>6. Reads'
  <2>1. \A s \in Sessions : Fine(txn[s])
    <3>1. \A s \in Sessions : \A e \in txn[s].entries : e.version \in Versions \cup {None}
      BY <1>1 DEF CatalogTypeOK, Transaction, Entry
    <3>2. QED
      BY <3>1 DEF CatInv, Reads, Fine, Settled
  <2>2. ASSUME NEW u \in Sessions, txn' = [txn EXCEPT ![u] = txn'[u]], Fine(txn'[u])
        PROVE  \A s \in Sessions : Fine(txn'[s])
    BY <2>1, <2>2, <1>1 DEF CatalogTypeOK
  <2>3. ASSUME NEW u \in Sessions, txn' = [txn EXCEPT ![u] = txn'[u]],
               txn[u].pc # "reading", txn'[u].entries = txn[u].entries
        PROVE  \A s \in Sessions : Fine(txn'[s])
    <3>1. Fine(txn'[u])
      BY <2>1, <2>3 DEF Fine, Settled
    <3>2. QED
      BY <3>1, <2>2, <2>3
  <2>4. ASSUME NEW u \in Sessions, txn' = [txn EXCEPT ![u] = Idle]
        PROVE  \A s \in Sessions : Fine(txn'[s])
    <3>1. txn'[u] = Idle
      BY <2>4, <1>1 DEF CatalogTypeOK
    <3>2. Fine(txn'[u])
      BY <3>1 DEF Fine, Idle
    <3>3. QED
      BY <2>4, <3>1, <3>2, <2>2
  <2>5. ASSUME NEW u \in Sessions,
               \/ PatchActivates(u) \/ DraftInserts(u) \/ DraftNotFound(u)
               \/ CommitPublication(u) \/ CommitRollback(u) \/ RollBack(u)
         PROVE  \A s \in Sessions : Fine(txn'[s])
    <3>1. txn' = [txn EXCEPT ![u] = Idle]
      BY <2>5 DEF PatchActivates, DraftInserts, DraftNotFound, CommitPublication,
                  CommitRollback, RollBack
    <3>2. QED
      BY <3>1, <2>4
  <2>6. ASSUME NEW u \in Sessions, NEW r \in Roles, PatchReads(u, r)
        PROVE  \A s \in Sessions : Fine(txn'[s])
    BY <2>6, <2>3, <1>1 DEF PatchReads, CatalogTypeOK, Transaction
  <2>7. ASSUME NEW u \in Sessions, NEW r \in Roles, NEW n \in Seniorities, DraftReads(u, r, n)
        PROVE  \A s \in Sessions : Fine(txn'[s])
    <3>1. PICK k \in 1..MaxVersion :
            txn' = [txn EXCEPT ![u].pc = "drafting",
                               ![u].version = [role |-> r, seniority |-> n, number |-> k]]
      BY <2>7 DEF DraftReads, Following
    <3>2. txn[u].pc = "idle"
      BY <2>7 DEF DraftReads
    <3>3. txn' = [txn EXCEPT ![u] = txn'[u]] /\ txn'[u].entries = txn[u].entries
      BY <3>1, <1>1 DEF CatalogTypeOK, Transaction
    <3>4. QED
      BY <3>2, <3>3, <2>3
  <2>8. ASSUME NEW u \in Sessions, NEW v \in Versions, Begin(u, v)
        PROVE  \A s \in Sessions : Fine(txn'[s])
    BY <2>8, <2>3, <1>1 DEF Begin, CatalogTypeOK, Transaction
  <2>9. ASSUME NEW u \in Sessions, LockDraft(u) \/ MarkPublished(u)
        PROVE  \A s \in Sessions : Fine(txn'[s])
    BY <2>9, <2>3, <1>1 DEF LockDraft, MarkPublished, CatalogTypeOK, Transaction
  <2>10. ASSUME NEW u \in Sessions, ArchiveStarts(u) \/ ArchiveEnds(u)
         PROVE  \A s \in Sessions : Fine(txn'[s])
    BY <2>10, <2>3, <1>1 DEF ArchiveStarts, ArchiveEnds, CatalogTypeOK, Transaction
  <2>11. ASSUME NEW u \in Sessions, ListRoles(u)
         PROVE  \A s \in Sessions : Fine(txn'[s])
    BY <2>11, <2>3, <1>1 DEF ListRoles, CatalogTypeOK, Transaction
  <2>12. ASSUME NEW u \in Sessions, NEW e \in txn[u].listed, ReadVersion(u, e)
         PROVE  \A s \in Sessions : Fine(txn'[s])
    <3>1. PICK v \in Highest(u, e.role) :
            txn' = [txn EXCEPT ![u].listed = @ \ {e},
                               ![u].entries = @ \cup {[e EXCEPT !.version = v]}]
      BY <2>12 DEF ReadVersion
    <3>2. /\ txn[u].pc = "reading" /\ txn'[u].pc = "reading"
          /\ txn'[u].version = txn[u].version
          /\ txn'[u].entries = txn[u].entries \cup {[e EXCEPT !.version = v]}
          /\ txn' = [txn EXCEPT ![u] = txn'[u]]
      <4>1. txn[u].pc = "reading"
        BY <2>12 DEF ReadVersion
      <4>2. txn'[u] = [txn[u] EXCEPT !.listed = @ \ {e},
                                     !.entries = @ \cup {[e EXCEPT !.version = v]}]
        BY <3>1, <1>1 DEF CatalogTypeOK
      <4>3. txn' = [txn EXCEPT ![u] = txn'[u]]
        BY <3>1, <4>2, <1>1 DEF CatalogTypeOK
      <4>4. txn[u] \in Transaction
        BY <1>1 DEF CatalogTypeOK
      <4>5. QED
        BY <4>1, <4>2, <4>3, <4>4 DEF Transaction
    <3>3. v \in Versions \cup {None} /\ (v # None => Updated(u)[v] = "published")
      BY DEF Highest, PublishedIn
    <3>4. Settled(v) \/ v = txn[u].version
      <4>1. txn[u].targets \subseteq Versions
        BY <1>1 DEF CatalogTypeOK, Transaction
      <4>2. v \in Versions /\ v # None /\ v # txn[u].version => status[v] = "published"
        BY <3>3, <4>1 DEF Updated
      <4>3. QED
        BY <3>3, <4>2 DEF Settled
    <3>5. [e EXCEPT !.version = v].version = v
      BY <1>1 DEF CatalogTypeOK, Transaction, Entry
    <3>6. Fine(txn'[u])
      BY <3>2, <3>3, <3>4, <3>5, <2>1 DEF Fine, Settled
    <3>7. QED
      BY <3>2, <3>6, <2>2
  <2>13. ASSUME NEW u \in Sessions, NEW c \in catalogs, ReadSource(u, c)
         PROVE  \A s \in Sessions : Fine(txn'[s])
    <3>1. txn'[u].entries = c.entries /\ txn' = [txn EXCEPT ![u] = txn'[u]]
      BY <2>13, <1>1 DEF ReadSource, CatalogTypeOK, Transaction
    <3>2. \A e \in c.entries : e.version \in Versions \cup {None} /\ Settled(e.version)
      BY <1>1 DEF CatInv, NoDraftServed, Settled, CatalogTypeOK, CatalogRow, Entry
    <3>3. Fine(txn'[u])
      BY <3>1, <3>2 DEF Fine, Settled
    <3>4. QED
      BY <3>1, <3>3, <2>2
  <2>14. ASSUME UNCHANGED txn PROVE \A s \in Sessions : Fine(txn'[s])
    BY <2>14, <2>1
  <2>15. ASSUME \/ UNCHANGED vars
                \/ \E r \in Roles :
                     CreateRole(r) \/ Deactivate(r) \/ ArchiveRole(r) \/ RestoreRole(r)
         PROVE  \A s \in Sessions : Fine(txn'[s])
    <3>1. UNCHANGED txn
      BY <2>15 DEF vars, CreateRole, Deactivate, ArchiveRole, RestoreRole
    <3>2. QED
      BY <3>1, <2>14
  <2>16. ASSUME NEW u \in Sessions, BeginRollback(u)
         PROVE  \A s \in Sessions : Fine(txn'[s])
    <3>1. txn'[u].entries = txn[u].entries /\ txn' = [txn EXCEPT ![u] = txn'[u]]
      BY <2>16, <1>1 DEF BeginRollback, CatalogTypeOK, Transaction
    <3>2. txn[u].pc = "idle"
      BY <2>16 DEF BeginRollback
    <3>3. Fine(txn'[u])
      BY <3>1, <3>2, <2>1 DEF Fine
    <3>4. QED
      BY <3>1, <3>3, <2>2
  <2>17. \A s \in Sessions : Fine(txn'[s])
    BY <2>5, <2>6, <2>7, <2>8, <2>9, <2>10, <2>11, <2>12, <2>13, <2>15, <2>16 DEF Next, Step
  <2>18. QED
    BY <2>17, <1>1, SettledStays DEF Reads, Fine
<1>20. QED
  BY <1>2, <1>3, <1>4, <1>5, <1>6 DEF CatInv

\* In every reachable state the tables, the locks and the open transactions fit
\* together.
THEOREM CatalogInvariant == Spec => []CatInv
<1>1. QED
  BY InitInv, NextInv, PTL DEF Spec

\* An active row of job_roles has a published version (the check at
\* catalog/routes.ts:148 survives the statements that follow it).
THEOREM ActiveRolesReady == Spec => []ActiveImpliesPublished
<1>1. CatInv => ActiveImpliesPublished
  BY DEF CatInv
<1>2. QED
  BY <1>1, CatalogInvariant, PTL

\* No catalog contains a draft (publication in one transaction,
\* catalog/routes.ts:271-291).
THEOREM DraftsPrivate == Spec => []NoDraftServed
<1>1. CatInv => NoDraftServed
  BY DEF CatInv
<1>2. QED
  BY <1>1, CatalogInvariant, PTL

\* Versions are drafted, published and archived in this order, once each (the
\* FOR UPDATE of catalog/routes.ts:272 and the unique keys).
THEOREM VersionsOnce == Spec => VersionsMoveForward
<1>1. CatInv /\ [Next]_vars =>
        [\A v \in Versions : status'[v] # status[v] =>
           <<status[v], status'[v]>> \in
             {<<"none", "draft">>, <<"draft", "published">>, <<"published", "archived">>}]_vars
  BY VersionForward DEF CatInv, Forward
<1>2. QED
  BY <1>1, CatalogInvariant, PTL DEF Spec, VersionsMoveForward

---------------------------------------------------------------------------
(* The catalogs that jobs refer to.                                        *)

\* A catalog that appears in a step is the one a publication or a rollback
\* commits.
LEMMA NewCatalog ==
  ASSUME [Next]_vars, NEW c \in catalogs', c \notin catalogs
  PROVE  \E s \in Sessions :
           \/ /\ CommitPublication(s)
              /\ c = [id |-> txn[s].began, version |-> txn[s].began, built |-> TRUE,
                      entries |-> txn[s].entries]
           \/ /\ CommitRollback(s)
              /\ c = [id |-> txn[s].began, version |-> txn[s].source, built |-> FALSE,
                      entries |-> txn[s].entries]
<1>1. catalogs' # catalogs
  OBVIOUS
<1>2. \E s \in Sessions : CommitPublication(s) \/ CommitRollback(s)
  BY <1>1 DEF Next, Step, vars, CreateRole, Deactivate, ArchiveRole, RestoreRole, PatchReads,
         PatchActivates, DraftReads, DraftInserts, Begin, LockDraft, DraftNotFound,
         ArchiveStarts, ArchiveEnds, MarkPublished, ListRoles, ReadVersion, BeginRollback,
         ReadSource, RollBack
<1>3. QED
  BY <1>2 DEF CommitPublication, CommitRollback

\* No catalog is ever deleted or changed.
LEMMA CatalogsStay == [Next]_vars => catalogs \subseteq catalogs'
<1>1. CASE UNCHANGED catalogs
  BY <1>1
<1>2. CASE \E s \in Sessions : CommitPublication(s) \/ CommitRollback(s)
  BY <1>2 DEF CommitPublication, CommitRollback
<1>3. QED
  BY <1>1, <1>2
  DEF Next, Step, vars, CreateRole, Deactivate, ArchiveRole, RestoreRole, PatchReads,
      PatchActivates, DraftReads, DraftInserts, Begin, LockDraft, DraftNotFound,
      ArchiveStarts, ArchiveEnds, MarkPublished, ListRoles, ReadVersion, BeginRollback,
      ReadSource, RollBack

\* A step of the request s.
Moves(s) ==
  \/ \E r \in Roles : PatchReads(s, r)
  \/ \E r \in Roles, n \in Seniorities : DraftReads(s, r, n)
  \/ \E v \in Versions : Begin(s, v)
  \/ BeginRollback(s)
  \/ \E c \in catalogs : ReadSource(s, c)
  \/ Step(s)
  \/ RollBack(s)

\* A transaction changes only by a step of its own request.
LEMMA OwnMove ==
  ASSUME CatalogTypeOK, [Next]_vars, NEW s \in Sessions
  PROVE  Moves(s) \/ txn'[s] = txn[s]
<1>1. SUFFICES ASSUME Next, ~Moves(s) PROVE txn'[s] = txn[s]
  BY DEF vars
<1>2. ASSUME NEW r \in Roles,
             CreateRole(r) \/ Deactivate(r) \/ ArchiveRole(r) \/ RestoreRole(r)
      PROVE  txn'[s] = txn[s]
  BY <1>2 DEF CreateRole, Deactivate, ArchiveRole, RestoreRole
<1>3. ASSUME NEW u \in Sessions, u # s,
             \/ \E r \in Roles : PatchReads(u, r)
             \/ \E r \in Roles, n \in Seniorities : DraftReads(u, r, n)
             \/ \E v \in Versions : Begin(u, v)
             \/ BeginRollback(u)
             \/ \E c \in catalogs : ReadSource(u, c)
             \/ RollBack(u)
      PROVE  txn'[s] = txn[s]
  BY <1>3 DEF PatchReads, DraftReads, Begin, BeginRollback, ReadSource, RollBack, CatalogTypeOK
<1>4. ASSUME NEW u \in Sessions, u # s, Step(u) PROVE txn'[s] = txn[s]
  <2>1. ASSUME NEW e \in txn[u].listed, ReadVersion(u, e) PROVE txn'[s] = txn[s]
    BY <1>4, <2>1 DEF ReadVersion, CatalogTypeOK
  <2>2. CASE ArchiveStarts(u) \/ ArchiveEnds(u) \/ ListRoles(u)
    BY <1>4, <2>2 DEF ArchiveStarts, ArchiveEnds, ListRoles, CatalogTypeOK
  <2>3. QED
    BY <1>4, <2>1, <2>2 DEF Step, PatchActivates, DraftInserts, LockDraft, DraftNotFound,
         MarkPublished, CommitPublication, CommitRollback, CatalogTypeOK
<1>5. PICK u \in Sessions : Moves(u) \/ txn'[s] = txn[s]
  BY <1>1, <1>2 DEF Next, Moves
<1>6. QED
  BY <1>1, <1>3, <1>4, <1>5 DEF Moves

\* A rollback under way copies the entries of a catalog that is there.
Copied ==
  \A s \in Sessions : txn[s].pc = "copying" =>
    \E d \in catalogs : d.id = txn[s].source /\ d.entries = txn[s].entries

\* A step of a request after which its transaction copies is the one that reads
\* the source of the rollback.
LEMMA StartsCopying ==
  ASSUME CatalogTypeOK, NEW s \in Sessions, Moves(s), txn'[s].pc = "copying"
  PROVE  \E c \in catalogs : ReadSource(s, c)
<1>1. \A r \in Roles : ~PatchReads(s, r)
  BY DEF PatchReads, CatalogTypeOK, Transaction
<1>2. \A r \in Roles, n \in Seniorities : ~DraftReads(s, r, n)
  BY DEF DraftReads, CatalogTypeOK, Transaction
<1>3. \A v \in Versions : ~Begin(s, v)
  BY DEF Begin, CatalogTypeOK, Transaction
<1>4. ~RollBack(s)
  BY DEF RollBack, CatalogTypeOK, Idle
<1>5. ~BeginRollback(s)
  BY DEF BeginRollback, CatalogTypeOK, Transaction
<1>6. ~Step(s)
  <2>1. \A e \in txn[s].listed : ~ReadVersion(s, e)
    BY DEF ReadVersion, CatalogTypeOK, Transaction
  <2>2. ~(ArchiveStarts(s) \/ ArchiveEnds(s) \/ ListRoles(s) \/ LockDraft(s) \/ MarkPublished(s))
    BY DEF ArchiveStarts, ArchiveEnds, ListRoles, LockDraft, MarkPublished, CatalogTypeOK,
           Transaction
  <2>3. QED
    BY <2>1, <2>2 DEF Step, PatchActivates, DraftInserts, DraftNotFound, CommitPublication,
                      CommitRollback, CatalogTypeOK, Idle
<1>7. QED
  BY <1>1, <1>2, <1>3, <1>4, <1>5, <1>6 DEF Moves

\* The rows that jobs look for stay, whichever catalog is published or copied.
LEMMA FoundNext ==
  CatalogTypeOK /\ JobFindsItsCatalog /\ Copied /\ [Next]_vars
    => JobFindsItsCatalog' /\ Copied'
<1> SUFFICES ASSUME CatalogTypeOK, JobFindsItsCatalog, Copied, [Next]_vars
             PROVE  JobFindsItsCatalog' /\ Copied'
  OBVIOUS
<1>1. catalogs \subseteq catalogs'
  BY CatalogsStay
<1>2. ASSUME NEW c \in catalogs'
      PROVE  \E d \in catalogs' : d.id = c.version /\ d.entries = c.entries
  <2>1. CASE c \in catalogs
    BY <1>1, <2>1 DEF JobFindsItsCatalog
  <2>2. CASE c \notin catalogs
    <3>1. PICK s \in Sessions :
            \/ c = [id |-> txn[s].began, version |-> txn[s].began, built |-> TRUE,
                    entries |-> txn[s].entries]
            \/ /\ CommitRollback(s)
               /\ c = [id |-> txn[s].began, version |-> txn[s].source, built |-> FALSE,
                       entries |-> txn[s].entries]
      BY <1>2, <2>2, NewCatalog
    <3>2. CASE c.id = c.version
      BY <1>2, <3>2
    <3>3. CASE CommitRollback(s) /\ c.version = txn[s].source /\ c.entries = txn[s].entries
      BY <1>1, <3>3 DEF CommitRollback, Copied
    <3>4. QED
      BY <3>1, <3>2, <3>3
  <2>3. QED
    BY <2>1, <2>2
<1>3. ASSUME NEW s \in Sessions, txn'[s].pc = "copying"
      PROVE  \E d \in catalogs' : d.id = txn'[s].source /\ d.entries = txn'[s].entries
  <2>1. CASE txn'[s] = txn[s]
    BY <1>1, <1>3, <2>1 DEF Copied
  <2>2. CASE Moves(s)
    <3>1. PICK c \in catalogs : ReadSource(s, c)
      BY <1>3, <2>2, StartsCopying
    <3>2. txn'[s].source = c.version /\ txn'[s].entries = c.entries
      BY <3>1 DEF ReadSource, CatalogTypeOK, Transaction
    <3>3. QED
      BY <1>1, <3>2 DEF JobFindsItsCatalog
  <2>3. QED
    BY <2>1, <2>2, OwnMove
<1>4. QED
  BY <1>2, <1>3 DEF JobFindsItsCatalog, Copied

\* The version inside a catalog, which an upload stores with its job, is the key
\* of a catalog with the same entries (catalog/routes.ts:298-302, job-service.ts:189),
\* however often catalogs are rolled back to.
THEOREM JobsFindCatalogs == Spec => []JobFindsItsCatalog
<1>1. Init => JobFindsItsCatalog /\ Copied
  BY DEF Init, JobFindsItsCatalog, Copied, Idle
<1>2. QED
  BY <1>1, FoundNext, CatalogTypeCorrect, PTL DEF Spec

---------------------------------------------------------------------------
(* What a publication has read.                                            *)

\* A version that the publication t may show: its own, one that is published
\* and not its to archive, or one that somebody has archived since it began.
Shown(v, t) ==
  \/ v = t.version
  \/ v \notin t.targets /\ status[v] = "published"
  \/ status[v] = "archived" /\ retired[v] >= t.began

\* The role r is not archived, or not since before t began.
Within(r, t) == role[r].archivedAt = Never \/ role[r].archivedAt >= t.began

\* The transaction t has read what still was there when it began.
Fresh(t) ==
  /\ t.pc \in Publishing => t.began <= clock
  /\ t.pc \notin {"reading", "copying"} => t.listed = {} /\ t.entries = {}
  /\ t.pc = "reading" =>
       /\ \A e \in t.entries : e.version # None => Shown(e.version, t)
       /\ \A e \in t.listed \cup t.entries : Within(e.role, t)

ReadsFresh == \A s \in Sessions : Fresh(txn[s])

\* The clock does not go back.
LEMMA ClockGoesOn == ASSUME CatalogTypeOK, [Next]_vars PROVE clock' \in Nat /\ clock <= clock'
<1>1. clock' = clock \/ clock' = clock + 1
  BY DEF Next, Step, vars, CreateRole, Deactivate, ArchiveRole, RestoreRole, PatchReads,
         PatchActivates, DraftReads, DraftInserts, Begin, LockDraft, DraftNotFound,
         ArchiveStarts, ArchiveEnds, MarkPublished, ListRoles, ReadVersion, CommitPublication,
         BeginRollback, ReadSource, CommitRollback, RollBack
<1>2. clock \in Nat
  BY DEF CatalogTypeOK
<1>3. QED
  BY <1>1, <1>2

\* A role is archived at the time of the clock, or keeps its time, or is not
\* archived any more.
LEMMA WithinStays ==
  ASSUME CatalogTypeOK, [Next]_vars, NEW r \in Roles, NEW b \in Nat, b <= clock,
         role[r].archivedAt = Never \/ role[r].archivedAt >= b
  PROVE  role'[r].archivedAt = Never \/ role'[r].archivedAt >= b
<1>1. role[r] \in Role /\ role[r].archivedAt \in Times /\ clock \in Nat
  BY DEF CatalogTypeOK, Role
<1>2. role'[r].archivedAt \in {Never, clock, role[r].archivedAt}
  <2>1. CASE UNCHANGED role
    BY <2>1
  <2>2. ASSUME NEW q \in Roles, CreateRole(q) \/ Deactivate(q)
        PROVE  role'[r].archivedAt = role[r].archivedAt
    BY <2>2, <1>1 DEF CreateRole, Deactivate, CatalogTypeOK, Role
  <2>3. ASSUME NEW q \in Roles, ArchiveRole(q)
        PROVE  role'[r].archivedAt \in {clock, role[r].archivedAt}
    BY <2>3, <1>1 DEF ArchiveRole, CatalogTypeOK, Role
  <2>4. ASSUME NEW q \in Roles, RestoreRole(q)
        PROVE  role'[r].archivedAt \in {Never, role[r].archivedAt}
    BY <2>4, <1>1 DEF RestoreRole, CatalogTypeOK, Role
  <2>5. ASSUME NEW s \in Sessions, PatchActivates(s)
        PROVE  role'[r].archivedAt = role[r].archivedAt
    BY <2>5, <1>1 DEF PatchActivates, CatalogTypeOK, Role
  <2>6. QED
    BY <2>1, <2>2, <2>3, <2>4, <2>5
    DEF Next, Step, vars, PatchReads, DraftReads, DraftInserts, Begin, LockDraft,
        DraftNotFound, ArchiveStarts, ArchiveEnds, MarkPublished, ListRoles, ReadVersion,
        CommitPublication, BeginRollback, ReadSource, CommitRollback, RollBack
<1>3. QED
  BY <1>1, <1>2

\* What a publication s may show stays so while others commit: its targets and
\* its own version are nobody else's.
LEMMA ShownStays ==
  ASSUME CatalogTypeOK, Locks, [Next]_vars, NEW s \in Sessions, txn'[s] = txn[s],
         txn[s].began <= clock, NEW v \in Versions, Shown(v, txn[s])
  PROVE  Shown(v, txn[s])'
<1>1. clock \in Nat /\ txn[s].began \in Nat /\ retired[v] \in Times
  BY DEF CatalogTypeOK, Transaction
<1>2. CASE v = txn[s].version
  BY <1>2 DEF Shown
<1>3. CASE UNCHANGED <<status, retired>>
  BY <1>3 DEF Shown
<1>4. ASSUME NEW u \in Sessions, DraftInserts(u), v # txn[s].version PROVE Shown(v, txn[s])'
  <2>1. status'[v] = status[v] /\ retired' = retired
    BY <1>4 DEF DraftInserts, KeyFree, CatalogTypeOK, Shown
  <2>2. QED
    BY <2>1 DEF Shown
<1>5. ASSUME NEW u \in Sessions, CommitPublication(u), v # txn[s].version
      PROVE  Shown(v, txn[s])'
  <2>1. /\ status' = Updated(u)
        /\ retired' = [w \in Versions |-> IF w \in txn[u].targets THEN clock ELSE retired[w]]
    BY <1>5 DEF CommitPublication
  <2>2. status[txn[u].version] = "draft" /\ \A w \in txn[u].targets : status[w] = "published"
    BY <1>5 DEF CommitPublication, Locks
  <2>3. v # txn[u].version
    BY <1>5, <2>2 DEF Shown
  <2>4. CASE v \in txn[u].targets
    <3>1. status'[v] = "archived" /\ retired'[v] = clock
      BY <2>1, <2>3, <2>4 DEF Updated
    <3>2. QED
      BY <3>1, <1>1 DEF Shown
  <2>5. CASE v \notin txn[u].targets
    <3>1. status'[v] = status[v] /\ retired'[v] = retired[v]
      BY <2>1, <2>3, <2>5 DEF Updated
    <3>2. QED
      BY <3>1 DEF Shown
  <2>6. QED
    BY <2>4, <2>5
<1>6. QED
  BY <1>2, <1>3, <1>4, <1>5
  DEF Next, Step, vars, CreateRole, Deactivate, ArchiveRole, RestoreRole, PatchReads,
      PatchActivates, DraftReads, Begin, LockDraft, DraftNotFound, ArchiveStarts, ArchiveEnds,
      MarkPublished, ListRoles, ReadVersion, BeginRollback, ReadSource,
      CommitRollback, RollBack

\* A transaction that stays as it is keeps what it has read fresh.
LEMMA FreshStays ==
  ASSUME CatalogTypeOK, Locks, [Next]_vars, NEW s \in Sessions, txn'[s] = txn[s],
         Fresh(txn[s])
  PROVE  Fresh(txn[s])'
<1>1. clock \in Nat /\ txn[s].began \in Nat
  BY DEF CatalogTypeOK, Transaction
<1>2. clock' \in Nat /\ clock <= clock'
  BY ClockGoesOn
<1>3. txn[s].pc \in Publishing => txn[s].began <= clock'
  BY <1>1, <1>2 DEF Fresh
<1>4. ASSUME txn[s].pc = "reading", NEW e \in txn[s].entries, e.version # None
      PROVE  Shown(e.version, txn[s])'
  <2>1. e.version \in Versions
    BY <1>4 DEF CatalogTypeOK, Transaction, Entry
  <2>2. QED
    BY <1>4, <2>1, ShownStays DEF Fresh
<1>5. ASSUME txn[s].pc = "reading", NEW e \in txn[s].listed \cup txn[s].entries
      PROVE  Within(e.role, txn[s])'
  <2>1. e.role \in Roles
    BY DEF CatalogTypeOK, Transaction, Entry
  <2>2. QED
    BY <1>1, <1>5, <2>1, WithinStays DEF Fresh, Within
<1>6. QED
  BY <1>3, <1>4, <1>5 DEF Fresh

\* A transaction that has read nothing yet is fresh when it began before now.
LEMMA NothingRead ==
  ASSUME NEW s \in Sessions, txn'[s].pc # "reading", txn'[s].listed = {},
         txn'[s].pc # "copying" => txn'[s].entries = {},
         txn'[s].pc \in Publishing => txn'[s].began <= clock'
  PROVE  Fresh(txn[s])'
  BY DEF Fresh

\* The listing of the roles shows none that is archived.
LEMMA ListFresh ==
  ASSUME CatalogTypeOK, NEW s \in Sessions, Fresh(txn[s]), ListRoles(s)
  PROVE  Fresh(txn[s])'
<1>1. /\ txn'[s].pc = "reading" /\ txn'[s].began = txn[s].began
      /\ txn'[s].entries = txn[s].entries /\ UNCHANGED <<role, clock>>
      /\ txn[s].pc = "listing"
  BY DEF ListRoles, CatalogTypeOK, Transaction
<1>2. ASSUME NEW e \in txn'[s].listed PROVE role[e.role].archivedAt = Never
  <2> DEFINE Row(r, n) == [role |-> r, seniority |-> n, version |-> None,
                           active |-> role[r].active]
  <2> DEFINE Rows(r) == {Row(r, v.seniority) : v \in PublishedIn(Updated(s), r)}
  <2> DEFINE Part(r) == IF Rows(r) # {} THEN Rows(r)
                        ELSE IF role[r].active THEN {} ELSE {Row(r, None)}
  <2>1. txn'[s].listed = UNION {Part(r) : r \in Listable}
    BY DEF ListRoles, CatalogTypeOK, Transaction
  <2>2. PICK r \in Listable : e \in Part(r)
    BY <1>2, <2>1
  <2>3. e.role = r
    BY <2>2
  <2>4. QED
    BY <2>3 DEF Listable
<1>3. txn[s].entries = {} /\ txn[s].began <= clock
  BY <1>1 DEF Fresh
<1>4. QED
  BY <1>1, <1>2, <1>3 DEF Fresh, Within

\* A version read is published by then, or its own: it may be shown.
LEMMA ReadFresh ==
  ASSUME CatalogTypeOK, NEW s \in Sessions, NEW e \in txn[s].listed, Fresh(txn[s]),
         ReadVersion(s, e)
  PROVE  Fresh(txn[s])'
<1>1. PICK v \in Highest(s, e.role) :
        txn' = [txn EXCEPT ![s].listed = @ \ {e},
                           ![s].entries = @ \cup {[e EXCEPT !.version = v]}]
  BY DEF ReadVersion
<1> DEFINE f == [e EXCEPT !.version = v]
<1>2. f.version = v /\ f.role = e.role
  BY DEF CatalogTypeOK, Transaction, Entry
<1> HIDE DEF f
<1>3. /\ txn'[s].pc = "reading" /\ txn[s].pc = "reading"
      /\ txn'[s].began = txn[s].began /\ txn'[s].version = txn[s].version
      /\ txn'[s].targets = txn[s].targets
      /\ txn'[s].listed \subseteq txn[s].listed
      /\ txn'[s].entries = txn[s].entries \cup {f}
      /\ UNCHANGED <<role, status, retired, clock>>
  BY <1>1 DEF ReadVersion, CatalogTypeOK, Transaction, f
<1>4. v # None => Shown(v, txn[s])
  <2>1. v # None => v \in Versions /\ Updated(s)[v] = "published"
    BY DEF Highest, PublishedIn
  <2>2. QED
    BY <2>1 DEF Updated, Shown
<1>5. ASSUME NEW g \in txn'[s].entries, g.version # None PROVE Shown(g.version, txn[s])'
  <2>1. Shown(g.version, txn[s])
    BY <1>2, <1>3, <1>4, <1>5 DEF Fresh
  <2>2. QED
    BY <1>3, <2>1 DEF Shown
<1>6. ASSUME NEW g \in txn'[s].listed \cup txn'[s].entries PROVE Within(g.role, txn[s])'
  <2>1. Within(g.role, txn[s])
    BY <1>2, <1>3, <1>6 DEF Fresh
  <2>2. QED
    BY <1>3, <2>1 DEF Within
<1>7. txn'[s].began <= clock'
  BY <1>3 DEF Fresh
<1>8. QED
  BY <1>3, <1>5, <1>6, <1>7 DEF Fresh

\* So what every publication has read stays fresh.
LEMMA FreshNext ==
  CatalogTypeOK /\ Locks /\ ReadsFresh /\ [Next]_vars => ReadsFresh'
<1> SUFFICES ASSUME CatalogTypeOK, Locks, ReadsFresh, [Next]_vars, NEW s \in Sessions
             PROVE  Fresh(txn[s])'
  BY DEF ReadsFresh
<1>1. Fresh(txn[s]) /\ clock' \in Nat /\ clock <= clock'
  BY ClockGoesOn DEF ReadsFresh
<1>2. clock \in Nat /\ txn[s].began \in Nat
  BY DEF CatalogTypeOK, Transaction
<1>3. CASE txn'[s] = txn[s]
  BY <1>1, <1>3, FreshStays
<1>4. CASE txn'[s] = Idle
  BY <1>4, NothingRead DEF Idle
<1>5. CASE Moves(s)
  <2>1. ASSUME NEW r \in Roles, PatchReads(s, r) PROVE Fresh(txn[s])'
    <3>1. /\ txn[s].pc = "idle" /\ txn'[s].pc = "activating"
          /\ txn'[s].listed = txn[s].listed /\ txn'[s].entries = txn[s].entries
      BY <2>1 DEF PatchReads, CatalogTypeOK, Transaction
    <3>2. QED
      BY <1>1, <3>1, NothingRead DEF Fresh
  <2>2. ASSUME NEW r \in Roles, NEW n \in Seniorities, DraftReads(s, r, n)
        PROVE  Fresh(txn[s])'
    <3>1. /\ txn[s].pc = "idle" /\ txn'[s].pc = "drafting"
          /\ txn'[s].listed = txn[s].listed /\ txn'[s].entries = txn[s].entries
      BY <2>2 DEF DraftReads, CatalogTypeOK, Transaction
    <3>2. QED
      BY <1>1, <3>1, NothingRead DEF Fresh
  <2>3. ASSUME NEW v \in Versions, Begin(s, v) PROVE Fresh(txn[s])'
    <3>1. /\ txn[s].pc = "idle" /\ txn'[s].pc = "begun" /\ txn'[s].began = clock'
          /\ txn'[s].listed = txn[s].listed /\ txn'[s].entries = txn[s].entries
      BY <2>3 DEF Begin, CatalogTypeOK, Transaction
    <3>2. QED
      BY <1>1, <3>1, NothingRead DEF Fresh
  <2>4. ASSUME NEW c \in catalogs, ReadSource(s, c) PROVE Fresh(txn[s])'
    <3>1. txn[s].pc = "rollingback" /\ txn'[s].pc = "copying" /\ txn'[s].listed = txn[s].listed
      BY <2>4 DEF ReadSource, CatalogTypeOK, Transaction
    <3>2. QED
      BY <1>1, <3>1, NothingRead DEF Fresh
  <2>5. ASSUME LockDraft(s) \/ ArchiveStarts(s) \/ ArchiveEnds(s) \/ MarkPublished(s)
        PROVE  Fresh(txn[s])'
    <3>1. /\ txn[s].pc \in {"begun", "locked", "archiving", "marking"}
          /\ txn'[s].pc \in {"locked", "archiving", "marking", "listing"}
          /\ txn'[s].listed = txn[s].listed /\ txn'[s].entries = txn[s].entries
          /\ txn'[s].began = txn[s].began
      BY <2>5 DEF LockDraft, ArchiveStarts, ArchiveEnds, MarkPublished, CatalogTypeOK,
                  Transaction
    <3>2. txn'[s].began <= clock'
      BY <1>1, <1>2, <3>1 DEF Fresh
    <3>3. QED
      BY <1>1, <3>1, <3>2, NothingRead DEF Fresh
  <2>6. ASSUME ListRoles(s) PROVE Fresh(txn[s])'
    BY <1>1, <2>6, ListFresh
  <2>7. ASSUME NEW e \in txn[s].listed, ReadVersion(s, e) PROVE Fresh(txn[s])'
    BY <1>1, <2>7, ReadFresh
  <2>8. ASSUME \/ PatchActivates(s) \/ DraftInserts(s) \/ DraftNotFound(s)
               \/ CommitPublication(s) \/ CommitRollback(s) \/ RollBack(s)
        PROVE  Fresh(txn[s])'
    BY <1>4, <2>8 DEF PatchActivates, DraftInserts, DraftNotFound, CommitPublication,
                      CommitRollback, RollBack, CatalogTypeOK
  <2>9. ASSUME BeginRollback(s) PROVE Fresh(txn[s])'
    <3>1. /\ txn[s].pc = "idle" /\ txn'[s].pc = "rollingback"
          /\ txn'[s].listed = txn[s].listed /\ txn'[s].entries = txn[s].entries
      BY <2>9 DEF BeginRollback, CatalogTypeOK, Transaction
    <3>2. QED
      BY <1>1, <3>1, NothingRead DEF Fresh
  <2>10. QED
    BY <1>5, <2>1, <2>2, <2>3, <2>4, <2>5, <2>6, <2>7, <2>8, <2>9 DEF Moves, Step
<1>6. QED
  BY <1>3, <1>5, OwnMove

\* At the start nobody has read anything.
LEMMA FreshInit == Init => ReadsFresh
<1>1. Fresh(Idle)
  BY DEF Fresh, Idle
<1>2. Init => \A s \in Sessions : txn[s] = Idle
  BY DEF Init
<1>3. QED
  BY <1>1, <1>2 DEF ReadsFresh

\* A catalog that a publication adds holds what that publication has read.
LEMMA BuiltCatalog ==
  ASSUME ReadsFresh, [Next]_vars, NEW c \in catalogs', c \notin catalogs, c.built
  PROVE  \E s \in Sessions :
           /\ CommitPublication(s) /\ txn[s].pc = "reading" /\ Fresh(txn[s])
           /\ c.id = txn[s].began /\ c.entries = txn[s].entries
<1>1. PICK s \in Sessions :
        \/ /\ CommitPublication(s)
           /\ c = [id |-> txn[s].began, version |-> txn[s].began, built |-> TRUE,
                   entries |-> txn[s].entries]
        \/ c = [id |-> txn[s].began, version |-> txn[s].source, built |-> FALSE,
                entries |-> txn[s].entries]
  BY NewCatalog
<1>2. QED
  BY <1>1 DEF CommitPublication, ReadsFresh

\* A catalog that a publication adds shows versions that are published when it
\* commits, or that were archived since it began (the publish route and
\* buildCatalogSnapshot, catalog/routes.ts:271-291); older ones are not changed.
THEOREM RetiredVersionsOut == Spec => RetiredNotServed
<1>1. CatInv /\ ReadsFresh /\ [Next]_vars =>
        [\A c \in catalogs' \ catalogs : c.built =>
           \A e \in c.entries : e.version # None =>
             \/ status'[e.version] = "published"
             \/ status[e.version] = "archived" /\ retired[e.version] >= c.id]_vars
  <2> SUFFICES ASSUME CatInv, ReadsFresh, Next,
                      NEW c \in catalogs', c \notin catalogs, c.built,
                      NEW e \in c.entries, e.version # None
               PROVE  \/ status'[e.version] = "published"
                      \/ status[e.version] = "archived" /\ retired[e.version] >= c.id
    OBVIOUS
  <2>1. PICK s \in Sessions :
          /\ CommitPublication(s) /\ txn[s].pc = "reading" /\ Fresh(txn[s])
          /\ c.id = txn[s].began /\ c.entries = txn[s].entries
    BY BuiltCatalog
  <2>2. e.version \in Versions
    BY <2>1 DEF CatInv, CatalogTypeOK, Transaction, Entry
  <2>3. Shown(e.version, txn[s])
    BY <2>1 DEF Fresh
  <2>4. status' = Updated(s)
    BY <2>1 DEF CommitPublication
  <2>5. QED
    BY <2>1, <2>2, <2>3, <2>4 DEF Shown, Updated
<1>2. CatInv => CatalogTypeOK /\ Locks
  BY DEF CatInv
<1>3. QED
  BY <1>1, <1>2, FreshInit, FreshNext, CatalogInvariant, PTL DEF Spec, RetiredNotServed

\* Nor does a new one show a role that was archived before it began and still is
\* (catalog/routes.ts:37).
THEOREM ArchivedRolesOut == Spec => ArchivedNotServed
<1>1. CatInv /\ ReadsFresh /\ [Next]_vars =>
        [\A c \in catalogs' \ catalogs : c.built =>
           \A e \in c.entries :
             role[e.role].archivedAt = Never \/ role[e.role].archivedAt >= c.id]_vars
  BY BuiltCatalog DEF Fresh, Within
<1>2. CatInv => CatalogTypeOK /\ Locks
  BY DEF CatInv
<1>3. QED
  BY <1>1, <1>2, FreshInit, FreshNext, CatalogInvariant, PTL DEF Spec, ArchivedNotServed
=============================================================================
