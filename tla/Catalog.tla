------------------------------ MODULE Catalog ------------------------------
(***************************************************************************)
(* Catalog administration (catalog/routes.ts): roles, the rule versions    *)
(* drafted for them, publication, rollback, and the catalogs that visitors *)
(* and uploads read.                                                       *)
(*                                                                         *)
(* Administrator requests run as READ COMMITTED transactions (sessions):   *)
(* one action per statement that reads what other sessions write or waits  *)
(* for their locks, the last write together with the COMMIT.  A session    *)
(* sees its own uncommitted changes, which are kept in its transaction     *)
(* until then.  now() is the start of the transaction.                     *)
(***************************************************************************)
EXTENDS Integers

CONSTANTS
  Sessions,     \* administrator requests under way at once
  Roles,        \* slugs
  Seeded,       \* roles the seed stores, active, with a published version
  Seniorities,  \* values of the column seniority in use
  All,          \* the seniority 'all', the default
  None,         \* null
  MaxVersion,   \* bound on the version numbers
  MaxClock      \* bound on the transactions that write a catalog

ASSUME CatalogAssumption ==
  /\ Seeded \subseteq Roles
  /\ All \in Seniorities
  /\ None \notin Seniorities
  /\ MaxVersion \in Nat \ {0}
  /\ MaxClock \in Nat

VARIABLES
  role,      \* job_roles, by slug
  status,    \* role_rule_versions, by their key
  retired,   \* when a version was archived (only to state properties)
  catalogs,  \* catalog_snapshots
  clock,     \* the last start of a transaction that writes a catalog
  txn        \* the sessions

vars == <<role, status, retired, catalogs, clock, txn>>

Never == -1
Times == Nat \cup {Never}

\* UNIQUE(job_role_id, seniority, version)
Versions == [role : Roles, seniority : Seniorities, number : 1..MaxVersion]

Role == [stored : BOOLEAN, active : BOOLEAN, archivedAt : Times]

\* A role in a catalog: which version its requirements were read from.
Entry == [role : Roles, seniority : Seniorities \cup {None},
          version : Versions \cup {None}, active : BOOLEAN]

\* `version` is the one inside the snapshot; `id`, which is also published_at,
\* is the key of the row.
CatalogRow == [id : Nat, version : Nat, built : BOOLEAN, entries : SUBSET Entry]

\* After ArchiveEnds the transaction of a publication holds its targets too.
Holding == {"locked", "archiving", "marking", "listing", "reading"}
Archived == {"marking", "listing", "reading"}
Marked == {"listing", "reading"}
Publishing == Holding \cup {"begun"}

Transaction ==
  [pc : Publishing \cup {"idle", "activating", "drafting", "rollingback", "copying"},
   role : Roles \cup {None}, version : Versions \cup {None},
   began : Nat, source : Nat, targets : SUBSET Versions,
   listed : SUBSET Entry, entries : SUBSET Entry]

Idle ==
  [pc |-> "idle", role |-> None, version |-> None, began |-> 0, source |-> 0,
   targets |-> {}, listed |-> {}, entries |-> {}]

First(r) == [role |-> r, seniority |-> All, number |-> 1]

\* No route ever inserts into role_rules: only the versions of the seed have any.
Weighted(v) == v \in {First(r) : r \in Seeded}

Init ==
  /\ role = [r \in Roles |->
       [stored |-> r \in Seeded, active |-> r \in Seeded, archivedAt |-> Never]]
  /\ status = [v \in Versions |-> IF Weighted(v) THEN "published" ELSE "none"]
  /\ retired = [v \in Versions |-> Never]
  /\ catalogs = {[id |-> 0, version |-> 0, built |-> TRUE,
                  entries |-> {[role |-> r, seniority |-> All, version |-> First(r),
                                active |-> TRUE] : r \in Seeded}]}
  /\ clock = 0
  /\ txn = [s \in Sessions |-> Idle]

\* The versions of a role that are published, as given by a table of statuses.
PublishedIn(table, r) == {v \in Versions : v.role = r /\ table[v] = "published"}

---------------------------------------------------------------------------
(* Roles.  Reads that decide nothing and the single UPDATE with its COMMIT *)
(* are one action; only an activation decides on what it has read.         *)

CreateRole(r) ==
  /\ ~role[r].stored
  /\ role' = [role EXCEPT ![r].stored = TRUE]
  /\ UNCHANGED <<status, retired, catalogs, clock, txn>>

Deactivate(r) ==
  /\ role[r].stored
  /\ role' = [role EXCEPT ![r].active = FALSE]
  /\ UNCHANGED <<status, retired, catalogs, clock, txn>>

ArchiveRole(r) ==
  /\ role[r].stored
  /\ role' = [role EXCEPT ![r].active = FALSE,
                          ![r].archivedAt = IF @ = Never THEN clock ELSE @]
  /\ UNCHANGED <<status, retired, catalogs, clock, txn>>

RestoreRole(r) ==
  /\ role[r].stored
  /\ role[r].archivedAt # Never
  /\ role' = [role EXCEPT ![r].active = FALSE, ![r].archivedAt = Never]
  /\ UNCHANGED <<status, retired, catalogs, clock, txn>>

\* Mutation: a role is activated whether or not a version is published.
MayActivateUnchecked(r) ==
  /\ role[r].stored
  /\ role[r].archivedAt = Never

\* Any other role is refused with 404 or 409.
MayActivate(r) ==
  /\ role[r].stored
  /\ role[r].archivedAt = Never
  /\ PublishedIn(status, r) # {}

PatchReads(s, r) ==
  /\ txn[s].pc = "idle"
  /\ MayActivate(r)
  /\ txn' = [txn EXCEPT ![s].pc = "activating", ![s].role = r]
  /\ UNCHANGED <<role, status, retired, catalogs, clock>>

PatchActivates(s) ==
  /\ txn[s].pc = "activating"
  /\ role' = [role EXCEPT ![txn[s].role].active = TRUE]
  /\ txn' = [txn EXCEPT ![s] = Idle]
  /\ UNCHANGED <<status, retired, catalogs, clock>>

---------------------------------------------------------------------------
(* Drafts.                                                                 *)

Numbers(r, n) == {v.number : v \in {w \in Versions :
                    w.role = r /\ w.seniority = n /\ status[w] # "none"}}

\* Mutation: a draft takes the highest number, not the one after it.
FollowingNotIncremented(r, n) ==
  {k \in 0..MaxVersion :
     k \in Numbers(r, n) \cup {0} /\ \A m \in Numbers(r, n) : m <= k}

\* COALESCE(max(version), 0) + 1
Following(r, n) ==
  {k \in 1..MaxVersion :
     k - 1 \in Numbers(r, n) \cup {0} /\ \A m \in Numbers(r, n) : m < k}

DraftReads(s, r, n) ==
  /\ txn[s].pc = "idle"
  /\ role[r].stored
  /\ \E k \in Following(r, n) :
       txn' = [txn EXCEPT ![s].pc = "drafting",
                          ![s].version = [role |-> r, seniority |-> n, number |-> k]]
  /\ UNCHANGED <<role, status, retired, catalogs, clock>>

\* Mutation: the table has no unique key on role, seniority and number.
KeyUnchecked(v) == TRUE

\* A key that is taken by now fails the INSERT: RollBack.
KeyFree(v) == status[v] = "none"

DraftInserts(s) ==
  /\ txn[s].pc = "drafting"
  /\ KeyFree(txn[s].version)
  /\ status' = [status EXCEPT ![txn[s].version] = "draft"]
  /\ txn' = [txn EXCEPT ![s] = Idle]
  /\ UNCHANGED <<role, retired, catalogs, clock>>

---------------------------------------------------------------------------
(* Publication.                                                            *)

\* Rows of role_rule_versions that an open transaction has locked.
HeldBy(t) ==
  (IF t.pc \in Holding THEN {t.version} ELSE {})
    \cup (IF t.pc \in Archived THEN t.targets ELSE {})

Holds(s) == HeldBy(txn[s])

FreeFor(s, rows) == \A t \in Sessions \ {s} : Holds(t) \cap rows = {}

Begin(s, v) ==
  /\ txn[s].pc = "idle"
  /\ status[v] # "none"
  /\ clock < MaxClock
  /\ clock' = clock + 1
  /\ txn' = [txn EXCEPT ![s].pc = "begun", ![s].version = v, ![s].began = clock + 1]
  /\ UNCHANGED <<role, status, retired, catalogs>>

\* SELECT ... FOR UPDATE waits for the holder of the row and then looks again.
LockDraft(s) ==
  /\ txn[s].pc = "begun"
  /\ FreeFor(s, {txn[s].version})
  /\ status[txn[s].version] = "draft"
  /\ txn' = [txn EXCEPT ![s].pc = "locked"]
  /\ UNCHANGED <<role, status, retired, catalogs, clock>>

DraftNotFound(s) ==
  /\ txn[s].pc = "begun"
  /\ FreeFor(s, {txn[s].version})
  /\ status[txn[s].version] # "draft"
  /\ txn' = [txn EXCEPT ![s] = Idle]
  /\ UNCHANGED <<role, status, retired, catalogs, clock>>

\* The UPDATE that archives finds its rows in one snapshot, whatever their
\* seniority, waits for whoever holds one, and leaves alone what has changed.
ArchiveStarts(s) ==
  /\ txn[s].pc = "locked"
  /\ txn' = [txn EXCEPT ![s].pc = "archiving",
                        ![s].targets = PublishedIn(status, txn[s].version.role)]
  /\ UNCHANGED <<role, status, retired, catalogs, clock>>

ArchiveEnds(s) ==
  /\ txn[s].pc = "archiving"
  /\ FreeFor(s, txn[s].targets)
  /\ txn' = [txn EXCEPT ![s].pc = "marking",
                        ![s].targets = {v \in @ : status[v] = "published"}]
  /\ UNCHANGED <<role, status, retired, catalogs, clock>>

SameRule(v, w) == v.role = w.role /\ v.seniority = w.seniority

\* The index role_one_published_version: an uncommitted rival is waited for, a
\* committed one fails the UPDATE.
NoRival(s) ==
  LET v == txn[s].version IN
  /\ \A t \in Sessions \ {s} : txn[t].pc \in Marked => ~SameRule(v, txn[t].version)
  /\ \A w \in PublishedIn(status, v.role) : SameRule(v, w) => w \in txn[s].targets

MarkPublished(s) ==
  /\ txn[s].pc = "marking"
  /\ NoRival(s)
  /\ txn' = [txn EXCEPT ![s].pc = "listing"]
  /\ UNCHANGED <<role, status, retired, catalogs, clock>>

\* The table of versions as a publication that has marked its own sees it.
Updated(s) ==
  [v \in Versions |-> IF v = txn[s].version THEN "published"
                      ELSE IF v \in txn[s].targets THEN "archived"
                      ELSE status[v]]

\* Mutation: an archived role is taken for inactive and not tested.
ListableOrActive ==
  {r \in Roles : role[r].stored /\ (role[r].active \/ role[r].archivedAt = Never)}

Listable == {r \in Roles : role[r].stored /\ role[r].archivedAt = Never}

\* LEFT JOIN: one row per published version, or one without a seniority, which
\* is passed over when the role is active.
ListRoles(s) ==
  LET Row(r, n) == [role |-> r, seniority |-> n, version |-> None, active |-> role[r].active]
      Rows(r) == {Row(r, v.seniority) : v \in PublishedIn(Updated(s), r)}
  IN
  /\ txn[s].pc = "listing"
  /\ txn' = [txn EXCEPT ![s].pc = "reading",
       ![s].listed = UNION {IF Rows(r) # {} THEN Rows(r)
                            ELSE IF role[r].active THEN {} ELSE {Row(r, None)} : r \in Listable}]
  /\ UNCHANGED <<role, status, retired, catalogs, clock>>

\* Mutation: the version that is served is the highest of any status.
HighestOfAnyStatus(s, r) ==
  LET known == {v \in Versions : v.role = r /\ Updated(s)[v] \in {"published", "archived"}} IN
  IF known = {} THEN {None}
  ELSE {v \in known : \A w \in known : w.number <= v.number}

\* The highest version of the role that is published by now, of any seniority.
Highest(s, r) ==
  LET published == PublishedIn(Updated(s), r) IN
  IF published = {} THEN {None}
  ELSE {v \in published : \A w \in published : w.number <= v.number}

ReadVersion(s, e) ==
  /\ txn[s].pc = "reading"
  /\ e \in txn[s].listed
  /\ \E v \in Highest(s, e.role) :
       txn' = [txn EXCEPT ![s].listed = @ \ {e},
                          ![s].entries = @ \cup {[e EXCEPT !.version = v]}]
  /\ UNCHANGED <<role, status, retired, catalogs, clock>>

\* Mutation: the snapshot gets another version stamp than the one recorded.
CommitWithAnotherStamp(s) ==
  /\ txn[s].pc = "reading"
  /\ txn[s].listed = {}
  /\ catalogs' = catalogs \cup
       {[id |-> txn[s].began, version |-> clock, built |-> TRUE,
         entries |-> txn[s].entries]}
  /\ status' = Updated(s)
  /\ retired' = [v \in Versions |-> IF v \in txn[s].targets THEN clock ELSE retired[v]]
  /\ txn' = [txn EXCEPT ![s] = Idle]
  /\ UNCHANGED <<role, clock>>

CommitPublication(s) ==
  /\ txn[s].pc = "reading"
  /\ txn[s].listed = {}
  /\ catalogs' = catalogs \cup
       {[id |-> txn[s].began, version |-> txn[s].began, built |-> TRUE,
         entries |-> txn[s].entries]}
  /\ status' = Updated(s)
  /\ retired' = [v \in Versions |-> IF v \in txn[s].targets THEN clock ELSE retired[v]]
  /\ txn' = [txn EXCEPT ![s] = Idle]
  /\ UNCHANGED <<role, clock>>

---------------------------------------------------------------------------
(* Rollback to an earlier catalog, and errors.                             *)

BeginRollback(s) ==
  /\ txn[s].pc = "idle"
  /\ clock < MaxClock
  /\ clock' = clock + 1
  /\ txn' = [txn EXCEPT ![s].pc = "rollingback", ![s].began = clock + 1]
  /\ UNCHANGED <<role, status, retired, catalogs>>

ReadSource(s, c) ==
  /\ txn[s].pc = "rollingback"
  /\ txn' = [txn EXCEPT ![s].pc = "copying", ![s].source = c.version,
                        ![s].entries = c.entries]
  /\ UNCHANGED <<role, status, retired, catalogs, clock>>

\* The snapshot is copied as it is, with the version inside it.
CommitRollback(s) ==
  /\ txn[s].pc = "copying"
  /\ catalogs' = catalogs \cup
       {[id |-> txn[s].began, version |-> txn[s].source, built |-> FALSE,
         entries |-> txn[s].entries]}
  /\ txn' = [txn EXCEPT ![s] = Idle]
  /\ UNCHANGED <<role, status, retired, clock>>

\* Mutation: the snapshot survives the rollback of its transaction.
RollBackKeepsSnapshot(s) ==
  /\ txn[s].pc # "idle"
  /\ catalogs' = IF txn[s].pc = "reading" /\ txn[s].listed = {}
                 THEN catalogs \cup {[id |-> txn[s].began, version |-> txn[s].began,
                                      built |-> TRUE, entries |-> txn[s].entries]}
                 ELSE catalogs
  /\ txn' = [txn EXCEPT ![s] = Idle]
  /\ UNCHANGED <<role, status, retired, clock>>

\* A lost connection, a violated constraint, a catalog version of the same
\* millisecond: the transaction leaves nothing behind.
RollBack(s) ==
  /\ txn[s].pc # "idle"
  /\ txn' = [txn EXCEPT ![s] = Idle]
  /\ UNCHANGED <<role, status, retired, catalogs, clock>>

---------------------------------------------------------------------------
\* A step of an open transaction, towards its end.
Step(s) ==
  \/ PatchActivates(s)
  \/ DraftInserts(s)
  \/ LockDraft(s)
  \/ DraftNotFound(s)
  \/ ArchiveStarts(s)
  \/ ArchiveEnds(s)
  \/ MarkPublished(s)
  \/ ListRoles(s)
  \/ \E e \in txn[s].listed : ReadVersion(s, e)
  \/ CommitPublication(s)
  \/ CommitRollback(s)

Next ==
  \/ \E r \in Roles : CreateRole(r) \/ Deactivate(r) \/ ArchiveRole(r) \/ RestoreRole(r)
  \/ \E s \in Sessions :
       \/ \E r \in Roles : PatchReads(s, r)
       \/ \E r \in Roles, n \in Seniorities : DraftReads(s, r, n)
       \/ \E v \in Versions : Begin(s, v)
       \/ BeginRollback(s)
       \/ \E c \in catalogs : ReadSource(s, c)
       \/ Step(s)
       \/ RollBack(s)

Spec == Init /\ [][Next]_vars

---------------------------------------------------------------------------
(* Properties.                                                             *)

\* Every variable stays in its domain.
CatalogTypeOK ==
  /\ role \in [Roles -> Role]
  /\ status \in [Versions -> {"none", "draft", "published", "archived"}]
  /\ retired \in [Versions -> Times]
  /\ catalogs \subseteq CatalogRow
  /\ clock \in Nat
  /\ txn \in [Sessions -> Transaction]

\* An active row of job_roles has a published version: the check before an
\* activation still holds when the activation is written, whatever other
\* sessions publish, archive or roll back in between.  The next catalog that is
\* built reads these rows; visitors choose from the catalog.
ActiveImpliesPublished ==
  \A r \in Roles : role[r].active => PublishedIn(status, r) # {}

\* No draft gets into a catalog, not even one whose publication fails late, is
\* overtaken, or is rolled back to.
NoDraftServed ==
  \A c \in catalogs : \A e \in c.entries :
    e.version # None => status[e.version] \in {"published", "archived"}

\* What keeps these two true: an activation under way has seen a published
\* version; a publication holds a draft, and published versions of the same
\* role, that nobody else holds; and it has read no other draft.
Activations ==
  \A s \in Sessions : txn[s].pc = "activating" =>
    txn[s].role \in Roles /\ PublishedIn(status, txn[s].role) # {}

Locks ==
  \A s \in Sessions :
    /\ txn[s].pc \in Publishing \cup {"drafting"} => txn[s].version \in Versions
    /\ txn[s].pc \in Holding => status[txn[s].version] = "draft"
    /\ txn[s].pc \in Archived => \A v \in txn[s].targets : status[v] = "published"
    /\ txn[s].pc \in Archived \cup {"archiving"} =>
         \A v \in txn[s].targets : v.role = txn[s].version.role
    /\ \A t \in Sessions \ {s} : Holds(s) \cap Holds(t) = {}

Settled(v) == v # None => status[v] \in {"published", "archived"}

Reads ==
  \A s \in Sessions : \A e \in txn[s].entries :
    \/ Settled(e.version)
    \/ txn[s].pc = "reading" /\ e.version = txn[s].version

CatInv ==
  CatalogTypeOK /\ ActiveImpliesPublished /\ NoDraftServed /\ Activations /\ Locks /\ Reads

\* A version is drafted once, published once and archived once, in this order:
\* two requests for one draft, or two drafts under one number, do not undo it.
VersionsMoveForward ==
  [][\A v \in Versions : status'[v] # status[v] =>
       <<status[v], status'[v]>> \in
         {<<"none", "draft">>, <<"draft", "published">>, <<"published", "archived">>}]_vars

\* A catalog that a publication adds shows versions that are published when it
\* commits, although it reads role by role; or that were archived since it
\* began, and not by itself.  This says nothing of the catalog that is served
\* already: publications that overlap may each miss what the other has changed,
\* the one that began last is served, and a rollback copies what is old.
RetiredNotServed ==
  [][\A c \in catalogs' \ catalogs : c.built =>
       \A e \in c.entries : e.version # None =>
         \/ status'[e.version] = "published"
         \/ status[e.version] = "archived" /\ retired[e.version] >= c.id]_vars

\* Nor does such a new catalog show a role that was archived before it began and
\* still is, also if a late activation has made that role active again.  The
\* catalog that is served when the role is archived keeps it until the next one.
ArchivedNotServed ==
  [][\A c \in catalogs' \ catalogs : c.built =>
       \A e \in c.entries :
         role[e.role].archivedAt = Never \/ role[e.role].archivedAt >= c.id]_vars

\* An upload stores the version inside the latest catalog, and the worker looks
\* for a catalog under that key: it finds the same roles, also after rollbacks.
JobFindsItsCatalog ==
  \A c \in catalogs : \E d \in catalogs : d.id = c.version /\ d.entries = c.entries

\* What CatalogValidator demands of a catalog before the engine works with it.
Valid(c) ==
  /\ \A e, f \in c.entries : e.role = f.role => e = f
  /\ \A e \in c.entries : e.active => e.version # None /\ Weighted(e.version)

\* "Catalog publication must atomically validate, snapshot, ..." (the
\* implementation prompt, line 855): what is published is valid.
PublishedCatalogsValid == \A c \in catalogs : Valid(c)
=============================================================================
