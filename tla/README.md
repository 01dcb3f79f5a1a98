# Verification of Ready My CV

TLA+ specifications of the program in this repository, checked with TLC on small
instances; the safety properties that matter most are also proved with TLAPS, for every
value of the constants.

Ready My CV is a web application. A visitor uploads a CV, a server-side worker
parses it and runs a rule engine against a published role catalog, and the report
goes back in the same response (fast path) or by e-mail. Everything a visitor
leaves behind is temporary: one encrypted row of `analysis_jobs`, purged when the
report is handed over, mailed, cancelled, failed or expired.

## 1. Inventory

### The server (`api/src`)

| Part | State | Operations | Interacts with |
|---|---|---|---|
| Analysis job queue: `modules/analysis/job-service.ts`, `migrations/002_analysis_jobs.sql` | rows of `analysis_jobs` (status, payloads, attempts, lease, availability, expiry); `aggregate_events` | create, status, take fast result, attach e-mail, cancel, claim, heartbeat, finish/fail processing, finish/fail e-mail, recover and purge | routes, worker |
| Worker: `worker.ts`, `server.ts` | the set `active` of running tasks, two timers, `stopping` | start, `fillSlots` every 250 ms, the two task bodies, `cleanup` every minute, stop | queue, mailer, PDF processor, engine |
| Mailer: `mailer.ts` | none | one SMTP dialogue for each call | worker, SMTP server |
| Analysis routes: `modules/analysis/routes.ts` | none (one polling loop per upload) | upload with fast path, status, e-mail, cancel | challenges, queue |
| PDF processor, temporary files, engine runner, report | a temporary file for each task, child processes | inspect, parse, OCR, run engine | worker |
| Public verification: `shared/public-verification.ts` | rows of `public_verification_challenges`, a cookie in each browser | issue, consume, purge | upload route, role requests |
| Role requests and metrics: `modules/role-requests/routes.ts` | `role_requests`, `aggregate_events` | submit once per window, record and read metrics | challenges |
| Administrator session: `modules/auth` | the one account, `admin_sessions` | login, authenticate, logout, change account | all `/app/admin` routes |
| Catalog: `modules/catalog/routes.ts` | roles, rule versions, rules, `catalog_versions`, `catalog_snapshots` | edit drafts, validate, publish, roll back, read latest | upload route, worker |
| Transactions: `shared/db-context.ts`, `db/pool.ts` | ten connections | BEGIN, callback, COMMIT or ROLLBACK | everything |

### Shared Dart packages (`packages`) and the browser (`apps/web`)

| Part | State | Operations |
|---|---|---|
| Agent engine, scoring engine, catalog validator | none: functions of a document and a catalog | a chain of agents, weighted scores, validation |
| `scan_view_model.dart` | stage, handle, cancellation token of the scan | analyze, poll, send e-mail, cancel, reset |
| Other view models, repositories, HTTP client | session, last request, challenge | login, submit, refresh |
| Pages and design system | layout | none that matters here |

### What is hard, and what makes each part correct

* **Queue and worker.** Several transactions and tasks race for one row. Tasks
  outlive their leases, sweeps hand their jobs to others, processes die, COMMITs
  are not acknowledged, an SMTP dialogue ends in doubt. Correct means: payloads
  match the status, a stale task changes nothing, retries are bounded, a report is
  sent again only where the mailer takes it for unsent, every job ends once and its
  end is counted once, nothing gets stuck, nothing outlives its TTL, and the number
  of live jobs is bounded.
* **Worker process.** `fillSlots` is re-entered while it awaits a claim, and `stop`
  runs against it. Correct means: a bounded number of tasks, and none left behind.
* **Challenges and role requests.** A challenge is for one submission; two identical
  requests may arrive together. Correct means: at most one submission for each
  challenge, at most one stored request for each window.
* **Catalog.** Several administrators activate and archive roles, draft, publish and
  roll back; a publication reads the tables role by role while others commit.
  Correct means: an active role has a published version, drafts stay private,
  a publication builds on nothing that was retired before it, and an upload finds the catalog it was given.
* **Sessions.** Logins and checks race a change of account, each over several
  transactions. Correct means: what a change revokes stays revoked, and old
  credentials are of no use.
* **Scan view model and upload route.** Calls of `analyze()` overlap and share one
  view; a polling loop races the worker, the visitor and the TTL; answers arrive
  late or never. Correct means: a cancelled scan stays silent, the page never
  stays busy, and it can end the job it has started.
* **An attempt and its files.** Commands fail or are killed, files cannot be written
  or removed, the process dies. Correct means: no file of a visitor is left without
  an owner or a removal to come, a job is given up only for cause, and the attempt ends.

`PROJECT.json` lists each hazard at its line with the property that covers it, or
with the reason why none does yet.

## 2. Modules

| Module | What it is |
|---|---|
| `JobLifecycle` | What the queue promises: how one job may live and end, and when a message may leave. No leases, no tasks, no table. |
| `AnalysisJobs` | The queue, the worker tasks and the mailer as the code has them. Implements `JobLifecycle`. |
| `MCAnalysisJobs` | Instances for TLC: symmetry, the admission-only next-state relation, and uploads without end. |
| `AnalysisJobs_proofs` | The theorems about `AnalysisJobs`. |
| `WorkerPool` | One worker process: the overlapping calls of `fillSlots`, the set of running tasks, start and stop. |
| `WorkerPool_proofs` | Its theorems. |
| `AtomicSubmissions` | What uploads and role requests promise: each takes effect in one step or not at all. No statements, no locks, no rollbacks. |
| `PublicSubmissions` | Verification challenges, and the transactions of uploads and role requests that consume one. Implements `AtomicSubmissions`. |
| `PublicSubmissions_proofs` | Its theorems. |
| `Catalog` | Roles, rule versions, publication, rollback and the catalogs that come out of them. |
| `MCCatalog`, `Catalog_proofs` | Its symmetry for TLC, and its theorems. |
| `AdminSession` | Login, the check in front of protected routes, logout and the change of the account. |
| `MCAdminSession`, `AdminSession_proofs` | Its symmetry for TLC, and its theorems. |
| `SeenJobs` | A job as the routes show it to a page, and the moves the worker makes in it. Shared by `ScanView` and `AnalysisJobs`. |
| `ScanView` | The upload page, the four routes it calls, and what becomes of its jobs. |
| `ScanView_proofs` | Its theorems. |
| `PdfTask` | One attempt at an analysis: its temporary files, its commands and its errors. |
| `MCPdfTask`, `PdfTask_proofs` | The documents for TLC, and its theorems. |

`AnalysisJobs` is the centre. `ScanView` sees its rows from the outside, through what
the routes can tell; `WorkerPool` sees its claims, and `PdfTask` the inside of the step
from a claim to `FinishProcessing` or `Throw`. They are modules of their own, joined
by what each says about the others' steps, because the product of any two is
beyond TLC. One such joint is proved: `ScanView` gives its jobs the `WorkerMoves` of
`SeenJobs`, and `WorkerAsSeen` of `AnalysisJobs` says that a page, to which `SeenAs`
maps a row and its events, sees the claims, tasks and sweeps do no more.

### How `AnalysisJobs` corresponds to the code

*State.* `row` is the table: one record per job id, with the status, the presence
of each payload, both attempt counts, the lease token and three flags for the
comparisons of `lease_expires_at`, `available_at` and `expires_at` with `now()`.
`log` holds, for each job, the events its transactions insert into
`aggregate_events`; the real table does not say which job an event is for.
`arrivals` is the order of `created_at`. `creating` are the uploads between the
`count(*)` and the `INSERT`. `tasks` are the promises of `process()`, each with
the snapshot of its row (`attempt`) and its lease token, `issued` counts the tokens
drawn. `mails` counts the messages that the server accepted, or that the mailer knows
it may have accepted; `mislaid` those that it may have accepted while the mailer takes
them for unsent. Only properties read the two.

*Actions.* One per transaction, because every transaction takes a row lock with its
first statement that matters. The exceptions are `createAnalysisJob`, whose
`count(*)` locks nothing (`CountActive`, then `InsertJob` or `CreateRollsBack`),
and `statusForHandle`, which reads without a lock but only writes when the row has
expired, which is for ever. The statuses `completed`, `failed`, `expired` and
`cancelled` are overwritten by the DELETE of the same transaction and never seen.

| Code | Actions |
|---|---|
| `createAnalysisJob` | `CountActive`, `InsertJob`, `CreateRollsBack` |
| `statusForHandle`, `takeFastResult`, `attachEmail`, `cancelJob` | `StatusForHandle`, `TakeFastResult`, `AttachEmail`, `CancelJob` |
| `claimNextJob` + start of `process` | `ClaimQueued`, `ClaimEmailPending` |
| `heartbeat` | `Heartbeat` |
| body of `processPdf` up to `finishProcessing` | `FinishProcessing`, `FinishProcessingUnacknowledged` |
| `mailer.send` | `MailAccepted`, `MailUncertain`, `MailMislaid`, `Throw` |
| body of `processEmail` after `send` | `FinishEmail`, `FinishEmailUnacknowledged` |
| the catch blocks, `failProcessing`, `failEmail` | `Throw`, then `FailProcessing` or `FailEmail` |
| a process that dies, a catch block that throws | `TaskDies` |
| `recoverAndPurge` | `RecoverAndPurge` |
| time | `JobExpires`, `LeaseLapses`, `BackoffEnds` |

*Abstractions.* Payload bytes, role, catalog version, handles and delays are left
out. A lease may lapse at any time: `WORKER_LEASE_SECONDS` and
`WORKER_HEARTBEAT_SECONDS` are configured independently, and no heartbeat runs
while a message is sent. `statusForHandle` compares with the clock of Node and
the rest with that of PostgreSQL; the model has one clock. A row that a claim skips
because it is locked (SKIP LOCKED) is claimed later; the model does not skip.
`cleanup()` runs no two sweeps at once that matter: each is one transaction.
Whether an error of nodemailer leaves a doubt is decided by `mailer.ts:51-53`: the
command in the error is `DATA`. A timeout or a closed connection after the text of the
message carries the command `CONN` and no reply code, exactly like a connection that
was refused, so the mailer takes a message that may have arrived for unsent and
retries it: `MailMislaid`. That nodemailer names `CONN` there is knowledge of the
library, which is not in the repository.

### How `WorkerPool` corresponds to the code

The module looks at the process from inside, with the queue reduced to `backlog`,
the number of rows a claim would find. `call` says where each call of `fillSlots`
is: it awaits `claimNextJob` (`claiming`), the claim has committed and its result
is on the way (`claimed`), or it has returned. `active` is the set of that name,
`awaited` what is left of the array that `stop()` hands to `allSettled`.

| Code | Actions |
|---|---|
| `start()` up to its timers, then its own call of `fillSlots`, awaited by `server.ts` before it listens | `Start`, `StartFails`; `opener` is that call |
| a tick of the claim timer | `Tick` |
| `await claimNextJob()` | `ClaimCommits`, `ClaimFindsNothing`, `ClaimThrows` (before or after the COMMIT) |
| the rest of the loop body, with the test of `active.size` that follows it | `TaskStarts` |
| the two callbacks that take a task out of the set | `TaskSettles` |
| `stop()` (the `onClose` hook), `process.exit` | `Stop`, `Exit` |

The signal handlers are installed after `listen`, so `Stop` is possible only then. A
process that is killed, or that fails to listen, is gone with its tasks, which is
`TaskDies` in `AnalysisJobs`.

### How `PublicSubmissions` corresponds to the code

`rows` are the committed rows of `public_verification_challenges`, `stored` those of
`role_requests` (with `created_at` as `at`), `deleter` and `owner` the row locks and
advisory locks, and `sub` the requests: the statement each has reached, its cookie,
whether its answer is right, its content, and `now()` of its transaction. One action
for each statement that takes a lock or reads what others write, under the rules of
READ COMMITTED: a DELETE waits for the transaction that holds its row and then looks
again, and an uncommitted INSERT is invisible.

| Code | Actions |
|---|---|
| `issuePublicVerificationChallenge`, `purgeExpiredPublicVerificationChallenges` | `Issue`, `Purge` |
| BEGIN | `Begin` |
| the DELETE of `consumePublicVerificationChallenge` | `Delete`, `DeleteFindsNothing` |
| `PublicVerificationError` and the ROLLBACK it causes | `Refuse` |
| `pg_advisory_xact_lock`; SELECT and INSERT of the role request | `Lock`; `Search` |
| COMMIT, whose answer may be lost | `Answer` |
| an error or a dead connection | `Fail` |

`AtomicSubmissions` is the specification without all this. `ChallengeOf` maps a row to
a challenge that is open, used or over; `OutcomeOf` and `RequestOf` map a transaction,
whatever statement it is at, to a submission that has been asked for and not answered.
A commit is then the one step in which a challenge is used, a request stored and the
answer fixed; every other statement and every ROLLBACK is a stutter or a refusal.
`ActsAtomically` says so.

A request without a cookie is refused before it touches anything and is left out. A
challenge is issued in one step, so its expiry counts from then and not from a BEGIN
that then waits. `hashtext` is taken to be injective: a collision makes two contents
wait for each other but changes nothing else. Two bulk DELETEs of expired rows could
deadlock in PostgreSQL, which then ends one with an error; the model takes each as
one step.

### How `Catalog` corresponds to the code

`role` is `job_roles`, `status` the column of `role_rule_versions` by the key of a
version (role, seniority, number), `catalogs` the rows of `catalog_snapshots`, and
`txn` the requests of administrators that are under way. One action for each statement
that reads what other sessions write or waits for their locks; a session sees its own
uncommitted changes, which `Updated` adds to the committed table.

| Code | Actions |
|---|---|
| POST, archive and restore of a role | `CreateRole`, `ArchiveRole`, `RestoreRole` |
| PATCH of a role | `Deactivate`; an activation is `PatchReads`, `PatchActivates` |
| POST of a rule version | `DraftReads`, `DraftInserts` |
| publish: `FOR UPDATE`, the UPDATE that archives, the one that publishes | `Begin`, `LockDraft` or `DraftNotFound`, `ArchiveStarts`, `ArchiveEnds`, `MarkPublished` |
| `buildCatalogSnapshot` | `ListRoles`, one `ReadVersion` for each of its rows |
| the INSERTs and the COMMIT | `CommitPublication` |
| rollback: BEGIN, the SELECT of the source, the INSERTs and the COMMIT | `BeginRollback`, `ReadSource`, `CommitRollback` |
| any error, a taken key, a deadlock that PostgreSQL ends | `RollBack` |

`catalog-${Date.now()}` and `published_at` are one number, the order in which the
transactions begin, although the code computes the first in the middle of the
transaction: keys are only compared for equality. Two publications of the same millisecond fail on the key. The
seed is the initial state. No route writes `role_rules`, so only the versions of the
seed are `Weighted`. The instance has one seniority, as the web application always
sends `all`; `CatalogValid` uses two, as the route takes any.

### How `AdminSession` corresponds to the code

`generation` stands for username and password: every change starts a new one.
`session` is `admin_sessions`, `req` the requests, each with the transaction it has
reached. `login` reads the credentials in one transaction and inserts its session in
another; `authenticate` updates a row, and waits when a change of account has locked
it; `changeAccount` locks the account (`LockAccount`), updates all sessions
(`RevokeAll`) and commits (`CommitChange`). A protected route runs in its own
transaction and does not look at the session again (`Act`): a request that was
authenticated before a change is still served after it.

### How `ScanView` corresponds to the code

`view`, `active`, `current` and `cancelled` are the fields of the view model, `picking`
says that the file dialogue of the page is open (which file is picked is left out), `task`
says where each call of `analyze()` awaits, `mail` the same for `sendEmail()`.
`serving` is the upload handler with its `waitForFastResult`, `job` the row, `answer`,
`cancels` what is on its way. `lost` is not in the code: it records which scan has lost
its job, and why. The stage is tested before the file dialogue opens and only `busy`
when it closes, so a late `MailFails` can put `analyze()` in the stage `awaitingEmail`.
A mail call goes through the same steps as a scan, so a late one counts as a call that
takes the page.

| Code | Actions |
|---|---|
| the upload area and the file dialogue | `Pick`, `PickNothing`, `PickInVain` |
| `analyze`, up to the request | `Analyze` |
| its answer, `throwIfCancelled`, the catch blocks | `UploadAnswered`, `AnswerUnwanted`, `UploadRefused`, `RequestFails` |
| `_poll` | `PollAgain`, `StatusAnswered`, `StatusMissing`, `AnswerUnwanted`, `RequestFails` |
| `sendEmail` | `SendEmail`, `MailAnswered`, `MailMissing`, `MailFails` |
| `cancel`, `reset`, the `onDispose` of `build` | `Cancel`, `Reset`, `Dispose` |
| the four routes | `RefuseUpload`, `CreateAnalysisJob`, `FastReport`, `FastTerminal`, `FastQueued`; `ServeStatus`, `ServeEmail`, `ServeCancel` |
| the network | `RequestFails`, `MailFails`, `DropEmail`, `CancelFails` |
| worker, clock and sweep | `Work`, `Lapse`, `Sweep` |

### How `PdfTask` corresponds to the code

A task has the stage of `processPdf` it is in, the page, whether text was found, the
code of the error, whether it knows the path of its file, and its outcome. A document
is a fault (what Poppler would say of it, or too much text, from the text layer or from
OCR) and a kind for each page: text, a text layer too short to count that keeps OCR
away from the image under it, an image, or nothing. `disk` is the
directory; `stranded` (what nobody will remove before the next start) and `broke`
(a command failed and was not killed by its timeout) only serve the properties.

| Code | Actions |
|---|---|
| `cleanupAnalysisDirectory` at the start; the death of the process | `Start`, `Crash` |
| `decryptPdf`, `writeTemporaryPdf` | `Begin`, `DecryptFails`, `WriteTemporaryPdf`, `WriteFails` |
| `inspectAndParsePdf`, `assertPagePixelBounds`, `runTextCommand` | `Inspect`, `AssertPagePixelBounds`, `ReadPage`, `TimesOut`, `CommandFails` |
| `ocrPage` and its `finally` | `Render`, `Recognise`, `OcrTimesOut`, `OcrFails`, `RemoveImage`, `RemoveImageFails` |
| catalog, engine, `finishProcessing` | `LoadCatalogForJob`, `RunEngine`, `FinishProcessing` |
| catch block and `finally` of `processPdf` | `FailProcessing`, `RemoveTemporaryFile`, `RemoveFails` |

### Properties

| Property | Why it could fail |
|---|---|
| `PayloadsMatchStatus` | requests, sweeps and stale tasks write the same row in any order |
| `AttemptsBounded` | the limit is compared with a snapshot of the count |
| `MailsBounded`, `ResendOnlyIfTakenForUnsent` | a message may be out when its task dies, loses its lease or fails afterwards |
| `AtMostOneMail` | violated: a message that was taken passes for unsent |
| `LedgerBalances` | a sweep counts rows by statement, a COMMIT may be repeated by the catch block |
| `StaleTaskHarmless` | a task finishes or fails after its job has gone to another task |
| `KeepsPromise` | the whole module implements `JobLifecycle`: one end for each job, no message after a cancellation, a failure, a fast result or a message that counts as sent |
| `QueueBounded` | count, then insert, on several connections |
| `AnalysisSettles`, `DeliverySettles` | lapsed leases, the last attempt, doubt |
| `DeliverySettlesInPause` | queued rows always go first, and uploads come without end |
| `EveryJobPurged` | a status the sweep does not look at |
| `OverlapBounded` | calls of `fillSlots` overlap and compare the size before they await |
| `BacklogDrains` | an error that is swallowed may cost a slot or the loop |
| `OneUse` | the same cookie in several transactions, one of which rolls back |
| `WindowHolds` | two identical requests at once; `created_at` is older than the COMMIT |
| `ActsAtomically` | what a transaction has read is stale at its commit, a ROLLBACK leaves something, a DELETE skips a row that is only locked, a duplicate is reported for a row that is never stored |
| `EveryoneAnswered` | submissions hold one lock and wait for another |
| `StopExits` | a call that passed its test of `stopping` starts a task during the stop |
| `ActiveImpliesPublished` | the check before an activation is stale when the activation is written |
| `NoDraftServed` | a snapshot is built from an uncommitted draft |
| `VersionsMoveForward` | two drafts under one number, two publications of one draft |
| `RetiredNotServed`, `ArchivedNotServed` | of catalogs that a publication adds: it reads role by role while others commit; a late activation |
| `JobFindsItsCatalog` | a rollback copies the snapshot with the version inside it |
| `SurvivorsWereInFlight` | a login creates its session after the change has revoked the others |
| `ChangesVerified` | two changes of the account at once |
| `DeadStaysDead` | a check decides by the start of its transaction, and may have waited |
| `CancelledIsSilent` | an answer arrives for a scan that was cancelled, on a page that shows another |
| `JobsInReach` | scans overlap and share one view: a call drops a handle, or never learns it, while the job lives |
| `CancelPurges` | violated: a scan is cancelled before the page knows what to cancel |
| `BusyEnds` | a handler that leaves the page busy; answers that never come |
| `NothingLeftBehind` | errors on every path between the creation of a file and its removal |
| `GivesUpForCause` | one catch block for timeouts, failures and faults of the document |
| `SlotReturned` | a command that does not end, a loop over the pages that does not |

## 3. Runs

| Run | Instance | Shows |
|---|---|---|
| `JobRetries` | one job, limits 3 and 3 | the safety properties of the queue and the refinement; no job gets stuck, without the help of the TTL; clock and sweep alone end everything |
| `JobPairs` | uploads without end, two jobs at a time, limits 1 and 1 | the events of each job when claims and sweeps involve two; a delivery that waited for uploads takes place when they pause |
| `Admission` | four uploads, two connections, queue of two | the real bound of `MAX_ACTIVE_JOBS` |
| `PoolBounds` | two slots, three overlapping calls, five rows | the real bound of concurrent tasks; a serving process drains its queue, a stopping one exits |
| `RoleRequests` | two submissions, two challenges, two contents, clock 0..2, window 1 | challenges are used once, windows hold, a submission takes effect in one step and is told what it did, nobody waits for ever |
| `Catalog` | two sessions, two roles (one seeded), two numbers, two catalogs besides the seed's | active roles, versions and new catalogs stay sound while two administrators work at once |
| `AdminSession` | three requests, two tokens, clock 0..3, two changes | what a change revokes stays revoked |
| `ScanView` | two scans, one e-mail request at a time | the page after cancellations and late, lost or wrong answers; which job leaves the reach of its page, and why, when scans overlap |
| `PdfTask` | two attempts, eight documents | files and outcomes of an attempt on every path |
| `DuplicateReport`, `CancelledUpload`, `CatalogValid` | the smallest that shows it | disagreements with the documentation, section 4 |

*Bounds.* Jobs interact only through the claim order, the sweep and the count: one
job at the default limits shows everything about leases and retries, two show every
pair of positions in the claim order and in a sweep, and four uploads can overshoot
a queue of two over two connections. Nothing else is bounded: attempts, leases and
events are finite because the job is. A job id is used once, as the code draws a
fresh UUID; when all ids are used up and all rows gone there may be nothing left
to do, which is why the runs do not check deadlock (progress is a property of its
own). `JobPairs` alone draws the id of a job again when the job is gone and no task
holds it (`Forget`), so its uploads never end.

In `WorkerPool`, `Calls` is how many ticks can overlap one claim (a claim that takes more than 250 ms overlaps two, and so on), `Tasks` is as many as
can run at once, and `MaxArrivals` bounds the rows that ever become claimable;
five fill every slot and every overlap and leave one row over. In
`PublicSubmissions`, `MaxClock` bounds the clock: 2 covers a challenge of lifetime 2
from its first moment to its expiry, and requests before, at and after the end of a
window of 1. Two submissions are one that holds a lock and one that waits for it or
comes later, and a submission that fails leaves its challenge to the other. Both systems may stop when the bounded inputs are used up, so
these runs do not check deadlock either; `BacklogDrains` and `EveryoneAnswered` do
instead.

In `Catalog`, `MaxClock` bounds the publications and rollbacks (two overlap, or one
follows the other and copies it) and `MaxVersion` the drafts of a role: with a seeded
and a new role, the two cover a first and a second version, and a number two sessions
compute at once. In `AdminSession`, three requests are a login, a change and a check or
a second change; a session lapses by idleness (2) before its age ends it (3), and is
prolonged in between. Two scans are one that was cancelled and one that the page
shows, which is all the view model distinguishes; each upload makes one job. The
proof of `JobsInReach` covers any number of scans that overlap. Two
attempts are one that runs and one that another crash or start finds. When all
requests, scans or attempts are used up these systems stop, so the runs do not check
deadlock; `BusyEnds` and `SlotReturned` are about progress.

*Fairness.* In `AnalysisJobs`, `Progress` assumes what `start()` sets up: claims every 250 ms and a
sweep every minute for as long as the process (or its successor) runs, task steps
that end because the parser, the engine and the SMTP dialogue have timeouts, and
time that passes. It assumes nothing about requests, crashes, the success of a step
or the TTL. Fairness of claims is per queue and not per job, as there is one
`claimNextJob` for all. The runs with liveness properties use `SweepSpec` or
`EndlessSpec`, whose only assumption is the sweep, and each liveness property names
what else it needs as a premise: `Progress` for `AnalysisSettles` and
`DeliverySettles`, and only the expiry for `EveryJobPurged`, which holds with no worker
task running. `DeliverySettles` is checked with a single job, which nobody competes
with. Among several, `job-service.ts:156` lets every queued row go before every report
that waits for delivery: as long as uploads keep coming, deliveries may wait, until
their TTL ends them. `DeliverySettlesInPause` therefore has one premise more, that no
upload is under way from some time on.

In `WorkerPool`, timers fire, statements end and tasks settle (weak fairness). The
comment in the catch block calls the errors of a claim transient, and `Fairness`
takes it at its word: claims that are tried for ever commit in the end (strong
fairness of `ClaimCommits`). In `PublicSubmissions`, the next statement of a
transaction that does not wait for a lock runs (weak fairness of `Step`); failures,
time, challenges and the purge may happen or not.

In `ScanView`, timers and awaited calls come back, the server answers what reaches it,
and the TTL and the sweep go on; nothing is assumed of the visitor or the worker, so
a page that waits for a job that is never analysed is freed by the TTL. That a request
ends at all is left to the browser and the server: `app_http_client.dart` sets no
timeout. In `PdfTask`,
every await comes back: commands and the engine have timeouts, the database answers or
rejects. `Catalog` and `AdminSession` state no liveness: their requests are
transactions that the database ends.

Every property has a mutation of the code's own definitions that breaks it in the
same run (`PROJECT.json`, "mutants"; the mutated operators stand before the
originals in the modules, under "Mutation").

## 4. Disagreements with the documentation

Three runs check a sentence of the documentation, or of the page, and find it violated.

* `DuplicateReport`: `docs/Modification_Request_1.md:225` says "Do not send duplicate
  reports after a successful delivery." A dialogue that breaks after the text of the
  message is reported under `CONN`, passes for unsent and is tried again, although the
  server may have taken the message (`MailMislaid`). The message keeps its
  `messageId`, so a receiving system may drop the second one; the service does nothing
  else about it. `MailsBounded` and `ResendOnlyIfTakenForUnsent` are what holds instead.
* `CancelledUpload`: the page of a cancelled scan says "The temporary job and local data
  have been cleared." (`public_pages.dart:738`), and `docs/Modification_Request_1.md:294`
  has the purge run "When the user cancels." During the upload the page knows no handle,
  so `cancel()` asks for nothing, and when the handle comes it is dropped: the PDF is
  analysed and the report stays until its TTL. `JobsInReach` names this and the other
  ways in which a page loses its job.
* `CatalogValid`: `docs/CV_Role_Readiness_Platform_Complete_Codex_Implementation_Prompt.md:855`
  says "Catalog publication must atomically validate, snapshot, mark the version
  published, and create an audit event." The publish route validates nothing, and
  `/validate` is a route of its own that only reads. No route inserts into
  `role_rules`, so a new version is published without rules; two drafts of
  different seniorities published at once appear twice under one slug.
  `CatalogValidator` then rejects the catalog, and every analysis with it fails in
  the engine.

Three more sentences are contradicted by steps of the models. No run of its own
checks them: a property that holds says what the code does instead.

* Temporary files: `docs/Modification_Request_1.md:102` has them removed "during startup
  cleanup and scheduled cleanup if the process crashes", and `docs/architecture.md:7`
  speaks of a purge service that removes them. `cleanup()` looks at tables only, so in
  `PdfTask` only `Start` takes a stranded file away: the directory is swept when the
  process starts, once, and an error ends that sweep. `NothingLeftBehind` names the
  files that wait for it (`stranded`) and says that there are no others.
* The limit of tasks: `docs/migration-and-postgresql.md:9` says that the worker claims
  "at most two jobs by default". The limit is compared before the claim is awaited,
  and a tick does not look whether an earlier call still awaits its own: two calls
  see the last free slot and three tasks run. `OverlapBounded` states the real bound.
* Wrong answers: `docs/security-model.md:5` says "wrong answers consume the prompt".
  The DELETE of the challenge is undone, because the error leaves the callback of the
  transaction and `withContextTransaction` rolls back. The browser loses its
  cookie; the row stays until it expires. `ActsAtomically` holds with an abstract
  specification whose refused submissions leave no trace.

The models also show the following, which is no plain contradiction of a document; the
properties state what holds instead.

* `stop()` awaits a snapshot of `active`: a call that awaits its claim starts another
  task, and `process.exit` ends it. The job is recovered when its lease lapses.
* A login that has verified the old credentials creates its session after a change
  of account has revoked all others (`raced` in `SurvivorsWereInFlight`), which is in
  tension with `docs/security-model.md:3`.
* Deliveries wait for as long as uploads keep coming (`DeliverySettlesInPause`).
* The latest catalog is the one whose transaction began last. A publication that began
  earlier and commits later is never the latest, and what it published is missing
  until the next one; nor does the catalog that is served change when a role is archived.
* The late answer of one scan, or of an e-mail request, takes the page from the next:
  `_ScanCancelled` resets the view, whichever scan it shows (`Overtakes`).
* A 404 to `sendEmail` is shown as a delivery, also when the job has expired or was
  cancelled.
* An OCR command that fails without a timeout counts as a page without text, so a
  document of images may end as `NO_READABLE_TEXT`, for which no other attempt is
  made (`broke` in `GivesUpForCause`).

## 5. Proofs

`AnalysisJobs_proofs` proves, for any set of jobs and any positive limits:
`TypeCorrect`, `Invariant`, `PayloadsCorrect`, `AttemptsCorrect`, `MessagesBounded`,
`LedgerCorrect`, `Fencing`, `Resend`, `Refinement`, `AdmissionCorrect` and
`WorkerSeen`. The only assumption is `LimitsAssumption`: the limits are positive integers, as
`config.ts` coerces them.

The invariants are not inductive alone. `IInv` adds what the code relies on without
saying so: the token of a row has been issued (`LeasesMatchRows`); a row that waits
to be claimed has an attempt left (`AttemptsLeft`), which is what makes the check
against a snapshot sound; a row that holds the token of a task is exactly as
that task claimed it, and no two tasks share a token (`TasksMatchLeases`); the
events of a job are one of five sequences (`LogShape`); a message is in the hands of
one task, which knows whether it is out, unless it was mislaid (`MailsMatchTasks`);
messages are covered by attempts (`AttemptsCoverMails`); a recorded job id is
used (`UsedIds`).

The argument goes through one notion. `StepMoves` shows that every step of `Next`
is, for each job, one of a few moves of that job's row and log (stay, start, report,
end, or a change of a live row that keeps its stage). The parts of `IInv` about rows
and events, and the refinement, follow from the moves; the parts about tasks and
mail have one step for each action. `Refinement` maps every move to a step of
`JobLifecycle` or to a stutter. `AdmissionCorrect` has its own inductive invariant,
`UploadsBounded`: what has been counted and not inserted takes part in the bound.
`WorkerSeen` takes the moves once more, without those only a request makes: the worker
inserts nothing (`WorkerCreatesNothing`), and owns no row that waits for an address or
for a delivery, so that it claims such a row, leaves it, or deletes it at the end of
its TTL (`WorkerWaits`).

`WorkerPool_proofs` proves `PoolInvariant`, `PoolBound` and `PoolTypeCorrect` for any
finite number of calls and any limit. `OverlapBounded` counts the calls under way together with the
tasks, and is inductive with the types and with the fact that nothing runs before
`start`: a tick adds a call only when a slot is free, and a call that starts a task
goes on only when there is one left.

`PublicSubmissions_proofs` proves `SubmissionInvariant` and from it
`ChallengeUsedOnce`, `RequestsDistinct`, `AnswersKept` (`NothingLost`: who is told
that a request is known finds it stored) and the refinement `SubmissionsAtomic`, for
any sets of challenges,
submissions and contents and any durations. `SubInv` adds two things to them.
`LocksMatchStages`: a transaction past its DELETE holds the row of its challenge, the
row is still there and had not expired, and a transaction past its advisory lock holds
it. `SearchesHold`: what a search has found stays true until its transaction ends,
because nobody else can commit the same content meanwhile. A commit then finds no
earlier consumer of its challenge (`CompleteHolds`) and no identical request in its
window. `SubmissionsAtomic` goes statement by statement: `CommitServes` shows that at
the commit the challenge is still open and the search still true, `RollBackRefuses`
that every refusal has the reason it gives, the rest that nothing else moves. It needs
one more invariant, `MissesStand`: a DELETE that found no row would find none later
either, so a submission that is turned away is turned away rightly whenever its
ROLLBACK comes. The only assumptions are that the durations are positive and that the two
marker values are not data.

`Catalog_proofs` proves `CatalogTypeCorrect`, `CatalogInvariant`, `ActiveRolesReady`,
`DraftsPrivate`, `VersionsOnce`, `JobsFindCatalogs`, `RetiredVersionsOut` and
`ArchivedRolesOut` for any sessions, roles, seniorities and bounds.
`CatInv` adds to the properties what the row locks give: an activation under way has
seen a published version, and a role that has one keeps one, because a publication
archives only in exchange for its own (`Activations`, `StillPublished`); a publication
past its first statement holds a draft, and past the UPDATE that archives also
published versions of the same role, and no row is held twice (`Locks`); what it
has read is settled or its own (`Reads`). `JobsFindCatalogs` needs `Copied` besides:
what a rollback under way has read is a catalog that exists, with the document it will
copy. The two theorems about what is no longer served need `ReadsFresh`: a version that
a publication under way has read is its own, or still published and not one it
archives, or was retired after it began; and a role it has read has not been archived
before it began. Both are about the catalog that the publication adds, not about the one
that is served already, nor about which of two overlapping publications is served.

`AdminSession_proofs` proves `SessionInvariant`, `SessionTypeCorrect`,
`OldCredentialsOut`, `ChangeKnowsCredentials` and `DeadSessionsStay` for any requests,
tokens and durations. `Changes` is the
missing part: the lock on the account admits one change at a time, so the generation it
has read is still the current one, and the sessions its UPDATE did not see were
created later, when `LoginCreates` marks them. `DeadSessionsStay` needs `TokensStored`:
a request that works with a token has one whose row was inserted, so no login can
draw it again.

`ScanView_proofs` proves `ScanInvariant`, `ScanTypeCorrect`, `SilentAfterCancel` and
`JobsStayInReach` for any numbers of scans and e-mail requests. `CancelledIsSilent` is not inductive: an
upload that is cancelled must not already have put its handle on the page. `ScanInv`
adds that a handle is on the page only once the upload of its scan is over, a report
only once all of it is, and a token is current only while its scan runs.
`JobsStayInReach` has three parts more, all about the jobs of scans that are not yet in
`lost`, and none of them assumes that scans do not overlap. `Routes` ties the upload
handler and the answer on its way to the state of the job. `Pages` says that such a scan
holds the token in use while it uploads, that its handle on the page is the active one,
and that its address is asked for and given only once its report is there. `Reach` is
the property itself made inductive: a job that is there or about to be stored, and that
nobody has lost, is within reach. A step that takes the page from it adds it to `lost`
in the same step (`Losses`).

`PdfTask_proofs` proves `TaskInvariant`, `TaskTypeCorrect`, `FilesAccountedFor` and
`GivenUpForCause` for any attempts and documents. `TaskInv` adds
`NothingOverlooked`, what an attempt without text knows of the pages behind
it, and `CodesHaveCause`, that a permanent code has one of the causes the property
names. `GoesOn` carries the files of one attempt past the steps of the others.

The inductive invariants were each checked with TLC, as an invariant on the instances
above, before their proofs, and `WorkerAsSeen` on that of `JobPairs`. They are not part
of the runs, which check the properties that follow from them.

Every safety property of the runs, invariant, action property or refinement, is so
proved. Left to TLC are the liveness properties `AnalysisSettles`, `DeliverySettles`,
`DeliverySettlesInPause`, `EveryJobPurged`, `BacklogDrains`, `StopExits`, `EveryoneAnswered`, `BusyEnds` and
`SlotReturned`, because the prover handles neither ENABLED nor fairness; and the
three runs of section 4, which show a violation on one instance and have nothing to
prove.

## 6. Plan

In this order, the riskiest first; the safety and liveness properties of one
instance share a run, so that each module adds one or two:

1. `AnalysisJobs`, `JobLifecycle`, their runs and proofs (done).
2. `WorkerPool`, its runs and proofs (done).
3. `PublicSubmissions`, its runs and proofs (done).
4. `Catalog`, its runs and proofs (done).
5. `AdminSession`, its run and proofs (done).
6. `ScanView`, which took the place of separate modules for the upload route and the
   browser, its run and proofs (done).
7. `PdfTask`, its run and proofs (done).
8. Proofs of the safety properties that were only checked, the refinement of
   `AtomicSubmissions`, and the proof that `ScanView` gives the worker its due (done).
9. The agent and scoring engines as functions against reference definitions.
10. The view models of the administrator and of role requests.

## 7. What is not modelled

* The vendored PDF viewer `apps/web/web/pdfjs` (41,436 of the 43,911 lines of the
  implementation files) is a third-party library; the application's own code does not
  depend on its inner states.
* Text extraction, OCR and the rules of the engines: what a command prints and what
  an agent concludes is data. `PdfTask` keeps their outcomes; scoring and agents are
  pure functions and come last in the plan.
* Encryption, password hashing, CSRF tokens, rate limits, HTTP headers, the routing of
  requests, how migrations are run.
* The administrator's inbox, reports, metrics, the diff and the advisory `/validate`
  of rule versions: single statements without a protocol.
* Which file and which role is chosen on the page, layout and wording, and the generated
  model code.
