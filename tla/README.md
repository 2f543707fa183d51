# TLA+ models of TaxTrack

TaxTrack takes scanned BIR 2307 tax certificates from upload to reconciliation.
This directory models the part of it that is concurrent and can fail half-way,
and checks (TLC) and proves (TLAPS) what that part promises. Paths below are
relative to the repository; `worker/` is `backend/worker/src/`, `lib/` is
`webapp/tax-track/src/lib/`.

## 1. The system

| Component | State | Operations | Hard part |
|---|---|---|---|
| Event claims, `worker/db/workerIdempotency.ts` | `worker_idempotency`: state, owner, attempt number, lease | claim, renew, complete, fail | several workers per event, leases that lapse under live workers, a read after a refused claim |
| Message handler, `worker/consumer/messageHandler.ts`, `claimLeaseHeartbeat.ts` | `worker_jobs`, `document_extraction_attempts`, `intake_files` | open the job, run the graph, settle the event, record a failure | crash between transactions, commits whose answer is lost, writes after the claim was lost |
| Workflow graph, `worker/langgraph/` | `document_results`, certificates, tax rows, progress | load, extract, process, persist, finalize | a graph that is aborted while a node runs; results of attempts that overtake each other |
| Poller, `worker/consumer/sqsPoller.ts`, `visibilityHeartbeat.ts` | SQS messages, slots | receive, extend visibility, delete, pause, drain | redelivery under a live handler, lost deletes, the dead-letter queue |
| Intake, `lib/intake-server.ts` | `intake_batches`, `intake_files` | create, complete and queue, remove, delete, restore, reopen | database write, SQS send, database write, with the worker in between |
| Extraction retry, `lib/extraction-retry*.ts` | `intake_files` (event, revision, statuses) | check, reserve, send, mark or roll back | racing requests, late workers of earlier revisions |
| Deletion and purge, `lib/deletion-server.ts`, `backend/infra/lambda/batch-retention.ts` | purge statuses, S3 versions | queue, dispatch, claim, purge, restore | dispatch that failed or did not, purge claimed twice, restore |
| Merge jobs, `lib/certificate-merge-server.ts`, `backend/merge-worker/src/app.ts` | `certificate_merge_jobs`, AWS Batch | create, submit, run, sync | status written by three parties |
| Signing, `lib/signing-server.ts` | signed artifacts | sign, download | certificates corrected meanwhile |
| Overrides, `lib/certificate-override-server.ts` | requests and changes | request, approve, reject | checks before the transaction |
| Auto-match, `worker/db/reconciliationAutoMatch.ts`, `lib/reconciliation-*` | `reconciliation_results` | match, reopen, archive | concurrent workers choose the same row |
| Reports, reference data, users, auth, audit, dashboard, documents | their tables | CRUD and queries | little: single statements |

How they meet: the browser uploads to S3 and asks the webapp to complete the
upload; the webapp writes `intake_files` and sends a message that carries an
event id `<file>:<revision>`; the poller hands it to a handler, which claims the
event, opens a job, runs the graph and settles the event; a failed extraction
may be retried by hand, which sends a message with a new revision of the same
file. All parties write the same `intake_files` row, and all events of a file
write one `document_results` row. There are no calls between webapp and
worker: they interact only through those rows and the queue.

What makes each component correct (the hazards at their lines are in
`PROJECT.json`):

* claims: one live owner per event, stale owners fenced, settled for ever once
  settled;
* handler and graph: a message is deleted only for a settled event; a settled
  event agrees with the result that was saved; a document that was read is
  not overwritten; every message and job comes to an end;
* webapp requests: one retry at a time, not more than the limit; a status shown
  to the user is true of what is going on; a later retry outranks an earlier one;
* deletion and purge: what is purged was deleted, due and not protected, one
  invocation is at it at a time, objects go before rows, what users see is
  intact, each purge that was asked for ends;
* merge jobs: a job shown as succeeded has all its parts, a certificate goes into
  the packages of one period, parts keep to their size limit, each job known to
  run comes to an end;
* overrides and extraction: no two accepted certificates that nobody has corrected
  say the same;
* reconciliation: one active run per report, with all its rows but those a purge took;
  a row shows what is linked to it, archiving gives certificates back, a run's
  summary counts its rows.

## 2. Modules and the code

`ExclusiveWork` is the abstract specification of the claims: each event has at
most one holder, who may lose it, and is settled once, by its holder.

`EventClaim` is the claim table. Each operation is one SQL statement, hence one
action; `Claimable` is the `setWhere` of the upsert, `ActiveClaim` the predicate
of renew, complete and fail. A refused claim reads the row in a second statement
(`ClaimRefused`, `ReadRefused`), and other actions may come in between. A lease
is `live` until an action of its own makes it `expired`, at any moment: this
covers every clock, interval and late heartbeat. `Attempt` is the set of claim
owners: a fresh UUID for each delivery.

`WorkerPipeline` EXTENDS it with the queue, the handlers, the graph and the
records they write. `pc[a]` is the place of a delivery's handler, one value for
each stretch of code between two transactions; `node[a]` is the node
whose wrapper runs (it may outlive the handler: `orphan`), `marked[a]` whether it
has reported its progress. `file` and `result` are the `intake_files` and
`document_results` rows of one document, `job` and `extraction` the statuses of
the attempt's rows, `serial` the identity of its extraction attempt, by which
`persist_results` orders attempts of the same claim number. What the graph reads
off a document is one of `unread` (transient failure of the provider, may be
retried by hand), `unreadable`, `rejected`, `duplicate`, `accepted`. The faults
are a CONSTANT:

| Fault | In the code |
|---|---|
| `stall` | a lease expires under a worker that lives |
| `deaf` | the heartbeat gives up by its local clock a claim the database still honours |
| `crash` | the process of a delivery stops between two steps |
| `throw` | S3, a query or a node fails; a commit's answer may be lost |
| `hidden` | visibility ends while the handler runs |
| `undeleted` | DeleteMessage fails |
| `orphan` | a node runs on after its graph was aborted, as LangGraph may let it |
| `removal` | the user removes the upload from the batch |

`UploadPipeline` EXTENDS `WorkerPipeline` with the webapp's requests. `web[w]` is
how far a request is; the checks before a transaction, the transaction, the send
and the recording of it are separate actions. `completeUploadAndQueue` records
unconditionally, a retry only where the file still has its event (`StillOwn`).
Its faults: `refused` (nothing sent), `unsure` (sent, but reported as failed),
`unrecorded` (an update after the send fails), `webcrash`.

`BatchLifecycle` is one user's batches and files, from upload to permanent
deletion: the requests of `lib/intake-server.ts`, `deletion-server.ts`,
`signing-server.ts` and `certificate-merge-server.ts` that create, close, delete,
restore, reopen or protect them, and the purge lambda. A transaction that locks
the rows it decides on is one action. A request that reads first and writes later
is two, and `web[r]` is what it read and may be stale. The lambda locks nothing
between its statements, so each is an action; `lambda[l]` is how far an invocation
is and which objects it has collected. An invocation may stop anywhere, and may run
although its dispatch was reported as failed (`event`, `dispatching`). `purge[t]`
is the `purge_status`. `overtaken` is a history variable: batches whose restore was
checked before a purge began and applied after it. They are excepted from the
properties, and the constant `StaleRestore` says whether it happens at all.
`put` is the document's own way to S3: a URL is signed when the file is
inserted, and the browser sends the document by it, which no row can stop
(`PutObject`), or never does (`UrlExpires`). `late` notes that the purge had collected
the objects by then.

`MergeJobs` is the quarterly packages of one entity. Every job has a request that
creates it (`web[j]`: check, resolve the assignments, insert, submit, record), an
AWS Batch job (`aws[j]`) and a merge worker (`worker[j]`). Viewers read a job's
row, ask AWS Batch, and write the status, in three steps (`view[v]`). All of them write
`job[j].status` with conditions of their own. The inputs are sorted (`InOrder`) and
divided into parts (`Partition`) as in
`backend/shared/src/utils/certificate-merge.ts`; both are recursive functions over
the number of inputs. `Late`, `Movable` and `FirstJob` are bounds: the first job is
there from the start, and `FirstJobAssumption` asks that it be one a request would
have inserted. `overridden` is a history variable.

`Corrections` is a certificate's contents and verdict: checked and persisted by a
worker, corrected by a request that somebody else approves, with or without
validation, or rejects, and deleted with its file (`Gone`). What an actor has read is
in `actor[a]`. A certificate's fingerprint is its contents and `ids`: the worker
hashes contents only, a correction's hash covers the ids of its rows, too
(`stableFingerprint`), so it equals no other certificate's. Looking for duplicates
compares fingerprints, in the model as in the code: a corrected certificate neither finds
a duplicate nor is found. History: `stale` (another certificate was accepted since the
check) and `unchecked` (accepted by the worker on such a check).

`Reconciliation` EXTENDS it with sales reports: whole runs, clearings of a report
(new version, removal of its last batch, deletion), the match of an accepted
certificate with a row of an active run, and the purge of a file or batch,
statement by statement at READ COMMITTED. The purge (`ArchiveMatched`, `CommitPurge`)
archives the rows that its certificates are collected for, in active runs too, and
deletes the certificates; it recounts no run and leaves the rows' other certificates
linked. Transactions that write the same row wait for each other (`MayWrite`,
`Unheld`). The steps of `Reconciliation` are steps of `Corrections` or leave its
variables alone, which is proved. History: `overwritten`, `overlapped` and `stranded`
name races that the code loses, `purged` the rows a purge took and `orphaned` those
whose certificate was purged while it was being linked; each property says
which of them it excepts.

The `MC*` modules give TLC the events' names and symmetry; definitions named
"Mutant" in the modules are plausible bugs that the properties were tried
against and are used by no specification. `PROJECT.json` maps each definition to
its lines.

## 3. Runs

Bounds: every set of attempts and messages is finite and each attempt is used
once, so the system does stop when they are used up, and deadlock is not
checked. `MaxReceive` is 2 where the code has 5 and `MaxRetries` 2 or 1 for 3:
one delivery to fail and one to overtake it are enough for each interaction, and
proofs of the main invariants do not depend on either.

| Run | Question | Instance | Distinct states |
|---|---|---|---|
| `event_claim` | Are claims exclusive, fenced, final? Does the table implement `ExclusiveWork`? | 2 events, 4 attempts | 2 844 |
| `worker_pipeline` | Are messages deleted only when settled, do settled events agree with the saved result, is a read result final? | 1 message, 2 deliveries, all 8 faults | 354 414 |
| `worker_progress` | Does each message end acknowledged or dead-lettered, is each job closed? | 2 deliveries, faults `stall deaf hidden undeleted orphan`, fairness | 77 806 |
| `upload_pipeline` | Does deletion and settling hold with a retry's event beside the first, and does the later retry win? | 2 events, 3 deliveries, `throw`, all web faults | 732 304 |
| `retry_races` | Do racing retries exclude each other, keep to the limit, and does the file show the truth? | 4 events, 3 retry requests, `MaxRetries` 2, `hidden`, `refused` | 241 293 |
| `batch_lifecycle` | Is only what is deleted, due and unprotected purged, once at a time, and does each purge asked for end? | 1 batch, 1 file, 2 requests, 2 invocations, `StaleRestore` FALSE, fairness | 49 551 |
| `merge_jobs` | Is a job's status true of its parts, does it end, do inputs fit and belong to one period? | 2 jobs, 1 viewer, 2 certificates, 2 parts, fairness | 297 062 |
| `reconciliation` | Are runs, rows, links and verdicts consistent but for the named races? | 1 report, 2 rows, 3 certificates, 2 workers, 2 runs, 1 purge, 1 correction; `Bound` | 720 076 |
| `worker_gives_up`, `worker_retry_safe`, `worker_stale`, `retry_limit` | Statements of the documents that the code does not keep (section 4) | 2 deliveries | - |

With two deliveries of one message each pair of handlers that can interfere
(stale and current owner, first and last delivery) occurs; the third delivery in
`upload_pipeline` lets two of one event meet one of another. `retry_races` leaves
out `throw`, because with it `RetryLimit` fails (run `retry_limit`), and the
web faults other than `refused`: a web crash between reservation and send leaves
the file `sending` with no one to serve it, and a send that was reported as
failed puts the file back under a handler that is at work for it.

In `batch_lifecycle` a batch and its file are the two kinds of target, and the
hazards are between two parties over one target: two requests, a request and an
invocation, or two invocations of it. A second batch adds nothing, as no
transaction touches two. With `StaleRestore` nearly all states come after an
overtaking restore, where the properties no longer speak; the run is without it, and
the theorems (section 5) hold of both. In `merge_jobs` one certificate is there
from the start and another of the same period arrives late, too large for the
first one's part: two requests race for one period, move it to the next, and a job
has one part or two.

In `reconciliation` two uploads say the same and fit one row each, and two workers
extract them, so that both are accepted only in the race that `unchecked` names; a third
certificate, accepted before, fits no row until it is corrected, and then says the same.
The purge is that of the third certificate's file, which also holds one of the uploads. So
matches meet at one row and at two, and each meets runs, a clearing, the purge and the
correction; two certificates come to one row by `overwritten` only. The second run may equally be one that is started after the first has
failed. The state constraint `Bound` keeps this finite enough: of runs, clearings,
purges and matches that write, two are under way at a time, as each hazard is between
two of them, and any match may have chosen its row meanwhile; and a
correction meets one run at most, before it begins or after it ended. Each exception
(`overwritten`, `overlapped`, `stranded`, `purged` rows with another certificate,
`orphaned`, `unchecked`) is reached in the instance. The theorems (section 5) know no
such bound.

Fairness of `FairLifecycleSpec`: an invocation that has begun runs on, and from
some time on none stops (otherwise no purge ever needs to end); the daily run and
retried dispatches claim what stays due again and again (strong, because a target may
be out of reach while another invocation has it). `FairMergeSpec`: a worker runs on
and AWS Batch ends every job it accepted (six-hour timeout, one attempt), a request
answers or its process stops, and a job that can be looked at again and again is
(the page polls). Nothing is assumed of users otherwise; `reconciliation` asks only
for safety.

Fairness (`FairPipelineSpec`), all weak: a live handler goes on (the process
runs its promises; `throw` and `crash` are off in that run, so each of its steps
stays possible until taken); the heartbeat's timer notices a lost claim; the
poller's loop receives what is visible; SQS makes unattended messages visible
and dead-letters them after `maxReceiveCount`; time passes, so the lease of a
handler that is gone expires. Nothing is assumed of faults, of users, or of a
lease under a live handler. With `throw` or `crash`, `JobsClosed` does not hold:
recording a failure may fail and is only logged, and a process that stops records
nothing.

## 4. Where documents and code disagree

1. `PermanentFailuresVisible` (`docs/plans/ASYNC_WORKER_PLAN.md:69`): a document
   whose worker crashes on every delivery is dead-lettered and shown as
   processing; only a live handler writes failures, and the dead-letter queue
   has no reader.
2. `RetrySafe` (`docs/product/BUSINESS_USECASE.md:34`): a crash after
   `persist_results` and before the final transaction cannot be repaired by
   redelivery: each later attempt reads the document again and may not save it,
   so the event fails and the message is dead-lettered although its result is
   saved.
3. `ProcessingMeansWork` (`docs/product/USER_MANUAL.md:143`): opening the job and
   reporting progress do not look at the claim, so a handler that was taken over
   may show a settled file as processing.
4. `RetryLimit` (`lib/extraction-retry-server.ts:154`): a delayed redelivery of an
   earlier event puts the file's revision back, and a retry that has not yet been
   received is no longer counted.

Five more that the runs do not show as violations of their own:

* `docs/product/USER_MANUAL.md:181` and `:198` let a batch be restored until its
  purge begins. `lib/intake-server.ts:2565` checks that before, and restores the batch
  by its id after, a purge may have claimed it: a live batch is then purged. This is
  `StaleRestore` and `overtaken` in `BatchLifecycle`.
* `USER_MANUAL.md:202` calls signed certificates protected. An attempt to sign
  again that fails (`lib/signing-server.ts:990`) records `failed` over `signed`,
  and the certificate is protected no more (`PersistFailedSigning` in `BatchLifecycle`;
  `ProtectedKept` speaks of the recorded state).
* `USER_MANUAL.md:206` says of permanent deletion that storage versions are
  removed before database records. The browser's URL for a document is good for 15
  minutes (`lib/intake-server.ts:1301`) whatever becomes of the batch. When the
  batch is deleted and purged meanwhile, the document arrives after the objects were
  collected, and an object is left that no row leads to. `ObjectsBeforeRows`
  excepts such documents (`late`).
* `docs/plans/CERTIFICATE_DUPLICATE_CHECKING_PLAN.md:75-76` has later uploads match the
  accepted certificate. Approving a correction replaces its fingerprint by a hash that
  covers ids and timestamps (`lib/certificate-override-server.ts:685`, `:1186`): an
  upload that says the same as a corrected certificate is accepted, and a correction
  that makes a certificate say what another says is accepted. `AcceptedOnce` is
  of certificates that nobody has corrected.
* `lib/certificate-override-server.ts:1361`, "Only pending correction requests can be
  rejected.", is checked before the transaction, as it is at `:1106` for approval:
  two decisions at a time are both applied, so that the values of a rejected
  request are the certificate's.

And what the code lets happen, without a document that says otherwise:

* A file may be put into a batch deleted since the request looked, and a deleted
  batch may be reopened; a deleted batch that is open keeps the user's next upload
  from creating another.
* Two requests for merge jobs of one period may both pass the check, and a failed
  job that AWS Batch had accepted may yet succeed. A job whose creator stopped stays
  `pending` and blocks its period; one without a recorded AWS id that is killed
  stays `running`. A user may move a certificate that was merged already, and it is
  then merged again.
* Two matches that update a row from one read lose one of the amounts
  (`overwritten`); two that recount a run at a time leave its summary stale
  (`overlapped`); a link that is made while its row is being archived stays, and each
  later run of the report fails on it (`stranded`). A run that commits
  after its report was deleted leaves live rows under an archived run. A link's
  amount is that of the time of the match until the next run.
* A file may be deleted although its certificates are matched. Its purge takes the
  rows out of an active run, whose summary still counts them and whose page shows the rest
  (`purged`); the rows' other certificates stay linked to what was archived, and
  every later run that wants them fails on the unique index
  (`backend/infra/lambda/batch-retention.ts:608`, `worker/db/schema.ts:1053`). A certificate that is linked
  while it is being purged leaves a row that records its amount (`orphaned`).

## 5. Proofs

`EventClaimProofs`, for all `Event`, `Attempt` with the assumptions that
`NoOwner` and `NoEvent` are not among them:

* `ClaimTypeCorrect`, `ClaimFenced`, `TerminalStaysFrozen`, `LiveClaimIsKept`,
  `ReplayIsSettled`, `TableImplementsWork`.
* The inductive invariants are `ClaimTypeOK`, `ClaimTypeOK /\ Fenced` (the
  conjunct that no granted number is ahead of the row's makes it inductive: a
  takeover increments the number, so it is new to every earlier owner), and
  `ClaimInv == ClaimTypeOK /\ LiveMeansRunning`, from which one lemma about a
  step (`RowStep`) gives the two action properties. Refinement needs
  `ClaimInv`: complete and fail require `ActiveClaim`, and so are steps of the
  holder; a takeover is possible only when no lease is live.

`WorkerPipelineProofs`, for every set of messages, deliveries and *faults*, and
finite `Attempt`:

* `PipelineImplementsClaims` (`PipelineSpec => ClaimSpec`): handlers touch the
  table only through its operations, so everything above carries over.
* `PipelineTypeCorrect`; `ReadResultIsFinal`, from the guard of the upsert.
* `NothingAcknowledgedUnsettled`. Inductive with `DeliveryOK`: whoever is about
  to delete a message works for its event, and that event is settled; stability
  of settled rows comes from `TerminalStaysFrozen`.
* `SettledEventsHaveTheirResult`. The strengthening `ResultOK` says what an
  attempt knows between persisting and settling: there is a result, and if the
  attempt read the document it is its own. It is needed because the result is
  written some transactions before the event is settled, and other attempts
  may reach the upsert in between.
* `PipelineShape` is common to the last two: types, `LiveMeansRunning`, and
  `NodeOK` (what a running node and a finishing handler have found).

`UploadPipelineProofs`, for every set of completions and retries and all their
faults besides:

* `UploadTypeCorrect`, `UploadAcknowledged`, `UploadSettledByResult`,
  `RetryKeepsReadResult`: what holds of the worker holds beside the requests. A
  request changes `file` and moves messages from unsent to visible, and the
  worker's invariants say nothing of either (`WebStep`).
* `LaterRetryPrevails` (`RetryOutranks`). It needs `WriterOK`: whoever wrote the result
  has opened its job, so that it is among the attempts the upsert compares itself
  with; and `DeliveryOK`, by which its event is one of the file's.
* `RetriesTakeTurns`, `SettledFileShowsOutcome`, `RetriesWithinLimit` and
  `QueuedFileIsWaitedFor` need the hypothesis `Undisturbed`: of the worker's faults
  only messages that come back early or undeleted and orphaned wrappers; of the
  requests' faults only a refused send and a web server that stops; one message per
  event; one completing request; the upload's event is not a retry. They are for any
  number of retries, deliveries, receives and findings, and any limit; `retry_races`
  is such an instance. `QueuedFileIsWaitedFor` excludes the stopped web server, too.
  The hypothesis cannot go: with `throw` the limit is exceeded (`retry_limit`).

  The invariant is `TurnsInv`. `WorkersOK`: an event is claimed once and its owner
  keeps the claim until it is settled (`HandlerOK`, `RowOK`). `BooksOK`: what was sent
  before the file's event is settled and has lower numbers (`CurrentOK`), so a worker
  always works for the file's event (`WorkerHasFile`) and may always save
  its result (`MayAlwaysPersist`), which rules out the failure paths (`CalmStep`); the
  file mirrors its event's row (`ShowsEvent`), so what may be retried is settled
  (`RetryMeansSettled`); and a reservation remembers a file that can be restored, because
  nothing is sent until it is decided (`RestoresTo`). The limit is a counting argument:
  the retries that were sent are injected into `1 .. MaxRetries`.

`BatchLifecycleProofs`, for any batches, files, requests and invocations, with
`LifecycleAssumption` (batches and files are different, `NoTarget` is neither) and
`StaleRestore` either way:

* `LifecycleTypes`, `ProtectedSafe`, `OnePurge`, `OnlyDeleted`, `NeverMixed`,
  `LiveIntact`, `NothingLeftBehind`: every invariant of the run.
* None of them is inductive alone. The invariant is `Shape /\ Purging`. `Shape` is
  types, and that references lead to rows that were inserted. `Purging` says what an
  invocation may rely on: a target with an invocation is running (`OwnerRuns`); what
  is asked for or running is deleted, due, and without protected files once
  checked (`PendingOK`, `CheckedUnprotected`); objects are gone only where the
  purge goes on until the row goes too (`LostOK`); a purge that was blocked has
  removed nothing (`BlockedIntact`); the objects collected are all there are by the
  time the rows are deleted (`ClearedEmpty`). Only batches in `overtaken` are excepted,
  and of `NothingLeftBehind` the documents that were sent after the objects were
  collected.

`CorrectionsProofs` and `ReconciliationProofs`, for any certificates, contents,
reports, rows, runs and actors:

* `CorrectionsInv`, `AcceptedOnceAlways`: the conjunct `AcceptanceHolds` says of a
  worker between its check and its write that no accepted certificate has the
  fingerprint it will write, or that it is `stale`. A server's write is of a
  corrected certificate, whose fingerprint has ids of its own.
* `ReconciliationIsCorrections` (`ReconSpec => CorrectionsSpec`) carries them over.
* `OneActiveRunAlways`. `JobsFit`: how far a run's request is agrees with the run's
  status and rows, and a clearing archives rows of its own report only. `Rivals`: while
  a transaction is archiving, the other completed runs of the report are among the
  runs it found when it archived the rows, so those inserted since, of which it may see
  any, are not completed. A row of a completed run that is not live is `purged`.
* `ReconcileTypesAlways`. A run's plan is the end of a chain of choices; `PlansFit`
  proves of the whole chain that it links certificates to the run's own rows only.
* `ArchivedRowsFreeAlways`. `GivenBack` follows a transaction that archives rows from
  the list it reads to its commit: what leads to a row it will archive is in its list,
  or was linked since, and then it is `stranded`. `PurgeGivesBack`: a purge only adds rows
  to `purged`, and unlinks what no such list holds.
* `RecordedIsLinkedAlways` and `SummaryCountsAlways`. Both rest on `WritingAlone`: of
  the matches that have written and not committed, no two are at one row or at one
  certificate. `ReadLinked` says that what a match read of its row is linked
  to it, and is what the row still records unless it is `overwritten`; `CountsFit`
  says the same of a run's count and `overlapped`, while no row of the run is `purged`.
  The sum of the linked amounts then grows by the match's own; a purge that takes a
  link from a live row either archives the row or has it in `orphaned`.

`MergeJobsProofs`, for any finite jobs and certificates, any viewers, sizes up to the
limit, and any order of payors, with `MergeAssumption` and `FirstJobAssumption`:

* `MergeTypesAlways`. That a request always finds a free period (`FirstFreeIs`) is a
  counting argument: there are `Cardinality(Job)` periods after each source, and
  fewer jobs than that block one besides the request's own.
* `PartsFitAlways`, from `PartitionIsFit`: by induction over the inputs
  (`PrefixFits`, `PlaceFits`), the first `n` of them are in order in parts that are
  numbered without gaps, none above the limit, each begun by an input that did not
  fit. It holds of every sequence of inputs, not only of those up to a bound.
* `SucceededIsCompleteAlways`. `ReadyFits` makes it inductive: not only a job's status,
  AWS Batch's answer and the worker's place also say "succeeded" only when all
  parts are ready; `ViewFits` says so of what a viewer has read and not yet written,
  which stays true because ready parts stay ready.
* `MergedInOnePeriodAlways`. `PeriodFits`: what a request has selected, and what a job
  has, is assigned to its period; assignments only change where there is none yet
  (`Steady`), except by a user.

`MergeInv` is the conjunction per job (`JobFits`); `OneJobMoves` reduces a step to the
one job it moves, and there is a lemma for each kind of step.

`DataInduction` holds the induction those proofs use. The library's induction theorems
take the predicate as an operator parameter, which the installed provers cannot
instantiate; here it is given as the *set* of values it holds of (`SubsetInduction`,
`IntervalInduction`), which follows from the well-foundedness of the strict subset
order. `StepsExist` says that a function defined by steps exists, which is what a
recursive function's definition (a `CHOOSE`) needs before anything can be said of it;
`SumAdd`, `SumNat` and `SumSame` are what `SumFunctionOnSet` computes; `GreatestNumber`
is what `Max` chooses.

Only model-checked: liveness, which is out of the prover's reach. The four theorems
about `Undisturbed` are the only ones with a hypothesis besides the modules' assumptions.

## 6. Not modelled, and abstractions to know of

* Message bodies that do not parse; logging, tracing, telemetry.
* Rows of `worker_idempotency` deleted by the retention purge. `UploadPipeline`
  knows the user's removal of an upload only (`removal`), not the purge.
* The poller's slots, pause and drain. Messages it releases unhandled count towards
  `maxReceiveCount` (`worker/consumer/sqsPoller.ts:239`); in the model only a
  handler's receipts count.
* One document, one S3 version: completing an upload again yields the same event,
  and an instance has one completion and one message per event.
* The 60 s cooldown of a retry: it may have passed at any time, which only adds
  behaviours.
* A worker process runs several handlers; here each may crash on its own, which
  includes their crashing together.
* Contents: what extraction and validation compute; the certificates and tax rows
  written in the transaction of the result are that one result.
* `BatchLifecycle`: closing a batch is one action; object versions are one object
  per file, and the rows a purge deletes one row per batch and file; what a file was
  read as is `read` or `unread`.
* `MergeJobs`: annual packages, the selection of batches and entities, file names,
  previews, downloads, retries inside the AWS SDK.
* `Corrections`, `Reconciliation`: one batch holds all certificates, all of one payor
  and month; an amount is one number; e-mails and times are left out; a new version,
  the removal of the last batch and a deletion are one clearing, one at a time per
  report; failed and stopped runs look the same; a correction replaces contents as
  a whole; asking for one and being eligible is one step; the document and file
  status it writes is left out. `applyProgressiveReconciliationMatchForDocument`
  is never called. The other sign of a duplicate, the hash of a whole PDF, is left
  out, and so are certificates without tax rows. The purge reads its certificates'
  ids before its transaction; in the model it is of a fixed set. Two clearings that
  wait for each other's rows proceed in either order.
* Signing profiles, placement, stamping and downloads: documents' bytes.
* Not modelled at all: extraction and validation rules (their verdicts are choices);
  reference data, users, auth, audit, dashboard and documents servers (single
  statements and queries); the user interface, which is two thirds of the lines;
  infrastructure declarations other than the queue, the purge lambda and the merge
  job's limits; `v1_poc`.

## 7. Plan

1. `SqsPoller`: slots, pause, drain, release of unadmitted messages and the
   receive count. Refines the queue's part of `WorkerPipeline`.
2. An instance of `UploadPipeline` with two completions and two messages of one
   event; `EventuallyDisposed` with crashes; web crashes.
3. Annual packages in `MergeJobs`; the document status a correction writes.
4. Abstract specifications of a merge job (pending, then ended) and of a batch
   (visible, deleted, purged), and the refinements.
5. Proofs: the theorems under `Undisturbed` with several completing requests, which
   needs the code's answer to a second message of a settled event.
