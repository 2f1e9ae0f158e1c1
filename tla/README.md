# TLA+ models of marble-backend

Marble evaluates decision scenarios over the records of an organization: one
record at a time through its API, or all records of a table in scheduled
batches. Around the evaluation it ingests records, gathers decisions in cases,
screens monitored records against lists, and tells clients through webhooks.
This directory holds TLA+ modules of the parts of the backend whose correctness
depends on the order of steps of several actors, the TLC configurations that
check them, and proofs for TLAPS.

Paths below are relative to the root of the repository.

## 1. Inventory of the system

The backend is one Go program with two long running processes, the API server
and the worker, around PostgreSQL (one database for Marble, one schema per
client for ingested records, possibly in a database of its own), a blob store,
and River, a job queue whose tables live in the Marble database. With the
exception of caches, nothing is shared in memory between requests or jobs:
components interact through rows, blobs and jobs.

What makes it hard is the same everywhere. A River job is run at least once: a
worker may die at any point, and River then runs the job again after two minutes
(`cmd/worker.go:313`), also when all its work was done and only the completion
of the job was not recorded. A job that returns an error is run again until its
attempts are used up. Several statements are only atomic within one transaction,
the default isolation is READ COMMITTED, so that a statement of a transaction
sees what others committed a moment ago, and no transaction spans the Marble
database and a client database.

| Component | State | Operations | What makes it correct |
|---|---|---|---|
| Batch execution v2 (`usecases/worker_jobs/batch_execution_coordinator.go`, `run_scheduled_execution.go`, `schedule_scenarios.go`, `usecases/scheduled_execution_usecase.go`) | `scheduled_executions` (status, deadline, cursor, counts), `scenario_scored_objects`, manifest blobs, decisions, setup and coordinator jobs | create, set up (stream ids, start), walk through batches (filter, evaluate, claim and commit), snooze, end | every row of the manifest is handled once and in order; objects already scored are not scored again by deduplicated executions; success means that all is done; an execution ends and stays ended |
| Batch execution v1 (`async_decision_job.go`, `async_scheduled_exec_status_job.go`, `run_scheduled_execution.go`) | `scheduled_executions`, `decisions_to_create`, one decision job per object, one status job | set up, evaluate one object, refresh counts, poll, end | one decision per object; final counts are those of the rows; the execution ends |
| Asynchronous decisions (`async_decision_execution_job.go`) | `async_decision_executions`, a job | ingest, checkpoint, decide, complete or fail | decided once and on the ingested record, failure reported once |
| Ingestion (`usecases/ingestion_usecase.go`, `repositories/ingestion_repository.go`, `upload_log_repository.go`) | client tables, upload logs, an upload job | ingest records, resume a CSV | the newest version of a record wins, a patch builds on it; a file is read to its end |
| Continuous screening (`usecases/continuous_screening`) | monitored objects, delta tracks, screenings, dataset files | monitor, screen, open a case, build a dataset | every change of a monitored record is screened once; a hit has a case; the dataset follows the changes |
| Decision workflows (`usecases/decision_workflows`) | cases, a job per decision, advisory locks | open or extend a case after a decision | one case per decision, and per pivot value |
| Cases and assignment (`usecases/case_usecase.go`, `auto_assignment_usecase.go`) | cases, inboxes | edit, close, move, escalate, fill, assign | a decision is in the case it was put in; nobody gets more than his limit |
| Scenario publication (`usecases/scenarios/scenario_publisher.go`, `scenario_iterations_usecase.go`) | iterations, live version, a cache in each process | edit, commit, publish, unpublish | versions are frozen; what is evaluated is what was committed |
| Scenario test runs (`usecases/scenario_test_run_usecase.go`, `test_run_summary_job.go`) | test runs, summaries with watermarks | start, stop, expire, summarize | one test run at a time, next to the live version |
| Decision offloading (`offloading_job.go`) | rule executions, blobs, a watermark | copy, then blank | nothing is blanked before it is copied, nothing hidden from readers |
| Webhook events and deliveries (`webhook_dispatch_job.go`, `webhook_delivery_job.go`, `webhook_cleanup_job.go`, `usecases/webhooks/events_usecase.go`) | `webhook_events_v2`, `webhook_deliveries`, dispatch and delivery jobs | create with the business change, fan out, send, retry, give up, clean up | whoever listens gets a delivery; it is retried to the end; jobs of one delivery do not overlap |
| Webhook endpoints and secrets (`usecases/webhooks/usecase.go`) | `webhooks`, `webhook_secrets` | register, update, delete; add, expire, revoke secrets | a webhook keeps a permanent secret |
| Task queue (River) (`repositories/task_queue_repository.go`, `cmd/worker.go`) | jobs and their attempts | insert (also unique), run, retry, snooze, cancel, discard, rescue | at least once |
| Transactions and executors (`repositories/db_executor*.go`, `usecases/executor_factory`) | none | transaction, single statements | all or nothing; the answer to COMMIT may be lost |
| Scenario evaluation (`usecases/evaluate_scenario`, `usecases/ast_eval`) | none | evaluate rules over a record | a pure function of the record and the data |
| Index jobs (`index_creation_job.go`, ...) | indexes of client tables | create, roll over, clean up | a live version has its indexes |
| Decisions, synchronous (`usecases/decision_usecase.go`) | decisions | decide | one request, one transaction |
| Data model (`usecases/data_model_*`) | tables, fields, links | edit, destroy | nothing in use is destroyed |
| Screening (`usecases/screening_usecase.go`) | screenings, matches, whitelists | search, review, enrich | status follows the reviews of its matches |
| User risk scoring (`usecases/scoring`) | rulesets, scores | score, override | the active score is the newest one |
| Analytics export, metrics, billing, licences | watermarks | push | — |
| AI agent | reviews, prompts | call a model | — |
| HTTP and public API, authentication, organizations, users, tags, lists, snoozes | independent rows | create, read, update, delete | — |

`PROJECT.json` lists every component with its sources and whether it is
modelled, and every hazard found with its line.

How the modelled components interact: an ingestion, by request, CSV upload or
asynchronous decision, writes versions of records and then enqueues jobs for
continuous screening. A decision, by request or by batch, commits together with
its workflow job, which opens or fills cases, and with its webhook event. Batch
executions, evaluations and test runs read the live iteration of their scenario.
Old decisions are offloaded.

## 2. The modules

| Module | Role |
|---|---|
| `BatchExecution` | all v2 executions of one scenario: creators, setup jobs, coordinators |
| `ScoringLedger` | what the executions of a scenario promise, with no jobs and no crashes; `BatchExecution` implements it |
| `PerObjectExecution` | one v1 execution with all its jobs |
| `WebhookDelivery` | events, dispatch and delivery jobs, endpoints as far as they matter |
| `WebhookSecrets` | the secrets of one webhook under concurrent calls |
| `ObjectVersions` | the client table of an object type and the calls that ingest rows into it; extended by the next four |
| `CsvUpload` | a CSV file ingested by a resumable job |
| `AsyncDecision` | an asynchronous decision with its ingestion |
| `IngestionSystem` | composes `CsvUpload` and `AsyncDecision` over one table |
| `ScreeningDatasets` | delta tracks, and the builds of the dataset file from them |
| `MonitoredObjects` | monitoring, screening jobs and their cases; composes `ObjectVersions` and `ScreeningDatasets` |
| `CaseWorkflows` | the workflow jobs of decisions, and users, on the same cases |
| `ScenarioLifecycle` | iterations, publication, test runs and caches of one scenario |
| `TestRunSummaries` | the jobs that count the decisions of a test run |
| `Offloading` | the offloading job and a reader of decisions |
| `ScreeningReviews` | the screenings of a decision: reviews, refinements, whitelist |
| `HitReviews` | a continuous screening with matches: reviews, dismissal, more matches |
| `MatchReviews` | a screening of either of these two kinds |
| `MC...` | instances for TLC: data, symmetry and bounds |
| `BatchExecutionProofs`, `PerObjectExecutionProofs`, `IngestionProofs`, `CaseWorkflowsProofs`, `OffloadingProofs`, `WebhookProofs` (deliveries and secrets), `ScenarioLifecycleProofs` (with the summaries of test runs), `MatchReviewsProofs` | theorems |

Some conventions hold throughout. A transaction that only writes what it was
given is one action (it happens, or a failure action stands for its rollback). A
transaction that reads and then decides is several: its statements see what others
commit in between. Statements outside of a transaction are actions of their own.
A River job is a record with a state and the attempts used; `AfterError` (or
`Again`, `Retried`) is what River does with a job that returned an error or lost
its worker, `...Rerun` is a worker that dies between the job's last write and
River's record of the completion. Definitions named `Mutant_...` are plausible
bugs; no action uses them. They show that each property can tell the code from a
wrong version of it.

### BatchExecution

`status`, `dedup`, `stale`, `deadline` and `progress` are columns of the
execution's row; `blob` is the manifest, `scored` is `scenario_scored_objects`,
and `log` is what the execution committed, one entry per manifest row (decisions
as well as objects that led to none). `setup` and `job` are River jobs. `pc`,
`sliceOver`, `reader`, `cursor` and `batch` are local variables of a running
coordinator, lost when it dies.

Creation is a check (`CheckNoneActive`) and an insert
(`CreateScheduledExecution`), apart as in the code, so that two creators may both
pass the check. The setup job streams ids to the blob (`StreamManifest`, or
`StreamFails` with part of them) and commits status, deadline, planned count and
coordinator job together (`CommitSetup`). The coordinator loads what does not
change, then loops: deadline and slice checks, `ReadBatch`,
`FilterAlreadyScored`, `EvaluateBatch`, `CommitBatch`. The commit claims the
objects, keeps what it could claim, and moves the cursor. A failed batch closes
the reader (`BatchFails`, `RetryBatch`), so the next read starts from the
committed offset. `SliceTimeout` and `DeadlinePasses` are clocks.

Data is abstract: an evaluation is a verdict (missing, not triggered,
triggered), the byte offset into the manifest is an index of its rows, and the
counters are those that the loop condition and users see. Guards that no
reachable state meets (a processing execution without manifest or deadline) are
left out. The ids of a claim are inserted in sorted order
(`repositories/scenario_scored_objects.go:81-83`) so that two transactions
cannot deadlock; a claim is part of one atomic commit here, so this ordering is
not modelled.

### ScoringLedger

An execution opens, begins, records entries while it is processing, and closes,
once. What a deduplicated execution records as evaluated was never evaluated
before. `RefinesLedger` maps `ledger` to `log`, and `status` and `dedup` to
themselves; jobs, cursors and batches in flight are stutters.

### PerObjectExecution

`row` is the status of each row of `decisions_to_create`, `decisions` the number
of decisions stored for it. A row is identified by its object and the setup
attempt that stored it, because a second run of the setup stores rows of its own.
The setup writes the planned count and the status before the transaction that
inserts rows and jobs: three actions. A decision job evaluates, counts the rows
it can see (`SampleCounts`), and commits (`CommitDecision`); the counts of
concurrent jobs miss each other's uncommitted rows. The status job polls until
nothing is left or its time is over, counts, and writes the end, again in
separate statements.

Left out: phantom decisions of test runs, and the transient row status of an
error, which is rolled back with its transaction. The objects listed by a setup
are a set: the query returns the current version of each.

### WebhookDelivery

`event`, `webhook` and `delivery` are rows; a webhook is listening, deaf (it
does not listen to the event's type) or deleted (the row stays, marked).
`dispatch` and `job` are River jobs, and `targets` are the webhooks a running
dispatch listed. Deleting an event deletes its deliveries, as the foreign key
says. A delivery job reads the delivery, sends, and writes the outcome; `seen`
is the number of attempts it read at its start. `sends` counts requests. The
statements that read at the start of a job are one action. The URL, signature,
rate limit and back-off are left out: a scheduled job is one that River may start
at any time.

### WebhookSecrets

One webhook's rows of `webhook_secrets`, each permanent, expiring, expired or
revoked. `CreateWebhookSecret` is a transaction whose update takes its snapshot
before its commit (`FindExisting`, `CommitSecret`): a secret that another call
adds in between is not in the snapshot. `RevokeWebhookSecret` is three
statements: read, count, update. `raced` remembers that one call has revoked a
permanent secret which another had counted that had still to revoke one.

### ObjectVersions

`table` holds all versions of each record in the order of their insertion, with
`updated_at`, validity, `valid_from` and, for a patch, the version it was merged
with. A call of the ingestion (`ingest`) reads the valid versions
(`LoadVersions`), then compares, merges, ends old versions and inserts new ones
(`StoreVersions`); only the unique index on valid rows stops one whose reads are
outdated (`UniqueViolation`), and `retryIngestion` tries once more
(`RetryOnConflict`). After the commit the call reads which of its records are
monitored and enqueues jobs for them; an error there is only logged
(`EnqueueScreenings`). Timestamps come from one clock that is never behind.
Parsing, validation and types of fields are left out, as are the jobs of risk
scores.

### CsvUpload, AsyncDecision, IngestionSystem

`upload` is the row of `upload_logs` and `uploadJob` its River job; `worker` are
the attempts of that job, each with the offset it has reached. An attempt claims
the log, ingests batch after batch through a call of `ObjectVersions`, and writes
a checkpoint after each. It snoozes when its own time is over; when it is cut
short from the outside (`Cut`) the job becomes available at once, so that the
next attempt may start while the former still unwinds, its last statement
possibly on its way to the database. `overtaken` remembers that this happened.

`execution` is the row of an asynchronous decision, `decisionJob` its job with
the step of its attempt. The job ingests the trigger object when asked to,
writes its checkpoint, then decides; the last two attempts record a failure
instead of retrying (`Reserved`).

`IngestionSystem` runs both on one table, the calls of the decision's job
between those of the upload.

### ScreeningDatasets, MonitoredObjects

`tracks` are the delta tracks, `dataset` says which version of a record the file recorded
last has, `stored` whether that file exists, and `build` is the job that merges unfiled
tracks into a new file: it takes its time (`StartBuild`), opens the previous file, without
which it fails (`NoPreviousFile`), lists the tracks before it (`ListTracks`), records the
new file and files them in one transaction (`CommitBuild`), and only then closes the
writer of the file (`CloseFile`): a crash or an error in between (`BuildFails`) loses the
file. A track bears the time at which its transaction
began; one that a build has overlooked for this reason is marked `late`.

`monitored` is in the client database, `screenings` and `tracks` in Marble's.
A request inserts the monitored row and, in another transaction before it, the job
that will check the track (`EnsureTrack`). Jobs of ingestions register records
or screen their new versions; `ScreenedSince` makes a job that runs again skip,
and `SameHits` a screening open no second case. Both look at the latest screening
by `created_at`, the start of its transaction, which need not be the one stored
last. Since two compositions of `ObjectVersions` are reasoned about together, the
definitions of this one have names of their own (`ScreeningInit`, `ScreeningNext`,
`ScreeningSpec`).

### CaseWorkflows

`cases` has the status and inbox of each case, and, as history, the decision whose
job opened it and the lock that job held; `caseOf` is `decisions.case_id`. A
workflow job picks an action, takes the advisory lock if the action may add to a
case (`LockPivot`), searches (`SelectCase`), and opens or fills a case
(`OpenCase`, `AddToCase`), all in one transaction, which is several actions
because it reads before it writes. Users' requests read (`Begin...`), check, and
write later (`Write...`), with no lock; mass updates are one statement.
`foreign` collects the cases that someone without the lock has closed, reopened,
moved or given decisions to: about these the lock promises nothing.

### ScenarioLifecycle

`stored`, `version`, `content` and `live` are `scenario_iterations` and the
scenario's live version; a version of 0 is a draft. A request reads and checks
(`Begin...`), then writes (`Apply...`). Each process has a `cache`, which every read
fills (`Reads`, and `AddToCache` in another step, so that an edit may come in between)
and evaluations read through. Nothing tells the other processes of an edit. `aware` are
the processes that committed an iteration or have read it since, `torn` those that were
reading it while it was edited, `overtaken` the test runs whose callback came late.
A test run has its row and the progress of the goroutine that creates its indexes, whose
`Callback` sets it up. The foreign keys that delete test runs with iterations, and forbid
the deletion of a live one, are modelled.

### TestRunSummaries

`run` is the row of the test run, `row` are the rows of its summary, each with its
watermark and the number of times each decision was counted in it. A decision has
its time when it is made (`MakeDecision`) and is seen when it is stored
(`StoreDecision`), by then maybe behind a watermark (`late`). A job lists the test
run, opens a window, reads decisions and statistics of rules in it, and then, in one
transaction, adds to the rows, moves the watermarks and compares the version of the
test run with the one it had listed. Rows that a transaction has written are locked
until its end, and statements wait for them (`Free`); which rows an update sees is
decided when it starts (`SeeRows`), so that a summary may leave rows behind that another
one is inserting (`LeavesBehind`). `uneven` remembers that this happened, `ends` the ends
of the windows that were committed, and `cut` that a test run was marked summarized after
a window that did not reach its end (`CutOff`).

The specification is `SummariesSpec`, as that of `WebhookSecrets` is `SecretsSpec`:
proofs extend them together with another module.

### ScreeningReviews, HitReviews, MatchReviews

`screening` has the rows of the screenings of one decision and configuration, with
the status of each match. A review is checked before its transaction
(`BeginReview`), then lists the other pending matches (`ListMatches`), then writes
(`WriteReview`); the transaction factory may repeat it (`RepeatReview`). A refinement
is checked, reads the whitelist (`ReadWhitelist`), searches, and in a transaction looks
up the active screening (`FindActive`), archives the one it came from and stores
another (`StoreRefined`). A provider is told to exclude at most `MaxExcluded` of the
whitelist (`Sent`): 50, or all of them if it is motiva from v0.7.0. `regular` remembers
that no requests overlapped, `lasting` which entities were on the whitelist ever since
a request began.

In `HitReviews` requests read the continuous screening with its matches in one
statement, in the transaction in which they write, but lock nothing. By the
`trigger` one hit decides (an object), or all matches must be reviewed (an update of
the dataset). `late` are matches that were loaded while other requests were under
way.

The two kinds share no rows; `MatchReviews` is one screening of one of the kinds, so
that a run covers both.

### Offloading

`held` are the rules whose evaluation is in their row, `blobs` those whose
evaluation is in the store. A job fetches a page (`FetchPage`), writes the blobs of
a savepoint concurrently (`WriteBlobs`, each may fail), then empties the rows and
moves the watermark in one transaction (`Savepoint`). A reader takes the rows,
the watermark, then blobs: three steps, between which the job may move on.

## 3. What is checked

Passing runs:

| Run | Bounds | What it shows |
|---|---|---|
| `batch_once` | one execution, manifests of up to 3 distinct objects in every order, batches of 2, 2 attempts, all three timers | No row is lost, repeated or reordered, and success means that all is done (`LogFollowsManifest`); a pending execution starts or fails, a processing one ends, and an end stays (`Settles`). |
| `batch_overlap` | two executions, two creators, the same two objects in opposite orders, batches of 1, 1 attempt, one fault: a setup that runs again after its commit, or a commit reported as failed (`OneFault`); the table may disappear | Deduplicated executions share every object out (`DedupExclusive`) and never evaluate what anyone evaluated (`NeverRescored`); claims are what was evaluated (`ClaimsMatchLog`); both implement the ledger (`RefinesLedger`). |
| `per_object` | two objects, 2 attempts for each kind of job, both timers, one setup that runs again after its commit, and then quiet (`QuietAfterRerun`) | One decision per row and per object, final counts are the rows', an end stays, and the execution ends. |
| `webhook_delivery` | an event, a webhook that stays, listening or not, and one that users create, change and delete, 2 requests, 2 runs of a job, two faults (`TwoFaults`) | Everyone is served, requests of a delivery do not overlap, nothing is given up early, everything is settled. |
| `webhook_secrets` | five secrets, two rotations and two revocations that overlap at any statement | A permanent secret is left (`PermanentRemains`), unless one of two revocations that have both counted has revoked. |
| `ingestion` | one object, two timestamps, whole rows and patches, a file of two batches that two attempts may work on at a time, 2 attempts, one snooze, a decision of 4 attempts, one fault | One valid version, the newest (`NewestValid`); patches are merged with what they replace (`PatchesBuildOn`); the file is read to its end and an attempt that comes late takes nothing back (`UploadComplete`, `UploadSettles`); the object is decided once, after it was ingested (`DecidedOnIngested`), and a failure is told once (`FailureTold`, `ExecutionSettles`). |
| `monitoring` | one object, one ingestion, two contents of which one is a hit, 2 attempts, one request, two builds, one fault | A change is screened, once, and a hit has a case (`UpdateScreened`, `CaseForHits`); what is monitored is tracked, and a dataset file that exists follows the tracks (`DatasetFollowsTracks`). |
| `case_workflows` | three decisions of one entity, all kinds of actions, 2 attempts, one request, three cases; one job has a second attempt and one another action than to add to an inbox (`Few`) | Jobs of one lock leave one case (`OneCasePerLock`), no job opens two (`OneCasePerJob`). |
| `lifecycle` | two iterations, two requests that overlap once, two contents, two test runs, two processes; the states of `Apart` | The live version was committed (`LiveCommitted`). Unless requests that write overlap, versions are frozen (`CommittedFrozen`); a process that is aware of the live version evaluates it as it was committed, unless its read was torn (`EvaluatedAsCommitted`); one test run is up at most, next to the live one, besides those that were overtaken (`UpNextToLive`). |
| `offloading` | three decisions of 3, 2 and 1 rules, pages of 4, savepoints of 2, two jobs, three runs, one overlap | No evaluation is lost (`EvaluationKept`). As long as runs do not overlap, a reader sees them all (`EvaluationsSeen`) and rules are passed over only where a page ended (`PassedOverOnlyAtPageEnds`). |
| `test_run_summaries` | two decisions of two outcomes, neither that of the row for empty windows; two jobs, three summaries, windows of 2 in a test run of 4, which expires, and is stopped at any time, also more than a window ahead of the summaries | As long as no summary has left rows behind, no decision is counted twice (`CountedOnce`); what is behind the watermark, or was decided before the end of a test run marked summarized, is in the totals, except what was committed too late for its window, and what a stopped test run has after a last window that was cut off (`NoneMissed`). |
| `match_reviews` | of a decision: two entities, three screenings; or of a continuous screening: three objects, four matches, either trigger; two requests that may overlap at any step, three in all; one entity excluded at most (`MaxExcluded`), so that both sides of the limit are met | What is decided leaves nothing to review (`NoneLeftPending`). A refinement does not ask about what stays on the whitelist from its begin to its search, unless it finds more there than it may exclude (`WhitelistedNotAsked`). Without overlap, the status follows the reviews (`StatusFollowsReviews`). |

The models also show the following: cases that the code does not exclude, several
of which a comment of the repository denies. They are not kept as runs; the
constants or definitions named reproduce each one, and properties that except such
a case say so.

- `Actions <- AddKinds` in `CaseWorkflows`: two jobs whose actions differ in the inbox,
  or in whether any inbox will do, take different locks, search at the same time,
  and both open a case for one pivot value in one inbox (`OneCasePerPivotValue`
  fails). `usecases/decision_workflows/actions_case.go:122-124` says that only one
  gets created.
- `Ruled <- Nothing` in `TestRunSummaries`: `updated_at` is touched only if statistics
  of rules or screenings were saved (`test_run_summary_job.go:217`). When a window has
  decisions but no such statistics, a job that listed the test run earlier adds the
  same decisions again (`CountedOnce` fails); `models/scenario_testrun.go:59` calls the
  column an idempotency key.
- Without its premise `~uneven`, `CountedOnce` fails in the run `test_run_summaries`: the
  summary of an empty window inserts a row after another one
  has listed the rows whose watermark it moves (`repositories/scenario_testrun.go:283`),
  and does not touch `updated_at`. That row keeps its older watermark, the next window
  begins there (`test_run_summary_job.go:117-129`), and what lies between is counted
  again; the comment at `test_run_summary_job.go:195` says that the watermark of all
  rows is updated.
- A test run that is stopped when its summaries are more than a window (6 hours, `:21`)
  behind is marked summarized after the next window (`:200`), and the rest is never
  counted: `NoneMissed` fails without its exception `cut`.
  `models/scenario_testrun.go:55-57` says that processing goes on until the end date.
- Reviews of the last two matches that overlap, both as no hit, each find the other
  one pending: the screening stays in review with nothing left to review
  (`usecases/screening_usecase.go:778`, the comment at :848 says otherwise). A review
  that was permitted before a hit was confirmed finds nothing pending and writes
  `no_hit` over `confirmed_hit` (:849, against :807). A screening may be refined and
  decided at once, its reviews replaced by new pending matches (:426, against :1294).
  `StatusFollowsReviews` fails without its premise `regular`.
- Nothing refuses to refine an archived screening, or to refine one twice at once
  (`screening_usecase.go:1247-1269`): both leave two active screenings, and
  `GetActiveScreeningForDecision` fails for an archived one from then on.
- The 51st entity of a whitelist is asked about again, without any overlap: providers
  other than motiva from v0.7.0 are sent the first 50 and their answer is not filtered
  (`repositories/screening/provider_opensanctions.go:136-143`,
  `provider_lexisnexis.go:176-183`). `WhitelistedNotAsked` excepts it.
- Results of several queries are cut at the limit after they are merged, without
  `Partial` (`repositories/httpmodels/http_opensanctions_result.go:102-103`): a
  screening may have no hit although matches were left out. The properties speak of the
  matches that are stored.
- The same of continuous screenings, without `regular`: the rest of the results turns
  out to be empty after the last review, and nothing decides any more
  (`usecases/continuous_screening/screening.go:560`, against :30); the only confirmed
  match of a dataset update is reviewed again as no hit, and the screening becomes a
  hit, because the matches are those of before (:661, against :31); a dismissal that
  has read the screening in review is written over a confirmed hit (:317, against
  :279); two loads insert the same matches (:494, against :414).
- Repeated ids. With two valid rows for one object in a batch (`Manifests <-
  Repeated`) a deduplicated execution stores two decisions, and `DedupExclusive`
  fails. `repositories/scenario_scored_objects.go:88-90` says that such duplicates
  collapse: the claim does return the id once, but the loop over the results looks
  the id up, and finds it twice. Ingestion keeps one valid row per object.
- A setup that runs again (`MaxReruns = 1`). `UpdateScheduledExecutionStatus`
  announces "optimistic locking based on the current status", but its only
  condition is the id: the execution that ended goes back to processing, the unique
  insertion enqueues no coordinator, and no job is left to check the deadline
  (`Settles` of `BatchExecution` fails). In v1 every object gets
  a second decision, and a decision job that commits after the monitoring gave up
  reopens the execution too; `DecisionPerObject` and `Orderly` except these. A v1
  setup that River drops between the status and the insertion of the rows leaves
  the execution processing without jobs.
- A batch whose COMMIT is applied and reported as failed (`MaxAmbiguous = 1`) is
  evaluated again; without deduplication its decisions are stored twice and
  `LogFollowsManifest` fails. With deduplication the claims stop it.
- When the failure of an execution cannot be written, the coordinator cancels its
  job nevertheless, and the execution stays processing. `Settles` excepts it.
- With `TableMayDisappear`, a coordinator that dies after the last batch and before
  it wrote success, and finds the table gone when it runs again, writes failure.
- Two executions of a scenario may be active at once: nothing but the check
  before the insert prevents it.
- A delivery job that runs again after it enqueued the next one may write failed
  over that one's success (`webhook_delivery_job.go:182`). A dispatch job that runs
  again when nobody listens any more deletes an event with deliveries under way,
  and these with it. Deliveries to a deleted webhook stay pending until the end of
  the retention period.
- Two `Revokers` that both count before either updates revoke the last two
  permanent secrets; the comment of `RevokeWebhookSecret`
  (`usecases/webhooks/usecase.go:384`) says that it fails then. `PermanentRemains`
  fails without its exception `raced`.
- A record that is removed from monitoring and added again at the same version
  gets no new track, as the insertion ignores conflicts: the deletion remains its
  last track, and `MonitoredInDataset` fails.
- A screening on request that began before a version was stored, and ends after
  it, makes the job of that version skip: `ChangeScreened` fails, `UpdateScreened`,
  which only asks for a screening after the change, holds.
- A track whose transaction was open when a build took its time is filed without
  having been applied. `DatasetFollowsTracks` excepts these `late` tracks.
- The writers of dataset files are closed by `defer`, after the transaction that records
  the file and files its tracks, and the error is ignored
  (`usecases/continuous_screening/worker_create_full_dataset.go:290, 406, 418`). A crash
  or an error there loses the file: its tracks are filed, and every later build fails as
  it finds no previous file (:380-383). The comment at :320-321 speaks of a transaction
  "to ensure consistency". `DatasetFollowsTracks` speaks of a file that exists.
- An error when the jobs for continuous screening are enqueued, after the
  commit of an ingestion, is only logged: the change is never screened.
- The callback of an index creation sets a test run up that was cancelled, or whose
  version was replaced, in the meantime, or after another test run was created: with
  two pending ones, both end up up. `UpNextToLive` fails without its exception
  `overtaken`.
- Nothing removes an edited or committed iteration from the caches of other processes: a
  process that has the draft in its cache evaluates the draft for the live version, for
  up to 24 hours; and one that was reading the draft while it was edited may add what
  it read after it has read the version. `EvaluatedAsCommitted` fails without `aware`,
  and without `torn`. `usecases/evaluate_scenario/evaluate_scenario.go:551-553` knows of
  the first, and says that no draft is in the cache, as none is evaluated; but every
  read adds to it (`repositories/scenario_iterations_read.go:45`).
- Without its premise `overlaps' = 0`, `CommittedFrozen` fails: an edit that
  checked before a commit is applied after it, and two commits take the same
  version. `repositories/migrations/20250605000000_allow_multiple_screenings.sql:148`
  speaks of the "immutable nature" of iterations.
- When the answer to the COMMIT of an asynchronous decision is lost in one of the
  reserved attempts, the execution that has its decision is recorded as failed,
  and its failure announced. `DecidedOnIngested` allows it.
- A page of the offloading that ends within a decision passes the rest of its
  rules over: the next page begins after the watermarked decision. The
  evaluations stay in their rows, where readers find them. With overlapping runs
  the watermark may move back, and blobs are hidden until the job has caught up; and
  a run that goes on after another one's savepoint within a decision passes rules over
  where no page ended (decisions of 1, 2 and 1 rules, pages of 3, savepoints of 1),
  hence the premise `overlaps = 0` of `PassedOverOnlyAtPageEnds`.
- `AddToCase` does not check the decision: a workflow job may take it out of the
  case a user put it in, or put it in a case that was closed meanwhile, whereas
  users' requests refuse decisions that have a case (`usecases/case_usecase.go:1519-1521`).

### Why the bounds are enough

Every hazard is an interleaving of two actors, or of an actor and one fault, so
instances have two of what interacts and one of the rest. Three objects and
batches of two give empty manifests, a full batch, and a last partial batch;
batches of one give the largest number of interleavings between two executions.
Two attempts give a run that fails and is run again, and a run that is dropped;
the decision job has four because two of them are reserved.

`MaxReruns`, `MaxAmbiguous`, `MaxFaults`, `OneFault` and `TwoFaults` bound faults: one
is enough to leave the state in which the code does not expect to run, and a
second one starts from a state like it. `QuietAfterRerun` keeps the rerun of a v1
setup apart from timeouts and failures of decision jobs, which the same run
covers without it. `Few` lets one workflow job at a time fail or act otherwise; the
others are those it competes with. `MaxRows`, `MaxRequests`, `MaxBuilds`, `MaxContents`,
`MaxCases`, `MaxStarts` and `MaxSnoozes` bound what accumulates. `MaxOverlaps` says
how many requests, or runs, start while another one is going on: properties about
calls one at a time need 0, and the same run checks with 1 what holds with
overlaps. `Timers` says which clocks may expire. `MaxJobs` bounds the delivery jobs
of a delivery.

Three decisions are needed for two jobs that compete for a case of a third; three
rules in a decision for a page and a savepoint to end within it; two iterations for
a live version and the draft that replaces it; five secrets for
two rotations that each add one around a third; three outcomes for rows of a summary
that exist before another one; three requests for two that overlap and one before
or after them, or for a review between two refinements (`MaxScreenings`, `MaxMatches`
and `MaxSummaries` follow from that).

The constraint `Apart` keeps `lifecycle` small: caches have nothing to do with test runs,
nor with requests that overlap. The states without test runs and overlaps are explored
with both caches in full; those with test runs or an overlap only as far as one process
reads, one iteration is in its cache, and none was torn. The proofs have no such
constraint.

Deadlock is checked for `lifecycle`; the other systems stop when all jobs are
done, or when no request is left within the bounds.

### Fairness

`FairSpec` of the two kinds of batch and of `WebhookDelivery`, and `Spec` of
`IngestionSystem`, assume weak fairness of each job (River picks up every queued
job, and a worker that runs one goes on or fails), of the calls that a job waits
for, and of clocks. Errors, crashes, users and creators are not fair: they may
happen at every opportunity or never. Where an error is one of the steps that the
fairness of a job allows, liveness properties hold with every pattern of errors;
they except jobs that River drops when their attempts are used up, for which the
code promises nothing. `UploadSettles` also excepts overtaken attempts: the late
failure of one may meet the completion of the next, which leaves the log
processing without a job. The other modules state safety only and assume nothing.

## 4. What is proved

The proofs hold for every value of the constants: any number of executions,
objects, decisions and calls, any batch size, any bounds on attempts and faults.
They assume the ASSUMEs of the modules, which TLC evaluates in every run.

**`BatchExecutionProofs`.** `TypeCorrect` (`Spec => []TypeOK`) needs `TypeInv`:
`AttemptsInv` says that a queued job has attempts left, a running one has used one
(a snooze gives it back), and only a running job's coordinator is at work;
`BatchInv` that the ids, selected rows and verdicts of a batch match in length.
`ClaimsCorrect` (`[]ClaimsMatchLog`) and `NoRescoring` (`NeverRescored`) rest on
`DedupInv`: types, `LifeInv` (an execution that was not created has no jobs and no
outcomes, so its deduplication setting cannot change under outcomes) and
`ScoredInv` (an object is claimed iff some execution evaluated it). The argument:
a commit evaluates only what it claimed, a claim returns only what was not
claimed, and what was not claimed was not evaluated. `ThreeKindsOfStep` reduces
the other actions to one case. `Deduplication` (`[]DedupExclusive`) also needs
`DistinctInv`: manifests and batches hold each id once. That is its one
hypothesis, `DistinctIds`.

`EndsStay` (`EndStays`: what is a success or a failure remains it) rests on `WorkInv` (a
coordinator that has a batch works on an execution that is processing) and
`ManifestInv`: the planned count is the length of the manifest, the cursors in the row
and in the coordinator count the same rows, an execution that ended with success has
all of them, so that a coordinator that runs again finds nothing to do, and one that
failed has no job left. Its hypotheses, that no setup runs again after its commit and
that the client table stays, exclude the two cases listed in section 3.
`LedgerImplemented` (`RefinesLedger`) shows step by step that the executions implement
`ScoringLedger`, under `DistinctIds` and `EndsOnce`, which says that an end stays for one
of two reasons: those hypotheses, or a coordinator of a single attempt, with any
faults. The second is the instance `batch_overlap`.
`ManifestFollowed` (`[]LogFollowsManifest`) adds `LogInv`: the log holds the first rows
of the manifest in order, the counters are those of its outcomes (`RowsOK`), and the
batch in work is what comes next (`NextBatchOK`). Its hypotheses are `MaxReruns = 0`, and
`MaxAmbiguous = 0`: a commit reported as failed is repeated.

**`PerObjectExecutionProofs`.** `TypeCorrect` with its own `AttemptsInv`, and the
finiteness of the rows, so that counts are numbers within bounds.
`OneDecisionPerRow` with `FreshRows` (rows of attempts yet to come are absent, so
the setup only stores new ones) and `WorkersHoldRows` (a decision job that is
under way holds a pending row). `OneDecisionPerObject` needs `OneInsertion`: as
long as the setup has not run again, all rows come from one attempt.
`CountsAreFinal` (`[]FinalCounts`) needs `FinalInv`, which is about the time before a rerun
of the setup: rows and status job appear at once, with as many rows as planned
(`StoreInv`); the status job counts rows that no longer change, unless its time is
over, and then it has counted too few for a success (`MonitorInv`); and the end in the
row is what it counted (`EndInv`).

**`WebhookProofs`**, secrets. `SecretsTypeCorrect`, and
`RevocationsKeepAPermanentSecret`: `PermanentRemains`
holds for any number of secrets, rotations and revocations. The invariant `Knows` says
what a caller may rely on between its statements: the secret it read exists (so a
rotation cannot add it), one it read as not permanent never becomes permanent,
and after the count there is another permanent one, unless another call has revoked
what it had counted (`raced`).

**`IngestionProofs`.** `NewestIsValid` and `PatchesAreMerged` rest on `TableInv`:
of the versions of an object the last alone is valid, and none is newer, while a
patch builds on the one before it (`Chained`); and a version that a call has read
is one of the table, valid or not any more (`SeenStored`). The unique index makes
a store that follows an outdated read impossible: what it replaces is the last. `UploadOnlyAdvances` needs
only the types of the upload. `DecisionFollowsIngestion` and `FailureIsTold` rest
on `DecisionInv`: the call that the job waits for carries the execution's rows, and
past its commit the table holds them or newer ones (`CallOfJob`); where the job is
tells what the row says, and that the object is held (`RowOfJob`); and status and
number of decisions agree (`DecisionsOfRow`).

`UploadIsComplete` (`[]UploadComplete`) rests on `UploadInv`: every batch before the offset
of the log is in the table, or newer rows are (`LogInv`), and so is every batch before the
offset of each attempt, even an overtaken one (`WorkerInv`): attempts repeat work, but
none writes an offset it has not reached. `ExecutionsSettle` (`[]ExecutionSettles`) rests on
`SettleInv`: a job whose execution is not decided has attempts left, or lost the
reserved ones to faults. It assumes two attempts at least, those that the code reserves.

In the same module, on the lemmas about calls, the three properties of the run
`monitoring`, with no hypotheses beyond the types of the constants: any number of
objects, calls, jobs, requests, builds and faults. The inductive invariant is
`ScreeningInv`. Its base, `MonitoredInv`, says that jobs know of versions that are in the
table (`VersionsKnown`) and that no time is ahead of the clock (`TimesPast`).
`ChangesAreScreened` (`[]UpdateScreened`) needs `OnePerVersion`, two jobs are not about the
same version, since calls that store at the same time store different versions and
hand them out once; and `UpdateInv`, a job past its check has no screening of its version,
and the screening that a job stores is later than its version, so that after a crash the
check of the next attempt finds it. `HitsHaveCases` (`[]CaseForHits`) needs `HitsInv`: a
transaction that will open no case has found one with the same matches, and cases stay.
`DatasetIsCurrent` (`[]DatasetFollowsTracks`, of a file that exists) needs `TracksInv`, no two tracks of an object
have the same time, open transactions included, so that the latest is determined;
`FilesInv`, without late tracks what is filed is older than what is not, and a build that
has listed its tracks will write the last of them, whatever is added meanwhile; and
`RowsHaveJobs`, each row of the client database has a job that answers for its track,
the one that was enqueued before the row was committed or the one that wrote it.

**`CaseWorkflowsProofs`.** `TypeCorrect`. `JobsOpenOneCase` rests on `JobInv`: a
decision whose job has opened a case has had a case ever since, because nothing
takes a decision out of all cases (`OpenedHadCase`), so that the check of the next
attempt fails, and one past the check has opened none (`NoneOpenedYet`).
`LocksKeepOneCase` rests on `LockInv`: one job holds a lock (`Exclusive`), the lock
is that of its decision and action (`HoldsItsLock`), a case opened under it and
not touched by others is one that its holder finds (`OwnIsFound`), and therefore
what the holder has chosen is the only such case with the value, or there is none
(`ChosenIsOnly`). `UserKeeps` is all that the proof uses of users: without the lock
they may fill a case only by making it foreign. `Works` sums up a job's step.

**`OffloadingProofs`.** `EvaluationIsKept` needs `StoredFirst` (a job about to commit
has its blobs stored), for any number of overlapping runs. `EvaluationsAreSeen`
needs `SeenInv`, which speaks of the time before the first overlap: one job is
active (`Alone`), what it holds is in order and not before the watermark
(`InOrder`), rows are only emptied up to the watermark (`BehindWatermark`), and
whatever the reader has missed in the rows is in blobs it will still look for
(`ReaderInv`). `OnlyPageEndsPassOver` (`[]PassedOverOnlyAtPageEnds`) adds `PassedInv`, also of
the time before an overlap: what is left up to the end of a page is in the page, or
belongs to a decision in which an earlier page ended (`Covered`).

**`ScenarioLifecycleProofs`.** `LiveIsCommitted` for all interleavings (`LiveInv`: a
request to publish has seen a version, and versions are never taken back).
`CommittedIsFrozen` up to the first overlap of requests: `FrozenInv` says that one
request is handled (`OneRequest`), that what it read still holds
(`ReadStillHolds`), and that versions differ (`VersionsDiffer`).
`EvaluatesWhatIsCommitted` (`[]EvaluatedAsCommitted`), for any number of processes,
rests on `CacheInv`: an iteration that is in the cache of a process aware of it agrees
with its content, or was torn (`Agrees`), what a request has read of an iteration still
holds when it adds it to the cache, with the same exception (`ReadHolds`), and a request
to commit reads the iteration once more, in its own process (`CommitReads`).
`OneTestRunIsUp` (`[]UpNextToLive`) rests on `RunInv`: a test run that is up, or that its
callback may still set up in time (`GoesOn`), is the last one and next to the live version
(`RunOK`), and what a request has read of both still holds (`ReadOfRuns`). Neither has a
hypothesis: what the code does not exclude is in the properties (`aware`, `torn`,
`overtaken`).

There also: the summaries of test runs, for any number of decisions, jobs and
summaries. `WindowInv` says that a window begins where a committed one ended, that
watermarks are such ends, that what a job has read lies in its window, and that the
locks of jobs, which include the rows they save, are apart. `DecisionsCountedOnce`
(`[]CountedOnce`, for windows of any length) assumes that every decision has rules, and
rests on `CountInv`: a job whose version is the current one reads from after what is
counted, and one that was overtaken after it compared the versions leaves rows behind
(`Overtaken`). `DecisionsNotMissed` (`[]NoneMissed`, for windows and test runs of any
length, with no hypothesis) rests on `MissInv` (a job that has read its window has found
every decision that was stored in time, and what lies before the end of a committed window
is in the totals) and `EndInv` (a job that saw the test run stopped opens its window after
the stop: the window covers the end of the test run, or it is cut off, which `cut`
remembers once the job commits).

**`WebhookProofs`**, deliveries. `TypeCorrect`, and for any number of events, webhooks,
attempts and requests: `AllServed` (`[]EveryoneServed`), `NeverTwoAtATime`
(`[]OneAtATime`) and `AllAttemptsMade` (`[]GivenUpAfterAll`). The invariant speaks of
one delivery, or one event and webhook, at a time. Of a delivery, `Fresh` (what does
not exist has no jobs), `Alone` (one job works on it, unless one ran again after its
last write) and `Count` (requests sent are at least those counted by the row and by
the job under way). Of an event, `Dispatched` (what a dispatch job that is under way
may rely on) and `Served` (whoever has listened throughout is among the targets of
the dispatch, or has a delivery). `MoveStep` and `RestStep` reduce the actions to
those that move one job of one delivery and those that leave deliveries alone.

**`MatchReviewsProofs`.** All three properties of the run `match_reviews`, for any number of
entities, matches, screenings and overlapping requests, with no hypotheses.
`NothingLeftToReview` (`[]NoneLeftPending`), `ReviewsDetermineStatus`
(`[]StatusFollowsReviews`) and `NotAskedAgain` (`WhitelistedNotAsked`, of steps)
follow from `KindInv`, which is `DecisionInv` for a decision's
screenings and `HitInv` for a continuous one. In `DecisionInv`, what a review has listed
are matches of its screening (`ListedInv`), and a refinement excludes what has been on the
whitelist since it began (`LastingInv`), also when requests overlap; without overlap,
what the request under way has read still holds (`RequestInv`), and the status of every
screening is that of its reviews (`StatusInv`). In `HitInv`, what a request knows of pending
matches remains true while others review (`KnownInv`), and without overlap the status is
that of the reviews until the screening is dismissed (`HitRegular`).

Only model-checked: liveness (`Settles`, `UploadSettles`) and ENABLED,
which are out of the prover's reach. Every other property of a run is a theorem,
under the hypotheses named above. No module uses recursion, so nothing else is out of reach.

## 5. Not modelled, and why

- Pure evaluation (the rule language), conversions, HTTP, authentication, and
  independent rows that one request reads and writes (organizations, users, tags,
  lists, snoozes, the data model, synchronous decisions)
  have no interleavings that a model could show.
- The AI agent, metrics, billing, licences, enrichment and searches are calls to
  services; the analytics export is SQL with a watermark like that of offloading.
- Indexes: `index_creation_job.go`, `index_rollover_job.go` and their cleanup
  only delay a publication. The callback of a test run is in `ScenarioLifecycle`.
- Automatic assignment (`auto_assignment_usecase.go`). Read as code, it lists the
  cases once and assigns them one by one, unconditionally; two jobs of adjacent
  periods of two minutes may overlap, and a case created after the job of a
  period ran enqueues none in the same period (`task_queue_repository.go:448-455`).
- User risk scoring (`usecases/scoring`). A refresh may replace an override that
  was made after it read; each write is one transaction.
- In modelled components: archiving of iterations by edits of the data model,
  expiry of test runs; the upload of CSV files in parts; enrichment, files and
  comments of matches; the whitelist of refused matches and the delta files of
  providers in continuous screening (a match that was refused, and is confirmed when
  it is reviewed again, stays on that whitelist); rule evaluations that are written to blobs when a decision is
  created; files, comments, tags, reports, snoozes, contributors and events of
  cases; a mass reopening of cases does not ask `CanTransition`, as in the code.
  The content of requests to webhooks, their addresses and signatures. The clean
  up of old asynchronous executions.
- The order in which claims are inserted, which keeps two commits of batches from
  deadlock in PostgreSQL: it needs a model of row locks.

What would add most next: the assignment of cases together with `CaseWorkflows`, and
`WebhookDelivery` against an abstract delivery that is pending, then settled.

## 6. Running

    tlc -workers 2 -config BatchOnce.cfg MCBatchExecution.tla
    tlapm BatchExecutionProofs.tla

Every run ends within minutes on two cores. `PROJECT.json` names the module and
the configuration of every run, the lines of the source that each definition
stands for, and the mutant of each property.
