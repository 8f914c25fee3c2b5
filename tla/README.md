# Rail Django: a TLA+ model

TLA+ specifications of [rail-django](../src/README.md), a framework that
generates a GraphQL API (queries, mutations, subscriptions, import, export,
background tasks, security) for the models of a Django project. The modules
here model the parts of it that keep state between steps and are shared by
several processes, check them with TLC on small instances, and prove their safety
properties and refinements with TLAPS for every value of the constants.

Contents: [inventory](#inventory) · [modules](#modules) · [runs](#runs) ·
[fairness](#fairness) · [proofs](#proofs) · [assumptions](#assumptions) ·
[findings](#findings) · [not modelled](#not-modelled) · [plan](#plan)

## Inventory

Source paths are relative to `src/rail_django/`. `PROJECT.json` lists every
component with its files, and every hazard with its line.

| Component | State it keeps | Operations | Interacts with | Hard behaviour | What makes it correct |
|---|---|---|---|---|---|
| **Data import** `extensions/importing` | one `ImportBatch` (status, counters), its `ImportRow`s (edited and normalized values, action, status), `ImportIssue`s, simulation snapshots | create (upload, parse, stage), PATCH_ROWS, VALIDATE, SIMULATE, COMMIT, delete | the target model, which everybody writes; several clients of one batch | each request is several transactions, and a transaction reads without locks what it writes later; crash between them; failing row in a commit; deletion under a request | statuses follow issues; SIMULATED means clean; a commit writes what was simulated, all of it or nothing; COMMITTED means imported |
| **Background tasks** `extensions/tasks` | `TaskExecution` row; the message at the backend; the executor's loop | task mutation, on-commit hand-over, attempts, retries, progress, expiry, REST and GraphQL polling | thread, Celery, Dramatiq; the user's callable; the caller's transaction | `on_commit` that raises; death of an executor at any statement, redelivery, errors after success | runs only once committed; FAILED after all attempts; an outcome stays; every task ends |
| **Asynchronous file jobs** `extensions/async_jobs.py`, `exporting`, `excel`, `templating` | cache entry and payload, each with a timeout; `expires_at`; the file | enqueue, worker, status and download views, clean-up, webhook | cache, file system, job backend, webhook receiver | `update_job` is get then set; expiry, deletion and worker unordered; dying worker | completed means a whole file; downloads send no partial file; the lifecycle never goes back |
| **Generated mutations** `generators/pipeline`, `nested`, `mutations` | the database; on-commit callbacks | create, update, delete, bulk, method; nested relations (set, disconnect, connect, create, update) | model events, audit, database constraints | errors half way through nested writes, with and without rollback; unlocked read then write | a failed mutation writes nothing; relation operations give what was asked |
| **Model event webhooks** `webhooks/` | on-commit callbacks, the payload, the thread pool with its deliveries | signal, on-commit dispatch, hand-over to endpoints inline, to the pool or to a custom handler, attempts and retries | mutations, remote endpoints | rolled-back savepoints, lost answers, a handler that raises half way, a dying process | receivers learn committed saves only, every delivery of one event says the same, every delivery comes to an end |
| **Subscriptions** `extensions/subscriptions` | the channel layer's groups | broadcast on commit; the consumer joins and leaves | mutations, channel layer | events of a rolled-back or silent change | subscribers hear what was committed |
| **Rate limiting** `core/rate_limiting.py` and its two middlewares | per rule a cache entry (count, lifetime); per request a mark "checked" | get, add, incr, fallback set; one check per request and field | every request; the Django cache | four cache accesses that are not atomic; the window may end between any two; the cache may fail | a bound on what passes in one window; no client is refused for ever |
| **Security event bus, audit** `security/events`, `security/audit_logging.py` | bounded queue, worker, `_running`, sinks | emit, worker loop, dispatch, stop with a join of five seconds, flush | every request | full queue; sinks that raise; stop() going on while the worker still dispatches | an accepted event reaches every sink once, in order |
| **Query and permission caches** `extensions/optimization`, `security/rbac` | a version (uuid in memory; cache entry), entries keyed by it, what a user object remembers | look-up, evaluate, store, invalidate | mutations, signals of the permission tables | invalidation inside a transaction, a slow fill, expiry of the version, a late write of it | a stale answer has a known cause and ends |
| **Persisted queries** | texts by hash | register, look up | requests | create racing create | text belongs to its hash |
| **Reporting** `extensions/reporting` | `ReportingExportJob` row (status, payload, file), stored files, last status of a schedule | create and run (studio, schedule), runExport, delete | database, file storage | several runs on one row, autocommit beside transactions, faults | the file matches the payload; RUNNING ends |
| **Schema registry and builder** `core/schema`, `core/registry` | entry per schema name, its builder (schema, version, lock), the model cache, the instance cache | discover, get the schema, rebuild; register, enable, disable, unregister, clear builders, clear all | every GraphQL request, the REST API, signals | only a build is locked; schema, version and cache are read one by one; a build writes the entry back; a request for a missing schema clears all of them | the cached schema is the current one; what an administrator decided stands |
| Type, query, filter generators | none | construct types | registry | – | output matches the model |
| Access control `security/rbac`, `abac`, `hybrid` | policies, cached roles | decide | requests | stale cache | deny by default |
| Authentication `extensions/auth`, `mfa` | tokens, devices | issue, refresh, revoke | requests | – | out of scope |
| Query limits, input validation | none | analyse a document | requests | – | pure functions |
| Other views, middleware, settings, monitoring, plugins, metadata, scaffolding | caches and counters for operators | – | – | – | no control depends on them |

## Modules

| Module | Role |
|---|---|
| `ImportBatch` | the data import, driven by one client: state, one action per write or transaction, properties, invariants |
| `MCImport` | the row values used by the run |
| `ImportBatchProofs` | theorems about it |
| `RowEdits` | PATCH_ROWS of several clients on one batch, statement by statement |
| `MCRowEdits` | the symmetry used by the run |
| `Mutations` | the generated mutations of a model with a reverse relation |
| `MCMutations` | the requests and foreign keys used by its runs |
| `JobLifecycle` | abstract specification: what a poller of any background job may see |
| `Tasks` | a background task, implements `JobLifecycle` |
| `MCTasks` | the progress values used by the run |
| `TasksProofs` | theorems about tasks, including the refinement |
| `AsyncJobs` | an export, Excel or PDF job, implements `JobLifecycle` |
| `AsyncJobsProofs` | theorems about file jobs |
| `Reporting` | one reporting export and the mutations that run it again |
| `ReportingProofs` | theorems about it |
| `Webhooks` | model event webhooks: signal, dispatch, deliveries |
| `MCWebhooks` | the endpoints used by the run |
| `WebhooksProofs` | theorems about them |
| `EventBus` | the security event bus |
| `EventProofs` | theorems about the events told outside: the bus, and the mutations with the change events they announce |
| `RateLimiter` | the fixed window counters and the requests checked against them |
| `MCRateLimiter` | the limits used by the run |
| `VersionedCache` | the permission cache and the query cache |
| `MCCaches` | how often each client asks, for the run |
| `CacheProofs` | theorems about what lives in the cache: the counters of `RateLimiter`, the entries of `VersionedCache` |
| `SchemaRegistry` | the entry, the builders and the cached schema of one schema name |
| `MCSchemaRegistry` | the apps used by the run |
| `SchemaRegistryProofs` | theorems about it |

### ImportBatch

One batch from creation to deletion. `batch`, `staged`/`rows`, `issues` and
`snapshot` are the four database models; `pc`, `work` are the position of the
editing client's request and the Python objects it holds; `target` is the set of
matching keys in the target model, and `Elsewhere` is the rest of the application
creating and deleting such records. Two variables are history: `written`, the rows
whose current normalized values are in the target, and `halfway`, that a worker
died between two writes that belong together.

| Request | Actions, in order |
|---|---|
| `createModelImportBatch` | `Upload`, `Parse`, `LookUp`…, `Stage`, `Recount`, `Review`; or `Upload`, `ParseFails`, `SaveFailed` |
| `PATCH_ROWS` | `PatchRows`, `ReadTouched`, `LookUp`…, `Revalidate`, `Recount` |
| `VALIDATE` | `Load`, `LookUp`…, `Validate` |
| `SIMULATE` | `Load`, `Simulate` |
| `COMMIT` | `Load`, `CheckSnapshot`, `CompareTimes`, `ReadRows`, `WriteRow`…, `FinishCommit`; or, when `ReadRows` refuses or after `WriteFails`, `RecordFailure`, `SaveFailed` |
| `deleteModelImportBatch` | `Delete`; a request overtaken by it ends in `Lost` |

An action is one autocommit write or one database transaction: the issue of a
failed commit and the status FAILED are two, for example, and the two reads of the
commit gate as well. A request ends between any two of them in `Crash`, and `Delete`,
which any client may call, comes between any two. A transaction that looks at the
target model or writes it row by row has a step per row, because at READ COMMITTED
other transactions are visible to its later statements; what a commit has written
so far is `Created`, visible to itself, and `Held` keeps other writers waiting.

The editing client waits for each answer before it sends the next request. With
several of them the transactions of revalidations interleave, and that is `RowEdits`.

Abstractions: a row's values are its matching key and a *fate* (`good`; `bad`:
validation finds an error); that only the database refuses a value is `WriteFails`,
possible for any row. A counter is the set of rows counted. `updated_at > executed_at`
is the flag `changed`, as timestamps are only compared with the latest snapshot.
Only ERROR issues are modelled, because warnings decide nothing. `KeyStored` tells
the two ways commit_batch treats a matching key: kept when a record is created, or,
if the key is the primary key, stripped from the new record; the run takes the
first, the theorems cover both.

### RowEdits

Clients that PATCH the rows of one staged batch at the same time. `rows`, `issues`
are what is committed; a transaction's own writes are in `work[c]` until it commits,
`holder` is who has each row locked. `Begin`, `LockRow`, `SavePatch` are
`patch_import_rows`; `Reread`, `SelectIssues`, `DeleteIssues`, `SaveRow`,
`CountIssues`, `WriteStatus` and `Commit` are the statements of
`validate_patched_rows` and of `sync_row_issue_state`, which ends it and writes the
status of every row of the batch. A DELETE at READ COMMITTED selects first and waits
for whoever deletes the same rows, hence its two steps. `Abort` ends an open
transaction, by a crash or because the database resolves a deadlock.

`disturbed` and `mixed` are history: the rows patched under a revalidation that had
read them already, or whose revalidation was aborted; and whether the latest
revalidation overlapped another. They are exactly the cases in which the code loses
an edit or leaves a wrong status; the properties say that it happens in no other
way and that the next undisturbed request repairs it.

### Tasks

One task: `request` is the mutation that creates the row and asks `on_commit` to
call `_enqueue`; `row` is the `TaskExecution`; `message` is what the
backend holds; `pc`, `attempts` are the executor's position and local counter in
`_execute_task`. Each action is one update of the row and the Python code up to
the next. `Crash` kills the executor between any two; `StoreRaises` and
`UpdateRaises` are errors of the database inside and outside the `try` block;
`Unacked` says what each backend does with the message then. `expires_at` is
`never`, `later` or `past`.

The mutation opens no transaction itself, so `transaction` is its caller's:

| `transaction` | what `on_commit` does | actions |
|---|---|---|
| `atomic` | registers `_enqueue` | `Create`, `Commit`, `Enqueue`, or `Rollback` |
| `autocommit` | calls it; what it raises is caught, and it is called again | `Create`, `EnqueueAgain` or nothing, `Enqueue` |
| `manual` (autocommit off, no atomic block) | raises, so that it is called at once | `Create`, `Enqueue`, `Commit` or `Rollback` |

In the third the executor may start before the commit, or for a row that is rolled
back; its updates then match no row (`Visible`, `Stored`).

### AsyncJobs

One job: `entry`, `payload` and `expires` are three lifetimes counted down by
`Tick` (the cached job, the cached payload, and the job's own `expires_at`);
`worker` walks through `run_export_job`, `_run_excel_job` or `_run_pdf_job`, with
`update_job` as two steps (`GetForUpdate`, `SetUpdated`); each viewer is one
request to a status or download view. The three workers share one skeleton and
`kind` selects what differs: only exports report progress, only Excel and PDF
jobs notify and can fail outside their `try`.

### Mutations

One generated mutation at a time, as the sequence of statements `todo` it runs in
its transaction, over roots (the model) and items (the model behind a reverse
foreign key). `Plan` and `Relations` build that sequence from the request, in the
order of the code; a statement that needs an instance is two actions, `LookUp`
and `Save` (or `Delete`), so that `Elsewhere`, any other transaction, comes
between reading and writing. `tx`/`dirty` are what the transaction has written,
`View` is what its own queries see, `db` what is committed.

`Refused` and the look-ups make any statement fail; `RollsBack` collects what the
except clauses of the pipeline, bulk and method mutations do with each kind of
failure. `events` are the on-commit callbacks of `post_save` and `post_delete`;
after the commit they move to `outbox`, and `Dispatch` sends them one by one to
`mirror`, a subscriber or webhook receiver that applies what it is told. `silent`
is a history variable, the records whose latest change no event tells: changes of
others, `handle_set`'s queryset update, and deletions whose instance lost its
primary key before the event was sent.

The data of a record is its foreign key; other fields are saved with it and
change nothing. `schema` is the items' foreign key, chosen at the start.

### Reporting

One `ReportingExportJob`. `row` is the row as committed, `locked` as the
transaction wrote it that holds its lock (`holder`), `copy[a]` what actor `a` has
loaded or built: `run_export` works on an instance and saves some fields of it.
The creator (`create_report_export` of the studio, or the export action of a
schedule) runs in autocommit, so `Save` shows each of its saves; a runExport
mutation is `@transaction.atomic`, so its first save locks and `Commit` shows all.
`Start`, `Build`, `Render`, `Store`, `Finish` and `Fail` are the statements of
`run_export`; `Refuse` is its owner check, which a schedule's job never passes;
`Record` is the schedule writing down the error. `disk` is the storage, where
every save makes a new file. A payload or a file is the version of the data it
shows.

### Webhooks

One instance saved a few times in a transaction with a savepoint. `Save` is
`post_save`, which registers a callback in `hooks`; `EndSavepoint` drops those of
a rolled-back savepoint, as Django does, but leaves `memory`, the fields of the
Python instance. After `Commit` each callback is `Build` (the payload, once for
all endpoints), then one of `Skip`, `Inline`, `Submit`, `Handle` or `Raise` per
endpoint, by `async_backend`. A delivery is a record in `pool` (waiting) or
`active`; each attempt is `Settle` or `Retry`, and either may have been accepted
by the receiver. `over` is a history variable: the pairs of event and endpoint
for which no attempt will be made any more.

### EventBus

`Emit` is `emit`: a place in the bounded `queue`, or nothing when it is full, or
without `async` a dispatch in the emitting thread. `Loop`, `Take` and `Done` are
a round of `_process_loop`, `Stop`, `Joined`, `JoinTimeout` and `Flush` the steps
of `stop()`. Any thread inside `_dispatch` holds its event in `hand` with the
sink it has come to; `Write` lets the sink write it or raise. Events are numbered
in the order of `emit`, so order is comparison. `early` and `late` are history
variables: accepted before `stop()`, and whether the worker outlived the join.

### RateLimiter

`counter[r]` is the cache entry of rule `r`, `used[r]` a history variable: the
requests it let through in the lifetime of the entry. A thread walks through the
layers (the HTTP middleware, if installed, then each root field), each of which
calls `check`; `Check` is `_mark_checked`, which lets the second check of one
request pass; `Get`, `Add`, `Incr` and `SetAnew` are the four cache accesses of
`_consume`, between which other threads, `Tick` and `CacheError` come.

### VersionedCache

The two caches have one shape: read the version, look up a key made from it,
compute, store, and on a change give out a new version. `kind` selects what
differs: the permission cache's version is itself an entry that expires and
starts again from 1, and a user object remembers permissions (`memo`); the query
cache's is a uuid in memory, and `optimize_query` reads it a second time for the
key it stores under (`Stamp`).

Every access to the permission version is a step: `Key` reads it, `KeyMissing`
finds none and `SetFirst` then writes 1, whatever it has become since; `Invalidate`
is the `incr`, which `IncrFails` on a missing version, and then `GetVersion` and
`SetNext`. A change is `Change`, one or more invalidations (signals do not wait for
the commit), then `Commit` or `Rollback`; changes follow one another. Data, answers
and results are the number of the change they reflect. `why` is a history field
saying how an answer came to lie under a version newer than itself: `memo`,
`uncommitted`, `reread`, `restart`, `overwrite` (a write of the version that came
late), or `none`.

### SchemaRegistry

One schema name. `entry` is its `SchemaInfo`, `current` the number of the
builder in `_schema_builders`, `builder[b]` what that object holds, `modelCache`
and `cache` the registry's two caches. A schema is told apart by its builder and
build, and contains a set of models. `origin` is what discovery registers under
the name (an app, the database or the settings, the last if `listed`), or nothing
if code of the project registered it; `initialized` is `_initialized`, and `others`
that the other schemas of the settings are registered.

| Code | Actions, in order |
|---|---|
| `_get_schema_info` of the GraphQL view, `discover_schemas` | `Survey`; `Scan`, `Enter` or nothing, `Mark` if nothing is discovered; `Lookup`; for a missing schema of the settings `Clear`, `Arrive` and the same again, once |
| `get_schema_builder` | `Begin`, then `Create` or nothing, `Fetch` |
| `get_schema_instance`, `get_schema` | `Check` (the cache), `Peek` (is there a schema?), a build or nothing, `Take`, `Stamp`, `Store` |
| `rebuild_schema` | `Lock`, `Discover`, `Memo`, `Generate` or `GenerateFails`, `Count` |
| `_register_schema_in_registry` | `Look`, `Record` |
| the REST API | `Register`, `Switch`, `Unregister`, `UnregisterOther`, `ClearAll`, `ClearBuilders` |

A GraphQL request is a survey and then calls of `get_schema_builder` and
`get_schema_instance`; nothing is handed from one to the next, so they are separate
calls of one thread. Everything that triggers a rebuild (`refresh_schema`,
`register_app`, model and migration signals) is a call of kind `rebuild`. History
variables: `settled` is the entry as the administrator or a discovery left it, if
no other call was in progress then; `overlap` and `sound` say that a call which
stored an instance met a build, a removal or a second builder on its way.

### JobLifecycle

`queued → running → ok | failed → gone`, with `Fail` also from `queued`,
`Vanish` from everywhere, and `Revive` only if the executor may be run again.
`Succeed` comes from `queued` only if the executor may begin `early`, before others
see the job. `Tasks` maps `reruns` to "the backend redelivers, or the database raised
under the executor" and `early` to a transaction managed by hand, `AsyncJobs` maps both
to FALSE: a file job never takes an outcome back, and its worker begins after its entry
is stored.

## Runs

| Run | Question | Bounds |
|---|---|---|
| `ImportOneClient` | Do the promises of the import hold for the client that edits a batch? `StatusFollowsIssues`, `StatusIsEarned`, `CommitsWhatWasSimulated`, `AllOrNothing` | 2 rows, 1 key, 3 kinds of value, 6 requests, crashes, deletion at any time |
| `RowEdits` | Which edits and statuses survive clients that patch at once? `NoPatchLost`, `StatusRepaired` | 2 clients, 2 rows, 2 good values and a bad one, 3 requests, aborts at any time |
| `Tasks` | Does a task start only once committed, does its outcome follow from its attempts and stay, does it end? `RunsOnlyCommitted`, `OutcomeIsEarned`, `ObeysLifecycle`, `TaskSettles` | three backends, three kinds of transaction, 2 retries, 2 faults |
| `AsyncJobs` | Files, lifetimes and the lifecycle of a job | 2 viewers, lifetime 2, 2 reports, all kinds, crashes |
| `Mutations` | Do relations end up as asked, are roll-backs whole, do events tell the truth? `LinksAsAsked`, `FailureRollsBack`, `MirrorFollows` | 2 roots, 2 items, every consistent database, 3 foreign keys, 1 mutation, 1 other transaction |
| `MutationFailure` | `FailedMutationWritesNothing` is violated (finding) | no other transaction |
| `Reporting` | Does a COMPLETED export show the file of its payload, is RUNNING attended, does it end? `CompletedFileMatchesPayload`, `RunningIsAttended`, `ExportEnds` | the creator and 2 runExport mutations, 2 versions of the data, 1 fault |
| `Caches` | Which answers are stale, and does staleness end? `StaleHasCause`, `StalenessEnds` | 2 clients, one of which asks twice, lifetime 2, 1 change with 1 invalidation |
| `RateLimiter` | How far can a limit be exceeded, and does a window end? `WindowBounded`, `WindowEnds` | 2 threads, 2 rules with limits 3 and 2, window 2, 2 fields, with and without the HTTP middleware |
| `EventBus` | Order, duplicates and losses: `AtMostOnceInOrder`, `EventsHandled` | 2 emitters, 2 sinks, queue of 2, 3 events, with and without the worker |
| `Webhooks` | What do receivers learn, and do deliveries end? `OnlyCommittedOnce`, `DeliverySettles` | 2 endpoints, 1 retry, pool of 2, 2 saves, three backends, crash |
| `SchemaRegistry` | Is the cached schema the current one, and do an administrator's decisions stand? `CacheIsSound`, `DecisionsStand` | 2 threads, 2 models, an app per model, every origin of the entry, 2 calls, any number of surveys, 2 decisions |

Each passing run except `RowEdits` also checks the `TypeOK` of its
module. `Mutations` and `VersionedCache` carry a prefix on the names every
specification has (`MutationTypeOK`, `CacheSpec`), because each shares a proof
module with another one.

Why the bounds are enough. Import: two rows are needed for a duplicate key and for a
commit that fails after its first write; a shortest batch is create, simulate, commit,
so six requests leave room for a failed cycle followed by another. One key is enough
for "exists or not" and for duplicates, and keyless rows are always creates. Row
edits: three requests give two that overlap and one that repairs what they left, or
finds what it should not; two good values tell an older edit from a newer one; two
rows let two clients wait for each other. Tasks: the attempts repeat one loop; two
retries give a first, a middle and a last attempt, and two faults let a redelivered
execution fail again. File jobs: a lifetime of two ticks separates "just set", "about
to end" and "ended", and two viewers let one clean up under the other. Mutations: one
request starts from every consistent database of two roots and two items, so it meets
all that earlier ones could leave; two items give a kept and a removed link, or a
first write and a later failure; one other transaction fits between any two
statements. Reporting: two runs and the creator let a run wait for the lock while
another works and the creator saves; two versions tell an older payload from a newer
one. Caches: a client that asks twice meets what the first question left, the second
client supplies the entry it finds; with a lifetime of two, an entry outlives the
version it was stored under. Rate limiter: two threads meet at every pair of accesses;
two rules with different limits let the first charge a request that the second
refuses; a window of two ticks ends at any access; the theorem covers the rest. Event
bus: three events overfill a queue of two while the worker holds one. Webhooks: two
endpoints give "the next one" and "the last", two saves a rolled-back one and a kept
one, one retry a first and a last attempt. Schema registry: two calls give two
builders, or a build and a request that reads under it; two decisions give one to be
undone and one that crosses a build or a survey; two apps of one model each tell the
edited entry from the old one.

Deadlock is checked in `ImportOneClient` and in `Caches`, `RateLimiter` and
`EventBus`, where somebody can always write, ask or emit. It is switched off in
the others, whose systems really end: a task, a file job, a mutation, an export
or the deliveries of a transaction are over; in `SchemaRegistry`, where the
bounded calls and decisions are used up; and in `RowEdits`, where the requests are.
(Two clients of `RowEdits` that wait for each other are no deadlock of the model, as
the database aborts one of them.)

The bounds in guards are `MaxRequests` (requests served), `MaxFaults` (faults
of processes and of the database, in `Tasks` and `Reporting`), `MaxReports`
(progress reports), `MaxRaces` (other transactions during one mutation),
`MaxVersion` (versions of the data reported on), `MaxChanges` and `MaxBumps`
(changes, and invalidations per change, in the caches), `Checks` (questions per
request), `Fields` (root fields of a query), `MaxEvents` (events told apart),
`MaxSaves` (saves of the instance), `MaxCalls` (calls for a schema) and
`MaxDecisions` (acts of the administrator). `MaxRetries`, `MaxWorkers`, `QueueSize`,
`Limits`, `Window` and `Ttl` are settings of the code.

## Fairness

`Tasks`. `WF(Enqueue \/ Refuse)`: Django runs on-commit callbacks in the process that
committed; if that process dies or the broker raises and nobody catches it, that is
`LoseRequest`, which disables them. `WF(Execute)`: a backend delivers what it has, an
executor keeps executing, and the callable ends (the code sets no time limit, so this
is an assumption about callables). Nothing is assumed about faults, progress reports,
commits or expiry. `TaskSettles` therefore says: a task handed over after its commit
ends, or its message was lost, which a Dramatiq message never is: it always leads to
an outcome.

`Reporting`. `WF(Step(a))`, `WF(Commit(r))`, `WF(Record)`: a process that does
not die runs on, and one that waits for the row's lock gets it, since each
transaction ends. Faults, deletions and new requests are not fair.

`VersionedCache`, `RateLimiter`. `WF(Expire)`, `WF(Tick)`: time passes; and `WF(Ask(c))`: a
request under way runs on. Nobody has to ask.

`EventBus`. `WF(Work)`, `WF(StopOn)`, `WF(Write(d))` of each emitter: a thread
that runs goes on. Nobody has to call `stop()`, and the join may time out at any
moment or never.

`Webhooks`. `WF(Dispatch)`, `WF(Begin)`, and weak fairness of the deliveries
taken together: the committing thread and the workers go on; a delivery has
bounded attempts, so none of them can hold back another for ever.

`ImportBatch`, `RowEdits`, `Mutations`, `SchemaRegistry` and `AsyncJobs` have no
liveness property: clients and administrators owe the code no further request, and
nothing supervises a file job's worker, so a job may stay "running" until it expires.

## Proofs

All theorems hold for every value of the constants that satisfies the named
`ASSUME`s of the component module. Each rests on an inductive invariant, of which
the parts are named below.

**Import** (`ImportBatchProofs`). `TypeCorrect` by induction.
`RowStatusIsSound` needs `RowIssuesPlaced`: a commit deletes issues of stage
COMMIT without recomputing statuses, which preserves `StatusFollowsIssues` only
because no issue of that stage ever points at a row. PATCH_ROWS, VALIDATE and
staging end in `Synced`, for which a lemma states that statuses follow the
issues given. The other three need `RequestInv` and `GateInv`. `GateInv` says
what an open gate (`Committable`) implies: no row is INVALID, and the snapshot
names the VALID rows that will be written. `RequestInv` ties the request's position
to the batch: in particular a request past the gate still sees the gate open, which
is what a second editing client would break. `StatusesAreEarned`,
`CommitFollowsSimulation` and `ImportsAllOrNothing` follow; for the last, of all
steps that end a commit only `FinishCommit` changes the target (`CommitLeaves`).
The theorems are about the model's one editing client and hold whatever is deleted,
dies or changes elsewhere meanwhile.

**Tasks** (`TasksProofs`). `TaskInvariant` proves `TypeOK`, `MessageInv` (where
message and mutation are tells whether row and executor exist), `AttemptInv`
(where the executor is tells what it stored of its attempt), the three safety
properties and `FirstRunInv` (without reruns an executor under way has no
outcome yet). Where the mutation's transaction is managed by hand, `Unseen` says
what an executor has stored of a row it could not see: nothing. `FirstRunInv` is what
the refinement needs: `TaskObeysLifecycle`
maps every step to a step of `JobLifecycle` or a stutter.

**File jobs** (`AsyncJobsProofs`). `LifeInv`: the job's own expiry comes no later
than the cache entry's, nobody works or looks before the job is accepted, and a
view that cleans up saw it expired. `WorkerInv` ties the worker's position to its
file. `SettledInv`: wherever "completed" is said, in the entry or in the copy a
view holds, the worker is past writing and the file is kept while the job lives.
`EntriesOutliveExpiry`, `CompletedJobsHaveFiles` and `DownloadsAreWhole` follow.
For the refinement `JobObeysLifecycle`, `CurrentInv` adds that until `expires_at`
the status in the entry says where the worker is, and that a worker between its
get and its set holds the current job: nobody else updates a job once its id is
out. Then every step is a step of `JobLifecycle`, seen through `Phase`, or is not
seen (`StepMoves`); after `expires_at` no step is.

**Reporting** (`ReportingProofs`). The invariant says who holds the row's lock
and where, that `locked` differs from `row` only under the lock, and which file
each copy names; then every file an actor is about to save, and every file in a
COMPLETED row, shows the payload saved with it.

**Event bus** (`EventProofs`). `QueueInv` and `HandInv`: each event is in one
place only, and what is in hand is older than what is queued. `TouchedInv`: a sink
that was called with an event in hand is behind the dispatcher. `TurnInv`: unless
the worker outlived the join, worker and `stop()` do not dispatch at once, so
(`OrderInv`) what was written is older than what is in hand.

**Mutations** (also there), for any finite requests over any records. No induction
over a plan is needed: what a theorem must know of the statements still to run is
the set of records asked for by each kind (`Asked`) and that kinds come in the order
of their `Rank`. `PlanSound` establishes both for every plan the code builds, from
lemmas about concatenation; `AskedOfTail` and `PartOfTail` keep them when a
statement is done. On this rest

* `StateInv`, for `MutationTypes`: `View`, what the transaction sees, is consistent
  as well as `db`. It needs that a save is accepted only if the root it refers to is
  seen, that nothing is unlinked or detached unless the foreign key may be null, and
  for `Elsewhere` that a root which an open transaction refers to stays;
* `PlanInv`: what is left of a create or update still comes by rank, so that an
  unlink has its `nullable` behind it, and `existing` comes before its `detach`. A
  plan in another order breaks it, as the run's mutant does;
* `LinkInv`, for `LinksFollowTheRequest`: the items that will be linked when the rest
  of the plan has run (`Final`) are those promised, from `Begin` on. Each statement
  moves an item from what is asked to what is seen, and never changes `Final`;
* `EventInv` and `MirrorInv`, for `EventsTellTheDatabase`: the latest event of a
  record written says what was written, unless the record is in `quiet`; after the
  commit, the latest event on its way, or else the mirror, says what is in `db`;
* `AloneInv`, for `FailuresRollBack`: a `delete` is its only statement, so the
  failures after which the pipeline commits have nothing to commit. For the other
  kinds the property follows from `RollsBack`, read in every step that can fail.

The steps are first put into eleven forms (`Ways`): every failing branch of every
statement is one form, `Ended`.

**Webhooks** (`WebhooksProofs`). `HooksInv`: callbacks wait in the order of their
saves, and once the transaction is dispatching they are of committed saves.
`CarriedInv`: whatever waits in the pool, is under way or was received for an
event is of a committed save, older than the callbacks that still wait, and
carries the one payload built for it. `WebhookTypes` must count, because the
handler's fallback hands an event out a second time: of the deliveries of one event
to one endpoint at most two are ever made (`QueueInv`, `FreshInv`), those under way
bound how often it was received (`BoundInv`), and a worker has one delivery at a
time (`WorkersInv`).

**Rate limiter** (`CacheProofs`). `CountInv` counts threads: while a counter
lives, its count plus the threads about to raise it is at most the limit plus
N - 1, and the requests let through plus the threads about to `add` are at most
the count plus N - 1. The two together are `WindowBounded`. The proof needs
`PlaceInv` (what a thread read left room for it, which bounds the count that the
fallback starts a new window with) and lemmas about the cardinality of sets of
threads that differ in one member.

**Permission and query caches** (also there). `BookInv` orders the numbers given out:
nothing is stored or looked for under a version that does not exist yet. `CurrentInv`:
what lies, or is about to be put, under the current version without an excuse (`why =
"none"`) knows of every change announced, and there is no such thing while a
transaction that has invalidated has not committed. `ReaderInv` says the same of the
key a request holds, which may be an old one by now, for the changes announced before
the request began. `StaleAnswersHaveCauses` follows. The proof goes through every step
that writes: a new version is empty, a number given out again excuses what lies under
it and the later ones, and the five ways a stale answer gets under a newer version are
exactly the steps that set `why`.

**Schema registry** (`SchemaRegistryProofs`). `TypeInv` carries the locks: only
the holder touches its builder's schema, models and version. `StandingInv` says of
a call that overlapped with nothing that it builds with, or holds the schema and
version of, the current builder; `CacheInv` that what such a call stored is of a
version that a later build leaves behind before it lets the lock go.
`CachedSchemasAreCurrent` follows. For `AdministratorsDecide`, the invariant follows
the settled entry through everything that copies it: the model cache, the models of a
builder, and the entry a build read before it writes it back. What is settled stays so
while others only survey, since a survey writes the entry in `Enter` and `Clear` alone,
which settle it anew; and a schema that was removed has no builder and no call, so that
nothing else can bring it back.

**Only model-checked.** `RowEdits` with `NoPatchLost` and `StatusRepaired`. Liveness,
which is out of the prover's reach: `TaskSettles`, `ExportEnds`, `EventsHandled`,
`DeliverySettles`, `WindowEnds` and `StalenessEnds`; and that the one violation
(`MutationFailure`) is reached. Every other property of a run is the subject of a
theorem.

## Assumptions

* The database runs at READ COMMITTED, a statement is atomic, and
  `ATOMIC_REQUESTS` is off (the default), so `@transaction.atomic` services are
  the transactions.
* A cache `get` returns a copy, an expired key is not found.
* A batch is edited by one client at a time, except in `RowEdits`, which has no other
  requests than PATCH_ROWS.
* A broker that raises has not accepted the task; in autocommit `_enqueue` is then
  called a second time, and would hand over an accepted task twice.
* A file job's worker is started at most once.
* In `Mutations` requests are served one after the other, and all other writers
  are `Elsewhere`; a row written by an open transaction is locked, and a root it
  refers to cannot be deleted; a request names finitely many records, and one that
  combines `set` with another operator is refused before it begins
  (`generators/pipeline/utils.py:183`); an error inside `save()` or `delete()` marks the
  transaction for roll-back (Django's `mark_for_rollback_on_error`), and `save()`
  of a row that was deleted inserts it again.
* A user's callable reports progress only while it runs.
* The Django cache is shared by all threads, and each of its operations is atomic
  (`incr` of a local-memory, Redis or Memcached backend). Permissions of one user, or
  the data of one query, are changed by one request at a time.
* In `SchemaRegistry` the settings of a schema name no app that registers a schema of
  the same name, and a removed schema's row in the database is not removed with it
  (the REST API changes the registry alone); `DEBUG` is off (with it
  requests skip the instance cache).
* In `Reporting` the storage gives every file a name of its own, and the first
  save in a transaction takes the row's lock until its end.
* In `Webhooks` every save uses the same instance, as nested writes and signal
  handlers of one mutation do; distinct instances are distinct copies of the
  model. The signals come inside an atomic block, where `on_commit` does not raise, so
  that the fallback of `webhooks/signals.py:58` is not taken.
* `EventBus` is one bus. `get_event_bus` creates it without a lock, so that two first
  callers could each get their own.

## Findings

1. `MutationFailure`: a create or update that fails validation half way answers
   `ok: false` and commits what it had written.

### Observations

Behaviour of the code met while modelling that a maintainer may want to know.
The models contain it; no document promises otherwise, or the promise is too
vague to refute, so there is no run for it.

* Import, several clients: the commit gate (`schema/mutations.py:345`) is not in the
  commit's transaction (`services/commit_service.py:80`), so a COMMITTED batch may hide
  a row that another client patched in between and that was not imported; likewise a
  simulation may not see a patch that began before it, and a commit that fails late puts
  FAILED over another's COMMITTED. `validate_patched_rows` reads rows without a lock
  (`services/row_validator.py:286`) and may put an older edit's normalized values over a
  newer one's; `sync_row_issue_state` counts and saves apart (`:203-210`), so that a VALID
  row may have an ERROR issue until the next revalidation, and the counters follow the
  last to count. Two clients that revalidate different rows of one batch may deadlock,
  since each then writes the status of all rows.
* Import, crashes: a worker that dies between PATCH_ROWS and its revalidation, or loses
  a deadlock there, leaves rows VALID with the values of before the edit, and a
  simulation and commit write those; one that dies between the issue of a failed commit
  and its status (`schema/mutations.py:376-386`) leaves SIMULATED beside an ERROR issue.
* Import: PATCH_ROWS leaves PARSE issues, so a row rejected while parsing stays
  INVALID whatever it is patched with (`importing/services/row_validator.py:287`);
  VALIDATE reports VALIDATED while a batch level issue of a failed commit blocks
  every simulation (`dataset_validator.py:97`); a second COMMIT finds no VALID row
  and sets `committed_rows` to 0; COMMIT, VALIDATE, SIMULATE, COMMIT imports rows
  without a matching key twice.
* Tasks: in a transaction managed by hand `on_commit` raises, and the except clause
  (`tasks/mutations.py:198`) starts the executor before the commit: the task may run
  although it is rolled back, or stay PENDING for ever because its updates found no row.
* File jobs: a finished Excel or PDF job whose entry expired notifies `pending`
  (`excel/jobs.py:295`).
* Mutations: `disconnect` takes an item away from another root
  (`nested/handler.py:504`).
* Reporting: a run that built its payload earlier may overwrite a newer COMPLETED
  export; a scheduled export has no owner, so `run_export` always refuses it, the
  job stays PENDING and the schedule says FAILED (`schedule.py:270`); a rolled-back
  run leaves its file in the storage.
* Caches: the five causes named in `Causes`; in particular an invalidation by a
  signal inside a transaction lets another request store the old permissions
  under the new version before the commit, and a request that found no version sets
  1 over one that was bumped meanwhile (`rbac/manager.py:410`).
* Rate limiter: the second check of a refused request passes; the fallback after
  a failed `incr` starts a new window with the old count; an `add` that loses the
  race is not counted; earlier rules are charged for a request a later one
  refuses.
* Event bus: after the join has timed out, `stop()` and the worker dispatch side
  by side; events emitted after `stop()` stay in the queue.
* Webhooks: the payload is built from the live instance, which may hold values of
  a rolled-back savepoint; a custom handler that raises after it delivered makes
  the event arrive twice; an error while handing over drops the endpoints that
  follow; the pool may deliver events out of order.
* Subscriptions: the consumer (`subscriptions/consumer.py:84`) passes the context
  as a dict, while the generated resolvers ask it for attributes
  (`generators/subscriptions/generator.py:236`) and therefore always answer None:
  no operation joins a group.
* Schema registry: a GraphQL request for a schema of the settings that is missing clears
  the registry and discovers everything again
  (`graphql/views/multi_schema/view.py:416`): what an administrator changed in any schema
  through the REST API is undone, a schema he removed or disabled is back, and a build
  under way may write an entry back that has gone; of two such requests at once one may
  find the registry empty and answer 404. (The module
  `graphql/views/multi_schema.py` is shadowed by the package of that name, and with it
  the `_get_schema_info` of `mixins.py`, which only it uses.)
* Schema registry: the version is read after the schema (`core/registry/builders.py:90`), so
  a request that overlaps a build may store None or the old schema under the new
  version, and it is served until the next build; two threads may each create a
  builder, and the version starts again; a build writes back the entry it read
  (`core/schema/registration.py:151`) and undoes an edit, a disabling or a removal
  made meanwhile; models found before an edit are written into the edited entry
  (`core/registry/registry.py:267`); an entry whose apps and models have nothing in
  common gets all models; editing an entry leaves its builder with its old
  settings; `register_mutation` (`core/schema/extensions.py:360`), documented in
  `docs/core/mutations.md:308`, has no effect, since the rebuild it starts resets
  what it registered.

## Not modelled

Most of the repository's code constructs or describes: the generators of GraphQL
types, filters and resolvers, the metadata extractors, the report, Excel and PDF
renderers, the views, the settings, the migrations and the scaffolding compute an
output from their input, once or per request, and have no state that steps of two
actors could leave inconsistent. Their lines are the larger part of the source, which
is why the models stand for a small share of it. In detail:

* rendering, formatting, file parsing and type coercion: pure functions;
* type, query and filter generation, metadata: static construction from the models;
* authentication, query limits, input validation, attribute policies: decisions
  about one request, without steps of their own (the permission cache, which has
  them, is in `VersionedCache`);
* other views, middleware, metrics, health, settings, multitenancy, plugins, saved
  filters, management commands: no state that decides anything later;
* persisted queries: an entry is immutable once stored.

Within modelled components: the `sync` and django_q task backends; the task
subscription, whose field is never registered; redelivery of file jobs; warnings
of the import and its CSV error report; many-to-many and forward relations of
mutations (the same operators on another field) and non-atomic methods; the
WebSocket consumer of subscriptions, in which no operation joins a group as the
code stands (see Observations); VALIDATE, SIMULATE and COMMIT of several clients at
once (see Observations for what they can do to each other); what a schema contains per
model, the settings of builders, the admin page, which saves the database row as well,
snapshots and `AutoSchemaGenerator` of the schema registry;
the datasets, query engine and catalogue of
reporting; the login context and the identifiers of the rate limiter; the work
inside the sinks of the event bus; the selectors, redaction and signatures of
webhooks, abstracted to whether an endpoint is addressed.

## Plan

In order of importance:

1. `NoPatchLost` and `StatusRepaired` as theorems, and the other requests of the import
   in `RowEdits`.
2. Liveness of `SchemaRegistry`: a build that was asked for takes place.
3. The rotation of refresh tokens (`extensions/auth`), whose store is a cache.
4. The `sync` task backend, inside the mutation's transaction.
