# A formal model of AgentSeek API

AgentSeek API serves LangGraph graphs over HTTP: clients create threads and
start runs on them; runs execute in the API process (*inline*) or in worker
processes behind a Redis queue; their events are kept in durable streams.
This directory holds TLA+ models of the parts whose behaviour is hard to test,
TLC configurations that check them on small instances, and TLAPS proofs of
what matters most for instances of any size.

Paths below are relative to `src/src/agentseek_api/` unless they start with
`docs/` or `tests/`.

## 1. The system

| component | state it keeps | operations | talks to |
|---|---|---|---|
| run preparation (`services/run_preparation.py`, `api/runs.py`, `api/stateless_runs.py`) | rows of `threads` and `runs` | create, resume, cancel one or many, delete; submit to an executor, compensate a failed submission | SQL, Redis queue |
| dispatch fence (`services/run_dispatch.py`) | `execution_id` (the generation), `execution_owner`, `execution_lease_until`, `dispatch_payload` of a run | register a generation, claim it, renew its lease, find abandoned ones and queue them again | SQL, executor |
| terminal delivery (`services/terminal_delivery.py`) | `terminal_result`, status `terminal_pending`, table `stream_cleanups` | store an outcome, append its envelopes, apply it, release the delivery markers, retry all that | SQL, Redis streams |
| Redis queue (`services/redis_queue.py`) | pending list, processing list, worker lock | enqueue, reserve, ack, requeue, contains, acquire/renew/release | Redis |
| worker (`worker.py`, `services/run_jobs.py`) | lock, slots with a job each | start, requeue, reserve, execute, ack, drain, exit | queue, SQL, streams, graph |
| inline executor (`services/executor.py`, `services/run_executor.py`) | one task per run | execute in the API process; outcome and end records in one transaction | SQL, graph |
| stream log and buffer (`services/stream_persistence.py`, `services/stream_event_buffer.py`) | sequence numbers, records, batch in memory | stage, flush, trim, append to Redis under an operation marker | SQL, Redis |
| protocol outbox (`services/redis_delivery.py`) | `stream_deliveries` rows | append a pair, drain in order, reconcile | SQL, Redis streams |
| readers and brokers (`services/run_state.py`, `api/streaming.py`, `services/thread_protocol.py`) | subscribers, records in memory, cursors | publish, prune, replay, follow | streams |
| cron scheduler (`scheduler.py`, `services/cron_scheduler.py`, `services/cron_webhooks.py`) | `cron_jobs`, `cron_ticks`, scheduler lock | claim due crons, reclaim stale ticks, dispatch, reconcile, deliver webhooks | SQL, Redis lock, run preparation, HTTP |
| threads, assistants, store (`api/threads.py`, `api/assistants.py`, `api/store.py`, `services/thread_service.py`, `core/runtime_store.py`) | their tables and checkpoints | create, copy, update, delete with cascade | SQL, checkpointer |
| A2A and MCP servers (`a2a_server.py`, `mcp_server.py`) | A2A task records in memory, a queue per stream | send or stream a message, look up and cancel a task; call a graph as a tool | graphs (directly, without runs) |
| process supervision (`process_supervisor.py`, `runtime_entrypoint.py`, `cli.py`) | child processes, process groups | start, watch, terminate, kill after a grace period | OS |
| environment, secrets, containers (`environment.py`, `dotenv_adapter.py`, `secure_temp.py`, `container_*.py`, `docker_runtime.py`) | files, containers | compose, render, validate, run | file system, Docker |
| wiring (`main.py`, `core/*`, `models/*`) | engine, settings, middleware | start, migrate, authenticate | everything |

### What is hard, and what correctness means there

- **Runs.** Requests, two or more workers, reconcilers in *every* process, and
  a worker lock that may expire under its holder all act on the same rows and
  streams. The row's generation, owner and status have to fence every write.
  Correct means: one unfinished run per thread; one outcome per generation,
  never replaced and never executed again; streams that announce that outcome
  once and nothing after it; every run reaches an outcome; nothing leaks.
- **Two stores.** An outcome goes to SQL, then to Redis, then to SQL, without a
  common transaction. Correct means that every crash between two of these is
  repaired by a retry that repeats nothing.
- **Streams.** Batches, cancelled writes, outbox dispatchers that race, readers
  that replay and then follow. Correct means: gapless order, no record twice,
  no end before what it ends.
- **Cron.** Slow schedulers, lost locks, stale ticks, webhooks retried. Correct
  means: a due time starts at most one run, a tick ends with its run, no thread
  is left behind, attempts are bounded.
- **What a graph says.** Concurrent model calls stream chunks with or without
  ids through two protocols. Correct means: an id for each message and no more,
  partials that add up, blocks that nest, an end that tells everything.
- **Processes.** Signals arrive between any two steps, children ignore them and
  fork. Correct means: nothing of the tree is left, no stranger is signalled,
  the first signal decides.
- **Files and containers.** Editors, links and other commands change files
  while they are read, copied and removed. Correct means: an image is what was
  planned, without secrets; private files stay private and are removed, and
  nothing else is.

`PROJECT.json` lists each hazard at its line with the properties that would
catch it, or the reason why none does.

## 2. Modules

### RunRow

One row of `runs` and what each transaction does to it, as operators without
variables. `status`, `owner`, `result` are the columns; `gen` stands for
`execution_id` (a fresh uuid per generation, so its number will do); `cmd` is
the generation whose input or resume value `dispatch_payload` carries; `lease`
is `execution_lease_until` as unset, in the future, or past. `dispatch_state`
is left out: no branch of the code reads it.

| operator | code |
|---|---|
| `NewGeneration`, `Due` | `register_dispatch`, the query of `reconcile_dispatches` |
| `Claimable`, `Claimed`, `OutcomeStored` | the branches of `claim_execution` |
| `OwnsExecution` | `fence_execution_writes` and the heartbeat's renewal |
| `MayFinish`, `MayCancel`, `Staged`, `AwaitsDelivery`, `Applied`, `ThreadStatusOf` | `finish_run`, `_deliver_pending`, `_apply_result` |

### RedisRuns

`EXECUTOR_BACKEND=redis`. Each action is one committed SQL transaction or one
Redis command, so any process may stop, and any other act, between two of them.

| variables | code |
|---|---|
| `row`, `thread`, `intents` | tables `runs`, `threads` (status), `stream_cleanups` |
| `runLog`, `threadLog` | the Redis streams of a run (start and end records) and of a thread (terminal lifecycle records) |
| `marks` | the operation markers that make an append idempotent |
| `queue`, `proc`, `lock` | the pending list, the processing list (as bags of tokens) and the worker lock |
| `worker`, `task` | stage of each worker process and of each of its slots |
| `scan`, `req` | a reconciler between its read and its submission; a request between two transactions |
| `faults`, `losses` | budgets of failures and of lock expiries under a live worker |

- *Requests*: `Prepare`, `Resume` and, where a claim waits, `AwaitClaim`,
  `ClaimLate`, `AwaitResume`, `ResumeLate`; `EnsureDispatch`, `Submit`, `SubmitFails`,
  `Compensate`, `Cancel`, `ReqDeliver`, `Delete`, `DropStream`, `BulkRead`,
  `BulkWrite`, `BulkErase`, `ReqStops`.
- *Workers*: `Start`, `Requeue`, `Reserve`, `Claim`, `Begin`, `GraphReturns`,
  `Renew`, `FencedOut`, `Finish`, `TaskDeliver`, `JobRaises`, `Ack`, `Drain`,
  `Drained`, `LockLost`, `Crash`, `Restart`.
- *Time and reconcilers*: `LockExpires`, `LeaseLapses`, `ScanRead`,
  `ScanSubmit`, `ReconcileDelivery`, `CleanupMarkers`.

Choices worth knowing:

- A token carries generation and command, since a payload can be stamped with a
  generation that is not its own (`EnsureDispatch`).
- `_deliver_pending` holds the row `FOR UPDATE` while it appends; `Deliver` is
  therefore one step, and `DeliverFails` says what a failure in the middle
  leaves: nothing, the first or both appends, and in any case no SQL change.
- `CleanupMarkers` removes markers at once. The code gives the markers of runs
  that still exist a TTL first; removing them earlier is the worst case.
- A transaction is one step: those that read a row to change it lock it. The
  exception is the claim of a thread. Its UPDATE asks for active runs, which it
  doesn't lock, and on PostgreSQL under READ COMMITTED an UPDATE that waited for
  the thread's row keeps that answer from the snapshot it began with. With
  `SnapshotClaims` such a claim is two steps: `AwaitClaim` and `AwaitResume` see
  the snapshot, `ClaimLate` and `ResumeLate` commit. How long a claim waits is
  left open, and the transaction's loads are part of the snapshot.
- `ResumeLate` writes what the flush writes (`Reopened`): the columns that differ
  from what was loaded, over the row as it is by then. Owner and lease, which
  were empty when loaded, stay. One assignment is left out, of the thread's
  metadata: it can only make the transaction fail.
- A restarted worker uses a new uuid. `Restart` reuses an identity once neither
  the lock nor a row remembers it, which no one can tell from a new one.
- `FencedOut` ends the whole worker: the heartbeat cancels the task, and
  `run_worker` raises the `CancelledError` of a finished slot.

### RunContract

The abstract promise: a run is *open*, then *decided*, then *settled* on the
outcome decided; its stream announces only that outcome; only an interrupted
run opens again, as a new generation; a thread has at most one unsettled run.
`RedisRuns!KeepsContract` instantiates it with a refinement mapping from the
rows and streams (`PhaseOf`, `OutcomeOf`, `ToldOf`). The mapping sends
`terminal_pending` to *decided*, hence staging an outcome is the step that
decides, and delivery the step that announces and settles.

### CronScheduler

The scheduler process and what it meets. A round of `dispatch_due_crons` is
scan, webhooks, thread deletion, claim, dispatch of each claim, and a second
scan; each action is one SQL transaction, one HTTP call or one Redis command,
and a scheduler may stop between any two.

| variables | code |
|---|---|
| `cron` | `cron_jobs`: whether it exists, is enabled, is due (`next_run_at` has passed), has ended (`end_time`) |
| `tick` | `cron_ticks`: status, cron, thread, run, `webhook_delivery_status`, and `stale` for an `updated_at` older than the stale time |
| `attempts` | `cron_webhook_attempts`: the highest attempt number of a tick |
| `run`, `thread` | rows of `runs` and `threads`; `long`: `last_error` has more than 64 characters |
| `lock`, `sched` | the scheduler lock; the program counter and locals of each process |
| `posts` | history: what each webhook was told, and how often |
| `faults`, `losses`, `edits` | budgets |

- *Reconciliation*: `Scan`, `ScanFails`, `NextHook`, `Post`, `RecordAttempt`,
  `RecordResult`, `Drop`.
- *Claim and dispatch*: `ClaimDue`, `NextClaim`, `CreateThread`, `CheckThread`,
  `PrepareRun`, `DispatchFails`, `SubmitRun`, `MarkOutcome`, `MarkFails`.
- *Process*: `Acquire`, `NextRound`, `LeaseLost`, `Raise`, `Crash`, `Restart`,
  `LockExpires`.
- *Time and clients*: `ComesDue`, `Ends`, `GoesStale`, `PatchEnabled`,
  `DeleteCron`, `DeleteRun`, `DeleteThread`, `ClientRuns`, `RunStarts`,
  `RunEnds`.

Choices worth knowing:

- Whether a thread is busy is its status, as `_thread_is_busy` reads it;
  `Active` is what `prepare_run` asks. They differ after `DeleteRun`.
- A reservation of a webhook that is taken again assigns the value the column
  already has: no UPDATE is sent and the tick stays stale.
- `contains_run` may answer either way, so `ClaimDue` takes any subset of the
  stale queued ticks whose run is pending.
- Ticks are numbered in the order of `scheduled_for`, and a claim takes any
  choice of due crons of the right number.
- `RunStarts` and `RunEnds` stand for what `RedisRuns` does to a run;
  `ClientRuns` is a run that a client starts on any thread that exists, also on
  the ephemeral thread of a tick, which its webhook names.
- `PrepareRun` and `ClientRuns` look for an active run and claim the thread in
  one step. `RedisRuns` has the steps in between and the claims decided on an
  older snapshot; no property here needs them.
- `Strict` says whether the database checks the length of texts (SQLite does
  not). The liveness run assumes it does not: where it does, an overlong error
  text stops every round (see "Seen in the models").
- `MaxTicks`, `Runs` and `Threads` bound what is created: `ComesDue` keeps a
  tick for every due cron, `ClientRuns` a run for every tick without one.

### RedisDelivery and PairLog

`services/redis_delivery.py` with the append script of `stream_persistence.py`:
the outbox between SQL and the two Redis streams of a run's protocol events.

| variables | code |
|---|---|
| `row` | the run, with `RunRow`'s operators |
| `outbox` | table `stream_deliveries`: an envelope per operation, with the records already known |
| `log`, `mark` | the Redis streams of run and thread; the operation markers, with the number reserved and whether the append was completed |
| `disp` | each dispatcher: the call that publishes, reconcilers, the delivery of an outcome |
| `answer` | what `append_protocol_pair` returned |

Actions: `Publish`, `Register`, `Deliver` (open, two appends, commit, expiry of
markers, deletion of the envelope, each a step), `Fails` (in each of these,
with or without effect), `List`, `Drain`, `EndFails`, `MarkerExpires`, and the
run's `Claim`, `Finish`, `Cancel`, `Resume`, `Delete`, `EraseStream`.

`PairLog` is the abstract promise: an accepted event goes to the run's log,
then to the thread's, once each, and before the end of its generation.
`RedisDelivery!KeepsPairs` instantiates it with the logs without their gaps.
A marker's TTL is taken to outlast the deliveries and retries it protects
(`MarkerExpires`); trimming by `MAXLEN` and the TTL of whole streams are left
out, as is the order of `created_at` among envelopes. A deadlock that the
database breaks is a failed attempt.

### EventStreams

An inline execution: `StreamEventBuffer`, its periodic flusher, the SQL
transactions of `stream_persistence.py`, `execute_run_job` around them, the
request that writes its "started" to the same thread, and a client that polls.

| variables | code |
|---|---|
| `row` | the run |
| `rows`, `counter` | `run_stream_events` and `thread_stream_events`, `stream_sequences`, as committed |
| `tx` | the transaction a writer is in: numbers taken, not yet visible |
| `exec`, `buf` | the execution's task; its buffer: pending events, the one that is carried over, who holds the lock, the flusher |
| `rd` | a reader: scope, cursor, idle polls, what it got |
| `cut` | history: the execution did not learn of a commit of its own: the answer was lost, or a cancellation came before the batch was cleared |

Actions: `Claim`, `Emit`, `Write` (stage, commit, publish, refused),
`WriteFails` (nothing is committed), `AnswerLost` (all is, but COMMIT raises),
`Buffer` (the flusher and closing), `GraphEnds`, `FencedOut`, `Shutdown`,
`Crash`, `Finish`, `CancelRun`, `LeaseLapses`, `StartedStage`,
`StartedCommit`, `Connect`, `Read`, `Reconnect`. Whether a batch is too large
is any answer; records of a thread alone are represented by the request's one.
Reading orders records by their rank (`InOrder`), which needs no more than that
numbers differ. `Polls` is at least two, as in the code
(`REDIS_STREAM_TERMINAL_IDLE_POLLS`): with one, a run that ends between a poll
and the look at its status would cost the reader its end.

### GraphStream

`run_executor.execute_run` from the first item of the graph to its last notice,
with `message_identity.py` and the publishers of `thread_protocol.py` it calls.

| variables | code |
|---|---|
| `scene` | the request (messages, tuples, updates, values) and the graph (`astream` or `astream_events`; ids given by the provider, observed by the callback, by metadata, or none) |
| `graph` | external: what the models have said, which messages the nodes returned, the state |
| `stream` | the identity tracker, open messages with their blocks, accumulated partials, and the log of all that was published |
| `interrupt`, `shown`, `result`, `phase` | `interrupt_chunk`, `_emitted_values_via_stream`, the final state, how far it is |

Actions, each the handling of a whole item: `Chunk`, `Whole`, `Output`,
`NodeMessage`, `Update`, `Values`, `End`, `Break`. An execution that is cut off
inside an item leaves a prefix of the item's events; the properties read the
log entry by entry and ask nothing else of an execution that failed.

### ProcessSupervisor

`process_supervisor.py` with its caller, `cli.py` `_default_runner`, on POSIX
and on Windows. A Python signal handler is a step of the main thread between
any two others, in which it may raise. `guard` is the
`ForwardingSignalGuard`, `mask` the blocked and pending signals, `tree` the
processes, `own` the `_PosixChild` or `_WindowsChild`, `call` the locals of
`_clean_and_reap` and its callees, `outcome` what is to be returned or raised.
`Runner` is the disjunction of the main thread's steps (each system call is
one, each has a failing variant within `MaxFaults`), `Arrive` a signal from
outside, `Fork`, `LeaderExits`, `OtherExits` the tree. One look at `/proc` is
one step.

### Environment, ContainerBuild, ContainerUp

`Environment` (no variables): interpolation, precedence and filtering of shell,
dotenv files, manifest and image for the three readers. A value is the set of
places its text comes from, which is what `NoStowaway` asks about.

`ContainerBuild` extends a file system - `disk`, `dirs`, `configs` with their
identities, stamps and contents - with the planning (`PlanStep`) and writing
(`WriteStep`, `ArchiveContext`, `WriteDone`) of a build context, one look at a
file per action, and `World`, which edits, exchanges or removes what is read.
The dotenv files and the pip config are excluded under the paths they resolve to
when the config is read; finding the pip config and taking its identity is one
look, a change between the two makes the later check fail.

`ContainerUp` adds the commands `dockerfile`, `build` and `up` with compose,
the daemon's images and the container named after the port: `ResolveUp`,
`StartBuild`, `PlanUpAuth`, `CustomPayload`, `RenderOnly`, `AfterArchive`,
`CheckCompose`, `DockerBuild`, `InspectImage`, `ClearName`, `ComposeUp`,
`DockerRun`, `WaitReady`; `Boot` is the container, which finds its auth module
and its graphs or does not.

### SecureTemp

`secure_temp.py`: creation, verification, quarantine and removal of private
files and directories and the sweep. `objs` is the file system (identity, name,
kind, access, age, whether filled), `mine` what a command made, `expected` what
it found when it first looked, `fd` its descriptor, `todo` a sweep. `Command`
is one look or change of one of the commands, `Fault` a failing call, `Kill` a
stop; `OpenUp`, `Take`, `Exchange`, `AddTo` are another program, `TimePasses`
makes everything older than a day. An access list is abstracted to who may open
the object; random names do not collide. Other programs put things at the top or
directly into a directory there, no deeper.

### The MC and Proofs modules

`*MC` are the instances for TLC (in `RedisRunsMC` every run is on one thread;
symmetry of runs, slots, requests, reconcilers and workers, for the safety runs
only; `ContainerMC` and `GraphStreamMC` hold the scenes). The proofs are in
`RedisRunsProofs` (types, rows, markers; then streams, fence, contract),
`CronSchedulerProofs`, `RedisDeliveryProofs`, `EventStreamsProofs`,
`GraphStreamProofs`, `ProcessSupervisorProofs`, `SecureTempProofs` and
`ContainerUpProofs`.

## 3. What the runs check

Besides its types, each run checks few properties; some are conjunctions of
named parts that one question needs together:

| run | bounds | properties |
|---|---|---|
| `RedisRuns_failover` | 1 run, 2 generations, 2 workers, 2 requests, claims on snapshots, 1 failure anywhere, 1 lock lost by a live worker | `TypeOK`; `LifecycleOnce` on the thread's stream; `MarkersOwned`; `NoRerunAfterOutcome` |
| `RedisRuns_resume` | 1 run, 2 generations, 2 workers of 2 slots, 1 failure | `ExecutesOnce`: run streams well formed, one fenced execution, the outcome announced; `KeepsContract`: implements `RunContract` |
| `RedisRuns_snapshots` | 2 runs of one thread, 2 requests, claims on snapshots | violates `OneActiveRunPerThread` (below) |
| `RedisRuns_liveness` | 1 run, 2 workers, bulk cancellation, 2 failures, locks kept, fairness | `WorkDrains`: runs settle, markers are released, tokens are acknowledged |
| `CronScheduler_safety` | a cron with a webhook on a thread and a stateless one, 1 occurrence, 2 schedulers, 2 attempts, 1 failure anywhere, 2 changes by clients (a run of their own on a thread among them), long texts | `TypeOK`; `StartedHasNoRun`; `TicksRunOnce`: one run per tick, told truly and once by its webhook; `OutcomesFinal` for ticks and webhooks; `DropsSpareDispatched`: only threads the scheduler created are deleted, none before the run dispatched there has ended |
| `CronScheduler_liveness` | a cron with a webhook and a stateless one, 1 occurrence, 1 failure, 1 lost lock, 1 change by a client, fairness | `TicksFollowedUp`: ticks end, webhooks settle, threads go |
| `RedisDelivery_races` | 1 event, a run of 2 generations, its caller and 2 dispatchers, 1 failure or lost answer, fairness | `TypeOK`; `DeliveredOnce`: once per stream, no end ahead of a pair, markers cleaned, cursors true; `KeepsPairs`: implements `PairLog`; `OutboxDrains` |
| `EventStreams_batches` | 1 execution, 2 events in batches of 2, 1 request on the same thread, 1 failure or stop, 1 broken connection, fairness | `TypeOK`; `ReaderTold`: what a reader got is exact, in order and without gaps, ends with the end, repeats only what was committed unknown to its execution, shows pairs together; `StreamsEnd` |
| `GraphStream_items` | 2 model calls of 2 chunks, 2 node messages, 4 items, 2 super-steps, 6 scenes | `TypeOK`; `SdkMessages`: partials add up, complete once; `OneIdentity`; `BlocksBalanced`; `EndTellsAll`: final values and every request for input, last |
| `ProcessSupervisor_signals` | POSIX and Windows, 2 signals, 2 forks, 2 failing calls, fairness of the main thread | `TypeOK`; `NothingLeft`: tree gone, no handle leaks, handlers and mask in place while it waits and restored after; `NeverAstray`; `FirstSignalDecides`; `Returns` |
| `Container_scenes` | 108 scenes, 2 commands, 3 changes of the project | `TypeOK`; `ImageAsPlanned`; `SecretsStayOut`; `ContainerWorks`: it boots, and compose was told the same; `NoStowaway` |
| `SecureTemp_meddling` | a creator of each kind with a sweep, 2 troubles (failures, kills, meddling), POSIX and Windows | `TypeOK`; `ContentsPrivate`; `CleansUp`: nothing is left but in a quarantine, in the hands of a command that is about to delete it, or that was killed or failed; `RemovesOnlyItsOwn` |

Why the bounds are enough for the questions: a duplicate token needs two
sources (one request and one reconciler), a takeover two workers, a collision
in one worker two slots, a stale writer two generations, a race on a thread two
runs, a race in the outbox two dispatchers besides the caller, a batch two
events, mixed-up identities two calls and two chunks of each, a signal that is
overtaken a second signal, a replaced file or directory three changes (there,
away and back). One failure covers each single crash, lost answer or failed
append at each place; where a repair may itself be interrupted two are allowed.
Names of runs, threads and events carry no meaning, so more of them repeat the
same interleavings; no property counts beyond what these bounds reach.

Deadlock is checked by the runs of `CronScheduler`. In the others the system
may really stop: all runs settled and budgets used up (`RedisRuns`,
`RedisDelivery`), the stream read to its end (`EventStreams`), the execution,
command or removal done (`GraphStream`, `ProcessSupervisor`, `Container`,
`SecureTemp`).

**Fairness** (`FairSpec`). `RedisRuns`: weak fairness of each step of a worker
(the loop of `run_worker`, its slots, the lock's heartbeat), of a supervisor
that starts a worker again, of expiry of leases and of locks whose holder is
gone, and of the reconcilers, which `run_recovery_service` runs every two
seconds in every API process and every worker. A graph is assumed to return.
Nothing is assumed of clients or requests, nor of any step that fails.
`CronScheduler`: a scheduler that runs keeps taking steps, a supervisor starts
one that stopped, time makes things stale, runs start and end, a lock whose
holder is gone expires. `RedisDelivery`: the helpers keep draining (the same
recovery service), a call that was made goes on. `EventStreams`: the reader polls, an
open transaction ends, an execution's task proceeds. `ProcessSupervisor`: the
main thread alone; neither the tree nor signals have to cooperate.

### A property the code does not keep

`OneActiveRunPerThread` says what the API answers the second of two requests,
"Another run is already active for this thread" (`run_preparation.py:29`,
`tests/integration/test_runs_validation.py:63`). `RedisRuns_snapshots` breaks it:
one request claims an idle thread while another one's claim is not committed
yet, waits for the thread's row, finds it changed, checks the row again, but not
`NOT EXISTS` (`run_preparation.py:74`), and inserts a second unfinished run.
Nothing else stands in the way: the engine chooses no isolation level
(`core/database.py:159`) and `runs` has no unique index (`core/orm.py:45`). SQLite
has one writer at a time and keeps the property, as does a claim that need not
wait; for these `OneRunAtATime` proves it.

### Seen in the models, without a run of their own

Behaviour of the code that a reader may not expect. None of it contradicts a
property above: where it would, the property says what it leaves out, or the
run's bounds do.

Runs, workers and cron:

- `POST /runs/cancel` writes `error` by primary key to rows it read before, over
  an outcome that was stored since (`api/stateless_runs.py:139`). The runs of
  the properties it breaks have `BulkCancel = FALSE`.
- The claim of `resume_run` has the same gap. Two resumes of one run may both
  succeed: the second writes its generation over a row that is active again and
  keeps the owner, the lease and, if none was loaded, the stored outcome. The
  fence stops the older execution; a row that keeps an outcome is never claimed
  again, and a row whose owner is the worker that takes the new token is
  answered "active" and left. `NoRerunAfterOutcome`, `LifecycleOnce`,
  `MarkersOwned` and `ExecutesOnce` hold all the same; `KeepsContract` does not,
  and `WorkDrains` is checked without it.
- `resume_run` loads the run before it claims (`run_preparation.py:402`). A run
  loaded as pending and interrupted before the claim gets a new execution id, but
  its status is pending before and after the assignment, so the flush leaves
  the column `interrupted`. The model loads and claims on one snapshot.
- A worker that lost its lock can take a token after its successor emptied the
  processing list, and leave it there; the dispatch reconciler skips the run
  from then on. The liveness run therefore has no lost locks.
- `ensure_dispatch` takes the generation of the row as it is now
  (`services/run_dispatch.py:45`); a delayed request stamps an old payload with
  a resumed generation.
- A tick counts as abandoned because it is old. A scheduler that lost its lock
  looks at that between rounds only and completes a dispatch its successor has
  repeated: two runs for one occurrence (`services/cron_scheduler.py:202`). The
  safety run keeps the lock.
- The error text of a run is copied into a column of 64 characters
  (`services/cron_scheduler.py:147`). Where the database checks that, one such
  run stops every scheduler at each scan, and all crons with it.
- Deleting the unfinished run of a thread leaves the thread "busy" for the
  scheduler, but not for the API: a cron bound to it is skipped until a client
  starts a run there (`services/cron_scheduler.py:374`).
- The scheduler deletes the thread of a successful stateless tick with all its
  runs, and looks for no active one (`services/thread_service.py:45`). The
  webhook, which goes out before, tells the client this thread: a run it starts
  there in between is deleted. `DropsSpareDispatched` speaks of dispatched runs
  only.
- Two workers may be inside the graph of one run: a lock that expires is
  noticed by its holder at the next renewal only. The writes of the older
  execution are fenced.
- A tick ends as `error` when the submission of its run was ambiguous, though
  the run may succeed. A tick whose run was deleted stays `queued`. Stale ticks
  of deleted crons use up `SCHEDULER_CLAIM_LIMIT`. The thread of a tick whose
  dispatch stopped before `prepare_run` stays for ever.

Streams:

- A cancellation between the commit of a batch and its clearing, or a lost
  answer to COMMIT, which `retry_transaction` raises as it is no contention,
  leaves the batch in the buffer, and closing writes it again under new numbers
  (`services/stream_event_buffer.py:86-91`). `ReaderTold` allows a repetition
  only there.
- Two equal text chunks in a row are one protocol delta, a chunk that begins
  with its predecessor loses that prefix, and a final text may be sent whole
  again; SDK partials are not affected. A block's index is its position within
  a chunk, so a tool delta can land on an open text block; block events carry
  the namespace only, so two open messages of one namespace can't be told apart.
- The role maps of transcripts know class names ("AIMessage"), whereas
  normalised messages say "ai": merging never applies to messages of LangChain.
- A final state of None leaves SDK messages uncompleted and protocol messages
  open; one that is not a mapping leaves the protocol's open. `BlocksBalanced`
  and `SdkMessages` say which ends they are about.
- Only the interrupts of the last update that had any are told.
- A message without id, callback and metadata fails the run. Through
  `astream_events`, node messages without id are published under two ids, and
  an AI message without id gets another one when it appears again elsewhere:
  `OneIdentity` leaves this case out.
- Empty chunks, which may carry usage metadata, don't reach clients. Saving the
  output may fail after everything was published. Checkpoint writes of an
  execution that was overtaken are not fenced.

Processes:

- A signal held during the reaping of a failed cleanup is raised before the
  verdict: the exit code is 128+n, not the error. A signal between the return
  and `begin_cleanup` escapes `_default_runner`, on Windows with handles open
  (`LeftEarly` in `NothingLeft`).
- On Linux a signal inside the group scan is taken for a failed scan (Darwin
  raises it again). A scan that fails once makes a clean cleanup an error.
- On Windows a SIGTERM after `child.close` becomes an error though all went
  well, and a CTRL_BREAK may go to a number no longer in use.

Containers and files:

- Two `up` of one port share the image tag, so that one may run the other's
  image; with `--recreate --wait` one may see the other's container healthy.
  `--recreate` removes the old container before compose or run can fail.
- The config is read several times: a dotenv file that only an older version
  names is not excluded, nor one that was a link when planning started. A pip
  config whose directory was a link when the config was read is excluded where
  the link led; if the directory is exchanged back, the project's own is copied
  with its tree, and `validate_pip_config_identity` passes, for it looks where the
  link led too (`container_build.py:663`, `:1889`, `docker_runtime.py:294`).
  `SecretsStayOut` holds for what no link led to (`Stayed`).
  Three precisely timed exchanges of a directory could lead outside contents in.
- A value made by chained interpolation over a missing reference that is
  overridden later isn't reported. A file that vanishes from a tree raises
  `FileNotFoundError`. Graphs given by dotted names outside the dependencies
  aren't importable in the container.
- A directory exchanged between `mkdir` and the first `lstat` is adopted, and
  later removed as its own. An object whose first look failed stays until a
  sweep; what a kill or a failing call leaves under a quarantine name (as
  `tests/unit/test_secure_temp.py:221` expects of a failed check) is never swept,
  its prefix being another: `CleansUp` says whose quarantine it must be. On
  Windows a failing write leaves the filled file in quarantine in
  its own directory until the sweep a day later. A sweep may remove an artifact
  that a live command has held for more than a day.

## 4. What is proved

`RedisRunsProofs` proves, for all sets of runs, threads, workers, slots,
requests and reconcilers and for all bounds (from the ASSUMEs of `RunRow` and
`RedisRuns`: owners are the workers, the budgets are numbers, `MaxGen` is a
positive number):

- `TypeInvariant`: `Spec => []TypeOK`. `TypeOK` is not inductive: a token gets
  its generation from a row, and a delivery its outcome, so the invariant is
  `IInv`, which adds `RowsOK` - an existing row has a generation and a command,
  and a row waiting for delivery has a result.
- `OneRunAtATime`: `~SnapshotClaims => (Spec => []OneActiveRunPerThread)`. The
  hypothesis is the database's, see section 3; that workers, reconcilers,
  cancellations, deletions and resumes keep the property is what it shows. The
  other theorems but `DeploymentKeepsContract` hold with late claims as well.
- `OutcomeEndsGeneration`: `Spec => NoRerunAfterOutcome`.
- `NoMarkerLeaks`: `Spec => []MarkersOwned`. Inductive with `PendingOwned`: a
  row that waits for its delivery has its cleanup record.

The 41 actions are examined once for types and once for what they do to rows:
every step *keeps*, *opens*, *advances*, *closes* or *removes* each row
(`NextMoves`), and the two results on statuses follow from these five cases
alone.

The second half of `RedisRunsProofs` continues with what the thread's stream shows and who
executes. Every step is classified once more by what it does to the stream and
the executions (`StreamStep`): it works on a row, announces, starts or drops an
execution, or frees a slot.

- `RunLogsInOrder`, `LifecycleToldOnce`: `Spec => []LifecycleOnce`, without
  hypotheses. The logs that are gone stay gone (`Erased`), and what ends a
  generation ends its log (`LogsClosed`).
- `OutcomesAnnounced`: `~BulkCancel => (Spec => []OutcomeAnnounced)`. The
  hypothesis is the code's: a bulk cancellation writes a status by primary key,
  over what the streams have said. Inductive with `OutcomesTold`.
- `OneWriter`: `MaxLosses = 0 => (Spec => []OneFencedExecution)`. While locks
  are kept, a generation is executed by the holder of its lock alone
  (`Exclusive`, `Owned`). With a lost lock two executions overlap until the old
  worker notices, which is what the fence is for; `RedisRuns_failover` has one.
- `RunsExecuteOnce`: both hypotheses together, `Spec => []ExecutesOnce`, the
  invariant of `RedisRuns_resume`, whose configuration has just these values.
- `DeploymentKeepsContract`: `~BulkCancel /\ ~SnapshotClaims => (Spec =>
  KeepsContract)`, as the contract promises one run per thread: the
  deployment implements `RunContract`, for any number of lost locks. Each step
  maps to a step of the contract or a stutter (`StepKeepsContract`), by the
  same classification.

`CronSchedulerProofs` proves, for all sets of crons, runs, threads and
schedulers and for all bounds (from the ASSUMEs of `CronScheduler`: crons are
bound to threads or to none, the null values are none of the others, the limits
are numbers, two of them positive):

- `CronTypeInvariant`: `Spec => []TypeOK`. Inductive with `LocalSound`: a
  scheduler in the middle of a webhook or a dispatch holds one, and has not
  gone beyond the last attempt.
- `StaleTicksHaveNoRun`: `Spec => []StartedHasNoRun`, for any number of
  schedulers and lost locks. `claim_due_crons` dispatches a stale "started" tick
  anew on the ground that "no run was created yet". Inductive with `RunsLinked`:
  a tick that a run names is neither free nor started. It rests on two lemmas
  about steps: a tick that was prepared never becomes "started" again, since a
  claim starts new ticks only; and a run gets its tick in the transaction that
  queues it. The theorem does not say that such a dispatch is the only one
  under way: with a lost lock it is not.
- `TicksRunAtMostOnce`: `MaxLosses = 0 => (Spec => []TicksRunOnce)`, with
  `OnceInv`: one scheduler holds the lock and with it all claims and webhooks
  (`Sole`, `Held`), and a dispatch under way has a row that is its own
  (`RowHeld`). The hypothesis is needed: a scheduler looks at its lock once per
  round, so an old one may complete its dispatches beside a new one. The run
  `CronScheduler_safety` has no losses either; what happens with one is listed
  as a hazard without a property.
- `OutcomesStay`: `MaxLosses = 0 => (Spec => OutcomesFinal)`. A step leaves a
  tick, or settles it on behalf of the one webhook that is under way.
- `DispatchedRunsKeepTheirThread`: `Spec => DropsSpareDispatched`, for any number
  of losses, from `ThreadInv`: a thread that the scheduler created carries one
  dispatched run in its life, besides any that clients start, and a thread in
  the list to delete is such a thread whose dispatched run has ended.

`RedisDeliveryProofs` proves, for all sets of events, dispatchers and executions, any number of generations and any bound on
failures (from the ASSUMEs of `RunRow` and `RedisDelivery`: calls and helpers
are different, gaps and ends are no events, the bounds are numbers):

- `PairsDelivered`: `Spec => []DeliveredOnce`, from `PairsOnce` (its first three
  parts) and `NoEndOvertakes` (`EndsComplete`).
- `DeliveryTypeInvariant`: `Spec => []TypeOK`, and `PairsOnce`. The invariant they share, `IInv`, says what the
  code relies on without saying it. Transactions exclude one another, and one
  that appends has an envelope that is not delivered and a run that is not over
  (`Opened`). As long as a call goes on or its envelope is not delivered, the
  marker tells truly what a stream has (`MarkersTell`); this is why a marker may
  expire only afterwards, and why a pair is appended once. What a transaction
  is about to save, what is saved and what is answered is either the cursors
  of records that stand there or an empty list for a generation that is over
  for good (`Decided`, `Recorded`, `Answered`). At the removal of an envelope
  every marker has its TTL (`Expiring`). A step is examined once for each
  thing it may change: for an event and a stream it *rests*, *expires* or
  *confirms* the marker, lets the record *enter*, or *erases* the stream
  (`StepMoves`); an envelope is registered, saved, cleaned or left
  (`StepOutbox`); a generation that is over stays over (`StepRow`). Each part
  of `IInv` follows from these.
- `NoEndOvertakes`: `Spec => []EndsComplete`. Inductive with `IInv` and
  `EndInv`: an event that was registered is delivered, is still in the outbox
  undelivered, or its generation is over (`Accounted`); and whoever delivers an
  outcome holds in its list every event of the generation that is not delivered
  yet (`Covers`), since nothing more can be registered after the outcome was
  stored. `EndsInvariant` states that invariant.
- `OutboxKeepsPairs`: `Spec => KeepsPairs`: the outbox implements `PairLog`, step
  by step. A registration accepts (`RegisterKeeps`), unless the call was
  registered before; an append of the script puts, or shows nothing when it only
  reserves its number (`PutKeeps`); the delivery of an outcome puts the end
  (`PutEndKeeps`); the removal of the stream erases (`EraseKeeps`); all others
  stutter. The invariant it adds, `PairInv`, says that a record and an envelope
  belong to the one generation that registered their operation. That the end is
  not there before a record follows from `EndsComplete`, which also holds where
  a delivery appended the end and failed before the row had its status. What
  readers see of a stream (`Visible`) is a recursive function; `VisibleAppend` and
  `VisibleHolds`, what one more record shows and that all records show, are
  proved by the least number at which they would fail (`NoCounterexample`).

`EventStreamsProofs` proves, for all sets of executions, any number of events,
any size of batches and any bound on failures and reconnections (from the
ASSUMEs of `RunRow` and `EventStreams`: the request is no execution, the limits
are numbers, a reader polls at least twice, the run has one generation):

- `StreamsInvariant`: `Spec => []StreamsInv`, the invariant of the next two.
- `StreamsTyped`: `Spec => []TypeOK`.
- `StreamsTold`: `Spec => []ReaderTold`, all five parts.

The parts of `StreamsInv` are these. `Numbers`: what is stored in a stream has
the numbers from one to its counter, and an open transaction those that follow;
no two transactions have records for the same stream, and none that holds the
run's row loses the run. `Executions`, for each execution: who may hold its
buffer's lock and when it has an outcome (`Phases`); its transaction holds what
its buffer holds (`Carries`); what it emitted is in the buffer or stored, unless
it failed or was cancelled (`Kept`), and not both, unless it did not learn of a
commit (`Once`). `Contained`: a stream tells only what was emitted. `Ended`: both
streams tell the end exactly when the run is over, and nothing follows it in
the run's. `Follows`: a reader has a part of its stream without a gap, and if it
counts idle polls it has found the end. `Paired`: an order-preserving map takes
the events of one stream to those of the other; `PairsTogether` follows from it
by ranks. Each operation is first put into a lemma about the fields it changes
(`<Action>Does`), then shown to keep the promises of its own execution
(`<Action>Keeps`; `OthersKeep` for all others), and every step extends the
streams in one of four ways (`StepExtends`: by nothing, by the commit of an
execution or of the request, or by the end), from which the other parts follow.

`GraphStreamProofs` proves, for all finite sets of calls and of tools, all
texts and scenes, and any number of chunks, items and super-steps (from the ASSUMEs of
`GraphStream`: no call is a tool, the bounds are numbers):

- `StreamInvariant`: `Spec => []StreamInv`, the invariant of the next four and,
  with `SdkInv`, of the fifth.
- `TypesHold`: `Spec => []TypeOK`.
- `IdentitiesHold`: `Spec => []OneIdentity`.
- `BlocksHold`: `Spec => []BlocksBalanced`.
- `EndsTold`: `Spec => []EndTellsAll`.
- `MessagesHold`: `Spec => []SdkMessages`.

`StreamInv` has three parts. `Scenery` is about the scene and the graph.
`Streaming` says what an execution that has not ended holds (`Between` two
items): its tracker, open messages and log fit each other (`Fit`), and the log
shows the interrupts to announce and whether a state was told (`Watched`).
`Consistent` says what is left of it at the end. `Fit` says that each message is
open once, that its log nests and has left open just its blocks (`Messages`);
that all the log tells is of open messages, by their ids (`Logged`); that
identities were handed out for these and no others (`Heard`); that each key of
the tracker names the message whose it is, and no key of a later item is taken
(`Keyed`, `Owned`: a chain's key carries the number of its item, which is why an
output or an update may name messages anew and never meets an id of another
one); that ids are the source's or made of their key (`Titled`), and a message
that keeps its id has it (`Kept`). At the end the
open messages are completed (`Goes`, `Merged`) and closed, after which nothing
comes (`Over`), and the announcements follow all messages (`EndTold`).

Handling a list of messages, finishing blocks in order, merging and closing are
recursive functions inside the operators. Each is treated as a run of steps:
that a claim holds all along follows from the least index at which it would fail
(`NoCounterexample`), for all of them at once (`Runs`, over the kinds of step
that `StepOf` lists). Every action is then a list of messages between two states
of the same kind (`NextItem`), or the end.

`SdkMessages` needs what the calls have said beside what was told, which is
`SdkInv`. `Heads` ties the parts that `execute_run` accumulates to the log: the
message of each part begins with its metadata, its last partial is the part's
content, its tuples add up to it, and it is not complete yet; the message of a
node is complete from the start. `Says` ties the parts to the calls: a part
holds what its call has said so far, under the one id of that call until the
call has ended. (After that an output may repeat the call's whole message under
another id; its content is then the same.) So a chunk is added to the part of
its own call and to no other, which the log alone does not show. After the stop
`SdkOver` remains: the end completes the parts in their order with the content of their
last partial, and nothing of the SDK follows. That tuples add up is a claim
about a fold over the whole log; it is carried from log to log one event at a
time (`AssembledNext`), logs that agree on a prefix being summed alike
(`AssembledAlike`).

`ProcessSupervisorProofs` proves, for every set of platforms out of the two that
the code knows and for all bounds (from the ASSUMEs of `ProcessSupervisor`):

- `SupervisorTypeInvariant`: `Spec => []TypeOK`.
- `NoSignalGoesAstray`: `Spec => []NeverAstray`.
- `FirstSignalIsKept`: `Spec => []FirstSignalDecides`.
- `NothingIsLeft`: `Spec => []NothingLeft`.

They share `IInv`, in four parts. `Typed`: types and the budget of forks.
`Phases`: what holds at each line - the state of the guard, whether signals are
masked and handlers installed, what the platform has, how far the leader is, and
that no signal went astray. `Story`: the signal taken first is what is returned, it was sent on or is
about to be, and where a cleaning method returned the tree is gone. `Handed`:
the handles and the job of Windows are held until they are closed. Each of the
actions keeps it by a lemma of its own (`<Action>Keeps`); what several of them
call (termination, the forwarding of a signal, the closing of handles) has its
lemma too (`Terminates`, `Forwards`, `ClosesHandles`, `Reaps`, `Breaks`).

`SecureTempProofs` proves, for all sets of commands of each kind, of sweeps and
of objects, whichever of them run together, and for any amount of trouble (from
the ASSUMEs of `SecureTemp`: a command has one role, objects are positive
numbers, and no command has one of the four words that stand for others in names
and makers):

- `TypesCorrect`: `Spec => []TypeOK`.
- `PrivateFromTheStart`: `Spec => []ContentsPrivate`.
- `NothingElseIsRemoved`: `Spec => RemovesOnlyItsOwn`.
- `OnlyQuarantineStays`: `Spec => []CleansUp`.

The first three follow from `IInv`, which adds three parts to the types. `Files`:
what a directory holds is touched or untouched with it, and a quarantine name is
given once. `Locals`: what a command has made, found and opened at each step.
`Tied`: an object that no other program touched lies where its maker put it, with
the access it gave it, under its first name or in a quarantine (`Placed`); a
command that found an object under its quarantine name has what it expected
(`Found`), and what it expected is its own, was exchanged, or is old enough
(`Expected`). Found stays true until the removal because a command gives each
quarantine name once (`Spent`) and nobody else knows it: this is what the move to
a random name before the second look is for. Every action is examined once for
what it does to each object (`NextKinds`: it stays, goes, is new, is moved by a
command, or makes place for another), and once for what it does to its own
command (`CommandFits`).

`CleansUp` needs four more parts, all about what is left alone. `Kept`: a command
that did not fail finds its own directory and file under the names it uses next,
private as it made them, so it never takes the way out of a failed check.
`Swept`: what had expired when the sweep began is still listed, or at hand.
`Handled`: what lies in the quarantine of a command or sweep that did not fail is
what it expected there and private, so that it passes the check and is deleted
next; for this `Begun`: no object of a name is made once a sweep has listed it.

`ContainerUpProofs` proves, for all sets of files, directories and commands, for
every scene and any number of changes to the project (from the ASSUMEs of
`ContainerBuild` and `ContainerUp`: the config is a file of the project, `Order`
lists the files, scenes are as `IsScene` says - a reference by path names a file,
the mapping of a config holds texts without references, AUTH_MODULE_PATH is one
text, and the shell's values are the shell's):

- `UpInvariant`: `Spec => []UpInv`, the invariant of the next five.
- `TypesHold`: `Spec => []TypeOK`.
- `ImagesHold`: `Spec => []ImageAsPlanned`.
- `SecretsHold`: `Spec => []SecretsStayOut`, of the config always, of the pip
  config and the dotenv files as long as their directories were not exchanged.
- `ContainersWork`: `Spec => []ContainerWorks`.
- `PayloadsClean`: `Spec => []NoStowaway`.

The parts of `UpInv` follow a command on its way. `Flow`: where it can be with its
arguments. `PlanTyped`, `AtWork`: its plan, and the file it looks at; what was
found in a file is that file's or, below an exchanged directory, another one's.
`Excludes`: what must stay out, and resolved into the project when the config was
read, is excluded, and nothing excluded is selected.
`Referred`: what the config refers to is selected for a reason other than auth,
which is why dropping the reasons of auth (`WithoutAuthReasons`) leaves it there.
`Bundled`: a context holds what the plan hashed, and an archive all of it; what
lies outside got there by a third exchange. `Payload`: nothing ineligible, the
graphs of the image, and an AUTH_MODULE_PATH that names a file of the plan or was
checked to be dotted. `ImagesOk` and `ContainerOk` keep this when their
command has gone on: an image keeps the plan, a container the payload of the
command that made it. `Project` says what exchanges of directories leave behind.

Documents, layers and sorted paths are folds over sequences. They are treated
through the fold's intermediate values (`FoldSteps`) and the least index at which
a claim about them would fail (`NoCounterexample`), which needs no theorem with
an operator as parameter. So interpolation (`BindRight`), precedence (`MergeRight`)
and the assignments of the command are proved for documents of any length.

Model-checked only: all liveness (`WorkDrains`, `TicksFollowedUp`,
`OutboxDrains`, `StreamsEnd`, `Returns`: fairness and ENABLED are outside what
the prover handles). Every invariant and every step property of the runs is
stated by a theorem.

## 5. What could follow

1. `InlineRuns`: recovery of inline runs by a lapsed lease without a worker
   lock, with the row operators of `RunRow` and the contract of `RunContract`.
2. Threads: copy and update racing with runs; the records of A2A tasks,
   which a stream, a cancellation and the next message share.
3. Proofs that each running execution and each idle reader can take a step where
   liveness relies on it, should a prover for ENABLED be at hand.

## 6. Not modelled

Recovery of inline runs after a lapsed lease and the marking of legacy ones:
the row operators are those of `RedisRuns`, which checks them with recovery by
a queue; a run of its own was left out in favour of parts without any model.
Threads, assistants, the store and checkpoints beyond what runs and crons do to
them: single transactions, or calls of a library. Recurrence rules: a function
of dates. The A2A and MCP servers, which call graphs directly and keep nothing
beyond the process (the A2A task registry, whose records messages, streams and
cancellations share, would deserve a module of its own); subscriptions and commands of the thread
protocol; the brokers in memory, whose stream methods have no caller in the
code. Authentication; request validation and the text of responses; checkpoint
contents; graph loading; the SQL engine below transactions, Redis below
commands and Docker below its commands (persistence, replication); performance
limits. `PROJECT.json` names, for each part without a module, the reason.
