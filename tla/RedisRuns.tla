------------------------------ MODULE RedisRuns ------------------------------
(***************************************************************************)
(* Runs under EXECUTOR_BACKEND=redis: API request handlers that create,    *)
(* resume, cancel and delete runs; the Redis queue and its processing      *)
(* list; workers that hold a renewable lock, execute jobs and deliver the  *)
(* outcome; and the reconcilers that every API process and worker runs.    *)
(*                                                                         *)
(* Each action is one committed SQL transaction or one Redis command.      *)
(* Processes may stop between any two of them.                             *)
(***************************************************************************)
EXTENDS RunRow, FiniteSets, Sequences

CONSTANTS
  Runs, Threads, ThreadOf,
  Workers,        (* worker process identities (one uuid per process)      *)
  Slots,          (* WORKER_CONCURRENT_JOBS of them per worker             *)
  Requests,       (* concurrent API requests that change runs              *)
  Scanners,       (* concurrent dispatch reconcilers                       *)
  BulkCancel,     (* whether POST /runs/cancel is used                     *)
  SnapshotClaims, (* whether the database lets a claim that waited keep the *)
                  (* conditions it read before (READ COMMITTED does)       *)
  MaxFaults,      (* bound: crashes, lost answers and failed deliveries    *)
  MaxLosses       (* bound: lock expiries under a live worker              *)

ASSUME RunsAssumption == ThreadOf \in [Runs -> Threads]
ASSUME OwnersAreWorkers == Owners = Workers
ASSUME FlagsAssumption == BulkCancel \in BOOLEAN /\ SnapshotClaims \in BOOLEAN
ASSUME BoundsAssumption == MaxFaults \in Nat /\ MaxLosses \in Nat

VARIABLES
  row,        (* runs table                                                *)
  thread,     (* threads.status                                            *)
  intents,    (* stream_cleanups table: <<run, generation>>                *)
  runLog,     (* the run's Redis stream: start and end records             *)
  threadLog,  (* the thread's Redis stream: terminal lifecycle records     *)
  marks,      (* operation markers in Redis: <<scope, run, generation>>    *)
  queue,      (* tokens per job in the pending list                        *)
  proc,       (* tokens per job in the processing list                     *)
  lock,       (* holder of the worker lock                                 *)
  worker,     (* stage of each worker process                              *)
  task,       (* the job each slot of a worker executes                    *)
  scan,       (* the intent a dispatch reconciler has read                 *)
  req,        (* each API request's progress                               *)
  faults, losses

sql   == <<row, thread, intents>>
redis == <<runLog, threadLog, marks>>
lists == <<queue, proc>>
procs == <<lock, worker, task>>
vars  == <<row, thread, intents, runLog, threadLog, marks, queue, proc, lock,
           worker, task, scan, req, faults, losses>>

Jobs == [run : Runs, gen : Gens, cmd : Gens]

NoTask == [pc |-> "idle"]

Tasks ==
  [pc : {"idle"}] \cup
  [pc : {"reserved", "start", "graph", "deliver", "ack"}, job : Jobs] \cup
  [pc : {"finish"}, job : Jobs, outcome : Terminal]

NoReq == [pc |-> "idle"]

Reqs ==
  [pc : {"idle"}] \cup
  [pc : {"claim"}, run : Runs] \cup
  [pc : {"reclaim"}, run : Runs, loaded : Terminal \cup {"none"}] \cup
  [pc : {"ensure"}, run : Runs, cmd : Gens] \cup
  [pc : {"submit", "compensate"}, job : Jobs] \cup
  [pc : {"deliver"}, run : Runs, gen : Gens] \cup
  [pc : {"drop"}, run : Runs] \cup
  [pc : {"bulk", "erase"}, runs : SUBSET Runs]

NoScan == [pc |-> "idle"]

Scans == [pc : {"idle"}] \cup [pc : {"read"}, job : Jobs]

RunRecord == [kind : {"start", "end"}, gen : Gens, status : Terminal \cup {"none"}]

LifecycleRecord == [run : Runs, gen : Gens, status : Terminal]

TypeOK ==
  /\ row \in [Runs -> Row]
  /\ thread \in [Threads -> {"idle", "busy", "error", "interrupted"}]
  /\ intents \subseteq Runs \X Gens
  /\ runLog \in [Runs -> Seq(RunRecord)]
  /\ threadLog \in [Threads -> Seq(LifecycleRecord)]
  /\ marks \subseteq {"run", "thread"} \X Runs \X Gens
  /\ queue \in [Jobs -> Nat]
  /\ proc \in [Jobs -> Nat]
  /\ lock \in Workers \cup {NoOwner}
  /\ worker \in [Workers -> {"new", "requeue", "up", "draining", "gone"}]
  /\ task \in [Workers -> [Slots -> Tasks]]
  /\ scan \in [Scanners -> Scans]
  /\ req \in [Requests -> Reqs]
  /\ faults \in 0 .. MaxFaults
  /\ losses \in 0 .. MaxLosses

Init ==
  /\ row = [r \in Runs |-> NoRow("absent")]
  /\ thread = [t \in Threads |-> "idle"]
  /\ intents = {}
  /\ runLog = [r \in Runs |-> <<>>]
  /\ threadLog = [t \in Threads |-> <<>>]
  /\ marks = {}
  /\ queue = [j \in Jobs |-> 0]
  /\ proc = [j \in Jobs |-> 0]
  /\ lock = NoOwner
  /\ worker = [w \in Workers |-> "new"]
  /\ task = [w \in Workers |-> [s \in Slots |-> NoTask]]
  /\ scan = [c \in Scanners |-> NoScan]
  /\ req = [q \in Requests |-> NoReq]
  /\ faults = 0
  /\ losses = 0

-----------------------------------------------------------------------------
(* Building blocks.                                                        *)

\* _active_run_exists_query's answer, as of the rows it is asked on.
ThreadFree(r) ==
  \A x \in Runs : ThreadOf[x] = ThreadOf[r] => row[x].status \notin Active

SetRow(r, new) == row' = [row EXCEPT ![r] = new]

SetThread(r, status) == thread' = [thread EXCEPT ![ThreadOf[r]] = status]

SetReq(q, new) == req' = [req EXCEPT ![q] = new]

SetTask(w, s, new) == task' = [task EXCEPT ![w][s] = new]

Push(list, j) == [list EXCEPT ![j] = @ + 1]

Pull(list, j) == [list EXCEPT ![j] = @ - 1]

\* A fault takes one from the budget; a step without one leaves it.
Fault == faults < MaxFaults /\ faults' = faults + 1

\* run_worker's finally: the active tasks are cancelled and the lock, if it is
\* still this worker's, is released.
Exit(w) ==
  /\ worker' = [worker EXCEPT ![w] = "gone"]
  /\ task' = [task EXCEPT ![w] = [s \in Slots |-> NoTask]]
  /\ lock' = IF lock = w THEN NoOwner ELSE lock

\* finish_run's transaction: the intent and the ownership of its markers.
StageOutcome(r, o) ==
  /\ SetRow(r, Staged(row[r], o))
  /\ intents' = intents \cup {<<r, row[r].gen>>}
  /\ UNCHANGED thread

\* Mutant: the append of a retried delivery is not idempotent.
AppendLifecycleAgain(r) ==
  threadLog' = [threadLog EXCEPT ![ThreadOf[r]] = Append(@,
    [run |-> r, gen |-> row[r].gen, status |-> row[r].result])]

\* append_redis_envelope under a stable operation id: a marker that is still
\* there makes the append a no-op.
AppendEnd(r) ==
  LET g == row[r].gen IN
  runLog' = IF <<"run", r, g>> \in marks THEN runLog
            ELSE [runLog EXCEPT ![r] = Append(@,
                    [kind |-> "end", gen |-> g, status |-> row[r].result])]

AppendLifecycle(r) ==
  LET g == row[r].gen IN
  threadLog' = IF <<"thread", r, g>> \in marks THEN threadLog
               ELSE [threadLog EXCEPT ![ThreadOf[r]] = Append(@,
                       [run |-> r, gen |-> g, status |-> row[r].result])]

\* _deliver_pending: both envelopes, then the final SQL state.
Deliver(r, g) ==
  IF AwaitsDelivery(row[r], g)
  THEN /\ AppendEnd(r)
       /\ AppendLifecycle(r)
       /\ marks' = marks \cup {<<"run", r, g>>, <<"thread", r, g>>}
       /\ SetRow(r, Applied(row[r], row[r].result))
       /\ SetThread(r, ThreadStatusOf(row[r].result))
       /\ UNCHANGED intents
  ELSE UNCHANGED <<sql, redis>>

\* _deliver_pending raises: no append, the first or both took effect, and the
\* SQL transaction rolled back.
DeliverFails(r, g) ==
  /\ AwaitsDelivery(row[r], g)
  /\ \/ UNCHANGED redis
     \/ /\ AppendEnd(r)
        /\ marks' = marks \cup {<<"run", r, g>>}
        /\ UNCHANGED threadLog
     \/ /\ AppendEnd(r)
        /\ AppendLifecycle(r)
        /\ marks' = marks \cup {<<"run", r, g>>, <<"thread", r, g>>}
  /\ UNCHANGED sql

-----------------------------------------------------------------------------
(* API requests.                                                           *)

\* _prepare_run: claim the thread, insert the run with its dispatch intent.  The
\* claim is one UPDATE of the thread's row WHERE NOT EXISTS an active run; here
\* it does not have to wait for the row, so nobody else can claim before the
\* commit.
Prepare(q, r) ==
  /\ req[q].pc = "idle"
  /\ row[r].status = "absent"
  /\ ThreadFree(r)
  /\ SetRow(r, NewGeneration(NoRow("absent")))
  /\ SetThread(r, "busy")
  /\ SetReq(q, [pc |-> "ensure", run |-> r, cmd |-> 1])
  /\ UNCHANGED <<intents, redis, lists, procs, scan, faults, losses>>

\* resume_run: a new generation of an interrupted run.
Resume(q, r) ==
  /\ req[q].pc = "idle"
  /\ row[r].status = "interrupted"
  /\ row[r].gen < MaxGen
  /\ ThreadFree(r)
  /\ SetRow(r, NewGeneration(row[r]))
  /\ SetThread(r, "busy")
  /\ SetReq(q, [pc |-> "ensure", run |-> r, cmd |-> row[r].gen + 1])
  /\ UNCHANGED <<intents, redis, lists, procs, scan, faults, losses>>

\* The UPDATE waits while another transaction holds the thread's row.  Neither
\* the isolation level nor an index on runs makes it look for active runs again
\* when the row is free: the answer is that of its snapshot ...
AwaitClaim(q, r) ==
  /\ req[q].pc = "idle"
  /\ row[r].status = "absent"
  /\ ThreadFree(r)
  /\ SetReq(q, [pc |-> "claim", run |-> r])
  /\ UNCHANGED <<sql, redis, lists, procs, scan, faults, losses>>

\* ... and the run is inserted whatever was committed since.
ClaimLate(q) ==
  /\ req[q].pc = "claim"
  /\ LET r == req[q].run IN
     /\ row[r].status = "absent"
     /\ SetRow(r, NewGeneration(NoRow("absent")))
     /\ SetThread(r, "busy")
     /\ SetReq(q, [pc |-> "ensure", run |-> r, cmd |-> 1])
  /\ UNCHANGED <<intents, redis, lists, procs, scan, faults, losses>>

\* The claim of resume_run waits likewise, with the run it has loaded ...
AwaitResume(q, r) ==
  /\ req[q].pc = "idle"
  /\ row[r].status = "interrupted"
  /\ ThreadFree(r)
  /\ SetReq(q, [pc |-> "reclaim", run |-> r, loaded |-> row[r].result])
  /\ UNCHANGED <<sql, redis, lists, procs, scan, faults, losses>>

\* ... and writes to the row as it is by then; a row that is gone fails the flush.
ResumeLate(q) ==
  /\ req[q].pc = "reclaim"
  /\ LET r == req[q].run IN
     \/ /\ Exists(row[r])
        /\ row[r].gen < MaxGen
        /\ SetRow(r, Reopened(row[r], req[q].loaded))
        /\ SetThread(r, "busy")
        /\ SetReq(q, [pc |-> "ensure", run |-> r, cmd |-> row[r].gen + 1])
     \/ /\ ~Exists(row[r])
        /\ UNCHANGED <<row, thread>>
        /\ SetReq(q, NoReq)
  /\ UNCHANGED <<intents, redis, lists, procs, scan, faults, losses>>

LateStep(q) ==
  \/ \E r \in Runs : AwaitClaim(q, r) \/ AwaitResume(q, r)
  \/ ClaimLate(q) \/ ResumeLate(q)

\* ensure_dispatch: the job takes the row's generation as it is now, and the
\* row's payload becomes the job's.
EnsureDispatch(q) ==
  /\ req[q].pc = "ensure"
  /\ LET r == req[q].run IN
     IF Exists(row[r])
     THEN /\ SetRow(r, [row[r] EXCEPT !.cmd = req[q].cmd])
          /\ SetReq(q, [pc |-> "submit", job |-> Job(r, row[r].gen, req[q].cmd)])
     ELSE /\ UNCHANGED row
          /\ SetReq(q, NoReq)
  /\ UNCHANGED <<thread, intents, redis, lists, procs, scan, faults, losses>>

\* RedisExecutor.submit.  The token may be queued without the request learning
\* of it; the request then ends the same way.
Submit(q) ==
  /\ req[q].pc = "submit"
  /\ queue' = Push(queue, req[q].job)
  /\ SetReq(q, NoReq)
  /\ UNCHANGED <<sql, redis, proc, procs, scan, faults, losses>>

\* The submission fails.  A timeout or a lost connection is ambiguous and
\* leaves the intent to the reconciler; any other error is compensated while
\* nobody has claimed the run.
SubmitFails(q) ==
  /\ req[q].pc = "submit"
  /\ Fault
  /\ LET j == req[q].job IN
     \/ SetReq(q, NoReq)
     \/ /\ row[j.run].status = "pending"
        /\ row[j.run].owner = NoOwner
        /\ SetReq(q, [pc |-> "compensate", job |-> j])
  /\ UNCHANGED <<sql, redis, lists, procs, scan, losses>>

\* _persist_submission_failure's finish_run: a failed first submission ends the
\* run with an error, a failed resume returns it to interrupted.
Compensate(q) ==
  /\ req[q].pc = "compensate"
  /\ LET j == req[q].job
         r == j.run
     IN \/ /\ MayFinish(row[r], j.gen, NoOwner)
           /\ StageOutcome(r, IF j.cmd = 1 THEN "error" ELSE "interrupted")
           /\ SetReq(q, [pc |-> "deliver", run |-> r, gen |-> j.gen])
        \/ /\ AwaitsDelivery(row[r], j.gen)
           /\ UNCHANGED sql
           /\ SetReq(q, [pc |-> "deliver", run |-> r, gen |-> j.gen])
        \/ /\ ~MayFinish(row[r], j.gen, NoOwner)
           /\ ~AwaitsDelivery(row[r], j.gen)
           /\ UNCHANGED sql
           /\ SetReq(q, NoReq)
  /\ UNCHANGED <<redis, lists, procs, scan, faults, losses>>

\* _cancel_active_run: finish_run(cancel=True).
Cancel(q, r) ==
  /\ req[q].pc = "idle"
  /\ MayCancel(row[r])
  /\ StageOutcome(r, "error")
  /\ SetReq(q, [pc |-> "deliver", run |-> r, gen |-> row[r].gen])
  /\ UNCHANGED <<redis, lists, procs, scan, faults, losses>>

\* The delivery that follows a cancellation or a compensation.
ReqDeliver(q) ==
  /\ req[q].pc = "deliver"
  /\ SetReq(q, NoReq)
  /\ \/ Deliver(req[q].run, req[q].gen) /\ UNCHANGED faults
     \/ DeliverFails(req[q].run, req[q].gen) /\ Fault
  /\ UNCHANGED <<lists, procs, scan, losses>>

\* delete_run, also the rollback of a cancelled run: the row goes first ...
Delete(q, r) ==
  /\ req[q].pc = "idle"
  /\ Exists(row[r])
  /\ SetRow(r, NoRow("deleted"))
  /\ SetReq(q, [pc |-> "drop", run |-> r])
  /\ UNCHANGED <<thread, intents, redis, lists, procs, scan, faults, losses>>

\* ... then the run's stream.
DropStream(q) ==
  /\ req[q].pc = "drop"
  /\ runLog' = [runLog EXCEPT ![req[q].run] = <<>>]
  /\ SetReq(q, NoReq)
  /\ UNCHANGED <<sql, threadLog, marks, lists, procs, scan, faults, losses>>

\* cancel_runs reads the unfinished runs it is asked for ...
BulkRead(q) ==
  /\ BulkCancel
  /\ req[q].pc = "idle"
  /\ \E rs \in SUBSET {r \in Runs : row[r].status \in Active} :
       rs # {} /\ SetReq(q, [pc |-> "bulk", runs |-> rs])
  /\ UNCHANGED <<sql, redis, lists, procs, scan, faults, losses>>

\* ... and writes status = "error" to each by its primary key alone.  A row that
\* is gone fails the whole flush.  action=rollback goes on to erase the rows.
BulkWrite(q) ==
  /\ req[q].pc = "bulk"
  /\ LET rs == req[q].runs IN
     \/ /\ \A r \in rs : Exists(row[r])
        /\ req' \in {[req EXCEPT ![q] = NoReq],
                     [req EXCEPT ![q] = [pc |-> "erase", runs |-> rs]]}
        /\ row' = [r \in Runs |-> IF r \in rs
                                  THEN [row[r] EXCEPT !.status = "error"]
                                  ELSE row[r]]
        /\ thread' = [t \in Threads |-> IF t \in {ThreadOf[r] : r \in rs}
                                        THEN "error" ELSE thread[t]]
     \/ /\ \E r \in rs : ~Exists(row[r])
        /\ UNCHANGED <<row, thread>>
        /\ SetReq(q, NoReq)
  /\ UNCHANGED <<intents, redis, lists, procs, scan, faults, losses>>

\* cancel_runs with action=rollback deletes the rows; their streams stay.
BulkErase(q) ==
  /\ req[q].pc = "erase"
  /\ row' = [r \in Runs |-> IF r \in req[q].runs /\ Exists(row[r])
                            THEN NoRow("deleted") ELSE row[r]]
  /\ SetReq(q, NoReq)
  /\ UNCHANGED <<thread, intents, redis, lists, procs, scan, faults, losses>>

\* The API process stops, or the client's request is cancelled, between steps.
ReqStops(q) ==
  /\ req[q].pc # "idle"
  /\ Fault
  /\ SetReq(q, NoReq)
  /\ UNCHANGED <<sql, redis, lists, procs, scan, losses>>

-----------------------------------------------------------------------------
(* Workers.                                                                *)

\* acquire_worker_lock: SET NX EX.
Start(w) ==
  /\ worker[w] = "new"
  /\ lock = NoOwner
  /\ lock' = w
  /\ worker' = [worker EXCEPT ![w] = "requeue"]
  /\ UNCHANGED <<sql, redis, lists, task, scan, req, faults, losses>>

\* requeue_inflight: one token at a time until the processing list is empty.
Requeue(w) ==
  /\ worker[w] = "requeue"
  /\ \/ \E j \in Jobs :
          /\ proc[j] > 0
          /\ proc' = Pull(proc, j)
          /\ queue' = Push(queue, j)
          /\ UNCHANGED worker
     \/ /\ \A j \in Jobs : proc[j] = 0
        /\ worker' = [worker EXCEPT ![w] = "up"]
        /\ UNCHANGED lists
  /\ UNCHANGED <<sql, redis, lock, task, scan, req, faults, losses>>

\* reserve: BRPOPLPUSH into a free slot.
Reserve(w, s) ==
  /\ worker[w] = "up"
  /\ task[w][s].pc = "idle"
  /\ \E j \in Jobs :
       /\ queue[j] > 0
       /\ queue' = Pull(queue, j)
       /\ proc' = Push(proc, j)
       /\ SetTask(w, s, [pc |-> "reserved", job |-> j])
  /\ UNCHANGED <<sql, redis, lock, worker, scan, req, faults, losses>>

\* claim_execution with owner_id = worker_id and recovered = True.
Claim(w, s) ==
  /\ task[w][s].pc = "reserved"
  /\ LET j == task[w][s].job
         r == j.run
     IN \/ /\ Claimable(row[r], j.gen, w, TRUE)
           /\ SetRow(r, Claimed(row[r], w))
           /\ SetThread(r, "busy")
           /\ SetTask(w, s, [pc |-> "start", job |-> j])
        \/ /\ OutcomeStored(row[r], j.gen)
           /\ UNCHANGED <<row, thread>>
           /\ SetTask(w, s, [pc |-> "deliver", job |-> j])
        \/ /\ ~Claimable(row[r], j.gen, w, TRUE)
           /\ ~OutcomeStored(row[r], j.gen)
           /\ UNCHANGED <<row, thread>>
           /\ SetTask(w, s, [pc |-> "ack", job |-> j])
  /\ UNCHANGED <<intents, redis, lists, lock, worker, scan, req, faults, losses>>

\* Mutant: the start record is appended without the fence.
BeginUnfenced(w, s) ==
  /\ task[w][s].pc = "start"
  /\ LET j == task[w][s].job IN
     /\ runLog' = [runLog EXCEPT ![j.run] = Append(@,
          [kind |-> "start", gen |-> j.gen, status |-> "none"])]
     /\ SetTask(w, s, [pc |-> "graph", job |-> j])
  /\ UNCHANGED <<sql, threadLog, marks, lists, lock, worker, scan, req, faults, losses>>

\* The start record, appended under the fence; a lost fence is an error of the
\* execution.
Begin(w, s) ==
  /\ task[w][s].pc = "start"
  /\ LET j == task[w][s].job IN
     \/ /\ OwnsExecution(row[j.run], j.gen, w)
        /\ runLog' = [runLog EXCEPT ![j.run] = Append(@,
             [kind |-> "start", gen |-> j.gen, status |-> "none"])]
        /\ SetTask(w, s, [pc |-> "graph", job |-> j])
     \/ /\ ~OwnsExecution(row[j.run], j.gen, w)
        /\ UNCHANGED runLog
        /\ SetTask(w, s, [pc |-> "finish", job |-> j, outcome |-> "error"])
  /\ UNCHANGED <<sql, threadLog, marks, lists, lock, worker, scan, req, faults, losses>>

\* execute_run returns, interrupts or raises.
GraphReturns(w, s) ==
  /\ task[w][s].pc = "graph"
  /\ \E o \in Terminal :
       SetTask(w, s, [pc |-> "finish", job |-> task[w][s].job, outcome |-> o])
  /\ UNCHANGED <<sql, redis, lists, lock, worker, scan, req, faults, losses>>

\* The execution lease's heartbeat renews the lease of a run it still owns.
Renew(w, s) ==
  /\ task[w][s].pc \in {"start", "graph"}
  /\ LET j == task[w][s].job IN
     /\ OwnsExecution(row[j.run], j.gen, w)
     /\ row[j.run].lease # "live"
     /\ SetRow(j.run, [row[j.run] EXCEPT !.lease = "live"])
  /\ UNCHANGED <<thread, intents, redis, lists, procs, scan, req, faults, losses>>

\* The heartbeat finds that the run is no longer this worker's and cancels the
\* execution.  CancelledError leaves the job unacknowledged, and run_worker
\* raises it: the worker exits, with every other job it was executing.
FencedOut(w, s) ==
  /\ task[w][s].pc \in {"start", "graph"}
  /\ LET j == task[w][s].job IN ~OwnsExecution(row[j.run], j.gen, w)
  /\ Exit(w)
  /\ UNCHANGED <<sql, redis, lists, scan, req, faults, losses>>

\* finish_run by the executor of the job.
Finish(w, s) ==
  /\ task[w][s].pc = "finish"
  /\ LET j == task[w][s].job
         r == j.run
     IN \/ /\ MayFinish(row[r], j.gen, w)
           /\ StageOutcome(r, task[w][s].outcome)
           /\ SetTask(w, s, [pc |-> "deliver", job |-> j])
        \/ /\ AwaitsDelivery(row[r], j.gen)
           /\ UNCHANGED sql
           /\ SetTask(w, s, [pc |-> "deliver", job |-> j])
        \/ /\ ~MayFinish(row[r], j.gen, w)
           /\ ~AwaitsDelivery(row[r], j.gen)
           /\ UNCHANGED sql
           /\ SetTask(w, s, [pc |-> "ack", job |-> j])
  /\ UNCHANGED <<redis, lists, lock, worker, scan, req, faults, losses>>

\* _deliver_pending by the executor; an exception ends the worker with the
\* token unacknowledged.
TaskDeliver(w, s) ==
  /\ task[w][s].pc = "deliver"
  /\ LET j == task[w][s].job IN
     \/ /\ Deliver(j.run, j.gen)
        /\ SetTask(w, s, [pc |-> "ack", job |-> j])
        /\ UNCHANGED <<lock, worker, faults>>
     \/ /\ DeliverFails(j.run, j.gen)
        /\ Fault
        /\ Exit(w)
  /\ UNCHANGED <<lists, scan, req, losses>>

\* An SQL or Redis error outside the graph's own compensation boundary: the
\* claim, the lease's heartbeat, the staging of the outcome, its delivery or the
\* acknowledgment raises, and the worker exits with the token unacknowledged.
JobRaises(w, s) ==
  /\ task[w][s].pc # "idle"
  /\ Fault
  /\ Exit(w)
  /\ UNCHANGED <<sql, redis, lists, scan, req, losses>>

\* ack_if_worker_lock_owner: LREM one token, or exit as a worker without lock.
Ack(w, s) ==
  /\ task[w][s].pc = "ack"
  /\ LET j == task[w][s].job IN
     \/ /\ lock = w
        /\ proc[j] > 0
        /\ proc' = Pull(proc, j)
        /\ SetTask(w, s, NoTask)
        /\ UNCHANGED <<lock, worker>>
     \/ /\ lock # w \/ proc[j] = 0
        /\ UNCHANGED proc
        /\ Exit(w)
  /\ UNCHANGED <<sql, redis, queue, scan, req, faults, losses>>

\* SIGTERM: no new reservations; the worker leaves when its slots are idle.  A
\* reservation that completed along with the signal is dropped: its token stays
\* in the processing list.
Drain(w) ==
  /\ worker[w] = "up"
  /\ Fault
  /\ worker' = [worker EXCEPT ![w] = "draining"]
  /\ \/ UNCHANGED task
     \/ \E s \in Slots : task[w][s].pc = "reserved" /\ SetTask(w, s, NoTask)
  /\ UNCHANGED <<sql, redis, lists, lock, scan, req, losses>>

Drained(w) ==
  /\ worker[w] = "draining"
  /\ \A s \in Slots : task[w][s].pc = "idle"
  /\ Exit(w)
  /\ UNCHANGED <<sql, redis, lists, scan, req, faults, losses>>

\* _maintain_worker_lock: the renewal finds another holder or none.
LockLost(w) ==
  /\ worker[w] \in {"up", "draining"}
  /\ lock # w
  /\ Exit(w)
  /\ UNCHANGED <<sql, redis, lists, scan, req, faults, losses>>

\* The process dies: its lock stays until it expires.
Crash(w) ==
  /\ worker[w] \in {"requeue", "up", "draining"}
  /\ Fault
  /\ worker' = [worker EXCEPT ![w] = "gone"]
  /\ task' = [task EXCEPT ![w] = [s \in Slots |-> NoTask]]
  /\ UNCHANGED <<sql, redis, lists, lock, scan, req, losses>>

\* The lock's TTL runs out: always after its holder is gone, and under a live
\* holder that could not renew it.
LockExpires ==
  /\ lock # NoOwner
  /\ \/ worker[lock] = "gone" /\ UNCHANGED losses
     \/ worker[lock] # "gone" /\ losses < MaxLosses /\ losses' = losses + 1
  /\ lock' = NoOwner
  /\ UNCHANGED <<sql, redis, lists, worker, task, scan, req, faults>>

\* A new process starts under a fresh uuid.  A uuid that no lock and no row
\* remembers is as good as fresh.
Restart(w) ==
  /\ worker[w] = "gone"
  /\ lock # w
  /\ \A r \in Runs : row[r].owner # w
  /\ worker' = [worker EXCEPT ![w] = "new"]
  /\ UNCHANGED <<sql, redis, lists, lock, task, scan, req, faults, losses>>

-----------------------------------------------------------------------------
(* Time and the reconcilers.                                               *)

\* execution_lease_until passes: nobody has renewed it in time.
LeaseLapses(r) ==
  /\ row[r].lease = "live"
  /\ SetRow(r, [row[r] EXCEPT !.lease = "lapsed"])
  /\ UNCHANGED <<thread, intents, redis, lists, procs, scan, req, faults, losses>>

\* reconcile_dispatches reads a due intent ...
ScanRead(c, r) ==
  /\ scan[c].pc = "idle"
  /\ Due(row[r])
  /\ scan' = [scan EXCEPT ![c] =
       [pc |-> "read", job |-> Job(r, row[r].gen, row[r].cmd)]]
  /\ UNCHANGED <<sql, redis, lists, procs, req, faults, losses>>

\* ... and later submits it, unless either list holds the run's generation.
ScanSubmit(c) ==
  /\ scan[c].pc = "read"
  /\ LET j == scan[c].job IN
     IF \E i \in Jobs : i.run = j.run /\ i.gen = j.gen /\ queue[i] + proc[i] > 0
     THEN UNCHANGED queue
     ELSE queue' = Push(queue, j)
  /\ scan' = [scan EXCEPT ![c] = NoScan]
  /\ UNCHANGED <<sql, redis, proc, procs, req, faults, losses>>

\* reconcile_terminal_deliveries.
ReconcileDelivery(r) ==
  /\ row[r].status = "terminal_pending"
  /\ \/ Deliver(r, row[r].gen) /\ UNCHANGED faults
     \/ DeliverFails(r, row[r].gen) /\ Fault
  /\ UNCHANGED <<lists, procs, scan, req, losses>>

\* Mutant: markers are released while their delivery is still pending.
CleanupMarkersEarly(r, g) ==
  /\ <<r, g>> \in intents
  /\ marks' = marks \ {<<"run", r, g>>, <<"thread", r, g>>}
  /\ intents' = intents \ {<<r, g>>}
  /\ row' = IF row[r].gen = g /\ row[r].status \notin Active
            THEN [row EXCEPT ![r].result = "none"] ELSE row
  /\ UNCHANGED <<thread, runLog, threadLog, lists, procs, scan, req, faults, losses>>

\* _cleanup_terminal_markers, by whoever comes first: not while the same
\* generation still waits for its delivery.
CleanupMarkers(r, g) ==
  /\ <<r, g>> \in intents
  /\ ~(row[r].gen = g /\ row[r].status \in Active)
  /\ marks' = marks \ {<<"run", r, g>>, <<"thread", r, g>>}
  /\ intents' = intents \ {<<r, g>>}
  /\ row' = IF row[r].gen = g THEN [row EXCEPT ![r].result = "none"] ELSE row
  /\ UNCHANGED <<thread, runLog, threadLog, lists, procs, scan, req, faults, losses>>

-----------------------------------------------------------------------------

RequestStep ==
  \E q \in Requests :
    \/ \E r \in Runs : Prepare(q, r) \/ Resume(q, r) \/ Cancel(q, r) \/ Delete(q, r)
    \/ SnapshotClaims /\ LateStep(q)
    \/ EnsureDispatch(q) \/ Submit(q) \/ SubmitFails(q) \/ Compensate(q)
    \/ ReqDeliver(q) \/ DropStream(q) \/ BulkRead(q) \/ BulkWrite(q)
    \/ BulkErase(q) \/ ReqStops(q)

WorkerStep ==
  \E w \in Workers :
    \/ Start(w) \/ Requeue(w) \/ Drain(w) \/ Drained(w) \/ LockLost(w)
    \/ Crash(w) \/ Restart(w)
    \/ \E s \in Slots :
         \/ Reserve(w, s) \/ Claim(w, s) \/ Begin(w, s) \/ GraphReturns(w, s)
         \/ Renew(w, s) \/ FencedOut(w, s) \/ Finish(w, s) \/ TaskDeliver(w, s)
         \/ JobRaises(w, s) \/ Ack(w, s)

ServiceStep ==
  \/ LockExpires
  \/ \E r \in Runs :
       \/ LeaseLapses(r) \/ ReconcileDelivery(r)
       \/ \E c \in Scanners : ScanRead(c, r)
       \/ \E g \in Gens : CleanupMarkers(r, g)
  \/ \E c \in Scanners : ScanSubmit(c)

Next == RequestStep \/ WorkerStep \/ ServiceStep

Spec == Init /\ [][Next]_vars

(***************************************************************************)
(* Fairness: processes and reconcilers keep taking steps, a graph returns, *)
(* leases and the locks of dead workers run out, and a worker that stopped *)
(* is started again.  Nothing is assumed of clients, of API requests, nor  *)
(* of any step that fails.                                                 *)
(***************************************************************************)

WorkerFairness ==
  \A w \in Workers :
    /\ WF_vars(Start(w)) /\ WF_vars(Requeue(w)) /\ WF_vars(Drained(w))
    /\ WF_vars(LockLost(w)) /\ WF_vars(Restart(w))
    /\ \A s \in Slots :
         /\ WF_vars(Reserve(w, s)) /\ WF_vars(Claim(w, s)) /\ WF_vars(Begin(w, s))
         /\ WF_vars(GraphReturns(w, s)) /\ WF_vars(FencedOut(w, s))
         /\ WF_vars(Finish(w, s)) /\ WF_vars(TaskDeliver(w, s)) /\ WF_vars(Ack(w, s))

ServiceFairness ==
  /\ WF_vars(LockExpires)
  /\ \A r \in Runs :
       /\ WF_vars(LeaseLapses(r))
       /\ WF_vars(ReconcileDelivery(r))
       /\ \A c \in Scanners : WF_vars(ScanRead(c, r))
       /\ \A g \in Gens : WF_vars(CleanupMarkers(r, g))
  /\ \A c \in Scanners : WF_vars(ScanSubmit(c))

FairSpec == Spec /\ WorkerFairness /\ ServiceFairness

-----------------------------------------------------------------------------
(* Safety.                                                                 *)

\* "Another run is already active for this thread": a thread never has two unfinished
\* runs, whatever creates, resumes, cancels, executes or reconciles them.  With
\* SnapshotClaims it can (_claim_thread_for_run, _claim_thread_for_resume).
OneActiveRunPerThread ==
  \A r, x \in Runs :
    /\ ThreadOf[r] = ThreadOf[x]
    /\ row[r].status \in Active
    /\ row[x].status \in Active
    => r = x

\* A reader of a run's stream sees generations in order, and nothing of a
\* generation after its end record: neither a second end nor a start appended
\* by an execution that has been overtaken.
RunLogWellFormed ==
  \A r \in Runs : \A i, j \in 1 .. Len(runLog[r]) :
    i < j => \/ runLog[r][i].gen < runLog[r][j].gen
             \/ /\ runLog[r][i].gen = runLog[r][j].gen
                /\ runLog[r][i].kind = "start"

\* A thread's stream holds at most one terminal lifecycle record of a run's
\* generation, however often its delivery is retried.
LifecycleOnce ==
  \A t \in Threads : \A i, j \in 1 .. Len(threadLog[t]) :
    /\ threadLog[t][i].run = threadLog[t][j].run
    /\ threadLog[t][i].gen = threadLog[t][j].gen
    => i = j

\* What the streams announced is what the row says: an end record of the
\* current generation carries the stored or final outcome, and a settled run
\* has both its records.
OutcomeAnnounced ==
  \A r \in Runs :
    /\ \A i \in 1 .. Len(runLog[r]) :
         runLog[r][i].kind = "end" /\ runLog[r][i].gen = row[r].gen
           => \/ row[r].status = "terminal_pending" /\ row[r].result = runLog[r][i].status
              \/ row[r].status = runLog[r][i].status
    /\ row[r].status \in Terminal =>
         /\ \E i \in 1 .. Len(runLog[r]) :
              runLog[r][i] = [kind |-> "end", gen |-> row[r].gen, status |-> row[r].status]
         /\ \E i \in 1 .. Len(threadLog[ThreadOf[r]]) :
              threadLog[ThreadOf[r]][i] =
                [run |-> r, gen |-> row[r].gen, status |-> row[r].status]

\* Every non-expiring delivery marker in Redis has an owner in SQL that will
\* release it, through deletions, resumes and failed deliveries.
MarkersOwned ==
  \A m \in marks : <<m[2], m[3]>> \in intents

\* While no live worker loses its lock, at most one execution of a run passes
\* the fence of its stream writes, however many tokens of it there are.
OneFencedExecution ==
  \A w, v \in Workers : \A s, u \in Slots :
    LET Fenced(x, y) == /\ task[x][y].pc \in {"start", "graph"}
                        /\ OwnsExecution(row[task[x][y].job.run], task[x][y].job.gen, x)
    IN Fenced(w, s) /\ Fenced(v, u) /\ task[w][s].job.run = task[v][u].job.run
         => w = v /\ s = u

\* Whatever tokens meet, one execution writes for a run and its log has the shape of one: the
\* fence of claim_execution seen from the rows and from what clients read.
ExecutesOnce ==
  /\ RunLogWellFormed
  /\ OneFencedExecution
  /\ OutcomeAnnounced

\* "A stored terminal result is delivered without rerunning the graph": once a
\* generation has an outcome it never runs again.
NoRerunAfterOutcome ==
  [][\A r \in Runs :
       /\ row[r].status \in Terminal \cup {"terminal_pending"}
       /\ row'[r].gen = row[r].gen
       => row'[r].status \notin {"pending", "running"}]_vars

(***************************************************************************)
(* Liveness, under FairSpec.                                               *)
(***************************************************************************)

\* Every unfinished run reaches an outcome or is deleted, through crashes,
\* lost submissions and failed deliveries.
RunsSettle ==
  \A r \in Runs : row[r].status \in Active ~> row[r].status \notin Active

\* Every delivery's markers are released in the end, whatever became of its run.
MarkersReleased ==
  \A r \in Runs : \A g \in Gens : <<r, g>> \in intents ~> <<r, g>> \notin intents

\* No token stays in the queue or in processing for ever.
TokensAcknowledged ==
  \A j \in Jobs : queue[j] + proc[j] > 0 ~> queue[j] + proc[j] = 0

\* Nothing that was begun stays for ever: runs settle, markers go, tokens are acknowledged.
\* (worker, reconcile_dispatches, reconcile_terminal_deliveries)
WorkDrains ==
  /\ RunsSettle
  /\ MarkersReleased
  /\ TokensAcknowledged

(***************************************************************************)
(* The promise to clients: see RunContract.                                *)
(***************************************************************************)

PhaseOf(r) ==
  CASE row[r].status \in {"absent", "deleted"}    -> row[r].status
    [] row[r].status \in {"pending", "running"}   -> "open"
    [] row[r].status = "terminal_pending"         -> "decided"
    [] row[r].status \in Terminal                 -> "settled"

OutcomeOf(r) ==
  IF row[r].status = "terminal_pending" THEN row[r].result
  ELSE IF row[r].status \in Terminal THEN row[r].status
  ELSE "none"

ToldOf(r) ==
  {<<runLog[r][i].gen, runLog[r][i].status>> :
     i \in {i \in 1 .. Len(runLog[r]) : runLog[r][i].kind = "end"}}

Contract ==
  INSTANCE RunContract WITH
    phase   <- [r \in Runs |-> PhaseOf(r)],
    gen     <- [r \in Runs |-> row[r].gen],
    outcome <- [r \in Runs |-> OutcomeOf(r)],
    told    <- [r \in Runs |-> ToldOf(r)]

\* Every behaviour of the deployment is one the contract allows, where no claim is
\* decided on a snapshot and nothing is cancelled in bulk.
KeepsContract == Contract!Spec
=============================================================================
