---------------------------- MODULE EventStreams ----------------------------
(***************************************************************************)
(* The durable streams of a run that executes inline: the buffer that      *)
(* batches a graph's events (services/stream_event_buffer.py), the SQL     *)
(* transactions that number and insert them                                *)
(* (services/stream_persistence.py), the records that an execution, its    *)
(* end and the API add directly, and the readers that poll the tables      *)
(* (api/runs.py, api/streaming.py).                                        *)
(*                                                                         *)
(* An event of the graph is a pair of records, one in the run's stream and *)
(* one in the thread's.  Records of one transaction become visible at its  *)
(* commit.  The run is RunRow's; an execution may lose it at any time to a *)
(* cancellation or, when its lease lapsed, to the next execution.          *)
(***************************************************************************)
EXTENDS RunRow, FiniteSets, Sequences, FiniteSetsExt, SequencesExt

CONSTANTS
  NEvents,        (* bound: events a graph emits                           *)
  MaxPending,     (* max_events of the buffer                              *)
  Api,            (* the request that publishes "started" to the thread    *)
  Polls,          (* REDIS_STREAM_TERMINAL_IDLE_POLLS                      *)
  MaxFaults,      (* bound: failures, stalls and stops                     *)
  MaxDrops        (* bound: connections of the reader that break           *)

ASSUME EventsAssumption ==
  NEvents \in Nat /\ MaxPending \in Nat \ {0}
ASSUME ApiAssumption == Api \notin Owners /\ Api # NoOwner
\* The code polls twice: a run may end between a poll and the look at its status.
ASSUME LimitsAssumption ==
  Polls \in Nat \ {0, 1} /\ MaxFaults \in Nat /\ MaxDrops \in Nat
ASSUME OneGeneration == MaxGen = 1

VARIABLES
  row,        (* the run                                                   *)
  rows,       (* run_stream_events and thread_stream_events, committed     *)
  counter,    (* stream_sequences, committed                               *)
  tx,         (* the transaction a writer is in                            *)
  exec,       (* executions of the run, one task each                      *)
  buf,        (* the event buffer of each execution                        *)
  rd,         (* a client that reads one of the streams                    *)
  cut,        (* history: a commit's answer was lost, or overtaken by a stop *)
  faults, drops

vars == <<row, rows, counter, tx, exec, buf, rd, cut, faults, drops>>

Scopes == {"run", "thread"}

Writers == Owners \cup {Api}

\* What a record says: an execution starts, its nth event, "started", the end.
Content == [kind : {"start", "event", "started", "end"},
            by : Writers \cup {NoOwner}, n : 0 .. NEvents]

Starting(x)  == [kind |-> "start", by |-> x, n |-> 0]
Event(x, n)  == [kind |-> "event", by |-> x, n |-> n]
Started      == [kind |-> "started", by |-> Api, n |-> 0]
Ending       == [kind |-> "end", by |-> NoOwner, n |-> 0]

Record == [seq : Nat, what : Content]

NoTx == [stage |-> "none", new |-> [s \in Scopes |-> <<>>]]

NewBuffer == [pending |-> <<>>, carry |-> 0, holder |-> "none",
              closed |-> FALSE, worker |-> "alive"]

NewExec == [pc |-> "new", emitted |-> 0, outcome |-> "none", cancelled |-> FALSE]

NoReader == [pc |-> "new", scope |-> "run", idle |-> 0, from |-> 0, got |-> <<>>]

TypeOK ==
  /\ row \in Row
  /\ \A s \in Scopes : rows[s] \subseteq Record /\ counter[s] \in Nat
  /\ tx \in [Writers -> [stage : {"none", "open", "done"}, new : [Scopes -> Seq(Record)]]]
  /\ exec \in [Owners -> [pc : {"new", "start", "graph", "exit", "finish", "gone"},
                          emitted : 0 .. NEvents,
                          outcome : {"none", "success", "error"},
                          cancelled : BOOLEAN]]
  /\ buf \in [Owners -> [pending : Seq(1 .. NEvents), carry : 0 .. NEvents,
                         holder : {"none", "start", "graph", "worker", "finish"},
                         closed : BOOLEAN, worker : {"alive", "done", "dead"}]]
  /\ rd \in [pc : {"new", "load", "check", "over"}, scope : Scopes,
             idle : 0 .. Polls, from : Nat, got : Seq(Record)]
  /\ cut \in [Owners -> BOOLEAN]
  /\ faults \in 0 .. MaxFaults /\ drops \in 0 .. MaxDrops

Init ==
  /\ row = NewGeneration(NoRow("absent"))
  /\ rows = [s \in Scopes |-> {}]
  /\ counter = [s \in Scopes |-> 0]
  /\ tx = [w \in Writers |-> NoTx]
  /\ exec = [x \in Owners |-> NewExec]
  /\ buf = [x \in Owners |-> NewBuffer]
  /\ rd = NoReader
  /\ cut = [x \in Owners |-> FALSE]
  /\ faults = 0 /\ drops = 0

Fault == faults < MaxFaults /\ faults' = faults + 1

SetExec(x, new) == exec' = [exec EXCEPT ![x] = new]

SetBuf(x, new) == buf' = [buf EXCEPT ![x] = new]

-----------------------------------------------------------------------------
(* Numbers and transactions.                                               *)

Seqs(records) == {r.seq : r \in records}

\* ORDER BY seq, for records of different numbers.
InOrder(records) ==
  [i \in 1 .. Cardinality(records) |->
     CHOOSE r \in records : Cardinality({t \in records : t.seq < r.seq}) = i - 1]

\* _ensure_stream_sequence: the counter, never below what is stored.
LastSeq(s) == Max({counter[s]} \cup Seqs(rows[s]))

Numbered(s, contents) ==
  [i \in DOMAIN contents |-> [seq |-> LastSeq(s) + i, what |-> contents[i]]]

\* The upsert of the counter row waits for a transaction that has it.
CounterFree(w, s) ==
  \A v \in Writers \ {w} : tx[v].stage = "open" => tx[v].new[s] = <<>>

\* A fenced transaction has updated the row of the run.
RowLocked == \E x \in Owners : tx[x].stage = "open"

Insert(new) ==
  /\ rows' = [s \in Scopes |-> rows[s] \cup ToSet(new[s])]
  /\ counter' = [s \in Scopes |-> Max({counter[s]} \cup Seqs(ToSet(new[s])))]

\* The outcome's transaction: status and both end records.
EndRecords == [s \in Scopes |-> Numbered(s, <<Ending>>)]

Settle(outcome) ==
  /\ ~RowLocked /\ \A s \in Scopes : CounterFree(NoOwner, s)
  /\ row' = Applied(row, outcome)
  /\ Insert(EndRecords)

-----------------------------------------------------------------------------
(* Writes of an execution: its start record, or the pending batch.         *)

\* Each stream gets the records that are its own, in the order of the events.
Contents(x) ==
  [s \in Scopes |->
     IF buf[x].holder = "start"
     THEN IF s = "run" THEN <<Starting(x)>> ELSE <<>>
     ELSE [i \in DOMAIN buf[x].pending |-> Event(x, buf[x].pending[i])]]

\* The write is over without an error: the batch is cleared, its holder goes on.
Cleared(x) ==
  [buf[x] EXCEPT
     !.pending = IF buf[x].holder = "start" THEN @
                 ELSE IF buf[x].carry # 0 THEN <<buf[x].carry>> ELSE <<>>,
     !.carry = 0,
     !.holder = "none",
     !.worker = IF buf[x].holder = "worker" /\ buf[x].closed THEN "done" ELSE @]

AfterWrite(x) ==
  [exec[x] EXCEPT !.pc =
     CASE buf[x].holder = "start"  -> "graph"
       [] buf[x].holder = "finish" -> IF exec[x].cancelled THEN "gone" ELSE "finish"
       [] OTHER                    -> @]

\* The write raises.  The batch stays; the graph fails, the periodic flusher
\* ends, the closing fails the run.
Raised(x) ==
  /\ SetBuf(x, [buf[x] EXCEPT
       !.carry = 0,
       !.holder = "none",
       !.closed = @ \/ buf[x].holder = "graph",
       !.worker = IF buf[x].holder = "worker" THEN "dead" ELSE @])
  /\ SetExec(x, CASE buf[x].holder = "graph" ->
                       [exec[x] EXCEPT !.pc = "exit", !.outcome = "error"]
                  [] buf[x].holder \in {"start", "finish"} ->
                       [exec[x] EXCEPT !.pc = "finish", !.outcome = "error"]
                  [] OTHER -> exec[x])

\* fence_execution_writes, then numbers for every record of the batch.
WriteStage(x) ==
  /\ buf[x].holder # "none" /\ tx[x].stage = "none" /\ ~RowLocked
  /\ OwnsExecution(row, 1, x)
  /\ \A s \in Scopes : Contents(x)[s] # <<>> => CounterFree(x, s)
  /\ tx' = [tx EXCEPT ![x] =
       [stage |-> "open", new |-> [s \in Scopes |-> Numbered(s, Contents(x)[s])]]]
  /\ UNCHANGED <<row, rows, counter, exec, buf, rd, cut, faults, drops>>

\* "Execution no longer owns stream publication".
WriteRefused(x) ==
  /\ buf[x].holder # "none" /\ tx[x].stage = "none" /\ ~RowLocked
  /\ ~OwnsExecution(row, 1, x)
  /\ Raised(x)
  /\ UNCHANGED <<row, rows, counter, tx, rd, cut, faults, drops>>

WriteCommit(x) ==
  /\ tx[x].stage = "open"
  /\ Insert(tx[x].new)
  /\ tx' = [tx EXCEPT ![x].stage = "done"]
  /\ UNCHANGED <<row, exec, buf, rd, cut, faults, drops>>

\* Nothing is committed: retried when the database says so, else raised.
WriteFails(x) ==
  /\ tx[x].stage = "open"
  /\ Fault
  /\ tx' = [tx EXCEPT ![x] = NoTx]
  /\ Raised(x) \/ UNCHANGED <<exec, buf>>
  /\ UNCHANGED <<row, rows, counter, rd, cut, drops>>

\* The batch is committed, but the answer to COMMIT is lost.  That is no contention to
\* retry: it raises, and the batch stays although it is stored.
AnswerLost(x) ==
  /\ tx[x].stage = "done"
  /\ Fault
  /\ tx' = [tx EXCEPT ![x] = NoTx]
  /\ Raised(x)
  /\ cut' = [cut EXCEPT ![x] = TRUE]
  /\ UNCHANGED <<row, rows, counter, rd, drops>>

\* Subscribers in the process are told; an error of one is logged and does not
\* count, since the records are committed.
WritePublish(x) ==
  /\ tx[x].stage = "done"
  /\ tx' = [tx EXCEPT ![x] = NoTx]
  /\ SetBuf(x, Cleared(x))
  /\ SetExec(x, AfterWrite(x))
  /\ UNCHANGED <<row, rows, counter, rd, cut, faults, drops>>

-----------------------------------------------------------------------------
(* An execution and its buffer.                                            *)

Claim(x) ==
  /\ exec[x].pc = "new" /\ ~RowLocked
  /\ Claimable(row, 1, x, FALSE)
  /\ row' = Claimed(row, x)
  /\ SetExec(x, [exec[x] EXCEPT !.pc = "start"])
  /\ SetBuf(x, [buf[x] EXCEPT !.holder = "start"])
  /\ UNCHANGED <<rows, counter, tx, rd, cut, faults, drops>>

\* append_many: a batch that is full, by number or size, is written at once; an
\* event that would make it too large has it written before it is added.
Emit(x) ==
  LET n == exec[x].emitted + 1
      b == buf[x] IN
  /\ exec[x].pc = "graph" /\ b.holder = "none"
  /\ n <= NEvents
  /\ SetExec(x, [exec[x] EXCEPT !.emitted = n])
  /\ \/ \E full \in {TRUE, Len(b.pending) + 1 >= MaxPending} :
          SetBuf(x, [b EXCEPT !.pending = Append(@, n),
                              !.holder = IF full THEN "graph" ELSE @])
     \/ /\ b.pending # <<>>
        /\ SetBuf(x, [b EXCEPT !.carry = n, !.holder = "graph"])
  /\ UNCHANGED <<row, rows, counter, tx, rd, cut, faults, drops>>

\* The context of the graph is left, with or without an exception.
GraphEnds(x) ==
  /\ exec[x].pc = "graph" /\ buf[x].holder \in {"none", "worker"}
  /\ \E outcome \in {"success", "error"} :
       SetExec(x, [exec[x] EXCEPT !.pc = "exit", !.outcome = outcome])
  /\ SetBuf(x, [buf[x] EXCEPT !.closed = TRUE])
  /\ UNCHANGED <<row, rows, counter, tx, rd, cut, faults, drops>>

\* _flush_periodically: after the interval, or once when the buffer closes.
WorkerFlush(x) ==
  /\ exec[x].pc \in {"graph", "exit"}
  /\ buf[x].worker = "alive" /\ buf[x].holder = "none" /\ buf[x].pending # <<>>
  /\ SetBuf(x, [buf[x] EXCEPT !.holder = "worker"])
  /\ UNCHANGED <<row, rows, counter, tx, exec, rd, cut, faults, drops>>

WorkerEnds(x) ==
  /\ exec[x].pc = "exit"
  /\ buf[x].worker = "alive" /\ buf[x].holder = "none" /\ buf[x].pending = <<>>
  /\ SetBuf(x, [buf[x] EXCEPT !.worker = "done"])
  /\ UNCHANGED <<row, rows, counter, tx, exec, rd, cut, faults, drops>>

\* Mutant: a flusher that died is waited for.
CloseAfterFlusher(x) ==
  /\ exec[x].pc = "exit" /\ buf[x].worker = "done" /\ buf[x].holder = "none"
  /\ IF buf[x].pending = <<>>
     THEN /\ SetExec(x, [exec[x] EXCEPT !.pc = IF exec[x].cancelled THEN "gone" ELSE "finish"])
          /\ UNCHANGED buf
     ELSE /\ SetBuf(x, [buf[x] EXCEPT !.holder = "finish"])
          /\ UNCHANGED exec
  /\ UNCHANGED <<row, rows, counter, tx, rd, cut, faults, drops>>

\* _finish: what the flusher left is written before the buffer is closed.
Close(x) ==
  /\ exec[x].pc = "exit" /\ buf[x].worker # "alive" /\ buf[x].holder = "none"
  /\ IF buf[x].pending = <<>>
     THEN /\ SetExec(x, [exec[x] EXCEPT !.pc = IF exec[x].cancelled THEN "gone" ELSE "finish"])
          /\ UNCHANGED buf
     ELSE /\ SetBuf(x, [buf[x] EXCEPT !.holder = "finish"])
          /\ UNCHANGED exec
  /\ UNCHANGED <<row, rows, counter, tx, rd, cut, faults, drops>>

\* What a cancellation does where it reaches the task: a write of the task's
\* own is interrupted, whatever the database made of it; the closing of the
\* buffer goes on and the cancellation is remembered.
Interrupted(x) ==
  /\ \/ /\ exec[x].pc = "start"
        /\ SetExec(x, [exec[x] EXCEPT !.pc = "gone"])
        /\ SetBuf(x, [buf[x] EXCEPT !.holder = "none"])
        /\ tx' = [tx EXCEPT ![x] = NoTx]
        /\ UNCHANGED cut
     \/ /\ exec[x].pc = "graph"
        /\ SetExec(x, [exec[x] EXCEPT !.pc = "exit", !.cancelled = TRUE])
        /\ IF buf[x].holder = "graph"
           THEN /\ SetBuf(x, [buf[x] EXCEPT !.closed = TRUE, !.holder = "none", !.carry = 0])
                /\ tx' = [tx EXCEPT ![x] = NoTx]
                /\ cut' = [cut EXCEPT ![x] = @ \/ tx[x].stage = "done"]
           ELSE /\ SetBuf(x, [buf[x] EXCEPT !.closed = TRUE])
                /\ UNCHANGED <<tx, cut>>
     \/ /\ exec[x].pc = "exit" /\ ~exec[x].cancelled
        /\ SetExec(x, [exec[x] EXCEPT !.cancelled = TRUE])
        /\ UNCHANGED <<buf, tx, cut>>
  /\ UNCHANGED <<row, rows, counter, rd, drops>>

\* The heartbeat finds the run lost.
FencedOut(x) ==
  ~OwnsExecution(row, 1, x) /\ Interrupted(x) /\ UNCHANGED faults

\* The process shuts down, or the heartbeat cannot renew the lease.
Shutdown(x) == Fault /\ Interrupted(x)

\* The process is gone; what was not committed never will be.
Crash(x) ==
  /\ exec[x].pc \notin {"new", "gone"}
  /\ Fault
  /\ SetExec(x, [exec[x] EXCEPT !.pc = "gone"])
  /\ SetBuf(x, [buf[x] EXCEPT !.holder = "none", !.worker = "dead"])
  /\ tx' = [tx EXCEPT ![x] = NoTx]
  /\ UNCHANGED <<row, rows, counter, rd, cut, drops>>

\* finish_run; the run may have another owner or an outcome by now.
Finish(x) ==
  /\ exec[x].pc = "finish"
  /\ SetExec(x, [exec[x] EXCEPT !.pc = "gone"])
  /\ IF MayFinish(row, 1, x)
     THEN Settle(exec[x].outcome)
     ELSE ~RowLocked /\ UNCHANGED <<row, rows, counter>>
  /\ UNCHANGED <<tx, buf, rd, cut, faults, drops>>

\* A cancellation by a client.
CancelRun ==
  /\ MayCancel(row)
  /\ Settle("interrupted")
  /\ UNCHANGED <<tx, exec, buf, rd, cut, faults, drops>>

\* Nobody renews the lease of an execution that is gone; a stalled one misses
\* it too.
LeaseLapses ==
  /\ row.lease = "live" /\ ~RowLocked
  /\ IF exec[row.owner].pc = "gone" THEN UNCHANGED faults ELSE Fault
  /\ row' = [row EXCEPT !.lease = "lapsed"]
  /\ UNCHANGED <<rows, counter, tx, exec, buf, rd, cut, drops>>

-----------------------------------------------------------------------------
(* The request that announces the run on the thread, outside any fence.    *)

StartedStage ==
  /\ tx[Api].stage = "none" /\ CounterFree(Api, "thread")
  /\ \A r \in rows["thread"] : r.what # Started
  /\ tx' = [tx EXCEPT ![Api] =
       [stage |-> "open", new |-> [run |-> <<>>, thread |-> Numbered("thread", <<Started>>)]]]
  /\ UNCHANGED <<row, rows, counter, exec, buf, rd, cut, faults, drops>>

StartedCommit ==
  /\ tx[Api].stage = "open"
  /\ Insert(tx[Api].new)
  /\ tx' = [tx EXCEPT ![Api] = NoTx]
  /\ UNCHANGED <<row, exec, buf, rd, cut, faults, drops>>

-----------------------------------------------------------------------------
(* A client that reads one stream to its end.                              *)

SetReader(new) ==
  /\ rd' = new
  /\ UNCHANGED <<row, rows, counter, tx, exec, buf, cut, faults>>

\* The number after which the next poll reads.
Cursor == IF rd.got = <<>> THEN rd.from ELSE rd.got[Len(rd.got)].seq

\* With a cursor from the beginning, or (a run) without: then what is there is
\* skipped, but not the end.
Connect ==
  /\ rd.pc = "new"
  /\ \/ \E s \in Scopes : SetReader([rd EXCEPT !.pc = "load", !.scope = s])
     \/ LET from == Max({0} \cup Seqs({r \in rows["run"] : r.what # Ending}))
        IN SetReader([rd EXCEPT !.pc = "load", !.from = from])
  /\ UNCHANGED drops

\* Mutant: the record at the cursor is read once more.
LoadFromCursor ==
  LET new == InOrder({r \in rows[rd.scope] : r.seq >= Cursor}) IN
  /\ rd.pc = "load"
  /\ SetReader(IF new = <<>> THEN [rd EXCEPT !.pc = "check"]
               ELSE [rd EXCEPT !.idle = 0, !.got = @ \o new])
  /\ UNCHANGED drops

\* Everything after the cursor is read and yielded in the order of numbers.
Load ==
  LET new == InOrder({r \in rows[rd.scope] : r.seq > Cursor}) IN
  /\ rd.pc = "load"
  /\ SetReader(IF new = <<>> THEN [rd EXCEPT !.pc = "check"]
               ELSE [rd EXCEPT !.idle = 0, !.got = @ \o new])
  /\ UNCHANGED drops

\* Mutant: one poll too many.
CheckLate ==
  /\ rd.pc = "check"
  /\ SetReader(
       IF row.status \notin Terminal THEN [rd EXCEPT !.pc = "load", !.idle = 0]
       ELSE [rd EXCEPT !.idle = rd.idle + 1,
                       !.pc = IF rd.idle + 1 > Polls THEN "over" ELSE "load"])
  /\ UNCHANGED drops

\* Nothing new: is the run (the thread's only one) over, and was it before?
Check ==
  /\ rd.pc = "check"
  /\ SetReader(
       IF row.status \notin Terminal THEN [rd EXCEPT !.pc = "load", !.idle = 0]
       ELSE [rd EXCEPT !.idle = rd.idle + 1,
                       !.pc = IF rd.idle + 1 >= Polls THEN "over" ELSE "load"])
  /\ UNCHANGED drops

\* The connection breaks before the last items arrived; the client comes back
\* with the last id it saw.
Reconnect ==
  /\ rd.pc \in {"load", "check"} /\ drops < MaxDrops
  /\ drops' = drops + 1
  /\ \E k \in 0 .. Len(rd.got) :
       SetReader([rd EXCEPT !.pc = "load", !.idle = 0, !.got = SubSeq(@, 1, k)])

-----------------------------------------------------------------------------

Write(x) == WriteStage(x) \/ WriteRefused(x) \/ WriteCommit(x) \/ WritePublish(x)

Buffer(x) == WorkerFlush(x) \/ WorkerEnds(x) \/ Close(x)

Proceed(x) == Write(x) \/ Buffer(x) \/ Finish(x)

Read == Load \/ Check

Next ==
  \/ \E x \in Owners :
       \/ Claim(x) \/ Write(x) \/ WriteFails(x) \/ AnswerLost(x) \/ Emit(x) \/ GraphEnds(x)
       \/ Buffer(x) \/ FencedOut(x) \/ Shutdown(x) \/ Crash(x) \/ Finish(x)
  \/ CancelRun \/ LeaseLapses \/ StartedStage \/ StartedCommit
  \/ Connect \/ Read \/ Reconnect

Spec == Init /\ [][Next]_vars

\* A reader that is connected polls; a request commits what it began; an
\* execution that is not stopped goes on.
Fairness ==
  /\ WF_vars(Read)
  /\ WF_vars(StartedCommit)
  /\ \A x \in Owners : WF_vars(Proceed(x))

FairSpec == Spec /\ Fairness

-----------------------------------------------------------------------------
(* Properties.                                                             *)

\* "Lost or reordered broker notifications cannot skip committed events": what
\* a client received, across reconnections, are the records that follow its
\* starting point, each once, without a gap: every number below the last one it
\* saw had been committed when it looked, whoever wrote concurrently.
ReaderExact ==
  \A i \in DOMAIN rd.got : rd.got[i].seq = rd.from + i

\* A reader that ended has received the end of the run, although it looks at
\* the stream and at the status in different transactions.
ReaderSawEnd ==
  rd.pc = "over" => \E i \in DOMAIN rd.got : rd.got[i].what = Ending

\* A run ends in success only after every event its graph emitted is in the
\* streams, although batches are written by three parties, each may fail and
\* the periodic one may be dead.
DrainedBeforeEnd ==
  row.status = "success" =>
    \E x \in Owners : \A n \in 1 .. exec[x].emitted : \A s \in Scopes :
      \E r \in rows[s] : r.what = Event(x, n)

\* The records that tell of pairs, in the order of their numbers.
Pairs(s) ==
  LET sorted == InOrder({r \in rows[s] : r.what.kind = "event"})
  IN [i \in DOMAIN sorted |-> sorted[i].what]

\* "Protocol pairs share a transaction even at a batch boundary": both streams
\* always tell the same pairs in the same order.
PairsTogether == Pairs("run") = Pairs("thread")

\* A batch is written once, whatever fails, unless its execution never learnt of the commit:
\* the answer was lost, or the graph was cancelled before the batch was cleared.  Closing
\* the buffer then writes it again.
TwiceOnlyIfCut ==
  \A s \in Scopes : \A a, b \in rows[s] :
    a.what = b.what /\ a.seq # b.seq => cut[a.what.by]

\* What a reader is told of a stream: every record, in order, through the end, and none under
\* two numbers unless an execution never learnt that it had committed them.
ReaderTold ==
  /\ ReaderExact
  /\ ReaderSawEnd
  /\ TwiceOnlyIfCut
  /\ DrainedBeforeEnd
  /\ PairsTogether

\* A reader of a run that is over comes to its end.
ReadersEnd ==
  (row.status \in Terminal /\ rd.pc # "new") ~> rd.pc = "over"

\* An execution that has left its graph drains its buffer and ends: neither the
\* lock of the buffer nor a flusher that died keeps it.
ClosingEnds ==
  \A x \in Owners : exec[x].pc = "exit" ~> exec[x].pc = "gone"

\* Readers of a run that is over end, and so does closing its buffer.
StreamsEnd ==
  /\ ReadersEnd
  /\ ClosingEnds
=============================================================================
