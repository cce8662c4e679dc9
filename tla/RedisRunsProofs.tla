--------------------------- MODULE RedisRunsProofs ---------------------------
(***************************************************************************)
(* Theorems about RedisRuns, for every set of runs, threads, workers,      *)
(* slots, requests and reconcilers and every bound.                        *)
(***************************************************************************)
EXTENDS RedisRuns, TLAPS

-----------------------------------------------------------------------------
(* The operators on rows.                                                  *)

\* The transactions that make a row of a row keep its type.
LEMMA RowOperators ==
  ASSUME NEW x \in Row
  PROVE  /\ NoRow("absent") \in Row /\ NoRow("deleted") \in Row
         /\ NewGeneration(NoRow("absent")) \in Row
         /\ x.gen < MaxGen => NewGeneration(x) \in Row
         /\ x.gen < MaxGen => \A l \in Terminal \cup {"none"} : Reopened(x, l) \in Row
         /\ \A o \in Owners : Claimed(x, o) \in Row
         /\ \A o \in Terminal : Staged(x, o) \in Row /\ Applied(x, o) \in Row
<1> USE MaxGenAssumption DEF Row, Active, Terminal
<1>1. NoRow("absent") \in Row /\ NoRow("deleted") \in Row
  BY DEF NoRow
<1>2. NewGeneration(NoRow("absent")) \in Row
  BY DEF NewGeneration, NoRow
<1>3. x.gen < MaxGen => NewGeneration(x) \in Row
  BY DEF NewGeneration
<1>4. \A o \in Owners : Claimed(x, o) \in Row
  BY DEF Claimed
<1>5. \A o \in Terminal : Staged(x, o) \in Row /\ Applied(x, o) \in Row
  BY DEF Staged, Applied
<1>6. ASSUME x.gen < MaxGen, NEW l \in Terminal \cup {"none"}
      PROVE  Reopened(x, l) \in Row
  <2>1. CASE l = "none"
    BY <1>6, <2>1 DEF Reopened
  <2>2. CASE l # "none"
    BY <1>6, <2>2 DEF Reopened
  <2> QED  BY <2>1, <2>2
<1> HIDE DEF Row, Active, Terminal
<1> QED  BY <1>1, <1>2, <1>3, <1>4, <1>5, <1>6

\* A row that exists has a generation and a command; one whose delivery is
\* pending has its outcome.
RowSound(x) ==
  /\ Exists(x) => x.gen \in Gens /\ x.cmd \in Gens
  /\ x.status = "terminal_pending" => x.result \in Terminal

\* The same transactions leave the row sound.
LEMMA SoundOperators ==
  ASSUME NEW x \in Row, RowSound(x)
  PROVE  /\ RowSound(NoRow("absent")) /\ RowSound(NoRow("deleted"))
         /\ RowSound(NewGeneration(NoRow("absent")))
         /\ x.gen < MaxGen => RowSound(NewGeneration(x))
         /\ x.gen < MaxGen => \A l \in Terminal \cup {"none"} : RowSound(Reopened(x, l))
         /\ \A o \in Owners : Exists(x) => RowSound(Claimed(x, o))
         /\ \A o \in Terminal : Exists(x) => RowSound(Staged(x, o)) /\ RowSound(Applied(x, o))
<1> USE MaxGenAssumption DEF Row, Active, Terminal, RowSound, Exists, Gens
<1>1. RowSound(NoRow("absent")) /\ RowSound(NoRow("deleted"))
  BY DEF NoRow
<1>2. RowSound(NewGeneration(NoRow("absent")))
  BY DEF NewGeneration, NoRow
<1>3. x.gen < MaxGen => RowSound(NewGeneration(x))
  BY DEF NewGeneration
<1>4. \A o \in Owners : Exists(x) => RowSound(Claimed(x, o))
  BY DEF Claimed
<1>5. \A o \in Terminal : Exists(x) => RowSound(Staged(x, o)) /\ RowSound(Applied(x, o))
  BY DEF Staged, Applied
<1>6. x.gen < MaxGen => \A l \in Terminal \cup {"none"} : RowSound(Reopened(x, l))
  BY DEF Reopened
<1> QED  BY <1>1, <1>2, <1>3, <1>4, <1>5, <1>6

-----------------------------------------------------------------------------
(* Type correctness.                                                       *)

\* TypeOK alone is not inductive: a dispatch intent takes its generation and its
\* command from the row, a delivery takes its outcome from it.
RowsOK == row \in [Runs -> Row] /\ \A r \in Runs : RowSound(row[r])

IInv == TypeOK /\ RowsOK

LEMMA InitTypes == Init => IInv
<1> SUFFICES ASSUME Init PROVE IInv
  OBVIOUS
<1> USE DEF Init
<1>1. RowsOK
  BY MaxGenAssumption DEF RowsOK, RowSound, Row, NoRow, Exists, Terminal, Active
<1>2. TypeOK
  BY <1>1, BoundsAssumption DEF TypeOK, RowsOK, NoTask, NoScan, NoReq, Tasks, Scans, Reqs
<1> QED  BY <1>1, <1>2 DEF IInv

\* Replacing one row by a sound row.
LEMMA SetRowTypes ==
  ASSUME IInv, NEW r \in Runs, NEW x \in Row, RowSound(x), SetRow(r, x)
  PROVE  RowsOK'
BY DEF IInv, RowsOK, SetRow

LEMMA KeepRowTypes ==
  ASSUME IInv, UNCHANGED row
  PROVE  RowsOK'
BY DEF IInv, RowsOK

\* A new thread status for one thread.
LEMMA SetThreadTypes ==
  ASSUME IInv, NEW r \in Runs, NEW st \in {"idle", "busy", "error", "interrupted"},
         SetThread(r, st)
  PROVE  thread' \in [Threads -> {"idle", "busy", "error", "interrupted"}]
BY RunsAssumption DEF IInv, TypeOK, SetThread

LEMMA SetReqTypes ==
  ASSUME IInv, NEW q \in Requests, NEW x \in Reqs, SetReq(q, x)
  PROVE  req' \in [Requests -> Reqs]
BY DEF IInv, TypeOK, SetReq

LEMMA SetTaskTypes ==
  ASSUME IInv, NEW w \in Workers, NEW s \in Slots, NEW x \in Tasks, SetTask(w, s, x)
  PROVE  task' \in [Workers -> [Slots -> Tasks]]
BY DEF IInv, TypeOK, SetTask

LEMMA FaultTypes ==
  ASSUME IInv, Fault
  PROVE  faults' \in 0 .. MaxFaults
BY BoundsAssumption DEF IInv, TypeOK, Fault

LEMMA ListTypes ==
  ASSUME NEW list \in [Jobs -> Nat], NEW j \in Jobs
  PROVE  /\ Push(list, j) \in [Jobs -> Nat]
         /\ list[j] > 0 => Pull(list, j) \in [Jobs -> Nat]
BY DEF Push, Pull

LEMMA ExitTypes ==
  ASSUME IInv, NEW w \in Workers, Exit(w)
  PROVE  /\ worker' \in [Workers -> {"new", "requeue", "up", "draining", "gone"}]
         /\ task' \in [Workers -> [Slots -> Tasks]]
         /\ lock' \in Workers \cup {NoOwner}
BY DEF IInv, TypeOK, Exit, NoTask, Tasks

\* The record types of the processes.
LEMMA ProcessTypes ==
  /\ NoReq \in Reqs /\ NoTask \in Tasks /\ NoScan \in Scans
  /\ \A r \in Runs : \A g, c \in Gens : Job(r, g, c) \in Jobs
  /\ \A r \in Runs : [pc |-> "claim", run |-> r] \in Reqs
  /\ \A r \in Runs : \A l \in Terminal \cup {"none"} :
       [pc |-> "reclaim", run |-> r, loaded |-> l] \in Reqs
  /\ \A r \in Runs : \A c \in Gens : [pc |-> "ensure", run |-> r, cmd |-> c] \in Reqs
  /\ \A j \in Jobs : /\ [pc |-> "submit", job |-> j] \in Reqs
                     /\ [pc |-> "compensate", job |-> j] \in Reqs
  /\ \A r \in Runs : \A g \in Gens : [pc |-> "deliver", run |-> r, gen |-> g] \in Reqs
  /\ \A r \in Runs : [pc |-> "drop", run |-> r] \in Reqs
  /\ \A rs \in SUBSET Runs : /\ [pc |-> "bulk", runs |-> rs] \in Reqs
                            /\ [pc |-> "erase", runs |-> rs] \in Reqs
  /\ \A j \in Jobs : \A p \in {"reserved", "start", "graph", "deliver", "ack"} :
       [pc |-> p, job |-> j] \in Tasks
  /\ \A j \in Jobs : \A o \in Terminal : [pc |-> "finish", job |-> j, outcome |-> o] \in Tasks
  /\ \A j \in Jobs : [pc |-> "read", job |-> j] \in Scans
<1> USE DEF Reqs, Tasks, Scans
<1>1. NoReq \in Reqs /\ NoTask \in Tasks /\ NoScan \in Scans
  BY DEF NoReq, NoTask, NoScan
<1>2. \A r \in Runs : \A g, c \in Gens : Job(r, g, c) \in Jobs
  BY DEF Job, Jobs
<1> QED  BY <1>1, <1>2

\* What a process carries, by its stage.
LEMMA ReqFields ==
  ASSUME NEW x \in Reqs
  PROVE  /\ x.pc \in {"claim", "reclaim"} => x.run \in Runs
         /\ x.pc = "reclaim" => x.loaded \in Terminal \cup {"none"}
         /\ x.pc = "ensure" => x.run \in Runs /\ x.cmd \in Gens
         /\ x.pc \in {"submit", "compensate"} => x.job \in Jobs
         /\ x.pc = "deliver" => x.run \in Runs /\ x.gen \in Gens
         /\ x.pc = "drop" => x.run \in Runs
         /\ x.pc \in {"bulk", "erase"} => x.runs \subseteq Runs
BY DEF Reqs

LEMMA TaskFields ==
  ASSUME NEW x \in Tasks
  PROVE  /\ x.pc # "idle" => x.job \in Jobs
         /\ x.pc = "finish" => x.outcome \in Terminal
BY DEF Tasks

LEMMA ScanFields ==
  ASSUME NEW x \in Scans, x.pc = "read"
  PROVE  x.job \in Jobs
BY DEF Scans

\* Staging an outcome, delivering it and failing to deliver it.
LEMMA StageTypes ==
  ASSUME IInv, NEW r \in Runs, Exists(row[r]), NEW o \in Terminal, StageOutcome(r, o)
  PROVE  /\ RowsOK'
         /\ intents' \subseteq Runs \X Gens
         /\ thread' = thread
<1>1. row[r] \in Row /\ RowSound(row[r])
  BY DEF IInv, RowsOK
<1>2. Staged(row[r], o) \in Row /\ RowSound(Staged(row[r], o)) /\ SetRow(r, Staged(row[r], o))
  BY <1>1, RowOperators, SoundOperators DEF StageOutcome
<1>3. RowsOK'
  BY <1>2, SetRowTypes
<1>4. row[r].gen \in Gens
  BY <1>1 DEF RowSound
<1> QED  BY <1>3, <1>4 DEF StageOutcome, IInv, TypeOK

LEMMA AppendTypes ==
  ASSUME IInv, NEW r \in Runs, row[r].status = "terminal_pending"
  PROVE  /\ AppendEnd(r) => runLog' \in [Runs -> Seq(RunRecord)]
         /\ AppendLifecycle(r) => threadLog' \in [Threads -> Seq(LifecycleRecord)]
<1>1. row[r].gen \in Gens /\ row[r].result \in Terminal
  BY DEF IInv, RowsOK, RowSound, Exists
<1>2. [kind |-> "end", gen |-> row[r].gen, status |-> row[r].result] \in RunRecord
  BY <1>1 DEF RunRecord
<1>3. [run |-> r, gen |-> row[r].gen, status |-> row[r].result] \in LifecycleRecord
  BY <1>1 DEF LifecycleRecord
<1>4. AppendEnd(r) => runLog' \in [Runs -> Seq(RunRecord)]
  BY <1>2 DEF AppendEnd, IInv, TypeOK
<1>5. AppendLifecycle(r) => threadLog' \in [Threads -> Seq(LifecycleRecord)]
  BY <1>3, RunsAssumption DEF AppendLifecycle, IInv, TypeOK
<1> QED  BY <1>4, <1>5

LogsOK ==
  /\ thread \in [Threads -> {"idle", "busy", "error", "interrupted"}]
  /\ intents \subseteq Runs \X Gens
  /\ runLog \in [Runs -> Seq(RunRecord)]
  /\ threadLog \in [Threads -> Seq(LifecycleRecord)]
  /\ marks \subseteq {"run", "thread"} \X Runs \X Gens

LEMMA DeliverTypes ==
  ASSUME IInv, NEW r \in Runs, NEW g \in Gens, Deliver(r, g)
  PROVE  RowsOK' /\ LogsOK'
<1>1. CASE ~AwaitsDelivery(row[r], g)
  BY <1>1 DEF Deliver, sql, redis, IInv, TypeOK, RowsOK, LogsOK
<1>2. CASE AwaitsDelivery(row[r], g)
  <2>1. row[r].status = "terminal_pending" /\ row[r] \in Row /\ RowSound(row[r])
    BY <1>2 DEF AwaitsDelivery, IInv, RowsOK
  <2>2. row[r].result \in Terminal /\ Exists(row[r])
    BY <2>1 DEF RowSound, Exists
  <2>3. /\ Applied(row[r], row[r].result) \in Row
        /\ RowSound(Applied(row[r], row[r].result))
    BY <2>1, <2>2, RowOperators, SoundOperators
  <2>4. RowsOK'
    BY <1>2, <2>3, SetRowTypes DEF Deliver
  <2>5. thread' \in [Threads -> {"idle", "busy", "error", "interrupted"}]
    <3>1. ThreadStatusOf(row[r].result) \in {"idle", "busy", "error", "interrupted"}
      BY <2>2 DEF ThreadStatusOf, Terminal
    <3>2. SetThread(r, ThreadStatusOf(row[r].result))
      BY <1>2 DEF Deliver
    <3> QED  BY <3>1, <3>2, SetThreadTypes
  <2>6. /\ runLog' \in [Runs -> Seq(RunRecord)]
        /\ threadLog' \in [Threads -> Seq(LifecycleRecord)]
    BY <1>2, <2>1, AppendTypes DEF Deliver
  <2>7. marks' \subseteq {"run", "thread"} \X Runs \X Gens /\ intents' \subseteq Runs \X Gens
    BY <1>2 DEF Deliver, IInv, TypeOK
  <2> QED  BY <2>4, <2>5, <2>6, <2>7 DEF LogsOK
<1> QED  BY <1>1, <1>2

LEMMA DeliverFailsTypes ==
  ASSUME IInv, NEW r \in Runs, NEW g \in Gens, DeliverFails(r, g)
  PROVE  RowsOK' /\ LogsOK'
<1>1. row[r].status = "terminal_pending"
  BY DEF DeliverFails, AwaitsDelivery
<1>2. UNCHANGED <<row, thread, intents>>
  BY DEF DeliverFails, sql
<1>3. /\ runLog' \in [Runs -> Seq(RunRecord)]
      /\ threadLog' \in [Threads -> Seq(LifecycleRecord)]
      /\ marks' \subseteq {"run", "thread"} \X Runs \X Gens
  BY <1>1, AppendTypes DEF DeliverFails, redis, IInv, TypeOK
<1> QED  BY <1>2, <1>3 DEF RowsOK, LogsOK, IInv, TypeOK

\* Every step of an API request keeps the types.
LEMMA RequestTypes == IInv /\ RequestStep => IInv'
<1> SUFFICES ASSUME IInv, NEW q \in Requests,
                    \/ \E r \in Runs : Prepare(q, r) \/ Resume(q, r) \/ Cancel(q, r) \/ Delete(q, r)
                    \/ SnapshotClaims /\ LateStep(q)
                    \/ EnsureDispatch(q) \/ Submit(q) \/ SubmitFails(q) \/ Compensate(q)
                    \/ ReqDeliver(q) \/ DropStream(q) \/ BulkRead(q) \/ BulkWrite(q)
                    \/ BulkErase(q) \/ ReqStops(q)
             PROVE  IInv'
  BY DEF RequestStep
<1> USE DEF sql, redis, lists, procs
<1>0. /\ \A r \in Runs : row[r] \in Row /\ RowSound(row[r])
      /\ req[q] \in Reqs
  BY DEF IInv, RowsOK, TypeOK
<1>1. ASSUME NEW r \in Runs, Prepare(q, r) PROVE IInv'
  <2>1. RowsOK'
    BY <1>0, <1>1, RowOperators, SoundOperators, SetRowTypes DEF Prepare
  <2>2. thread' \in [Threads -> {"idle", "busy", "error", "interrupted"}]
    BY <1>1, SetThreadTypes DEF Prepare
  <2>3. req' \in [Requests -> Reqs]
    BY <1>1, SetReqTypes, ProcessTypes, MaxGenAssumption DEF Prepare, Gens
  <2> QED  BY <1>1, <2>1, <2>2, <2>3 DEF Prepare, IInv, TypeOK, RowsOK
<1>2. ASSUME NEW r \in Runs, Resume(q, r) PROVE IInv'
  <2>1. RowsOK'
    BY <1>0, <1>2, RowOperators, SoundOperators, SetRowTypes DEF Resume
  <2>2. thread' \in [Threads -> {"idle", "busy", "error", "interrupted"}]
    BY <1>2, SetThreadTypes DEF Resume
  <2>3. row[r].gen + 1 \in Gens
    BY <1>0, <1>2, MaxGenAssumption DEF Resume, Gens, Row
  <2>4. req' \in [Requests -> Reqs]
    BY <1>2, <2>3, SetReqTypes, ProcessTypes DEF Resume
  <2> QED  BY <1>2, <2>1, <2>2, <2>4 DEF Resume, IInv, TypeOK, RowsOK
<1>0a. ASSUME NEW r \in Runs, AwaitClaim(q, r) \/ AwaitResume(q, r) PROVE IInv'
  <2>1. req' \in [Requests -> Reqs]
    BY <1>0, <1>0a, SetReqTypes, ProcessTypes DEF AwaitClaim, AwaitResume, Row
  <2> QED  BY <1>0a, <2>1, KeepRowTypes DEF AwaitClaim, AwaitResume, IInv, TypeOK
<1>0b. CASE ClaimLate(q)
  <2> DEFINE r == req[q].run
  <2>0. r \in Runs
    BY <1>0, <1>0b, ReqFields DEF ClaimLate
  <2>1. RowsOK'
    BY <1>0, <1>0b, <2>0, RowOperators, SoundOperators, SetRowTypes DEF ClaimLate
  <2>2. thread' \in [Threads -> {"idle", "busy", "error", "interrupted"}]
    BY <1>0b, <2>0, SetThreadTypes DEF ClaimLate
  <2>3. req' \in [Requests -> Reqs]
    BY <1>0b, <2>0, SetReqTypes, ProcessTypes, MaxGenAssumption DEF ClaimLate, Gens
  <2> QED  BY <1>0b, <2>1, <2>2, <2>3 DEF ClaimLate, IInv, TypeOK, RowsOK
<1>0c. CASE ResumeLate(q)
  <2> DEFINE r == req[q].run
  <2>0. r \in Runs
    BY <1>0, <1>0c, ReqFields DEF ResumeLate
  <2>1. CASE Exists(row[r])
    <3>0. /\ row[r] \in Row /\ RowSound(row[r]) /\ row[r].gen < MaxGen
          /\ req[q].loaded \in Terminal \cup {"none"}
      BY <1>0, <1>0c, <2>0, <2>1, ReqFields DEF ResumeLate, IInv, TypeOK, RowsOK
    <3>0a. Reopened(row[r], req[q].loaded) \in Row /\ RowSound(Reopened(row[r], req[q].loaded))
      BY <3>0, RowOperators, SoundOperators
    <3>0b. SetRow(r, Reopened(row[r], req[q].loaded))
      BY <1>0c, <2>1 DEF ResumeLate
    <3>1. RowsOK'
      BY <1>0, <2>0, <3>0a, <3>0b, SetRowTypes
    <3>2. thread' \in [Threads -> {"idle", "busy", "error", "interrupted"}]
      BY <1>0c, <2>0, <2>1, SetThreadTypes DEF ResumeLate
    <3>3. row[r].gen + 1 \in Gens
      BY <1>0, <1>0c, <2>0, <2>1, MaxGenAssumption DEF ResumeLate, Gens, Row
    <3>4. req' \in [Requests -> Reqs]
      BY <1>0c, <2>0, <2>1, <3>3, SetReqTypes, ProcessTypes DEF ResumeLate
    <3> QED  BY <1>0c, <3>1, <3>2, <3>4 DEF ResumeLate, IInv, TypeOK, RowsOK
  <2>2. CASE ~Exists(row[r])
    <3>1. req' \in [Requests -> Reqs] /\ UNCHANGED <<row, thread>>
      BY <1>0c, <2>2, SetReqTypes, ProcessTypes DEF ResumeLate
    <3> QED  BY <1>0c, <3>1, KeepRowTypes DEF ResumeLate, IInv, TypeOK
  <2> QED  BY <2>1, <2>2
<1>2a. CASE SnapshotClaims /\ LateStep(q)
  BY <1>0a, <1>0b, <1>0c, <1>2a DEF LateStep
<1>3. ASSUME NEW r \in Runs, Cancel(q, r) PROVE IInv'
  <2>1. Exists(row[r]) /\ row[r].gen \in Gens
    BY <1>0, <1>3 DEF Cancel, MayCancel, Exists, RowSound
  <2>2. RowsOK' /\ intents' \subseteq Runs \X Gens /\ thread' = thread
    BY <1>3, <2>1, StageTypes DEF Cancel, Terminal
  <2>3. req' \in [Requests -> Reqs]
    BY <1>3, <2>1, SetReqTypes, ProcessTypes DEF Cancel
  <2> QED  BY <1>3, <2>2, <2>3 DEF Cancel, IInv, TypeOK, RowsOK
<1>4. ASSUME NEW r \in Runs, Delete(q, r) PROVE IInv'
  <2>1. RowsOK'
    BY <1>0, <1>4, RowOperators, SoundOperators, SetRowTypes DEF Delete
  <2>2. req' \in [Requests -> Reqs]
    BY <1>4, SetReqTypes, ProcessTypes DEF Delete
  <2> QED  BY <1>4, <2>1, <2>2 DEF Delete, IInv, TypeOK, RowsOK
<1>5. CASE EnsureDispatch(q)
  <2>1. req[q].run \in Runs /\ req[q].cmd \in Gens
    BY <1>0, <1>5, ReqFields DEF EnsureDispatch
  <2>2. CASE Exists(row[req[q].run])
    <3> DEFINE r == req[q].run
               x == [row[r] EXCEPT !.cmd = req[q].cmd]
    <3>1. x \in Row /\ RowSound(x) /\ row[r].gen \in Gens
      BY <1>0, <2>1, <2>2 DEF Row, RowSound, Exists, Gens
    <3>2. SetRow(r, x) /\ SetReq(q, [pc |-> "submit", job |-> Job(r, row[r].gen, req[q].cmd)])
      BY <1>5, <2>2 DEF EnsureDispatch
    <3>3. RowsOK'
      BY <2>1, <3>1, <3>2, SetRowTypes
    <3>4. req' \in [Requests -> Reqs]
      BY <2>1, <3>1, <3>2, SetReqTypes, ProcessTypes
    <3> QED  BY <1>5, <3>3, <3>4 DEF EnsureDispatch, IInv, TypeOK, RowsOK
  <2>3. CASE ~Exists(row[req[q].run])
    <3>1. req' \in [Requests -> Reqs] /\ UNCHANGED row
      BY <1>5, <2>3, SetReqTypes, ProcessTypes DEF EnsureDispatch
    <3> QED  BY <1>5, <3>1 DEF EnsureDispatch, IInv, TypeOK, RowsOK
  <2> QED  BY <2>2, <2>3
<1>6. CASE Submit(q)
  <2>1. queue' \in [Jobs -> Nat]
    BY <1>0, <1>6, ReqFields, ListTypes DEF Submit, IInv, TypeOK
  <2>2. req' \in [Requests -> Reqs]
    BY <1>6, SetReqTypes, ProcessTypes DEF Submit
  <2> QED  BY <1>6, <2>1, <2>2 DEF Submit, IInv, TypeOK, RowsOK
<1>7. CASE SubmitFails(q)
  <2>1. req' \in [Requests -> Reqs]
    BY <1>0, <1>7, ReqFields, SetReqTypes, ProcessTypes DEF SubmitFails
  <2>2. faults' \in 0 .. MaxFaults
    BY <1>7, FaultTypes DEF SubmitFails
  <2> QED  BY <1>7, <2>1, <2>2 DEF SubmitFails, IInv, TypeOK, RowsOK
<1>8. CASE Compensate(q)
  <2>1. req[q].job \in Jobs
    BY <1>0, <1>8, ReqFields DEF Compensate
  <2> DEFINE j == req[q].job
             r == j.run
  <2>2. r \in Runs /\ j.gen \in Gens
    BY <2>1 DEF Jobs
  <2>3. req' \in [Requests -> Reqs]
    BY <1>8, <2>2, SetReqTypes, ProcessTypes DEF Compensate
  <2>4. RowsOK' /\ intents' \subseteq Runs \X Gens /\ thread' = thread
    <3>1. CASE UNCHANGED sql
      BY <3>1 DEF IInv, TypeOK, RowsOK
    <3>2. CASE /\ MayFinish(row[r], j.gen, NoOwner)
               /\ StageOutcome(r, IF j.cmd = 1 THEN "error" ELSE "interrupted")
      <4>1. Exists(row[r])
        BY <3>2 DEF MayFinish, Exists
      <4> QED  BY <2>2, <3>2, <4>1, StageTypes DEF Terminal
    <3> QED  BY <1>8, <3>1, <3>2 DEF Compensate
  <2> QED  BY <1>8, <2>3, <2>4 DEF Compensate, IInv, TypeOK, RowsOK
<1>9. CASE ReqDeliver(q)
  <2>1. req[q].run \in Runs /\ req[q].gen \in Gens
    BY <1>0, <1>9, ReqFields DEF ReqDeliver
  <2>2. RowsOK' /\ LogsOK'
    BY <1>9, <2>1, DeliverTypes, DeliverFailsTypes DEF ReqDeliver
  <2>3. req' \in [Requests -> Reqs]
    BY <1>9, SetReqTypes, ProcessTypes DEF ReqDeliver
  <2>4. faults' \in 0 .. MaxFaults
    BY <1>9, FaultTypes DEF ReqDeliver, IInv, TypeOK
  <2> QED  BY <1>9, <2>2, <2>3, <2>4 DEF ReqDeliver, IInv, TypeOK, RowsOK, LogsOK
<1>10. CASE DropStream(q)
  <2>1. runLog' \in [Runs -> Seq(RunRecord)]
    <3>1. <<>> \in Seq(RunRecord)
      OBVIOUS
    <3> QED  BY <1>10, <3>1 DEF DropStream, IInv, TypeOK
  <2>2. req' \in [Requests -> Reqs]
    BY <1>10, SetReqTypes, ProcessTypes DEF DropStream
  <2> QED  BY <1>10, <2>1, <2>2 DEF DropStream, IInv, TypeOK, RowsOK
<1>11. CASE BulkRead(q)
  <2>1. req' \in [Requests -> Reqs]
    BY <1>11, SetReqTypes, ProcessTypes DEF BulkRead
  <2> QED  BY <1>11, <2>1 DEF BulkRead, IInv, TypeOK, RowsOK
<1>12. CASE BulkWrite(q)
  <2>1. req[q].runs \subseteq Runs
    BY <1>0, <1>12, ReqFields DEF BulkWrite
  <2>2. req' \in [Requests -> Reqs]
    BY <1>12, <2>1, SetReqTypes, ProcessTypes DEF BulkWrite, SetReq, IInv, TypeOK
  <2>3. RowsOK' /\ thread' \in [Threads -> {"idle", "busy", "error", "interrupted"}]
    <3>1. CASE UNCHANGED <<row, thread>>
      BY <3>1 DEF IInv, TypeOK, RowsOK
    <3>2. CASE /\ \A r \in req[q].runs : Exists(row[r])
               /\ row' = [r \in Runs |-> IF r \in req[q].runs
                                         THEN [row[r] EXCEPT !.status = "error"]
                                         ELSE row[r]]
               /\ thread' = [t \in Threads |-> IF t \in {ThreadOf[r] : r \in req[q].runs}
                                               THEN "error" ELSE thread[t]]
      <4>1. \A r \in req[q].runs : /\ [row[r] EXCEPT !.status = "error"] \in Row
                                   /\ RowSound([row[r] EXCEPT !.status = "error"])
        BY <1>0, <2>1, <3>2 DEF Row, RowSound, Exists, Terminal
      <4>2. RowsOK'
        BY <1>0, <3>2, <4>1 DEF RowsOK
      <4>3. thread' \in [Threads -> {"idle", "busy", "error", "interrupted"}]
        BY <3>2 DEF IInv, TypeOK
      <4> QED  BY <4>2, <4>3
    <3> QED  BY <1>12, <3>1, <3>2 DEF BulkWrite
  <2> QED  BY <1>12, <2>2, <2>3 DEF BulkWrite, IInv, TypeOK, RowsOK
<1>13. CASE BulkErase(q)
  <2>1. req' \in [Requests -> Reqs]
    BY <1>13, SetReqTypes, ProcessTypes DEF BulkErase
  <2>2. \A r \in Runs : NoRow("deleted") \in Row /\ RowSound(NoRow("deleted"))
    BY <1>0, RowOperators, SoundOperators
  <2>3. RowsOK'
    BY <1>0, <1>13, <2>2 DEF BulkErase, RowsOK
  <2> QED  BY <1>13, <2>1, <2>3 DEF BulkErase, IInv, TypeOK, RowsOK
<1>14. CASE ReqStops(q)
  <2>1. req' \in [Requests -> Reqs]
    BY <1>14, SetReqTypes, ProcessTypes DEF ReqStops
  <2>2. faults' \in 0 .. MaxFaults
    BY <1>14, FaultTypes DEF ReqStops
  <2> QED  BY <1>14, <2>1, <2>2 DEF ReqStops, IInv, TypeOK, RowsOK
<1> QED  BY <1>1, <1>2, <1>2a, <1>3, <1>4, <1>5, <1>6, <1>7, <1>8, <1>9, <1>10, <1>11, <1>12, <1>13, <1>14

\* Every step of a worker keeps the types.
LEMMA WorkerTypes == IInv /\ WorkerStep => IInv'
<1> USE DEF sql, redis, lists, procs
<1>1. ASSUME IInv, NEW w \in Workers,
             Start(w) \/ Requeue(w) \/ Drain(w) \/ Drained(w) \/ LockLost(w) \/ Crash(w) \/ Restart(w)
      PROVE  IInv'
  <2>1. CASE Start(w)
    BY <1>1, <2>1 DEF Start, IInv, TypeOK, RowsOK
  <2>2. CASE Requeue(w)
    <3>1. queue' \in [Jobs -> Nat] /\ proc' \in [Jobs -> Nat]
      BY <1>1, <2>2, ListTypes DEF Requeue, IInv, TypeOK
    <3>2. worker' \in [Workers -> {"new", "requeue", "up", "draining", "gone"}]
      BY <1>1, <2>2 DEF Requeue, IInv, TypeOK
    <3> QED  BY <1>1, <2>2, <3>1, <3>2 DEF Requeue, IInv, TypeOK, RowsOK
  <2>3. CASE Drain(w)
    <3>1. task' \in [Workers -> [Slots -> Tasks]]
      BY <1>1, <2>3, SetTaskTypes, ProcessTypes DEF Drain, IInv, TypeOK
    <3>2. worker' \in [Workers -> {"new", "requeue", "up", "draining", "gone"}]
      BY <1>1, <2>3 DEF Drain, IInv, TypeOK
    <3>3. faults' \in 0 .. MaxFaults
      BY <1>1, <2>3, FaultTypes DEF Drain
    <3> QED  BY <1>1, <2>3, <3>1, <3>2, <3>3 DEF Drain, IInv, TypeOK, RowsOK
  <2>4. CASE Drained(w)
    BY <1>1, <2>4, ExitTypes DEF Drained, IInv, TypeOK, RowsOK
  <2>5. CASE LockLost(w)
    BY <1>1, <2>5, ExitTypes DEF LockLost, IInv, TypeOK, RowsOK
  <2>6. CASE Crash(w)
    <3>1. task' \in [Workers -> [Slots -> Tasks]]
      BY <1>1, <2>6, ProcessTypes DEF Crash, IInv, TypeOK
    <3>2. worker' \in [Workers -> {"new", "requeue", "up", "draining", "gone"}]
      BY <1>1, <2>6 DEF Crash, IInv, TypeOK
    <3>3. faults' \in 0 .. MaxFaults
      BY <1>1, <2>6, FaultTypes DEF Crash
    <3> QED  BY <1>1, <2>6, <3>1, <3>2, <3>3 DEF Crash, IInv, TypeOK, RowsOK
  <2>7. CASE Restart(w)
    <3>1. worker' \in [Workers -> {"new", "requeue", "up", "draining", "gone"}]
      BY <1>1, <2>7 DEF Restart, IInv, TypeOK
    <3> QED  BY <1>1, <2>7, <3>1 DEF Restart, IInv, TypeOK, RowsOK
  <2> QED  BY <1>1, <2>1, <2>2, <2>3, <2>4, <2>5, <2>6, <2>7
<1>2. ASSUME IInv, NEW w \in Workers, NEW s \in Slots,
             \/ Reserve(w, s) \/ Claim(w, s) \/ Begin(w, s) \/ GraphReturns(w, s)
             \/ Renew(w, s) \/ FencedOut(w, s) \/ Finish(w, s) \/ TaskDeliver(w, s)
             \/ JobRaises(w, s) \/ Ack(w, s)
      PROVE  IInv'
  <2> DEFINE j == task[w][s].job
             r == j.run
  <2>1. task[w][s] \in Tasks
    BY <1>2 DEF IInv, TypeOK
  <2>2. task[w][s].pc # "idle" => j \in Jobs /\ r \in Runs /\ j.gen \in Gens
    BY <2>1, TaskFields DEF Jobs
  <2>3. \A x \in Runs : row[x] \in Row /\ RowSound(row[x])
    BY <1>2 DEF IInv, RowsOK
  <2> HIDE DEF j, r
  <2>4. CASE Reserve(w, s)
    <3>1. PICK i \in Jobs : /\ queue[i] > 0
                            /\ queue' = Pull(queue, i)
                            /\ proc' = Push(proc, i)
                            /\ SetTask(w, s, [pc |-> "reserved", job |-> i])
      BY <2>4 DEF Reserve
    <3>2. queue' \in [Jobs -> Nat] /\ proc' \in [Jobs -> Nat]
      BY <1>2, <3>1, ListTypes DEF IInv, TypeOK
    <3>3. task' \in [Workers -> [Slots -> Tasks]]
      BY <1>2, <3>1, SetTaskTypes, ProcessTypes
    <3> QED  BY <1>2, <2>4, <3>2, <3>3 DEF Reserve, IInv, TypeOK, RowsOK
  <2>5. CASE Claim(w, s)
    <3>1. j \in Jobs /\ r \in Runs /\ j.gen \in Gens
      BY <2>2, <2>5 DEF Claim
    <3>2. task' \in [Workers -> [Slots -> Tasks]]
      BY <1>2, <2>5, <3>1, SetTaskTypes, ProcessTypes DEF Claim, j
    <3>3. RowsOK' /\ thread' \in [Threads -> {"idle", "busy", "error", "interrupted"}]
      <4>1. CASE Claimable(row[r], j.gen, w, TRUE) /\ SetRow(r, Claimed(row[r], w)) /\ SetThread(r, "busy")
        <5>1. Exists(row[r])
          BY <4>1 DEF Claimable, Exists
        <5>2. Claimed(row[r], w) \in Row /\ RowSound(Claimed(row[r], w))
          BY <2>3, <3>1, <5>1, RowOperators, SoundOperators, OwnersAreWorkers
        <5> QED  BY <1>2, <3>1, <4>1, <5>2, SetRowTypes, SetThreadTypes
      <4>2. CASE UNCHANGED <<row, thread>>
        BY <1>2, <4>2 DEF IInv, TypeOK, RowsOK
      <4> QED  BY <2>5, <4>1, <4>2 DEF Claim, j, r
    <3> QED  BY <1>2, <2>5, <3>2, <3>3 DEF Claim, IInv, TypeOK, RowsOK
  <2>6. CASE Begin(w, s)
    <3>1. j \in Jobs /\ r \in Runs /\ j.gen \in Gens
      BY <2>2, <2>6 DEF Begin
    <3>2. task' \in [Workers -> [Slots -> Tasks]]
      BY <1>2, <2>6, <3>1, SetTaskTypes, ProcessTypes DEF Begin, Terminal, j
    <3>3. [kind |-> "start", gen |-> j.gen, status |-> "none"] \in RunRecord
      BY <3>1 DEF RunRecord
    <3>4. runLog' \in [Runs -> Seq(RunRecord)]
      <4>1. runLog[r] \in Seq(RunRecord)
        BY <1>2, <3>1 DEF IInv, TypeOK
      <4>2. Append(runLog[r], [kind |-> "start", gen |-> j.gen, status |-> "none"]) \in Seq(RunRecord)
        BY <3>3, <4>1
      <4> QED  BY <1>2, <2>6, <3>1, <4>2 DEF Begin, IInv, TypeOK, j, r
    <3> QED  BY <1>2, <2>6, <3>2, <3>4 DEF Begin, IInv, TypeOK, RowsOK
  <2>7. CASE GraphReturns(w, s)
    <3>1. task' \in [Workers -> [Slots -> Tasks]]
      BY <1>2, <2>2, <2>7, SetTaskTypes, ProcessTypes DEF GraphReturns, j
    <3> QED  BY <1>2, <2>7, <3>1 DEF GraphReturns, IInv, TypeOK, RowsOK
  <2>8. CASE Renew(w, s)
    <3>1. r \in Runs /\ SetRow(r, [row[r] EXCEPT !.lease = "live"])
      BY <2>2, <2>8 DEF Renew, j, r
    <3>2. [row[r] EXCEPT !.lease = "live"] \in Row /\ RowSound([row[r] EXCEPT !.lease = "live"])
      BY <2>3, <3>1 DEF Row, RowSound, Exists
    <3>3. RowsOK'
      BY <1>2, <3>1, <3>2, SetRowTypes
    <3> QED  BY <1>2, <2>8, <3>3 DEF Renew, IInv, TypeOK, RowsOK
  <2>9. CASE FencedOut(w, s)
    BY <1>2, <2>9, ExitTypes DEF FencedOut, IInv, TypeOK, RowsOK
  <2>10. CASE Finish(w, s)
    <3>1. j \in Jobs /\ r \in Runs /\ j.gen \in Gens /\ task[w][s].outcome \in Terminal
      BY <2>1, <2>2, <2>10, TaskFields DEF Finish
    <3>2. task' \in [Workers -> [Slots -> Tasks]]
      BY <1>2, <2>10, <3>1, SetTaskTypes, ProcessTypes DEF Finish, j
    <3>3. RowsOK' /\ intents' \subseteq Runs \X Gens /\ thread' = thread
      <4>1. CASE MayFinish(row[r], j.gen, w) /\ StageOutcome(r, task[w][s].outcome)
        <5>1. Exists(row[r])
          BY <4>1 DEF MayFinish, Exists
        <5> QED  BY <1>2, <3>1, <4>1, <5>1, StageTypes
      <4>2. CASE UNCHANGED sql
        BY <1>2, <4>2 DEF IInv, TypeOK, RowsOK
      <4> QED  BY <2>10, <4>1, <4>2 DEF Finish, j, r
    <3> QED  BY <1>2, <2>10, <3>2, <3>3 DEF Finish, IInv, TypeOK, RowsOK
  <2>11. CASE TaskDeliver(w, s)
    <3>1. j \in Jobs /\ r \in Runs /\ j.gen \in Gens
      BY <2>2, <2>11 DEF TaskDeliver
    <3>2. CASE /\ Deliver(r, j.gen)
               /\ SetTask(w, s, [pc |-> "ack", job |-> j])
               /\ UNCHANGED <<lock, worker, faults>>
      <4>1. RowsOK' /\ LogsOK'
        BY <1>2, <3>1, <3>2, DeliverTypes
      <4>2. task' \in [Workers -> [Slots -> Tasks]]
        BY <1>2, <3>1, <3>2, SetTaskTypes, ProcessTypes
      <4> QED  BY <1>2, <2>11, <3>2, <4>1, <4>2 DEF TaskDeliver, IInv, TypeOK, RowsOK, LogsOK
    <3>3. CASE DeliverFails(r, j.gen) /\ Fault /\ Exit(w)
      <4>1. RowsOK' /\ LogsOK'
        BY <1>2, <3>1, <3>3, DeliverFailsTypes
      <4> QED  BY <1>2, <2>11, <3>3, <4>1, ExitTypes, FaultTypes
               DEF TaskDeliver, IInv, TypeOK, RowsOK, LogsOK
    <3> QED  BY <2>11, <3>2, <3>3 DEF TaskDeliver, j, r
  <2>12. CASE JobRaises(w, s)
    BY <1>2, <2>12, ExitTypes, FaultTypes DEF JobRaises, IInv, TypeOK, RowsOK
  <2>13. CASE Ack(w, s)
    <3>1. j \in Jobs
      BY <2>2, <2>13 DEF Ack
    <3>2. CASE /\ lock = w /\ proc[j] > 0
               /\ proc' = Pull(proc, j)
               /\ SetTask(w, s, NoTask)
               /\ UNCHANGED <<lock, worker>>
      <4>1. proc' \in [Jobs -> Nat]
        BY <1>2, <3>1, <3>2, ListTypes DEF IInv, TypeOK
      <4>2. task' \in [Workers -> [Slots -> Tasks]]
        BY <1>2, <3>2, SetTaskTypes, ProcessTypes
      <4> QED  BY <1>2, <2>13, <3>2, <4>1, <4>2 DEF Ack, IInv, TypeOK, RowsOK
    <3>3. CASE Exit(w) /\ UNCHANGED proc
      BY <1>2, <2>13, <3>3, ExitTypes DEF Ack, IInv, TypeOK, RowsOK
    <3> QED  BY <2>13, <3>2, <3>3 DEF Ack, j
  <2> QED  BY <1>2, <2>4, <2>5, <2>6, <2>7, <2>8, <2>9, <2>10, <2>11, <2>12, <2>13
<1> QED  BY <1>1, <1>2 DEF WorkerStep

\* Every step of time and of the reconcilers keeps the types.
LEMMA ServiceTypes == IInv /\ ServiceStep => IInv'
<1> USE DEF sql, redis, lists, procs
<1> SUFFICES ASSUME IInv, ServiceStep PROVE IInv'
  OBVIOUS
<1>0. \A r \in Runs : row[r] \in Row /\ RowSound(row[r])
  BY DEF IInv, RowsOK
<1>1. CASE LockExpires
  BY <1>1, BoundsAssumption DEF LockExpires, IInv, TypeOK, RowsOK
<1>2. ASSUME NEW r \in Runs, LeaseLapses(r) PROVE IInv'
  <2>1. /\ [row[r] EXCEPT !.lease = "lapsed"] \in Row
        /\ RowSound([row[r] EXCEPT !.lease = "lapsed"])
    BY <1>0 DEF Row, RowSound, Exists
  <2>2. RowsOK'
    BY <1>2, <2>1, SetRowTypes DEF LeaseLapses
  <2> QED  BY <1>2, <2>2 DEF LeaseLapses, IInv, TypeOK, RowsOK
<1>3. ASSUME NEW r \in Runs, ReconcileDelivery(r) PROVE IInv'
  <2>1. row[r].gen \in Gens
    BY <1>0, <1>3 DEF ReconcileDelivery, RowSound, Exists
  <2>2. RowsOK' /\ LogsOK'
    BY <1>3, <2>1, DeliverTypes, DeliverFailsTypes DEF ReconcileDelivery
  <2>3. faults' \in 0 .. MaxFaults
    BY <1>3, FaultTypes DEF ReconcileDelivery, IInv, TypeOK
  <2> QED  BY <1>3, <2>2, <2>3 DEF ReconcileDelivery, IInv, TypeOK, RowsOK, LogsOK
<1>4. ASSUME NEW r \in Runs, NEW c \in Scanners, ScanRead(c, r) PROVE IInv'
  <2>1. row[r].gen \in Gens /\ row[r].cmd \in Gens
    BY <1>0, <1>4 DEF ScanRead, Due, RowSound, Exists
  <2>2. [pc |-> "read", job |-> Job(r, row[r].gen, row[r].cmd)] \in Scans
    BY <2>1, ProcessTypes
  <2>3. scan' \in [Scanners -> Scans]
    BY <1>4, <2>2 DEF ScanRead, IInv, TypeOK
  <2> QED  BY <1>4, <2>3 DEF ScanRead, IInv, TypeOK, RowsOK
<1>5. ASSUME NEW r \in Runs, NEW g \in Gens, CleanupMarkers(r, g) PROVE IInv'
  <2>1. row[r].gen = g => /\ [row[r] EXCEPT !.result = "none"] \in Row
                          /\ RowSound([row[r] EXCEPT !.result = "none"])
    BY <1>0, <1>5 DEF CleanupMarkers, Row, RowSound, Exists, Active
  <2>2. RowsOK'
    BY <1>0, <1>5, <2>1 DEF CleanupMarkers, IInv, RowsOK
  <2> QED  BY <1>5, <2>2 DEF CleanupMarkers, IInv, TypeOK, RowsOK
<1>6. ASSUME NEW c \in Scanners, ScanSubmit(c) PROVE IInv'
  <2>1. scan[c].job \in Jobs
    BY <1>6, ScanFields DEF ScanSubmit, IInv, TypeOK
  <2>2. queue' \in [Jobs -> Nat]
    BY <1>6, <2>1, ListTypes DEF ScanSubmit, IInv, TypeOK
  <2>3. scan' \in [Scanners -> Scans]
    BY <1>6, ProcessTypes DEF ScanSubmit, IInv, TypeOK
  <2> QED  BY <1>6, <2>2, <2>3 DEF ScanSubmit, IInv, TypeOK, RowsOK
<1> QED  BY <1>1, <1>2, <1>3, <1>4, <1>5, <1>6 DEF ServiceStep

LEMMA NextTypes == IInv /\ [Next]_vars => IInv'
<1>1. IInv /\ UNCHANGED vars => IInv'
  BY DEF vars, IInv, TypeOK, RowsOK
<1> QED  BY <1>1, RequestTypes, WorkerTypes, ServiceTypes DEF Next

\* Every variable keeps its type: generations and fault budgets stay in their
\* bounds, list counts never go below zero, and no process carries a job that
\* names an unknown run.
THEOREM TypeInvariant == Spec => []TypeOK
<1>1. IInv => TypeOK
  BY DEF IInv
<1> QED  BY <1>1, InitTypes, NextTypes, PTL DEF Spec

-----------------------------------------------------------------------------
(* What a step may do to a row.  Everything below about the life of a run  *)
(* follows from these moves, not from the single actions.                  *)

\* The row keeps its status and its generation.
Keeps(r) == row'[r].status = row[r].status /\ row'[r].gen = row[r].gen

\* The run is created or gets a new generation, while no other row changes and,
\* unless claims see a snapshot, its thread has no unfinished run.
Opens(r) ==
  /\ row'[r].status = "pending"
  /\ row[r].status = "absent" \/ row'[r].gen = row[r].gen + 1
  /\ \A x \in Runs : x # r => row'[x] = row[x]
  /\ ~SnapshotClaims => ThreadFree(r)

\* A worker claims it, or an outcome is stored together with its intent.
Advances(r) ==
  /\ row[r].status \in {"pending", "running"}
  /\ row'[r].gen = row[r].gen
  /\ \/ row'[r].status = "running"
     \/ row'[r].status = "terminal_pending" /\ <<r, row[r].gen>> \in intents'

\* Its outcome is applied, or a bulk cancellation overwrites its status.
Closes(r) == row'[r].gen = row[r].gen /\ row'[r].status \in Terminal

Vanishes(r) == row'[r].status = "deleted"

Moves(r) == Keeps(r) \/ Opens(r) \/ Advances(r) \/ Closes(r) \/ Vanishes(r)

LEMMA RowFields ==
  ASSUME NEW x \in Row, NEW o
  PROVE  /\ Claimed(x, o).status = "running" /\ Claimed(x, o).gen = x.gen
         /\ Staged(x, o).status = "terminal_pending" /\ Staged(x, o).gen = x.gen
         /\ Applied(x, o).status = o /\ Applied(x, o).gen = x.gen
BY DEF Row, Claimed, Staged, Applied

LEMMA ReopenedFields ==
  ASSUME NEW x, NEW l
  PROVE  Reopened(x, l).status = "pending" /\ Reopened(x, l).gen = x.gen + 1
BY DEF Reopened

LEMMA SetRowMoves ==
  ASSUME IInv, NEW r \in Runs, NEW x, SetRow(r, x)
  PROVE  row'[r] = x /\ \A y \in Runs : y # r => row'[y] = row[y] /\ Keeps(y)
BY DEF IInv, RowsOK, SetRow, Keeps

LEMMA StageMoves ==
  ASSUME IInv, NEW r \in Runs, NEW o, row[r].status \in {"pending", "running"}, StageOutcome(r, o)
  PROVE  \A x \in Runs : Moves(x)
<1>1. row[r] \in Row /\ SetRow(r, Staged(row[r], o))
  BY DEF IInv, RowsOK, StageOutcome
<1>2. row'[r].status = "terminal_pending" /\ row'[r].gen = row[r].gen
  BY <1>1, SetRowMoves, RowFields
<1>3. Advances(r)
  BY <1>2 DEF Advances, StageOutcome
<1> QED  BY <1>1, <1>3, SetRowMoves DEF Moves

LEMMA DeliverMoves ==
  ASSUME IInv, NEW r \in Runs, NEW g, Deliver(r, g)
  PROVE  \A x \in Runs : Moves(x)
<1>1. CASE ~AwaitsDelivery(row[r], g)
  BY <1>1 DEF Deliver, sql, Moves, Keeps
<1>2. CASE AwaitsDelivery(row[r], g)
  <2>1. row[r] \in Row /\ row[r].result \in Terminal
    BY <1>2 DEF AwaitsDelivery, IInv, RowsOK, RowSound
  <2>2. SetRow(r, Applied(row[r], row[r].result))
    BY <1>2 DEF Deliver
  <2>3. row'[r].gen = row[r].gen /\ row'[r].status = row[r].result
    BY <2>1, <2>2, SetRowMoves, RowFields
  <2> QED  BY <2>1, <2>2, <2>3, SetRowMoves DEF Moves, Closes
<1> QED  BY <1>1, <1>2

LEMMA DeliverFailsMoves ==
  ASSUME NEW r \in Runs, NEW g, DeliverFails(r, g)
  PROVE  \A x \in Runs : Moves(x)
BY DEF DeliverFails, sql, Moves, Keeps

LEMMA RequestMoves == IInv /\ RequestStep => \A r \in Runs : Moves(r)
<1> SUFFICES ASSUME IInv, NEW q \in Requests,
                    \/ \E r \in Runs : Prepare(q, r) \/ Resume(q, r) \/ Cancel(q, r) \/ Delete(q, r)
                    \/ SnapshotClaims /\ LateStep(q)
                    \/ EnsureDispatch(q) \/ Submit(q) \/ SubmitFails(q) \/ Compensate(q)
                    \/ ReqDeliver(q) \/ DropStream(q) \/ BulkRead(q) \/ BulkWrite(q)
                    \/ BulkErase(q) \/ ReqStops(q)
             PROVE  \A r \in Runs : Moves(r)
  BY DEF RequestStep
<1>0. /\ \A r \in Runs : row[r] \in Row
      /\ req[q] \in Reqs
  BY DEF IInv, RowsOK, TypeOK
<1>1. ASSUME NEW r \in Runs, Prepare(q, r) PROVE \A x \in Runs : Moves(x)
  <2>1. /\ row'[r] = NewGeneration(NoRow("absent"))
        /\ \A y \in Runs : y # r => row'[y] = row[y] /\ Keeps(y)
    BY <1>1, SetRowMoves DEF Prepare
  <2>2. Opens(r)
    BY <1>1, <2>1 DEF Prepare, Opens, NewGeneration
  <2> QED  BY <2>1, <2>2 DEF Moves
<1>2. ASSUME NEW r \in Runs, Resume(q, r) PROVE \A x \in Runs : Moves(x)
  <2>1. /\ row'[r] = NewGeneration(row[r])
        /\ \A y \in Runs : y # r => row'[y] = row[y] /\ Keeps(y)
    BY <1>2, SetRowMoves DEF Resume
  <2>2. Opens(r)
    BY <1>2, <2>1 DEF Resume, Opens, NewGeneration
  <2> QED  BY <2>1, <2>2 DEF Moves
<1>2a. CASE SnapshotClaims /\ LateStep(q)
  <2>1. CASE UNCHANGED row
    BY <2>1 DEF Moves, Keeps
  <2>2. CASE ~UNCHANGED row
    <3> DEFINE r == req[q].run
    <3>1. ClaimLate(q) \/ ResumeLate(q)
      BY <1>2a, <2>2 DEF LateStep, AwaitClaim, AwaitResume, sql
    <3>2. r \in Runs
      BY <1>0, <3>1, ReqFields DEF ClaimLate, ResumeLate
    <3> DEFINE again == Reopened(row[r], req[q].loaded)
    <3>3. \/ row[r].status = "absent" /\ SetRow(r, NewGeneration(NoRow("absent")))
          \/ SetRow(r, again)
      BY <2>2, <3>1 DEF ClaimLate, ResumeLate
    <3>4. /\ \/ row[r].status = "absent" /\ row'[r] = NewGeneration(NoRow("absent"))
             \/ row'[r] = again
          /\ \A y \in Runs : y # r => row'[y] = row[y] /\ Keeps(y)
      BY <1>0, <3>2, <3>3, SetRowMoves
    <3>5. again.status = "pending" /\ again.gen = row[r].gen + 1
      BY ReopenedFields
    <3>6. Opens(r)
      BY <1>2a, <3>4, <3>5 DEF Opens, NewGeneration
    <3> QED  BY <3>4, <3>6 DEF Moves
  <2> QED  BY <2>1, <2>2
<1>3. ASSUME NEW r \in Runs, Cancel(q, r) PROVE \A x \in Runs : Moves(x)
  BY <1>3, StageMoves DEF Cancel, MayCancel
<1>4. ASSUME NEW r \in Runs, Delete(q, r) PROVE \A x \in Runs : Moves(x)
  BY <1>4, SetRowMoves DEF Delete, NoRow, Moves, Vanishes
<1>5. CASE EnsureDispatch(q)
  <2> DEFINE r == req[q].run
  <2>1. r \in Runs
    BY <1>0, <1>5, ReqFields DEF EnsureDispatch
  <2>2. CASE SetRow(r, [row[r] EXCEPT !.cmd = req[q].cmd])
    <3>1. row'[r] = [row[r] EXCEPT !.cmd = req[q].cmd] /\ \A y \in Runs : y # r => Keeps(y)
      BY <2>1, <2>2, SetRowMoves
    <3>2. Keeps(r)
      BY <1>0, <2>1, <3>1 DEF Keeps, Row
    <3> QED  BY <3>1, <3>2 DEF Moves
  <2>3. CASE UNCHANGED row
    BY <2>3 DEF Moves, Keeps
  <2> QED  BY <1>5, <2>2, <2>3 DEF EnsureDispatch
<1>6. CASE Compensate(q)
  <2>1. req[q].job.run \in Runs
    BY <1>0, <1>6, ReqFields DEF Compensate, Jobs
  <2>2. CASE UNCHANGED sql
    BY <2>2 DEF Moves, Keeps, sql
  <2>3. CASE ~UNCHANGED sql
    BY <1>6, <2>1, <2>3, StageMoves DEF Compensate, MayFinish
  <2> QED  BY <2>2, <2>3
<1>7. CASE ReqDeliver(q)
  <2>1. req[q].run \in Runs
    BY <1>0, <1>7, ReqFields DEF ReqDeliver
  <2> QED  BY <1>7, <2>1, DeliverMoves, DeliverFailsMoves DEF ReqDeliver
<1>8. CASE BulkWrite(q)
  <2>1. CASE UNCHANGED row
    BY <2>1 DEF Moves, Keeps
  <2>2. CASE row' = [r \in Runs |-> IF r \in req[q].runs
                                    THEN [row[r] EXCEPT !.status = "error"] ELSE row[r]]
    <3> SUFFICES ASSUME NEW r \in Runs PROVE Closes(r) \/ Keeps(r)
      BY DEF Moves
    <3> QED  BY <1>0, <2>2 DEF Closes, Keeps, Row, Terminal
  <2> QED  BY <1>8, <2>1, <2>2 DEF BulkWrite
<1>9. CASE BulkErase(q)
  BY <1>9 DEF BulkErase, NoRow, Moves, Vanishes, Keeps
<1>10. CASE Submit(q) \/ SubmitFails(q) \/ DropStream(q) \/ BulkRead(q) \/ ReqStops(q)
  BY <1>10 DEF Submit, SubmitFails, DropStream, BulkRead, ReqStops, sql, Moves, Keeps
<1> QED  BY <1>1, <1>2, <1>2a, <1>3, <1>4, <1>5, <1>6, <1>7, <1>8, <1>9, <1>10

LEMMA WorkerMoves == IInv /\ WorkerStep => \A r \in Runs : Moves(r)
<1>1. ASSUME NEW w \in Workers,
             Start(w) \/ Requeue(w) \/ Drain(w) \/ Drained(w) \/ LockLost(w) \/ Crash(w) \/ Restart(w)
      PROVE  \A r \in Runs : Moves(r)
  BY <1>1 DEF Start, Requeue, Drain, Drained, LockLost, Crash, Restart, sql, Moves, Keeps
<1>2. ASSUME NEW w \in Workers, NEW s \in Slots,
             \/ Reserve(w, s) \/ Begin(w, s) \/ GraphReturns(w, s) \/ FencedOut(w, s)
             \/ JobRaises(w, s) \/ Ack(w, s)
      PROVE  \A r \in Runs : Moves(r)
  BY <1>2 DEF Reserve, Begin, GraphReturns, FencedOut, JobRaises, Ack, sql, Moves, Keeps
<1>3. ASSUME IInv, NEW w \in Workers, NEW s \in Slots,
             Claim(w, s) \/ Renew(w, s) \/ Finish(w, s) \/ TaskDeliver(w, s)
      PROVE  \A x \in Runs : Moves(x)
  <2> DEFINE r == task[w][s].job.run
  <2>1. r \in Runs /\ row[r] \in Row
    <3>1. task[w][s] \in Tasks /\ task[w][s].pc # "idle"
      BY <1>3 DEF Claim, Renew, Finish, TaskDeliver, IInv, TypeOK
    <3> QED  BY <1>3, <3>1, TaskFields DEF Jobs, IInv, RowsOK
  <2>2. CASE UNCHANGED row
    BY <2>2 DEF Moves, Keeps
  <2>3. CASE row[r].status \in {"pending", "running"} /\ SetRow(r, Claimed(row[r], w))
    <3>1. row'[r] = Claimed(row[r], w) /\ \A y \in Runs : y # r => Keeps(y)
      BY <1>3, <2>1, <2>3, SetRowMoves
    <3>2. Advances(r)
      BY <2>1, <2>3, <3>1 DEF Advances, Claimed, Row
    <3> QED  BY <3>1, <3>2 DEF Moves
  <2>4. CASE SetRow(r, [row[r] EXCEPT !.lease = "live"])
    <3>1. row'[r] = [row[r] EXCEPT !.lease = "live"] /\ \A y \in Runs : y # r => Keeps(y)
      BY <1>3, <2>1, <2>4, SetRowMoves
    <3>2. Keeps(r)
      BY <2>1, <3>1 DEF Keeps, Row
    <3> QED  BY <3>1, <3>2 DEF Moves
  <2>5. CASE Claim(w, s)
    BY <2>2, <2>3, <2>5 DEF Claim, Claimable
  <2>6. CASE Renew(w, s)
    BY <2>4, <2>6 DEF Renew
  <2>7. CASE Finish(w, s)
    BY <1>3, <2>1, <2>2, <2>7, StageMoves DEF Finish, MayFinish, sql
  <2>8. CASE TaskDeliver(w, s)
    BY <1>3, <2>1, <2>8, DeliverMoves, DeliverFailsMoves DEF TaskDeliver
  <2> QED  BY <1>3, <2>5, <2>6, <2>7, <2>8
<1> QED  BY <1>1, <1>2, <1>3 DEF WorkerStep

LEMMA ServiceMoves == IInv /\ ServiceStep => \A r \in Runs : Moves(r)
<1> SUFFICES ASSUME IInv, ServiceStep PROVE \A r \in Runs : Moves(r)
  OBVIOUS
<1>0. \A r \in Runs : row[r] \in Row
  BY DEF IInv, RowsOK
<1>1. CASE LockExpires
  BY <1>1 DEF LockExpires, sql, Moves, Keeps
<1>2. ASSUME NEW r \in Runs, LeaseLapses(r) PROVE \A x \in Runs : Moves(x)
  <2>1. row'[r] = [row[r] EXCEPT !.lease = "lapsed"] /\ \A y \in Runs : y # r => Keeps(y)
    BY <1>2, SetRowMoves DEF LeaseLapses
  <2>2. Keeps(r)
    BY <1>0, <2>1 DEF Keeps, Row
  <2> QED  BY <2>1, <2>2 DEF Moves
<1>3. ASSUME NEW r \in Runs, ReconcileDelivery(r) PROVE \A x \in Runs : Moves(x)
  BY <1>3, DeliverMoves, DeliverFailsMoves DEF ReconcileDelivery
<1>4. ASSUME NEW c \in Scanners, ScanSubmit(c) \/ \E r \in Runs : ScanRead(c, r)
      PROVE  \A x \in Runs : Moves(x)
  BY <1>4 DEF ScanSubmit, ScanRead, sql, Moves, Keeps
<1>5. ASSUME NEW r \in Runs, NEW g \in Gens, CleanupMarkers(r, g) PROVE \A x \in Runs : Moves(x)
  <2> SUFFICES ASSUME NEW x \in Runs PROVE Keeps(x)
    BY DEF Moves
  <2> QED  BY <1>0, <1>5 DEF CleanupMarkers, IInv, RowsOK, Keeps, Row
<1> QED  BY <1>1, <1>2, <1>3, <1>4, <1>5 DEF ServiceStep

LEMMA NextMoves == IInv /\ [Next]_vars => \A r \in Runs : Moves(r)
<1>1. UNCHANGED vars => \A r \in Runs : Moves(r)
  BY DEF vars, Moves, Keeps
<1> QED  BY <1>1, RequestMoves, WorkerMoves, ServiceMoves DEF Next

-----------------------------------------------------------------------------
(* Safety.                                                                 *)

LEMMA TypesAlways == Spec => []IInv
BY InitTypes, NextTypes, PTL DEF Spec

\* On a database that decides a claim on what is committed when it writes, two
\* requests, reconcilers or workers never leave a thread with two unfinished runs,
\* however many of them there are (_claim_thread_for_run, _claim_thread_for_resume).
THEOREM OneRunAtATime == ~SnapshotClaims => (Spec => []OneActiveRunPerThread)
<1> SUFFICES ASSUME ~SnapshotClaims PROVE Spec => []OneActiveRunPerThread
  OBVIOUS
<1>1. Init => OneActiveRunPerThread
  BY DEF Init, OneActiveRunPerThread, NoRow, Active
<1>2. IInv /\ OneActiveRunPerThread /\ [Next]_vars => OneActiveRunPerThread'
  <2> SUFFICES ASSUME IInv, OneActiveRunPerThread, [Next]_vars,
                      NEW r \in Runs, NEW x \in Runs, ThreadOf[r] = ThreadOf[x],
                      row'[r].status \in Active, row'[x].status \in Active, r # x
               PROVE  FALSE
    BY DEF OneActiveRunPerThread
  <2>1. Moves(r) /\ Moves(x)
    BY NextMoves
  <2>2. ASSUME NEW y \in Runs, Moves(y), row'[y].status \in Active, ~Opens(y)
        PROVE  row[y].status \in Active
    BY <2>2 DEF Moves, Keeps, Advances, Closes, Vanishes, Active, Terminal
  <2>3. CASE Opens(r)
    <3>1. row'[x] = row[x] /\ row[x].status \notin Active
      BY <2>3 DEF Opens, ThreadFree
    <3> QED  BY <3>1
  <2>4. CASE Opens(x)
    <3>1. row'[r] = row[r] /\ row[r].status \notin Active
      BY <2>4 DEF Opens, ThreadFree
    <3> QED  BY <3>1
  <2>5. CASE ~Opens(r) /\ ~Opens(x)
    BY <2>1, <2>2, <2>5 DEF OneActiveRunPerThread
  <2> QED  BY <2>3, <2>4, <2>5
<1> QED  BY <1>1, <1>2, TypesAlways, PTL DEF Spec

\* A generation whose outcome is stored or final is never claimed again: no
\* duplicate token, recovering worker or reconciler reruns a finished graph.
THEOREM OutcomeEndsGeneration == Spec => NoRerunAfterOutcome
<1>1. IInv /\ [Next]_vars =>
        [\A r \in Runs :
           /\ row[r].status \in Terminal \cup {"terminal_pending"}
           /\ row'[r].gen = row[r].gen
           => row'[r].status \notin {"pending", "running"}]_vars
  <2> SUFFICES ASSUME IInv, [Next]_vars, NEW r \in Runs,
                      row[r].status \in Terminal \cup {"terminal_pending"},
                      row'[r].gen = row[r].gen
               PROVE  row'[r].status \notin {"pending", "running"}
    OBVIOUS
  <2>1. Moves(r) /\ row[r].gen \in Nat
    BY NextMoves DEF IInv, RowsOK, Row
  <2> QED  BY <2>1 DEF Moves, Keeps, Opens, Advances, Closes, Vanishes, Terminal
<1> QED  BY <1>1, TypesAlways, PTL DEF Spec, NoRerunAfterOutcome

-----------------------------------------------------------------------------
(* Ownership of the delivery markers.                                      *)

\* A delivery in progress, a cleanup, or neither.
Delivers(r, g) ==
  /\ AwaitsDelivery(row[r], g)
  /\ marks' \subseteq marks \cup {<<"run", r, g>>, <<"thread", r, g>>}
  /\ intents' = intents

Releases(r, g) ==
  /\ ~(row[r].gen = g /\ row[r].status \in Active)
  /\ marks' = marks \ {<<"run", r, g>>, <<"thread", r, g>>}
  /\ intents' = intents \ {<<r, g>>}
  /\ \A x \in Runs : Keeps(x)

MarkerMoves ==
  \/ marks' = marks /\ intents \subseteq intents'
  \/ \E r \in Runs, g \in Gens : Delivers(r, g) \/ Releases(r, g)

LEMMA DeliverMarkers ==
  ASSUME NEW r \in Runs, NEW g \in Gens, Deliver(r, g) \/ DeliverFails(r, g)
  PROVE  MarkerMoves
<1>1. CASE AwaitsDelivery(row[r], g)
  BY <1>1 DEF MarkerMoves, Delivers, Deliver, DeliverFails, sql, redis
<1>2. CASE ~AwaitsDelivery(row[r], g)
  BY <1>2 DEF MarkerMoves, Deliver, DeliverFails, sql, redis
<1> QED  BY <1>1, <1>2

LEMMA NextMarkers == IInv /\ [Next]_vars => MarkerMoves
<1> SUFFICES ASSUME IInv, [Next]_vars PROVE MarkerMoves
  OBVIOUS
<1> USE DEF sql, redis
<1>1. CASE UNCHANGED vars
  BY <1>1 DEF vars, MarkerMoves
<1>2. ASSUME NEW q \in Requests,
             \/ \E r \in Runs : Prepare(q, r) \/ Resume(q, r) \/ Cancel(q, r) \/ Delete(q, r)
             \/ SnapshotClaims /\ LateStep(q)
             \/ EnsureDispatch(q) \/ Submit(q) \/ SubmitFails(q) \/ Compensate(q)
             \/ DropStream(q) \/ BulkRead(q) \/ BulkWrite(q) \/ BulkErase(q) \/ ReqStops(q)
      PROVE  MarkerMoves
  BY <1>2 DEF Prepare, Resume, LateStep, AwaitClaim, AwaitResume, ClaimLate, ResumeLate,
              Cancel, Delete, EnsureDispatch, Submit, SubmitFails,
              Compensate, DropStream, BulkRead, BulkWrite, BulkErase, ReqStops,
              StageOutcome, MarkerMoves
<1>3. ASSUME NEW q \in Requests, ReqDeliver(q) PROVE MarkerMoves
  <2>1. req[q].run \in Runs /\ req[q].gen \in Gens
    BY <1>3, ReqFields DEF ReqDeliver, IInv, TypeOK
  <2> QED  BY <1>3, <2>1, DeliverMarkers DEF ReqDeliver
<1>4. ASSUME NEW w \in Workers,
             Start(w) \/ Requeue(w) \/ Drain(w) \/ Drained(w) \/ LockLost(w) \/ Crash(w) \/ Restart(w)
      PROVE  MarkerMoves
  BY <1>4 DEF Start, Requeue, Drain, Drained, LockLost, Crash, Restart, MarkerMoves
<1>5. ASSUME NEW w \in Workers, NEW s \in Slots,
             \/ Reserve(w, s) \/ Claim(w, s) \/ Begin(w, s) \/ GraphReturns(w, s)
             \/ Renew(w, s) \/ FencedOut(w, s) \/ Finish(w, s) \/ JobRaises(w, s) \/ Ack(w, s)
      PROVE  MarkerMoves
  BY <1>5 DEF Reserve, Claim, Begin, GraphReturns, Renew, FencedOut, Finish, JobRaises, Ack,
              StageOutcome, MarkerMoves
<1>6. ASSUME NEW w \in Workers, NEW s \in Slots, TaskDeliver(w, s) PROVE MarkerMoves
  <2>1. task[w][s].job.run \in Runs /\ task[w][s].job.gen \in Gens
    BY <1>6, TaskFields DEF TaskDeliver, Jobs, IInv, TypeOK
  <2> QED  BY <1>6, <2>1, DeliverMarkers DEF TaskDeliver
<1>7. ASSUME NEW r \in Runs, ReconcileDelivery(r) PROVE MarkerMoves
  <2>1. row[r].gen \in Gens
    BY <1>7 DEF ReconcileDelivery, IInv, RowsOK, RowSound, Exists
  <2> QED  BY <1>7, <2>1, DeliverMarkers DEF ReconcileDelivery
<1>8. ASSUME NEW r \in Runs, NEW g \in Gens, CleanupMarkers(r, g) PROVE MarkerMoves
  <2>1. \A x \in Runs : Keeps(x)
    BY <1>8 DEF CleanupMarkers, Keeps, IInv, RowsOK, Row
  <2>2. Releases(r, g)
    BY <1>8, <2>1 DEF CleanupMarkers, Releases
  <2> QED  BY <2>2 DEF MarkerMoves
<1>9. CASE \/ LockExpires
           \/ \E r \in Runs : LeaseLapses(r) \/ \E c \in Scanners : ScanRead(c, r)
           \/ \E c \in Scanners : ScanSubmit(c)
  BY <1>9 DEF LockExpires, LeaseLapses, ScanRead, ScanSubmit, MarkerMoves
<1> QED
  BY <1>1, <1>2, <1>3, <1>4, <1>5, <1>6, <1>7, <1>8, <1>9
     DEF Next, RequestStep, WorkerStep, ServiceStep

\* A marker is only ever written for a delivery whose intent is still stored.
PendingOwned ==
  \A r \in Runs : row[r].status = "terminal_pending" => <<r, row[r].gen>> \in intents

\* No interleaving of deliveries, retries, resumes, deletions and cleanups
\* leaves a non-expiring marker in Redis that no SQL row would release.
THEOREM NoMarkerLeaks == Spec => []MarkersOwned
<1>1. Init => MarkersOwned /\ PendingOwned
  BY DEF Init, MarkersOwned, PendingOwned, NoRow
<1>2. IInv /\ MarkersOwned /\ PendingOwned /\ [Next]_vars => PendingOwned'
  <2> SUFFICES ASSUME IInv, PendingOwned, [Next]_vars,
                      NEW r \in Runs, row'[r].status = "terminal_pending"
               PROVE  <<r, row'[r].gen>> \in intents'
    BY DEF PendingOwned
  <2>1. Moves(r) /\ MarkerMoves
    BY NextMoves, NextMarkers
  <2>2. row'[r].gen = row[r].gen
    BY <2>1 DEF Moves, Keeps, Opens, Advances, Closes, Vanishes, Terminal
  <2>3. CASE row[r].status = "terminal_pending"
    <3>1. <<r, row[r].gen>> \in intents
      BY <2>3 DEF PendingOwned
    <3>2. ASSUME NEW x \in Runs, NEW g \in Gens, Releases(x, g)
          PROVE  <<r, row[r].gen>> \in intents'
      <4>1. <<x, g>> # <<r, row[r].gen>>
        BY <2>3, <3>2 DEF Releases, Active
      <4> QED  BY <3>1, <3>2, <4>1 DEF Releases
    <3> QED  BY <2>1, <2>2, <3>1, <3>2 DEF MarkerMoves, Delivers
  <2>4. CASE row[r].status # "terminal_pending"
    BY <2>1, <2>2, <2>4 DEF Moves, Keeps, Opens, Advances, Closes, Vanishes, Terminal
  <2> QED  BY <2>3, <2>4
<1>3. IInv /\ MarkersOwned /\ PendingOwned /\ [Next]_vars => MarkersOwned'
  <2> SUFFICES ASSUME IInv, MarkersOwned, PendingOwned, [Next]_vars,
                      NEW m \in marks'
               PROVE  <<m[2], m[3]>> \in intents'
    BY DEF MarkersOwned
  <2>1. MarkerMoves /\ marks \subseteq {"run", "thread"} \X Runs \X Gens
    BY NextMarkers DEF IInv, TypeOK
  <2>2. CASE marks' = marks /\ intents \subseteq intents'
    BY <2>2 DEF MarkersOwned
  <2>3. ASSUME NEW r \in Runs, NEW g \in Gens, Delivers(r, g)
        PROVE  <<m[2], m[3]>> \in intents'
    <3>1. <<r, g>> \in intents
      BY <2>3 DEF Delivers, AwaitsDelivery, PendingOwned
    <3> QED  BY <2>3, <3>1 DEF Delivers, MarkersOwned
  <2>4. ASSUME NEW r \in Runs, NEW g \in Gens, Releases(r, g)
        PROVE  <<m[2], m[3]>> \in intents'
    <3>1. m \in marks /\ m # <<"run", r, g>> /\ m # <<"thread", r, g>>
      BY <2>4 DEF Releases
    <3>2. <<m[2], m[3]>> # <<r, g>>
      BY <2>1, <3>1
    <3> QED  BY <2>4, <3>1, <3>2 DEF Releases, MarkersOwned
  <2> QED  BY <2>1, <2>2, <2>3, <2>4 DEF MarkerMoves
<1> QED  BY <1>1, <1>2, <1>3, TypesAlways, PTL DEF Spec

-----------------------------------------------------------------------------
(* What requests carry that the types leave open.                          *)

\* A row that was deleted, or never written, has no generation; a stream is only dropped after
\* its row; only a bulk cancellation writes to many rows.
Erased ==
  /\ \A r \in Runs : ~Exists(row[r]) => row[r].gen = 0
  /\ \A q \in Requests :
       /\ req[q].pc = "drop" => row[req[q].run].status = "deleted"
       /\ req[q].pc \in {"bulk", "erase"} => BulkCancel

-----------------------------------------------------------------------------
(* The invariants about the streams.                                       *)

\* e is in the log.
In(e, log) == \E i \in 1 .. Len(log) : log[i] = e

EndRecord(r, outcome) == [kind |-> "end", gen |-> row[r].gen, status |-> outcome]

Lifecycle(r, outcome) == [run |-> r, gen |-> row[r].gen, status |-> outcome]

\* No stream is ahead of its run's row, and a generation that has its end in a stream waits for
\* the rest of its delivery under its marker, or is settled.
RunLogClosed(r) ==
  \A e \in RunRecord : In(e, runLog[r]) =>
    /\ e.gen <= row[r].gen
    /\ e.gen = row[r].gen /\ e.kind = "end" =>
         \/ row[r].status = "terminal_pending" /\ <<"run", r, row[r].gen>> \in marks
         \/ row[r].status \in Terminal

ThreadLogClosed(r) ==
  \A e \in LifecycleRecord : In(e, threadLog[ThreadOf[r]]) /\ e.run = r =>
    /\ e.gen <= row[r].gen
    /\ e.gen = row[r].gen =>
         \/ row[r].status = "terminal_pending" /\ <<"thread", r, row[r].gen>> \in marks
         \/ row[r].status \in Terminal

LogsClosed ==
  \A r \in Runs : row[r].status # "deleted" => RunLogClosed(r) /\ ThreadLogClosed(r)

\* What the end says is what the row says, and a marker stands for the record it prevents from
\* being appended again.
OutcomeTold(r) ==
  /\ \A e \in RunRecord :
       In(e, runLog[r]) /\ e.gen = row[r].gen /\ e.kind = "end" =>
         \/ row[r].status = "terminal_pending" /\ e.status = row[r].result
         \/ e.status = row[r].status
  /\ row[r].status = "terminal_pending" =>
       /\ <<"run", r, row[r].gen>> \in marks => In(EndRecord(r, row[r].result), runLog[r])
       /\ <<"thread", r, row[r].gen>> \in marks =>
            In(Lifecycle(r, row[r].result), threadLog[ThreadOf[r]])
  /\ row[r].status \in Terminal =>
       /\ In(EndRecord(r, row[r].status), runLog[r])
       /\ In(Lifecycle(r, row[r].status), threadLog[ThreadOf[r]])

\* Only a pending or past delivery has markers.
MarksClosed(r) ==
  \A k \in {"run", "thread"}, g \in Gens : <<k, r, g>> \in marks =>
    /\ g <= row[r].gen
    /\ g = row[r].gen => row[r].status \in Terminal \cup {"terminal_pending"}

OutcomesTold == \A r \in Runs : row[r].status # "deleted" => MarksClosed(r) /\ OutcomeTold(r)

-----------------------------------------------------------------------------
(* The invariant about executions.                                         *)

Live == {"requeue", "up", "draining"}

\* A live worker holds the lock, only live workers have tasks, and an execution that was
\* claimed either still owns its run, or nobody will claim that generation again.
Exclusive ==
  /\ \A w \in Workers : worker[w] \in Live => lock = w
  /\ \A w \in Workers : \A s \in Slots : task[w][s].pc # "idle" => worker[w] \in Live

StillOwned(r, g, w) ==
  \/ row[r].status = "deleted"
  \/ row[r].gen > g
  \/ row[r].gen = g /\ (row[r].status \in {"pending", "running"} => OwnsExecution(row[r], g, w))

Owned ==
  \A w \in Workers : \A s \in Slots :
    task[w][s].pc \in {"start", "graph"} => StillOwned(task[w][s].job.run, task[w][s].job.gen, w)

-----------------------------------------------------------------------------
(* What a step may do to the rows and the streams together.  The theorems   *)
(* below follow from these steps and not from the single actions.           *)

\* The run stays as it is, but for its payload, its lease, and an outcome that is already final.
Holds(r) ==
  /\ row'[r].status = row[r].status
  /\ row'[r].gen = row[r].gen
  /\ row'[r].owner = row[r].owner
  /\ row[r].status \in Active => row'[r].result = row[r].result

OthersHold(r) == \A x \in Runs : x # r => Holds(x)

\* It is created or gets its next generation.  Unless claims see a snapshot, this
\* is a new or interrupted run of a thread without unfinished ones.
Begins(r) ==
  /\ row[r].status # "deleted" /\ row[r].gen < MaxGen
  /\ row'[r].status = "pending" /\ row'[r].gen = row[r].gen + 1
  /\ ~SnapshotClaims => ThreadFree(r) /\ row[r].status \in {"absent", "interrupted"}

\* A worker that has its job claims it.
IsClaimed(r, w) ==
  /\ \E s \in Slots : task[w][s].pc # "idle"
  /\ Claimable(row[r], row[r].gen, w, TRUE)
  /\ row'[r] = Claimed(row[r], w)

\* Its outcome is stored.
IsDecided(r) ==
  /\ row[r].status \in {"pending", "running"}
  /\ \E o \in Terminal : row'[r] = Staged(row[r], o)

IsErased(r) == Exists(row[r]) /\ row'[r] = NoRow("deleted")

\* A bulk cancellation writes its status, whatever it is.
IsOverwritten(r) == Exists(row[r]) /\ row'[r] = [row[r] EXCEPT !.status = "error"]

RowStep ==
  /\ UNCHANGED redis
  /\ \/ \A x \in Runs : Holds(x)
     \/ \E r \in Runs :
          /\ OthersHold(r)
          /\ Begins(r) \/ IsDecided(r) \/ IsErased(r) \/ \E w \in Workers : IsClaimed(r, w)
     \/ BulkCancel /\ \A x \in Runs : Holds(x) \/ IsErased(x) \/ IsOverwritten(x)

\* A delivery appends the end, or the end and the lifecycle, or both and settles the run.
Announces(r) ==
  /\ row[r].status = "terminal_pending"
  /\ AppendEnd(r)
  /\ \/ /\ marks' = marks \cup {<<"run", r, row[r].gen>>}
        /\ UNCHANGED threadLog
        /\ \A x \in Runs : Holds(x)
     \/ /\ marks' = marks \cup {<<"run", r, row[r].gen>>, <<"thread", r, row[r].gen>>}
        /\ AppendLifecycle(r)
        /\ OthersHold(r)
        /\ Holds(r) \/ row'[r] = Applied(row[r], row[r].result)

\* The execution that owns the run writes its start.
Starts(r) ==
  /\ row[r].status = "running"
  /\ runLog' = [runLog EXCEPT ![r] = Append(@,
       [kind |-> "start", gen |-> row[r].gen, status |-> "none"])]
  /\ UNCHANGED <<threadLog, marks>>
  /\ \A x \in Runs : Holds(x)

Drops(r) ==
  /\ row[r].status = "deleted"
  /\ runLog' = [runLog EXCEPT ![r] = <<>>]
  /\ UNCHANGED <<threadLog, marks>>
  /\ \A x \in Runs : Holds(x)

\* The markers of a delivery go, which nothing of that generation will ask for.
Frees(r, g) ==
  /\ ~(row[r].gen = g /\ row[r].status \in Active)
  /\ marks' = marks \ {<<"run", r, g>>, <<"thread", r, g>>}
  /\ UNCHANGED <<runLog, threadLog>>
  /\ \A x \in Runs : Holds(x)

StreamStep ==
  \/ RowStep
  \/ \E r \in Runs : Announces(r) \/ Starts(r) \/ Drops(r) \/ \E g \in Gens : Frees(r, g)

LEMMA SetRowHolds ==
  ASSUME IInv, NEW r \in Runs, NEW x, SetRow(r, x)
  PROVE  row'[r] = x /\ OthersHold(r)
BY DEF IInv, RowsOK, SetRow, OthersHold, Holds

LEMMA NothingMoves == UNCHANGED <<row, redis>> => RowStep
BY DEF RowStep, Holds

LEMMA StageSteps ==
  ASSUME IInv, NEW r \in Runs, NEW o \in Terminal, row[r].status \in {"pending", "running"},
         StageOutcome(r, o), UNCHANGED redis
  PROVE  RowStep
<1>1. IsDecided(r) /\ OthersHold(r)
  BY SetRowHolds DEF StageOutcome, IsDecided
<1> QED  BY <1>1 DEF RowStep

LEMMA DeliverSteps ==
  ASSUME IInv, NEW r \in Runs, NEW g, Deliver(r, g) \/ DeliverFails(r, g)
  PROVE  StreamStep
<1>1. CASE UNCHANGED <<row, redis>>
  BY <1>1, NothingMoves DEF StreamStep
<1>2. CASE AwaitsDelivery(row[r], g) /\ UNCHANGED row /\ ~UNCHANGED redis
  <2>1. \A x \in Runs : Holds(x)
    BY <1>2 DEF Holds
  <2>2. Announces(r)
    BY <1>2, <2>1 DEF Announces, AwaitsDelivery, Deliver, DeliverFails, redis, OthersHold
  <2> QED  BY <2>2 DEF StreamStep
<1>3. CASE AwaitsDelivery(row[r], g) /\ SetRow(r, Applied(row[r], row[r].result)) /\ Deliver(r, g)
  <2>1. row'[r] = Applied(row[r], row[r].result) /\ OthersHold(r)
    BY <1>3, SetRowHolds
  <2>2. Announces(r)
    BY <1>3, <2>1 DEF Announces, AwaitsDelivery, Deliver
  <2> QED  BY <2>2 DEF StreamStep
<1> QED  BY <1>1, <1>2, <1>3 DEF Deliver, DeliverFails, sql, redis

LEMMA RequestSteps == IInv /\ Erased /\ RequestStep => StreamStep
<1> SUFFICES ASSUME IInv, Erased, NEW q \in Requests,
                    \/ \E r \in Runs : Prepare(q, r) \/ Resume(q, r) \/ Cancel(q, r) \/ Delete(q, r)
                    \/ SnapshotClaims /\ LateStep(q)
                    \/ EnsureDispatch(q) \/ Submit(q) \/ SubmitFails(q) \/ Compensate(q)
                    \/ ReqDeliver(q) \/ DropStream(q) \/ BulkRead(q) \/ BulkWrite(q)
                    \/ BulkErase(q) \/ ReqStops(q)
             PROVE  StreamStep
  BY DEF RequestStep
<1>0. /\ \A r \in Runs : row[r] \in Row /\ RowSound(row[r])
      /\ req[q] \in Reqs
  BY DEF IInv, RowsOK, TypeOK
<1>1. ASSUME NEW r \in Runs, Prepare(q, r) PROVE StreamStep
  <2>1. row'[r] = NewGeneration(NoRow("absent")) /\ OthersHold(r)
    BY <1>1, SetRowHolds DEF Prepare
  <2>2. row'[r] = NewGeneration(row[r])
    BY <1>1, <2>1 DEF Erased, Prepare, Exists, NewGeneration, NoRow
  <2>3. row[r].gen < MaxGen
    BY <1>1, MaxGenAssumption DEF Erased, Prepare, Exists
  <2>4. Begins(r) /\ UNCHANGED redis
    BY <1>1, <2>2, <2>3 DEF Begins, Prepare, NewGeneration
  <2> QED  BY <2>1, <2>4 DEF StreamStep, RowStep
<1>2. ASSUME NEW r \in Runs, Resume(q, r) PROVE StreamStep
  <2>1. Begins(r) /\ OthersHold(r) /\ UNCHANGED redis
    BY <1>2, SetRowHolds DEF Resume, Begins, NewGeneration
  <2> QED  BY <2>1 DEF StreamStep, RowStep
<1>2a. CASE SnapshotClaims /\ LateStep(q)
  <2> DEFINE r == req[q].run
  <2>0. UNCHANGED redis
    BY <1>2a DEF LateStep, AwaitClaim, AwaitResume, ClaimLate, ResumeLate
  <2>1. CASE UNCHANGED row
    BY <2>0, <2>1, NothingMoves DEF StreamStep
  <2>2. CASE ClaimLate(q)
    <3>1. r \in Runs
      BY <1>0, <2>2, ReqFields DEF ClaimLate
    <3>2. row'[r] = NewGeneration(NoRow("absent")) /\ OthersHold(r)
      BY <2>2, <3>1, SetRowHolds DEF ClaimLate
    <3>3. row[r].status = "absent" /\ row[r].gen = 0
      BY <2>2, <3>1 DEF ClaimLate, Erased, Exists
    <3>4. Begins(r)
      BY <1>2a, <3>2, <3>3, MaxGenAssumption DEF Begins, NewGeneration, NoRow
    <3> QED  BY <2>0, <3>1, <3>2, <3>4 DEF StreamStep, RowStep
  <2>3. CASE ResumeLate(q) /\ ~UNCHANGED row
    <3>1. r \in Runs
      BY <1>0, <2>3, ReqFields DEF ResumeLate
    <3>2. row'[r] = Reopened(row[r], req[q].loaded) /\ OthersHold(r)
      BY <2>3, <3>1, SetRowHolds DEF ResumeLate
    <3>3. Begins(r)
      BY <1>0, <1>2a, <2>3, <3>1, <3>2 DEF ResumeLate, Begins, Reopened, Exists, Row
    <3> QED  BY <2>0, <3>1, <3>2, <3>3 DEF StreamStep, RowStep
  <2> QED  BY <1>2a, <2>1, <2>2, <2>3 DEF LateStep, AwaitClaim, AwaitResume, sql
<1>3. ASSUME NEW r \in Runs, Cancel(q, r) PROVE StreamStep
  BY <1>3, StageSteps DEF Cancel, MayCancel, Terminal, StreamStep
<1>4. ASSUME NEW r \in Runs, Delete(q, r) PROVE StreamStep
  <2>1. IsErased(r) /\ OthersHold(r) /\ UNCHANGED redis
    BY <1>4, SetRowHolds DEF Delete, IsErased
  <2> QED  BY <2>1 DEF StreamStep, RowStep
<1>5. CASE EnsureDispatch(q)
  <2> DEFINE r == req[q].run
  <2>1. r \in Runs /\ UNCHANGED redis
    BY <1>0, <1>5, ReqFields DEF EnsureDispatch
  <2>2. CASE SetRow(r, [row[r] EXCEPT !.cmd = req[q].cmd])
    <3>1. row'[r] = [row[r] EXCEPT !.cmd = req[q].cmd] /\ OthersHold(r)
      BY <2>1, <2>2, SetRowHolds
    <3>2. Holds(r)
      BY <1>0, <2>1, <3>1 DEF Holds, Row
    <3> QED  BY <2>1, <3>1, <3>2 DEF OthersHold, StreamStep, RowStep
  <2>3. CASE UNCHANGED row
    BY <2>1, <2>3, NothingMoves DEF StreamStep
  <2> QED  BY <1>5, <2>2, <2>3 DEF EnsureDispatch
<1>6. CASE Compensate(q)
  <2>1. req[q].job.run \in Runs
    BY <1>0, <1>6, ReqFields DEF Compensate, Jobs
  <2>2. CASE UNCHANGED <<sql, redis>>
    BY <2>2, NothingMoves DEF sql, StreamStep
  <2>3. CASE ~UNCHANGED <<sql, redis>>
    BY <1>6, <2>1, <2>3, StageSteps DEF Compensate, MayFinish, Terminal, StreamStep
  <2> QED  BY <2>2, <2>3
<1>7. CASE ReqDeliver(q)
  <2>1. req[q].run \in Runs
    BY <1>0, <1>7, ReqFields DEF ReqDeliver
  <2> QED  BY <1>7, <2>1, DeliverSteps DEF ReqDeliver
<1>8. CASE DropStream(q)
  <2>1. req[q].run \in Runs /\ row[req[q].run].status = "deleted"
    BY <1>0, <1>8, ReqFields DEF DropStream, Erased
  <2>2. Drops(req[q].run)
    BY <1>8, <2>1 DEF Drops, DropStream, sql, Holds
  <2> QED  BY <2>1, <2>2 DEF StreamStep
<1>9. CASE BulkWrite(q)
  <2>1. UNCHANGED redis /\ BulkCancel /\ req[q].runs \subseteq Runs
    BY <1>0, <1>9, ReqFields DEF BulkWrite, Erased
  <2>2. CASE UNCHANGED row
    BY <2>1, <2>2, NothingMoves DEF StreamStep
  <2>3. CASE /\ \A r \in req[q].runs : Exists(row[r])
             /\ row' = [r \in Runs |-> IF r \in req[q].runs
                                       THEN [row[r] EXCEPT !.status = "error"] ELSE row[r]]
    <3>1. \A x \in Runs : Holds(x) \/ IsOverwritten(x)
      BY <2>3 DEF Holds, IsOverwritten
    <3> QED  BY <2>1, <3>1 DEF StreamStep, RowStep
  <2> QED  BY <1>9, <2>2, <2>3 DEF BulkWrite
<1>10. CASE BulkErase(q)
  <2>1. UNCHANGED redis /\ BulkCancel
    BY <1>10 DEF BulkErase, Erased
  <2>2. \A x \in Runs : Holds(x) \/ IsErased(x)
    BY <1>10 DEF BulkErase, Holds, IsErased
  <2> QED  BY <2>1, <2>2 DEF StreamStep, RowStep
<1>11. CASE Submit(q) \/ SubmitFails(q) \/ BulkRead(q) \/ ReqStops(q)
  BY <1>11, NothingMoves DEF Submit, SubmitFails, BulkRead, ReqStops, sql, StreamStep
<1> QED  BY <1>1, <1>2, <1>2a, <1>3, <1>4, <1>5, <1>6, <1>7, <1>8, <1>9, <1>10, <1>11

LEMMA WorkerSteps == IInv /\ WorkerStep => StreamStep
<1>1. ASSUME NEW w \in Workers,
             Start(w) \/ Requeue(w) \/ Drain(w) \/ Drained(w) \/ LockLost(w) \/ Crash(w) \/ Restart(w)
      PROVE  StreamStep
  BY <1>1, NothingMoves DEF Start, Requeue, Drain, Drained, LockLost, Crash, Restart, sql, StreamStep
<1>2. ASSUME NEW w \in Workers, NEW s \in Slots,
             \/ Reserve(w, s) \/ GraphReturns(w, s) \/ FencedOut(w, s) \/ JobRaises(w, s) \/ Ack(w, s)
      PROVE  StreamStep
  BY <1>2, NothingMoves DEF Reserve, GraphReturns, FencedOut, JobRaises, Ack, sql, StreamStep
<1>3. ASSUME IInv, NEW w \in Workers, NEW s \in Slots,
             Claim(w, s) \/ Begin(w, s) \/ Renew(w, s) \/ Finish(w, s) \/ TaskDeliver(w, s)
      PROVE  StreamStep
  <2> DEFINE j == task[w][s].job
             r == j.run
  <2>1. task[w][s] \in Tasks /\ task[w][s].pc # "idle"
    BY <1>3 DEF Claim, Begin, Renew, Finish, TaskDeliver, IInv, TypeOK
  <2>2. r \in Runs /\ row[r] \in Row
    BY <1>3, <2>1, TaskFields DEF Jobs, IInv, RowsOK
  <2>3. CASE UNCHANGED <<row, redis>>
    BY <2>3, NothingMoves DEF StreamStep
  <2>4. CASE Claim(w, s) /\ Claimable(row[r], j.gen, w, TRUE) /\ SetRow(r, Claimed(row[r], w))
    <3>1. row'[r] = Claimed(row[r], w) /\ OthersHold(r)
      BY <1>3, <2>2, <2>4, SetRowHolds
    <3>2. IsClaimed(r, w) /\ UNCHANGED redis
      BY <2>1, <2>4, <3>1 DEF IsClaimed, Claimable, Claim
    <3> QED  BY <2>2, <3>1, <3>2 DEF StreamStep, RowStep
  <2>5. CASE Begin(w, s) /\ OwnsExecution(row[r], j.gen, w)
    <3>1. \A x \in Runs : Holds(x)
      BY <2>5 DEF Begin, sql, Holds
    <3>2. Starts(r)
      BY <2>5, <3>1 DEF Starts, Begin, OwnsExecution
    <3> QED  BY <2>2, <3>2 DEF StreamStep
  <2>6. CASE Renew(w, s)
    <3>1. row'[r] = [row[r] EXCEPT !.lease = "live"] /\ OthersHold(r)
      BY <1>3, <2>2, <2>6, SetRowHolds DEF Renew
    <3>2. Holds(r) /\ UNCHANGED redis
      BY <2>2, <2>6, <3>1 DEF Holds, Row, Renew
    <3> QED  BY <3>1, <3>2 DEF OthersHold, StreamStep, RowStep
  <2>7. CASE Finish(w, s) /\ ~UNCHANGED <<row, redis>>
    BY <1>3, <2>1, <2>2, <2>7, TaskFields, StageSteps DEF Finish, MayFinish, sql, StreamStep
  <2>8. CASE TaskDeliver(w, s)
    BY <1>3, <2>2, <2>8, DeliverSteps DEF TaskDeliver
  <2>9. Claim(w, s) => \/ UNCHANGED <<row, redis>>
                       \/ Claimable(row[r], j.gen, w, TRUE) /\ SetRow(r, Claimed(row[r], w))
    BY DEF Claim
  <2>10. Begin(w, s) => UNCHANGED <<row, redis>> \/ OwnsExecution(row[r], j.gen, w)
    BY DEF Begin, sql, redis
  <2> QED  BY <1>3, <2>3, <2>4, <2>5, <2>6, <2>7, <2>8, <2>9, <2>10
<1> QED  BY <1>1, <1>2, <1>3 DEF WorkerStep

LEMMA ServiceSteps == IInv /\ ServiceStep => StreamStep
<1> SUFFICES ASSUME IInv, ServiceStep PROVE StreamStep
  OBVIOUS
<1>0. \A r \in Runs : row[r] \in Row
  BY DEF IInv, RowsOK
<1>1. CASE LockExpires
  BY <1>1, NothingMoves DEF LockExpires, sql, StreamStep
<1>2. ASSUME NEW r \in Runs, LeaseLapses(r) PROVE StreamStep
  <2>1. row'[r] = [row[r] EXCEPT !.lease = "lapsed"] /\ OthersHold(r)
    BY <1>2, SetRowHolds DEF LeaseLapses
  <2>2. Holds(r) /\ UNCHANGED redis
    BY <1>0, <1>2, <2>1 DEF Holds, Row, LeaseLapses
  <2> QED  BY <2>1, <2>2 DEF OthersHold, StreamStep, RowStep
<1>3. ASSUME NEW r \in Runs, ReconcileDelivery(r) PROVE StreamStep
  BY <1>3, DeliverSteps DEF ReconcileDelivery
<1>4. ASSUME NEW c \in Scanners, ScanSubmit(c) \/ \E r \in Runs : ScanRead(c, r)
      PROVE  StreamStep
  BY <1>4, NothingMoves DEF ScanSubmit, ScanRead, sql, StreamStep
<1>5. ASSUME NEW r \in Runs, NEW g \in Gens, CleanupMarkers(r, g) PROVE StreamStep
  <2>1. \A x \in Runs : Holds(x)
    BY <1>0, <1>5 DEF CleanupMarkers, IInv, RowsOK, Holds, Row
  <2>2. Frees(r, g)
    BY <1>5, <2>1 DEF Frees, CleanupMarkers
  <2> QED  BY <2>2 DEF StreamStep
<1> QED  BY <1>1, <1>2, <1>3, <1>4, <1>5 DEF ServiceStep

LEMMA NextSteps == IInv /\ Erased /\ [Next]_vars => StreamStep
<1>1. UNCHANGED vars => StreamStep
  BY NothingMoves DEF vars, redis, StreamStep
<1> QED  BY <1>1, RequestSteps, WorkerSteps, ServiceSteps DEF Next

\* The same seen from one run.
Settles(r) == row[r].status = "terminal_pending" /\ row'[r] = Applied(row[r], row[r].result)

RunStep(r) ==
  \/ Holds(r) \/ Begins(r) \/ IsDecided(r) \/ IsErased(r) \/ Settles(r)
  \/ \E w \in Workers : IsClaimed(r, w)
  \/ BulkCancel /\ IsOverwritten(r)

LEMMA StreamStepOfRun == ASSUME StreamStep PROVE \A r \in Runs : RunStep(r)
<1>1. CASE RowStep
  BY <1>1 DEF RowStep, RunStep, OthersHold
<1>2. ASSUME NEW r \in Runs, Announces(r) PROVE \A x \in Runs : RunStep(x)
  BY <1>2 DEF Announces, RunStep, OthersHold, Settles
<1>3. ASSUME NEW r \in Runs, Starts(r) \/ Drops(r) \/ \E g \in Gens : Frees(r, g)
      PROVE  \A x \in Runs : RunStep(x)
  BY <1>3 DEF Starts, Drops, Frees, RunStep
<1> QED  BY <1>1, <1>2, <1>3 DEF StreamStep

\* The fields a step sets.
LEMMA StepFields ==
  ASSUME IInv, NEW r \in Runs
  PROVE  /\ Begins(r) => row'[r].status = "pending" /\ row'[r].gen = row[r].gen + 1
         /\ IsDecided(r) => /\ row'[r].status = "terminal_pending" /\ row'[r].gen = row[r].gen
                            /\ row'[r].result \in Terminal
         /\ IsErased(r) => row'[r].status = "deleted" /\ row'[r].gen = 0
         /\ Settles(r) => /\ row'[r].status = row[r].result /\ row'[r].status \in Terminal
                          /\ row'[r].gen = row[r].gen
         /\ \A w : IsClaimed(r, w) => /\ row[r].status \in {"pending", "running"}
                                      /\ row'[r].status = "running" /\ row'[r].gen = row[r].gen
                                      /\ row'[r].owner = w
         /\ IsOverwritten(r) => row'[r].status = "error" /\ row'[r].gen = row[r].gen
<1> row[r] \in Row /\ RowSound(row[r])
  BY DEF IInv, RowsOK
<1>1. Begins(r) => row'[r].status = "pending" /\ row'[r].gen = row[r].gen + 1
  BY DEF Begins
<1>2. IsDecided(r) => /\ row'[r].status = "terminal_pending" /\ row'[r].gen = row[r].gen
                      /\ row'[r].result \in Terminal
  BY DEF IsDecided, Staged, Row
<1>3. IsErased(r) => row'[r].status = "deleted" /\ row'[r].gen = 0
  BY DEF IsErased, NoRow
<1>4. Settles(r) => /\ row'[r].status = row[r].result /\ row'[r].status \in Terminal
                    /\ row'[r].gen = row[r].gen
  BY DEF Settles, Applied, Row, RowSound
<1>5. \A w : IsClaimed(r, w) => /\ row[r].status \in {"pending", "running"}
                                /\ row'[r].status = "running" /\ row'[r].gen = row[r].gen
                                /\ row'[r].owner = w
  BY DEF IsClaimed, Claimed, Claimable, Row
<1>6. IsOverwritten(r) => row'[r].status = "error" /\ row'[r].gen = row[r].gen
  BY DEF IsOverwritten, Row
<1> QED  BY <1>1, <1>2, <1>3, <1>4, <1>5, <1>6

\* A deleted run stays deleted.
LEMMA DeletedStays ==
  ASSUME IInv, NEW r \in Runs, RunStep(r), row[r].status = "deleted"
  PROVE  Holds(r)
BY StepFields DEF RunStep, Begins, IsDecided, IsErased, Settles, IsClaimed, Claimable, IsOverwritten, Exists

\* What a request newly begins to do.
LEMMA NewRequests ==
  ASSUME IInv, [Next]_vars, NEW q \in Requests
  PROVE  /\ req'[q].pc = "drop" => req'[q] = req[q] \/ row'[req'[q].run].status = "deleted"
         /\ req'[q].pc = "bulk" => req'[q] = req[q] \/ BulkCancel
         /\ req'[q].pc = "erase" => req'[q] = req[q] \/ req[q].pc = "bulk"
<1> DEFINE Begun == /\ req'[q].pc = "drop" => req'[q] = req[q] \/ row'[req'[q].run].status = "deleted"
                    /\ req'[q].pc = "bulk" => req'[q] = req[q] \/ BulkCancel
                    /\ req'[q].pc = "erase" => req'[q] = req[q] \/ req[q].pc = "bulk"
<1>1. CASE UNCHANGED req
  BY <1>1
<1>2. ASSUME NEW p \in Requests, NEW x, SetReq(p, x), x.pc \notin {"drop", "bulk", "erase"}
      PROVE  Begun
  BY <1>2 DEF SetReq, IInv, TypeOK
<1>3. ASSUME NEW p \in Requests, NEW r \in Runs, Prepare(p, r) \/ Resume(p, r) \/ Cancel(p, r)
      PROVE  Begun
  BY <1>2, <1>3 DEF Prepare, Resume, Cancel
<1>3a. ASSUME NEW p \in Requests, LateStep(p) PROVE Begun
  BY <1>2, <1>3a DEF LateStep, AwaitClaim, AwaitResume, ClaimLate, ResumeLate, NoReq
<1>4. ASSUME NEW p \in Requests, NEW r \in Runs, Delete(p, r) PROVE Begun
  <2>1. row'[r].status = "deleted"
    BY <1>4, SetRowHolds DEF Delete, NoRow
  <2> QED  BY <1>4, <2>1 DEF Delete, SetReq, IInv, TypeOK
<1>5. ASSUME NEW p \in Requests,
             \/ EnsureDispatch(p) \/ Submit(p) \/ SubmitFails(p) \/ Compensate(p)
             \/ ReqDeliver(p) \/ DropStream(p) \/ BulkErase(p) \/ ReqStops(p)
      PROVE  Begun
  BY <1>2, <1>5 DEF EnsureDispatch, Submit, SubmitFails, Compensate, ReqDeliver, DropStream,
                    BulkErase, ReqStops, NoReq
<1>6. ASSUME NEW p \in Requests, BulkRead(p) PROVE Begun
  BY <1>6 DEF BulkRead, SetReq, IInv, TypeOK
<1>7. ASSUME NEW p \in Requests, BulkWrite(p) PROVE Begun
  <2>1. CASE SetReq(p, NoReq)
    BY <1>2, <2>1 DEF NoReq
  <2>2. CASE SetReq(p, [pc |-> "erase", runs |-> req[p].runs])
    BY <1>7, <2>2 DEF BulkWrite, SetReq, IInv, TypeOK
  <2> QED  BY <1>7, <2>1, <2>2 DEF BulkWrite, SetReq
<1>8. WorkerStep => UNCHANGED req
  <2>1. ASSUME NEW w \in Workers,
               Start(w) \/ Requeue(w) \/ Drain(w) \/ Drained(w) \/ LockLost(w) \/ Crash(w) \/ Restart(w)
        PROVE  UNCHANGED req
    BY <2>1 DEF Start, Requeue, Drain, Drained, LockLost, Crash, Restart
  <2>2. ASSUME NEW w \in Workers, NEW s \in Slots,
               \/ Reserve(w, s) \/ Claim(w, s) \/ Begin(w, s) \/ GraphReturns(w, s)
               \/ Renew(w, s) \/ FencedOut(w, s) \/ Finish(w, s) \/ TaskDeliver(w, s)
               \/ JobRaises(w, s) \/ Ack(w, s)
        PROVE  UNCHANGED req
    BY <2>2 DEF Reserve, Claim, Begin, GraphReturns, Renew, FencedOut, Finish, TaskDeliver, JobRaises, Ack
  <2> QED  BY <2>1, <2>2 DEF WorkerStep
<1>9. ServiceStep => UNCHANGED req
  BY DEF ServiceStep, LockExpires, LeaseLapses, ReconcileDelivery, ScanRead, CleanupMarkers, ScanSubmit
<1>10. RequestStep => Begun
  BY <1>3, <1>3a, <1>4, <1>5, <1>6, <1>7 DEF RequestStep
<1> QED  BY <1>1, <1>8, <1>9, <1>10 DEF Next, vars

LEMMA NextErased == IInv /\ Erased /\ [Next]_vars => Erased'
<1> SUFFICES ASSUME IInv, Erased, [Next]_vars PROVE Erased'
  OBVIOUS
<1>1. \A r \in Runs : RunStep(r)
  BY NextSteps, StreamStepOfRun
<1>2. ASSUME NEW r \in Runs, ~Exists(row'[r]) PROVE row'[r].gen = 0
  BY <1>1, <1>2, StepFields DEF RunStep, Holds, Exists, Erased, Terminal
<1>3. ASSUME NEW q \in Requests, req'[q].pc = "drop" PROVE row'[req'[q].run].status = "deleted"
  <2>1. CASE req'[q] = req[q]
    <3>1. req[q].run \in Runs /\ row[req[q].run].status = "deleted"
      BY <1>3, <2>1, ReqFields DEF Erased, IInv, TypeOK
    <3> QED  BY <1>1, <2>1, <3>1, DeletedStays DEF Holds
  <2> QED  BY <1>3, <2>1, NewRequests
<1>4. ASSUME NEW q \in Requests, req'[q].pc \in {"bulk", "erase"} PROVE BulkCancel
  BY <1>4, NewRequests DEF Erased
<1> QED  BY <1>2, <1>3, <1>4 DEF Erased

-----------------------------------------------------------------------------
(* What a step may do to one run's records.                                *)

LEMMA AppendIn ==
  ASSUME NEW S, NEW log \in Seq(S), NEW e \in S
  PROVE  /\ Append(log, e) \in Seq(S)
         /\ Len(Append(log, e)) = Len(log) + 1
         /\ \A i \in 1 .. Len(log) : Append(log, e)[i] = log[i]
         /\ Append(log, e)[Len(log) + 1] = e
         /\ \A f : In(f, Append(log, e)) <=> In(f, log) \/ f = e
<1>1. /\ Append(log, e) \in Seq(S)
      /\ Len(Append(log, e)) = Len(log) + 1
      /\ \A i \in 1 .. Len(log) : Append(log, e)[i] = log[i]
      /\ Append(log, e)[Len(log) + 1] = e
      /\ Len(log) \in Nat
  OBVIOUS
<1>2. 1 .. Len(Append(log, e)) = 1 .. Len(log) \cup {Len(log) + 1}
  BY <1>1
<1>3. \A f : In(f, Append(log, e)) <=> In(f, log) \/ f = e
  BY <1>1, <1>2 DEF In
<1> QED  BY <1>1, <1>3

\* Records only come with their run: a start while it runs, an end and a lifecycle, under their
\* markers, while its delivery is pending.
LogStep(r) ==
  /\ \A e \in RunRecord : In(e, runLog'[r]) =>
       \/ In(e, runLog[r])
       \/ e.kind = "start" /\ e.gen = row[r].gen /\ row[r].status = "running"
       \/ /\ e = EndRecord(r, row[r].result)
          /\ row[r].status = "terminal_pending"
          /\ <<"run", r, row[r].gen>> \in marks'
  /\ \A e \in LifecycleRecord : In(e, threadLog'[ThreadOf[r]]) /\ e.run = r =>
       \/ In(e, threadLog[ThreadOf[r]])
       \/ /\ e = Lifecycle(r, row[r].result)
          /\ row[r].status = "terminal_pending"
          /\ <<"thread", r, row[r].gen>> \in marks'

\* Nothing of a run that is not deleted is taken back, and a new marker comes with its record.
LogKept(r) ==
  /\ \A e : In(e, threadLog[ThreadOf[r]]) => In(e, threadLog'[ThreadOf[r]])
  /\ row[r].status # "deleted" => \A e : In(e, runLog[r]) => In(e, runLog'[r])
  /\ row[r].status = "terminal_pending" =>
       /\ <<"run", r, row[r].gen>> \in marks =>
            <<"run", r, row[r].gen>> \in marks'
       /\ <<"thread", r, row[r].gen>> \in marks =>
            <<"thread", r, row[r].gen>> \in marks'
       /\ <<"run", r, row[r].gen>> \in marks' =>
            \/ <<"run", r, row[r].gen>> \in marks
            \/ In(EndRecord(r, row[r].result), runLog'[r])
       /\ <<"thread", r, row[r].gen>> \in marks' =>
            \/ <<"thread", r, row[r].gen>> \in marks
            \/ In(Lifecycle(r, row[r].result), threadLog'[ThreadOf[r]])

\* The two appends of a delivery.
LEMMA EndAppended ==
  ASSUME IInv, NEW r \in Runs, row[r].status = "terminal_pending", AppendEnd(r)
  PROVE  /\ EndRecord(r, row[r].result) \in RunRecord
         /\ \/ <<"run", r, row[r].gen>> \in marks /\ runLog' = runLog
            \/ /\ <<"run", r, row[r].gen>> \notin marks
               /\ runLog' = [runLog EXCEPT ![r] = Append(@, EndRecord(r, row[r].result))]
<1>1. row[r].gen \in Gens /\ row[r].result \in Terminal
  BY DEF IInv, RowsOK, RowSound, Exists
<1>2. EndRecord(r, row[r].result) \in RunRecord
  BY <1>1 DEF EndRecord, RunRecord
<1> QED  BY <1>2 DEF AppendEnd, EndRecord

LEMMA LifecycleAppended ==
  ASSUME IInv, NEW r \in Runs, row[r].status = "terminal_pending", AppendLifecycle(r)
  PROVE  /\ Lifecycle(r, row[r].result) \in LifecycleRecord
         /\ \/ <<"thread", r, row[r].gen>> \in marks /\ threadLog' = threadLog
            \/ /\ <<"thread", r, row[r].gen>> \notin marks
               /\ threadLog' = [threadLog EXCEPT ![ThreadOf[r]] = Append(@, Lifecycle(r, row[r].result))]
<1>1. row[r].gen \in Gens /\ row[r].result \in Terminal
  BY DEF IInv, RowsOK, RowSound, Exists
<1>2. Lifecycle(r, row[r].result) \in LifecycleRecord
  BY <1>1 DEF Lifecycle, LifecycleRecord
<1> QED  BY <1>2 DEF AppendLifecycle, Lifecycle

LEMMA LogSteps ==
  ASSUME IInv, StreamStep, NEW r \in Runs
  PROVE  LogStep(r) /\ LogKept(r)
<1>0. /\ runLog[r] \in Seq(RunRecord)
      /\ threadLog[ThreadOf[r]] \in Seq(LifecycleRecord)
      /\ runLog \in [Runs -> Seq(RunRecord)]
      /\ threadLog \in [Threads -> Seq(LifecycleRecord)]
      /\ \A x \in Runs : ThreadOf[x] \in Threads
  BY RunsAssumption DEF IInv, TypeOK
<1>1. CASE RowStep
  BY <1>1 DEF RowStep, redis, LogStep, LogKept
<1>2. ASSUME NEW x \in Runs, Starts(x) PROVE LogStep(r) /\ LogKept(r)
  <2> DEFINE e == [kind |-> "start", gen |-> row[x].gen, status |-> "none"]
  <2>1. UNCHANGED <<threadLog, marks>> /\ row[x].status = "running"
    BY <1>2 DEF Starts
  <2>2. CASE x # r
    <3>1. runLog'[r] = runLog[r]
      BY <1>0, <1>2, <2>2 DEF Starts
    <3> QED  BY <2>1, <3>1 DEF LogStep, LogKept
  <2>3. CASE x = r
    <3>1. e \in RunRecord
      BY <1>2 DEF RunRecord, Starts, IInv, RowsOK, RowSound, Exists
    <3>2. runLog'[r] = Append(runLog[r], e)
      BY <1>0, <1>2, <2>3 DEF Starts
    <3>3. \A f : In(f, runLog'[r]) <=> In(f, runLog[r]) \/ f = e
      BY <1>0, <3>1, <3>2, AppendIn
    <3> QED  BY <2>1, <2>3, <3>3 DEF LogStep, LogKept
  <2> QED  BY <2>2, <2>3
<1>3. ASSUME NEW x \in Runs, Drops(x) PROVE LogStep(r) /\ LogKept(r)
  <2>1. UNCHANGED <<threadLog, marks>> /\ row[x].status = "deleted"
    BY <1>3 DEF Drops
  <2>2. x # r => runLog'[r] = runLog[r]
    BY <1>0, <1>3 DEF Drops
  <2>3. x = r => \A e : ~In(e, runLog'[r])
    BY <1>0, <1>3 DEF Drops, In
  <2> QED  BY <2>1, <2>2, <2>3 DEF LogStep, LogKept
<1>4. ASSUME NEW x \in Runs, NEW g \in Gens, Frees(x, g) PROVE LogStep(r) /\ LogKept(r)
  <2>1. UNCHANGED <<runLog, threadLog>> /\ marks' = marks \ {<<"run", x, g>>, <<"thread", x, g>>}
    BY <1>4 DEF Frees
  <2>2. row[r].status = "terminal_pending" => ~(x = r /\ g = row[r].gen)
    BY <1>4 DEF Frees, Active
  <2> QED  BY <2>1, <2>2 DEF LogStep, LogKept
<1>5. ASSUME NEW x \in Runs, Announces(x) PROVE LogStep(r) /\ LogKept(r)
  <2>1. /\ row[x].status = "terminal_pending" /\ AppendEnd(x)
        /\ \/ marks' = marks \cup {<<"run", x, row[x].gen>>} /\ UNCHANGED threadLog
           \/ /\ marks' = marks \cup {<<"run", x, row[x].gen>>, <<"thread", x, row[x].gen>>}
              /\ AppendLifecycle(x)
    BY <1>5 DEF Announces
  <2> DEFINE e == EndRecord(x, row[x].result)
             f == Lifecycle(x, row[x].result)
  <2>2. /\ e \in RunRecord
        /\ \/ <<"run", x, row[x].gen>> \in marks /\ runLog' = runLog
           \/ runLog' = [runLog EXCEPT ![x] = Append(@, e)]
    BY <2>1, EndAppended
  <2>3. \/ UNCHANGED threadLog /\ marks' = marks \cup {<<"run", x, row[x].gen>>}
        \/ /\ marks' = marks \cup {<<"run", x, row[x].gen>>, <<"thread", x, row[x].gen>>}
           /\ f \in LifecycleRecord
           /\ \/ <<"thread", x, row[x].gen>> \in marks /\ threadLog' = threadLog
              \/ threadLog' = [threadLog EXCEPT ![ThreadOf[x]] = Append(@, f)]
    BY <2>1, LifecycleAppended
  <2>4. f \in LifecycleRecord =>
           \A d : In(d, Append(threadLog[ThreadOf[x]], f)) <=> In(d, threadLog[ThreadOf[x]]) \/ d = f
    <3> HIDE DEF f
    <3>1. threadLog[ThreadOf[x]] \in Seq(LifecycleRecord)
      BY <1>0
    <3> QED  BY <3>1, AppendIn
  <2>5. \A d : In(d, Append(runLog[x], e)) <=> In(d, runLog[x]) \/ d = e
    <3> HIDE DEF e
    <3>1. runLog[x] \in Seq(RunRecord)
      BY <1>0
    <3> QED  BY <2>2, <3>1, AppendIn
  <2> HIDE DEF e, f
  <2>6. /\ x # r => runLog'[r] = runLog[r]
        /\ x = r => \/ <<"run", r, row[r].gen>> \in marks /\ runLog'[r] = runLog[r]
                    \/ \A d : In(d, runLog'[r]) <=> In(d, runLog[r]) \/ d = e
    BY <1>0, <2>2, <2>5
  <2>7. \/ threadLog'[ThreadOf[r]] = threadLog[ThreadOf[r]]
        \/ \A d : In(d, threadLog'[ThreadOf[r]]) <=> In(d, threadLog[ThreadOf[r]]) \/ d = f
    BY <1>0, <2>3, <2>4
  <2>8. x = r => \/ <<"thread", r, row[r].gen>> \in marks' <=> <<"thread", r, row[r].gen>> \in marks
                 \/ \A d : In(d, threadLog'[ThreadOf[r]]) <=> In(d, threadLog[ThreadOf[r]]) \/ d = f
    <3>1. CASE UNCHANGED threadLog /\ marks' = marks \cup {<<"run", x, row[x].gen>>}
      BY <3>1
    <3>2. CASE \/ <<"thread", x, row[x].gen>> \in marks /\ marks \subseteq marks'
               \/ /\ threadLog' = [threadLog EXCEPT ![ThreadOf[x]] = Append(@, f)]
                  /\ f \in LifecycleRecord
      BY <1>0, <2>4, <3>2
    <3> QED  BY <2>3, <3>1, <3>2
  <2>9. CASE x # r
    <3>1. f.run # r /\ runLog'[r] = runLog[r]
      BY <2>6, <2>9 DEF Lifecycle, f
    <3>2. /\ <<"run", r, row[r].gen>> \in marks' <=> <<"run", r, row[r].gen>> \in marks
          /\ <<"thread", r, row[r].gen>> \in marks' <=> <<"thread", r, row[r].gen>> \in marks
      BY <2>1, <2>9
    <3> QED  BY <2>7, <3>1, <3>2 DEF LogStep, LogKept
  <2>10. CASE x = r
    <3>1. row[r].status = "terminal_pending" /\ <<"run", r, row[r].gen>> \in marks' /\ marks \subseteq marks'
      BY <2>1, <2>10
    <3>2. \A d \in RunRecord : In(d, runLog'[r]) => In(d, runLog[r]) \/ d = e
      BY <2>6, <2>10
    <3>3. \A d \in LifecycleRecord : In(d, threadLog'[ThreadOf[r]]) =>
            \/ In(d, threadLog[ThreadOf[r]])
            \/ d = f /\ <<"thread", r, row[r].gen>> \in marks'
      BY <1>0, <2>3, <2>7, <2>10
    <3>4. LogStep(r)
      BY <2>10, <3>1, <3>2, <3>3 DEF LogStep, e, f
    <3>5. LogKept(r)
      BY <2>6, <2>7, <2>8, <2>10, <3>1 DEF LogKept, e, f
    <3> QED  BY <3>4, <3>5
  <2> QED  BY <2>9, <2>10
<1> QED  BY <1>1, <1>2, <1>3, <1>4, <1>5 DEF StreamStep

-----------------------------------------------------------------------------
(* The order of the streams.                                               *)

LEMMA NextClosed == IInv /\ LogsClosed /\ StreamStep => LogsClosed'
<1> SUFFICES ASSUME IInv, LogsClosed, StreamStep, NEW r \in Runs, row'[r].status # "deleted"
             PROVE  RunLogClosed(r)' /\ ThreadLogClosed(r)'
  BY DEF LogsClosed
<1>1. RunStep(r) /\ LogStep(r) /\ LogKept(r)
  BY StreamStepOfRun, LogSteps
<1>2. row[r].status # "deleted"
  BY <1>1, DeletedStays DEF Holds
<1>3. RunLogClosed(r) /\ ThreadLogClosed(r)
  BY <1>2 DEF LogsClosed
<1>4. row[r].gen \in Nat /\ row'[r].gen \in Nat /\ row'[r].gen >= row[r].gen
  <2>1. row[r].gen \in Nat
    BY MaxGenAssumption DEF IInv, RowsOK, Row
  <2> QED  BY <1>1, <2>1, StepFields DEF RunStep, Holds
\* Where a generation had its end, the row keeps it closed.
<1>5. ASSUME row'[r].gen = row[r].gen, row[r].status \in Terminal \cup {"terminal_pending"}
      PROVE  \/ row'[r].status = row[r].status
             \/ row'[r].status \in Terminal
  BY <1>1, <1>4, <1>5, StepFields
     DEF RunStep, Holds, Begins, IsDecided, Terminal
<1>6. RunLogClosed(r)'
  <2> SUFFICES ASSUME NEW e \in RunRecord, In(e, runLog'[r])
               PROVE  /\ e.gen <= row'[r].gen
                      /\ e.gen = row'[r].gen /\ e.kind = "end" =>
                           \/ row'[r].status = "terminal_pending" /\ <<"run", r, row'[r].gen>> \in marks'
                           \/ row'[r].status \in Terminal
    BY DEF RunLogClosed
  <2>0. e.gen \in Nat
    BY MaxGenAssumption DEF RunRecord, Gens
  <2>1. CASE In(e, runLog[r])
    BY <1>1, <1>3, <1>4, <1>5, <2>0, <2>1 DEF RunLogClosed, LogKept
  <2>2. CASE e.kind = "start" /\ e.gen = row[r].gen
    BY <1>4, <2>2
  <2>3. CASE e = EndRecord(r, row[r].result) /\ row[r].status = "terminal_pending" /\ <<"run", r, row[r].gen>> \in marks'
    BY <1>4, <1>5, <2>3 DEF EndRecord
  <2> QED  BY <1>1, <2>1, <2>2, <2>3 DEF LogStep
<1>7. ThreadLogClosed(r)'
  <2> SUFFICES ASSUME NEW e \in LifecycleRecord, In(e, threadLog'[ThreadOf[r]]), e.run = r
               PROVE  /\ e.gen <= row'[r].gen
                      /\ e.gen = row'[r].gen =>
                           \/ row'[r].status = "terminal_pending" /\ <<"thread", r, row'[r].gen>> \in marks'
                           \/ row'[r].status \in Terminal
    BY DEF ThreadLogClosed
  <2>0. e.gen \in Nat
    BY MaxGenAssumption DEF LifecycleRecord, Gens
  <2>1. CASE In(e, threadLog[ThreadOf[r]])
    BY <1>1, <1>3, <1>4, <1>5, <2>0, <2>1 DEF ThreadLogClosed, LogKept
  <2>2. CASE e = Lifecycle(r, row[r].result) /\ row[r].status = "terminal_pending" /\ <<"thread", r, row[r].gen>> \in marks'
    BY <1>4, <1>5, <2>2 DEF Lifecycle
  <2> QED  BY <1>1, <2>1, <2>2 DEF LogStep
<1> QED  BY <1>6, <1>7

StreamInv == IInv /\ Erased /\ LogsClosed

LEMMA StreamsAlways == Spec => []StreamInv
<1>1. Init => StreamInv
  <2> SUFFICES ASSUME Init PROVE Erased /\ LogsClosed
    BY InitTypes DEF StreamInv
  <2>1. Erased
    BY DEF Init, Erased, NoRow, NoReq
  <2>2. \A r \in Runs : /\ runLog[r] = <<>> /\ threadLog[ThreadOf[r]] = <<>>
    BY RunsAssumption DEF Init
  <2>3. \A e : ~In(e, <<>>)
    BY DEF In
  <2> QED  BY <2>1, <2>2, <2>3 DEF LogsClosed, RunLogClosed, ThreadLogClosed
<1>2. StreamInv /\ [Next]_vars => StreamInv'
  BY NextTypes, NextSteps, NextErased, NextClosed DEF StreamInv
<1> QED  BY <1>1, <1>2, PTL DEF Spec

\* What is appended to a run's log when it grows.
Grows(log, new, e) == new = Append(log, e)

LEMMA RunLogGrows ==
  ASSUME IInv, LogsClosed, StreamStep, NEW r \in Runs
  PROVE  \/ runLog'[r] = runLog[r]
         \/ runLog'[r] = <<>>
         \/ \E e \in RunRecord :
              /\ Grows(runLog[r], runLog'[r], e)
              /\ \A f \in RunRecord : In(f, runLog[r]) =>
                   f.gen < e.gen \/ (f.gen = e.gen /\ f.kind = "start")
<1>0. /\ runLog \in [Runs -> Seq(RunRecord)]
      /\ row[r].status # "deleted" => RunLogClosed(r)
      /\ row[r].gen \in Nat
  BY MaxGenAssumption DEF IInv, TypeOK, LogsClosed, RowsOK, Row
\* While a generation has no end, all there is of it are starts.
<1>1. ASSUME row[r].status # "deleted", row[r].status \notin Terminal,
             row[r].status = "terminal_pending" => <<"run", r, row[r].gen>> \notin marks,
             NEW f \in RunRecord, In(f, runLog[r])
      PROVE  f.gen < row[r].gen \/ (f.gen = row[r].gen /\ f.kind = "start")
  <2>1. f.gen \in Nat /\ f.kind \in {"start", "end"}
    BY MaxGenAssumption DEF RunRecord, Gens
  <2> QED  BY <1>0, <1>1, <2>1 DEF RunLogClosed
<1>2. CASE UNCHANGED runLog
  BY <1>2
<1>3. ASSUME NEW x \in Runs, Starts(x), runLog'[r] # runLog[r]
      PROVE  \E e \in RunRecord :
              /\ Grows(runLog[r], runLog'[r], e)
              /\ \A f \in RunRecord : In(f, runLog[r]) =>
                   f.gen < e.gen \/ (f.gen = e.gen /\ f.kind = "start")
  <2> DEFINE e == [kind |-> "start", gen |-> row[r].gen, status |-> "none"]
  <2>1. x = r /\ row[r].status = "running" /\ runLog'[r] = Append(runLog[r], e)
    BY <1>0, <1>3 DEF Starts
  <2>2. e \in RunRecord
    BY <2>1 DEF RunRecord, IInv, RowsOK, RowSound, Exists
  <2>3. \A f \in RunRecord : In(f, runLog[r]) =>
          f.gen < e.gen \/ (f.gen = e.gen /\ f.kind = "start")
    BY <1>1, <2>1 DEF Terminal
  <2> HIDE DEF e
  <2> QED  BY <2>1, <2>2, <2>3 DEF Grows
<1>4. ASSUME NEW x \in Runs, Announces(x), runLog'[r] # runLog[r]
      PROVE  \E e \in RunRecord :
              /\ Grows(runLog[r], runLog'[r], e)
              /\ \A f \in RunRecord : In(f, runLog[r]) =>
                   f.gen < e.gen \/ (f.gen = e.gen /\ f.kind = "start")
  <2> DEFINE e == EndRecord(r, row[r].result)
  <2>1. row[x].status = "terminal_pending" /\ AppendEnd(x)
    BY <1>4 DEF Announces
  <2>2. /\ x = r /\ <<"run", r, row[r].gen>> \notin marks
        /\ e \in RunRecord /\ runLog'[r] = Append(runLog[r], e)
    BY <1>0, <1>4, <2>1, EndAppended
  <2>3. e.gen = row[r].gen
    BY DEF EndRecord
  <2> HIDE DEF e
  <2>4. \A f \in RunRecord : In(f, runLog[r]) =>
          f.gen < e.gen \/ (f.gen = e.gen /\ f.kind = "start")
    BY <1>1, <2>1, <2>2, <2>3 DEF Terminal
  <2> QED  BY <2>2, <2>4 DEF Grows
<1>5. ASSUME NEW x \in Runs, Drops(x) PROVE runLog'[r] = runLog[r] \/ runLog'[r] = <<>>
  BY <1>0, <1>5 DEF Drops
<1>6. CASE RowStep \/ \E x \in Runs, g \in Gens : Frees(x, g)
  BY <1>2, <1>6 DEF RowStep, redis, Frees
<1> QED  BY <1>2, <1>3, <1>4, <1>5, <1>6 DEF StreamStep

\* A run's stream shows its generations in order, and nothing of a generation after its end,
\* whatever locks are lost and whatever is cancelled, deleted or delivered again.
THEOREM RunLogsInOrder == Spec => []RunLogWellFormed
<1>1. Init => RunLogWellFormed
  BY DEF Init, RunLogWellFormed
<1>2. StreamInv /\ RunLogWellFormed /\ [Next]_vars => RunLogWellFormed'
  <2> SUFFICES ASSUME StreamInv, RunLogWellFormed, [Next]_vars, NEW r \in Runs,
                      NEW i \in 1 .. Len(runLog'[r]), NEW j \in 1 .. Len(runLog'[r]), i < j
               PROVE  \/ runLog'[r][i].gen < runLog'[r][j].gen
                      \/ /\ runLog'[r][i].gen = runLog'[r][j].gen
                         /\ runLog'[r][i].kind = "start"
    BY DEF RunLogWellFormed
  <2>1. runLog[r] \in Seq(RunRecord) /\ StreamStep
    BY NextSteps DEF StreamInv, IInv, TypeOK
  <2>2. CASE runLog'[r] = runLog[r]
    BY <2>2 DEF RunLogWellFormed
  <2>3. CASE runLog'[r] = <<>>
    BY <2>3
  <2>4. ASSUME NEW e \in RunRecord, Grows(runLog[r], runLog'[r], e),
               \A f \in RunRecord : In(f, runLog[r]) =>
                 f.gen < e.gen \/ (f.gen = e.gen /\ f.kind = "start")
        PROVE  \/ runLog'[r][i].gen < runLog'[r][j].gen
               \/ /\ runLog'[r][i].gen = runLog'[r][j].gen
                  /\ runLog'[r][i].kind = "start"
    <3>1. /\ Len(runLog'[r]) = Len(runLog[r]) + 1
          /\ \A k \in 1 .. Len(runLog[r]) : runLog'[r][k] = runLog[r][k]
          /\ runLog'[r][Len(runLog[r]) + 1] = e
          /\ Len(runLog[r]) \in Nat
      BY <2>1, <2>4, AppendIn DEF Grows
    <3>2. i \in 1 .. Len(runLog[r]) /\ runLog'[r][i] = runLog[r][i]
      BY <3>1
    <3>3. CASE j \in 1 .. Len(runLog[r])
      BY <3>1, <3>2, <3>3 DEF RunLogWellFormed
    <3>4. CASE j = Len(runLog[r]) + 1
      <4>1. In(runLog[r][i], runLog[r]) /\ runLog[r][i] \in RunRecord
        BY <2>1, <3>2 DEF In
      <4> QED  BY <2>4, <3>1, <3>2, <3>4, <4>1
    <3> QED  BY <3>1, <3>3, <3>4
  <2> QED  BY <2>1, <2>2, <2>3, <2>4, RunLogGrows DEF StreamInv
<1> QED  BY <1>1, <1>2, StreamsAlways, PTL DEF Spec

\* However often a delivery is retried, by whichever process, and whatever became of the run
\* in between, its thread's stream shows one lifecycle record of it.
THEOREM LifecycleToldOnce == Spec => []LifecycleOnce
<1>1. Init => LifecycleOnce
  BY DEF Init, LifecycleOnce
<1>2. StreamInv /\ LifecycleOnce /\ [Next]_vars => LifecycleOnce'
  <2> SUFFICES ASSUME StreamInv, LifecycleOnce, [Next]_vars, NEW t \in Threads,
                      NEW i \in 1 .. Len(threadLog'[t]), NEW j \in 1 .. Len(threadLog'[t]),
                      threadLog'[t][i].run = threadLog'[t][j].run,
                      threadLog'[t][i].gen = threadLog'[t][j].gen
               PROVE  i = j
    BY DEF LifecycleOnce
  <2>0. threadLog[t] \in Seq(LifecycleRecord) /\ threadLog \in [Threads -> Seq(LifecycleRecord)]
    BY DEF StreamInv, IInv, TypeOK
  <2>1. CASE threadLog'[t] = threadLog[t]
    BY <2>1 DEF LifecycleOnce
  <2>2. ASSUME NEW r \in Runs, Announces(r), threadLog'[t] # threadLog[t] PROVE i = j
    <3> DEFINE e == Lifecycle(r, row[r].result)
    <3>1. row[r].status = "terminal_pending" /\ AppendLifecycle(r)
      BY <2>2 DEF Announces
    <3>2. /\ t = ThreadOf[r] /\ <<"thread", r, row[r].gen>> \notin marks
          /\ e \in LifecycleRecord /\ threadLog'[t] = Append(threadLog[t], e)
      BY <2>0, <2>2, <3>1, LifecycleAppended DEF StreamInv
    <3>3. e.run = r /\ e.gen = row[r].gen
      BY DEF Lifecycle
    <3> HIDE DEF e
    <3>4. \A f \in LifecycleRecord : In(f, threadLog[t]) => ~(f.run = r /\ f.gen = row[r].gen)
      BY <3>1, <3>2 DEF StreamInv, LogsClosed, ThreadLogClosed, Terminal
    <3>5. /\ Len(threadLog'[t]) = Len(threadLog[t]) + 1
          /\ \A k \in 1 .. Len(threadLog[t]) : threadLog'[t][k] = threadLog[t][k]
          /\ threadLog'[t][Len(threadLog[t]) + 1] = e
          /\ Len(threadLog[t]) \in Nat
      BY <2>0, <3>2, AppendIn
    <3>6. ASSUME NEW k \in 1 .. Len(threadLog[t])
          PROVE  ~(threadLog'[t][k].run = r /\ threadLog'[t][k].gen = row[r].gen)
      <4>1. In(threadLog[t][k], threadLog[t]) /\ threadLog[t][k] \in LifecycleRecord
        BY <2>0 DEF In
      <4> QED  BY <3>4, <3>5, <4>1
    <3>7. CASE i \in 1 .. Len(threadLog[t]) /\ j \in 1 .. Len(threadLog[t])
      BY <3>5, <3>7 DEF LifecycleOnce
    <3>8. ASSUME NEW k \in 1 .. Len(threadLog'[t]), k \notin 1 .. Len(threadLog[t])
          PROVE  /\ k = Len(threadLog[t]) + 1
                 /\ threadLog'[t][k].run = r /\ threadLog'[t][k].gen = row[r].gen
      BY <3>3, <3>5, <3>8
    <3> QED  BY <3>6, <3>7, <3>8
  <2>3. StreamStep
    BY NextSteps DEF StreamInv
  <2>4. CASE UNCHANGED threadLog
    BY <2>1, <2>4
  <2>5. CASE \A r \in Runs : ~Announces(r)
    BY <2>3, <2>4, <2>5 DEF StreamStep, RowStep, redis, Starts, Drops, Frees
  <2> QED  BY <2>1, <2>2, <2>5
<1> QED  BY <1>1, <1>2, StreamsAlways, PTL DEF Spec

-----------------------------------------------------------------------------
(* The outcome that is announced.                                          *)

LEMMA NewMarks ==
  ASSUME IInv, StreamStep, NEW r \in Runs, NEW k \in {"run", "thread"}, NEW g \in Gens,
         <<k, r, g>> \in marks', <<k, r, g>> \notin marks
  PROVE  g = row[r].gen /\ row[r].status = "terminal_pending"
<1>1. CASE RowStep \/ \E x \in Runs : Starts(x) \/ Drops(x) \/ \E h \in Gens : Frees(x, h)
  BY <1>1 DEF RowStep, redis, Starts, Drops, Frees
<1>2. ASSUME NEW x \in Runs, Announces(x)
      PROVE  g = row[r].gen /\ row[r].status = "terminal_pending"
  BY <1>2 DEF Announces
<1> QED  BY <1>1, <1>2 DEF StreamStep

\* A run settles in the step that completes its delivery.
LEMMA SettledDelivered ==
  ASSUME IInv, ~BulkCancel, StreamStep, NEW r \in Runs, Settles(r)
  PROVE  <<"run", r, row[r].gen>> \in marks' /\ <<"thread", r, row[r].gen>> \in marks'
<1>1. row[r].status = "terminal_pending" /\ row'[r].status \in Terminal
  BY StepFields DEF Settles
<1>2. ~Holds(r)
  BY <1>1 DEF Holds, Terminal
<1>3. ~RowStep
  BY <1>1, <1>2, StepFields DEF RowStep, OthersHold, Terminal, Begins
<1>4. PICK x \in Runs : Announces(x)
  BY <1>2, <1>3 DEF StreamStep, Starts, Drops, Frees
<1>5. x = r
  BY <1>2, <1>4 DEF Announces, OthersHold
<1> QED  BY <1>2, <1>4, <1>5 DEF Announces

LEMMA NextTold == IInv /\ ~BulkCancel /\ LogsClosed /\ OutcomesTold /\ StreamStep => OutcomesTold'
<1> SUFFICES ASSUME IInv, ~BulkCancel, LogsClosed, OutcomesTold, StreamStep,
                    NEW r \in Runs, row'[r].status # "deleted"
             PROVE  MarksClosed(r)' /\ OutcomeTold(r)'
  BY DEF OutcomesTold
<1>1. RunStep(r) /\ LogStep(r) /\ LogKept(r)
  BY StreamStepOfRun, LogSteps
<1>2. row[r].status # "deleted"
  BY <1>1, DeletedStays DEF Holds
<1>3. RunLogClosed(r) /\ MarksClosed(r) /\ OutcomeTold(r)
  BY <1>2 DEF LogsClosed, OutcomesTold
<1>4. row[r].gen \in Nat /\ RowSound(row[r])
  BY MaxGenAssumption DEF IInv, RowsOK, Row
<1>5. \/ Holds(r)
      \/ /\ row'[r].status \in {"pending", "running"}
         /\ row'[r].gen = row[r].gen => row[r].status \in {"pending", "running"}
         /\ row'[r].gen \in Nat /\ row'[r].gen >= row[r].gen
      \/ /\ row[r].status \in {"pending", "running"}
         /\ row'[r].status = "terminal_pending" /\ row'[r].gen = row[r].gen
      \/ Settles(r) /\ row'[r].status \in Terminal /\ row'[r].gen = row[r].gen
  BY <1>1, <1>4, StepFields DEF RunStep, IsDecided
<1>6. MarksClosed(r)'
  <2> SUFFICES ASSUME NEW k \in {"run", "thread"}, NEW g \in Gens, <<k, r, g>> \in marks'
               PROVE  /\ g <= row'[r].gen
                      /\ g = row'[r].gen => row'[r].status \in Terminal \cup {"terminal_pending"}
    BY DEF MarksClosed
  <2>1. g \in Nat /\ g <= row[r].gen /\ (g = row[r].gen => row[r].status \in Terminal \cup {"terminal_pending"})
    BY <1>3, <1>4, NewMarks, MaxGenAssumption DEF MarksClosed, Gens
  <2> QED  BY <1>4, <1>5, <2>1 DEF Holds, Terminal
\* What is in the log of the generation that goes on.
<1>7. ASSUME NEW e \in RunRecord, In(e, runLog'[r]), e.gen = row'[r].gen, e.kind = "end"
      PROVE  /\ row'[r].gen = row[r].gen
             /\ \/ row[r].status = "terminal_pending" /\ e.status = row[r].result
                \/ row[r].status \in Terminal /\ e.status = row[r].status
  <2>1. e.gen \in Nat /\ e.status # "terminal_pending"
    BY MaxGenAssumption DEF RunRecord, Gens, Terminal
  <2>2. CASE In(e, runLog[r])
    <3>1. e.gen = row[r].gen
      BY <1>3, <1>4, <1>5, <1>7, <2>1, <2>2 DEF RunLogClosed, Holds
    <3> QED  BY <1>3, <1>7, <2>1, <2>2, <3>1 DEF RunLogClosed, OutcomeTold, Terminal
  <2>3. CASE e = EndRecord(r, row[r].result) /\ row[r].status = "terminal_pending"
    BY <1>7, <2>3 DEF EndRecord
  <2> QED  BY <1>1, <1>7, <2>2, <2>3 DEF LogStep
<1>8. CASE Holds(r)
  <2>1. /\ row'[r].status = row[r].status /\ row'[r].gen = row[r].gen
        /\ row[r].status = "terminal_pending" => row'[r].result = row[r].result
    BY <1>8 DEF Holds, Active
  <2>2. row'[r].status = "terminal_pending" =>
          /\ <<"run", r, row'[r].gen>> \in marks' => In(EndRecord(r, row[r].result), runLog'[r])
          /\ <<"thread", r, row'[r].gen>> \in marks' =>
               In(Lifecycle(r, row[r].result), threadLog'[ThreadOf[r]])
    BY <1>1, <1>2, <1>3, <2>1 DEF OutcomeTold, LogKept
  <2>3. row'[r].status \in Terminal =>
          /\ In(EndRecord(r, row[r].status), runLog'[r])
          /\ In(Lifecycle(r, row[r].status), threadLog'[ThreadOf[r]])
    BY <1>1, <1>2, <1>3, <2>1 DEF OutcomeTold, LogKept
  <2>4. \A e \in RunRecord : In(e, runLog'[r]) /\ e.gen = row'[r].gen /\ e.kind = "end" =>
          \/ row'[r].status = "terminal_pending" /\ e.status = row'[r].result
          \/ e.status = row'[r].status
    BY <1>7, <2>1
  <2> QED  BY <1>6, <2>1, <2>2, <2>3, <2>4 DEF OutcomeTold, EndRecord, Lifecycle
<1>9. CASE Settles(r)
  <2>1. row'[r].status = row[r].result /\ row'[r].status \in Terminal /\ row'[r].gen = row[r].gen
    BY <1>9, StepFields
  <2>2. /\ In(EndRecord(r, row[r].result), runLog'[r])
        /\ In(Lifecycle(r, row[r].result), threadLog'[ThreadOf[r]])
    BY <1>1, <1>2, <1>3, <1>9, SettledDelivered DEF OutcomeTold, LogKept, Settles
  <2>3. \A e \in RunRecord : In(e, runLog'[r]) /\ e.gen = row'[r].gen /\ e.kind = "end" =>
          e.status = row'[r].status
    BY <1>7, <1>9, <2>1 DEF Settles, Terminal
  <2> QED  BY <1>6, <2>1, <2>2, <2>3 DEF OutcomeTold, EndRecord, Lifecycle, Terminal
<1>10. CASE /\ row'[r].status \in {"pending", "running"}
            /\ row'[r].gen = row[r].gen => row[r].status \in {"pending", "running"}
  <2>1. \A e \in RunRecord : ~(In(e, runLog'[r]) /\ e.gen = row'[r].gen /\ e.kind = "end")
    BY <1>7, <1>10 DEF Terminal
  <2> QED  BY <1>6, <1>10, <2>1 DEF OutcomeTold, Terminal
<1>11. CASE /\ row[r].status \in {"pending", "running"}
            /\ row'[r].status = "terminal_pending" /\ row'[r].gen = row[r].gen
  <2>1. \A e \in RunRecord : ~(In(e, runLog'[r]) /\ e.gen = row'[r].gen /\ e.kind = "end")
    BY <1>7, <1>11 DEF Terminal
  <2>2. \A k \in {"run", "thread"} : <<k, r, row'[r].gen>> \notin marks'
    <3>1. row[r].gen \in Gens
      BY <1>4, <1>11 DEF RowSound, Exists
    <3> QED  BY <1>3, <1>11, <3>1, NewMarks DEF MarksClosed, Terminal
  <2> QED  BY <1>6, <1>11, <2>1, <2>2 DEF OutcomeTold, Terminal
<1> QED  BY <1>5, <1>8, <1>9, <1>10, <1>11

ToldInv == StreamInv /\ OutcomesTold

LEMMA ToldAlways == ~BulkCancel => (Spec => []ToldInv)
<1> SUFFICES ASSUME ~BulkCancel PROVE Spec => []ToldInv
  OBVIOUS
<1>1. Init => OutcomesTold
  <2> SUFFICES ASSUME Init, NEW r \in Runs PROVE MarksClosed(r) /\ OutcomeTold(r)
    BY DEF OutcomesTold
  <2>1. marks = {} /\ runLog[r] = <<>> /\ row[r].status = "absent"
    BY DEF Init, NoRow
  <2>2. \A e : ~In(e, <<>>)
    BY DEF In
  <2> QED  BY <2>1, <2>2 DEF MarksClosed, OutcomeTold, Terminal
<1>2. StreamInv /\ OutcomesTold /\ [Next]_vars => OutcomesTold'
  BY NextTold, NextSteps DEF StreamInv
<1> QED  BY <1>1, <1>2, StreamsAlways, PTL DEF Spec, ToldInv

\* What the streams announced of a run's generation is what its row says, and a settled run
\* has both its records, however its deliveries were interrupted.  Bulk cancellation is left
\* out: it overwrites a status by primary key, over what the streams have said.
THEOREM OutcomesAnnounced == ~BulkCancel => (Spec => []OutcomeAnnounced)
<1> SUFFICES ASSUME ~BulkCancel PROVE Spec => []OutcomeAnnounced
  OBVIOUS
<1>1. ToldInv => OutcomeAnnounced
  <2> SUFFICES ASSUME ToldInv, NEW r \in Runs
               PROVE  /\ \A i \in 1 .. Len(runLog[r]) :
                           runLog[r][i].kind = "end" /\ runLog[r][i].gen = row[r].gen
                             => \/ row[r].status = "terminal_pending" /\ row[r].result = runLog[r][i].status
                                \/ row[r].status = runLog[r][i].status
                      /\ row[r].status \in Terminal =>
                           /\ In(EndRecord(r, row[r].status), runLog[r])
                           /\ In(Lifecycle(r, row[r].status), threadLog[ThreadOf[r]])
    BY DEF OutcomeAnnounced, In, EndRecord, Lifecycle
  <2>1. runLog[r] \in Seq(RunRecord)
    BY DEF ToldInv, StreamInv, IInv, TypeOK
  <2>2. \A i \in 1 .. Len(runLog[r]) :
          /\ runLog[r][i] \in RunRecord /\ In(runLog[r][i], runLog[r])
          /\ runLog[r][i].gen \in Gens
    <3>1. \A i \in 1 .. Len(runLog[r]) : runLog[r][i] \in RunRecord
      BY <2>1
    <3> QED  BY <3>1 DEF In, RunRecord
  <2>3. CASE row[r].status = "deleted"
    <3>1. row[r].gen = 0 /\ 0 \notin Gens
      BY <2>3, MaxGenAssumption DEF ToldInv, StreamInv, Erased, Exists, Gens
    <3> QED  BY <2>2, <2>3, <3>1 DEF Terminal
  <2>4. CASE row[r].status # "deleted"
    BY <2>2, <2>4 DEF ToldInv, OutcomesTold, OutcomeTold
  <2> QED  BY <2>3, <2>4
<1> QED  BY <1>1, ToldAlways, PTL

-----------------------------------------------------------------------------
(* The fence of the executions, while live workers keep the lock.          *)

LEMMA ExitExclusive ==
  ASSUME IInv, Exclusive, NEW w \in Workers, Exit(w)
  PROVE  Exclusive'
<1>1. /\ worker' = [worker EXCEPT ![w] = "gone"]
      /\ task' = [task EXCEPT ![w] = [s \in Slots |-> NoTask]]
      /\ lock' = IF lock = w THEN NoOwner ELSE lock
      /\ worker \in [Workers -> {"new", "requeue", "up", "draining", "gone"}]
      /\ task \in [Workers -> [Slots -> Tasks]]
  BY DEF Exit, IInv, TypeOK
<1>2. \A v \in Workers : worker'[v] \in Live => v # w /\ worker[v] \in Live
  BY <1>1 DEF Live
<1>3. \A v \in Workers : \A s \in Slots :
        task'[v][s].pc # "idle" => v # w /\ task[v][s].pc # "idle"
  BY <1>1 DEF NoTask
<1>4. \A v \in Workers : v # w => worker'[v] = worker[v]
  BY <1>1
<1> QED  BY <1>1, <1>2, <1>3, <1>4 DEF Exclusive

\* A new stage of a task of a worker that is up.
LEMMA TaskExclusive ==
  ASSUME IInv, Exclusive, NEW w \in Workers, NEW s \in Slots, NEW x, SetTask(w, s, x),
         worker[w] \in Live, UNCHANGED <<worker, lock>>
  PROVE  Exclusive'
<1>1. \A v \in Workers : \A u \in Slots :
        task'[v][u].pc # "idle" => v = w \/ task[v][u].pc # "idle"
  BY DEF SetTask, IInv, TypeOK
<1> QED  BY <1>1 DEF Exclusive

LEMMA NextExclusive == MaxLosses = 0 /\ IInv /\ Exclusive /\ [Next]_vars => Exclusive'
<1> SUFFICES ASSUME MaxLosses = 0, IInv, Exclusive, [Next]_vars PROVE Exclusive'
  OBVIOUS
<1>0. /\ worker \in [Workers -> {"new", "requeue", "up", "draining", "gone"}]
      /\ task \in [Workers -> [Slots -> Tasks]]
      /\ NoOwner \notin Workers /\ losses = 0
  BY OwnersAssumption, OwnersAreWorkers DEF IInv, TypeOK
<1>1. CASE UNCHANGED procs
  BY <1>1 DEF procs, Exclusive
<1>2. ASSUME NEW w \in Workers, Start(w) PROVE Exclusive'
  <2>1. \A v \in Workers : worker[v] \notin Live
    BY <1>0, <1>2 DEF Start, Exclusive
  <2> QED  BY <1>0, <1>2, <2>1 DEF Start, Exclusive, Live
<1>3. ASSUME NEW w \in Workers, Requeue(w) PROVE Exclusive'
  BY <1>0, <1>3 DEF Requeue, Exclusive, Live
<1>4. ASSUME NEW w \in Workers, Drain(w) PROVE Exclusive'
  <2>1. /\ \A v \in Workers : worker'[v] \in Live => worker[v] \in Live
        /\ \A v \in Workers : worker[v] \in Live => worker'[v] \in Live
    BY <1>0, <1>4 DEF Drain, Live
  <2>2. \A v \in Workers : \A u \in Slots : task'[v][u].pc # "idle" => task[v][u].pc # "idle"
    BY <1>0, <1>4 DEF Drain, SetTask, NoTask
  <2> QED  BY <1>4, <2>1, <2>2 DEF Drain, Exclusive
<1>5. ASSUME NEW w \in Workers, Drained(w) \/ LockLost(w) PROVE Exclusive'
  BY <1>5, ExitExclusive DEF Drained, LockLost
<1>6. ASSUME NEW w \in Workers, Crash(w) PROVE Exclusive'
  <2>1. \A v \in Workers : worker'[v] \in Live => v # w /\ worker[v] \in Live
    BY <1>0, <1>6 DEF Crash, Live
  <2>2. \A v \in Workers : \A u \in Slots :
          task'[v][u].pc # "idle" => v # w /\ task[v][u].pc # "idle"
    BY <1>0, <1>6 DEF Crash, NoTask
  <2>3. \A v \in Workers : v # w => worker'[v] = worker[v]
    BY <1>0, <1>6 DEF Crash
  <2> QED  BY <1>6, <2>1, <2>2, <2>3 DEF Crash, Exclusive
<1>7. ASSUME NEW w \in Workers, Restart(w) PROVE Exclusive'
  BY <1>0, <1>7 DEF Restart, Exclusive, Live
<1>8. ASSUME NEW w \in Workers, NEW s \in Slots, Reserve(w, s) PROVE Exclusive'
  BY <1>8, TaskExclusive DEF Reserve, Live
<1>9. ASSUME NEW w \in Workers, NEW s \in Slots,
             \/ Claim(w, s) \/ Begin(w, s) \/ GraphReturns(w, s) \/ Renew(w, s)
             \/ FencedOut(w, s) \/ Finish(w, s) \/ TaskDeliver(w, s) \/ JobRaises(w, s) \/ Ack(w, s)
      PROVE  Exclusive'
  <2>1. worker[w] \in Live
    BY <1>9 DEF Claim, Begin, GraphReturns, Renew, FencedOut, Finish, TaskDeliver, JobRaises, Ack, Exclusive
  <2>2. CASE Exit(w)
    BY <2>2, ExitExclusive
  <2>3. CASE UNCHANGED <<worker, lock>> /\ \E x : SetTask(w, s, x)
    BY <2>1, <2>3, TaskExclusive
  <2>4. CASE Claim(w, s) \/ Begin(w, s) \/ GraphReturns(w, s) \/ Finish(w, s)
    BY <2>3, <2>4 DEF Claim, Begin, GraphReturns, Finish
  <2>5. CASE FencedOut(w, s) \/ TaskDeliver(w, s) \/ JobRaises(w, s) \/ Ack(w, s)
    BY <2>2, <2>3, <2>5 DEF FencedOut, TaskDeliver, JobRaises, Ack
  <2>6. CASE Renew(w, s)
    BY <1>1, <2>6 DEF Renew
  <2> QED  BY <1>9, <2>4, <2>5, <2>6
<1>10. RequestStep => UNCHANGED procs
  BY DEF RequestStep, Prepare, Resume, LateStep, AwaitClaim, AwaitResume, ClaimLate, ResumeLate,
         Cancel, Delete, EnsureDispatch, Submit, SubmitFails,
         Compensate, ReqDeliver, DropStream, BulkRead, BulkWrite, BulkErase, ReqStops
<1>11. CASE LockExpires
  <2>1. worker[lock] = "gone" /\ lock' = NoOwner /\ UNCHANGED <<worker, task>>
    BY <1>0, <1>11 DEF LockExpires
  <2>2. \A v \in Workers : worker[v] \notin Live
    BY <2>1 DEF Exclusive, Live
  <2> QED  BY <2>1, <2>2 DEF Exclusive
<1>12. ServiceStep => LockExpires \/ UNCHANGED procs
  BY DEF ServiceStep, LeaseLapses, ReconcileDelivery, ScanRead, CleanupMarkers, ScanSubmit, procs
<1> QED
  BY <1>1, <1>2, <1>3, <1>4, <1>5, <1>6, <1>7, <1>8, <1>9, <1>10, <1>11, <1>12
     DEF Next, WorkerStep, vars, procs

\* An execution is one that went on, or one that a worker has just claimed.
LEMMA NewExecutions ==
  ASSUME IInv, [Next]_vars, NEW w \in Workers, NEW s \in Slots,
         task'[w][s].pc \in {"start", "graph"}
  PROVE  \/ task[w][s].pc \in {"start", "graph"} /\ task'[w][s].job = task[w][s].job
         \/ /\ task[w][s].pc = "reserved" /\ task'[w][s].job = task[w][s].job
            /\ Claimable(row[task[w][s].job.run], task[w][s].job.gen, w, TRUE)
            /\ row'[task[w][s].job.run] = Claimed(row[task[w][s].job.run], w)
            /\ \A v \in Workers : \A u \in Slots : v # w \/ u # s => task'[v][u] = task[v][u]
<1> DEFINE Continues == task[w][s].pc \in {"start", "graph"} /\ task'[w][s].job = task[w][s].job
           Begun == /\ task[w][s].pc = "reserved" /\ task'[w][s].job = task[w][s].job
                    /\ Claimable(row[task[w][s].job.run], task[w][s].job.gen, w, TRUE)
                    /\ row'[task[w][s].job.run] = Claimed(row[task[w][s].job.run], w)
                    /\ \A v \in Workers : \A u \in Slots : v # w \/ u # s => task'[v][u] = task[v][u]
<1>0. task \in [Workers -> [Slots -> Tasks]]
  BY DEF IInv, TypeOK
<1>1. ASSUME UNCHANGED task PROVE Continues
  BY <1>1
<1>2. ASSUME NEW v \in Workers, task' = [task EXCEPT ![v] = [u \in Slots |-> NoTask]]
      PROVE  Continues
  BY <1>0, <1>2 DEF NoTask
<1>3. ASSUME NEW v \in Workers, NEW u \in Slots, NEW x, SetTask(v, u, x),
             x.pc \notin {"start", "graph"}
      PROVE  Continues
  BY <1>0, <1>3 DEF SetTask
<1>4. ASSUME NEW v \in Workers, NEW u \in Slots, Claim(v, u) PROVE Continues \/ Begun
  <2> DEFINE j == task[v][u].job
  <2>1. j.run \in Runs
    BY <1>0, <1>4, TaskFields DEF Claim, Jobs
  <2>2. CASE /\ Claimable(row[j.run], j.gen, v, TRUE)
             /\ SetRow(j.run, Claimed(row[j.run], v))
             /\ SetTask(v, u, [pc |-> "start", job |-> j])
    <3>1. /\ row'[j.run] = Claimed(row[j.run], v)
          /\ task'[v][u].job = j
          /\ \A y \in Workers : \A z \in Slots : y # v \/ z # u => task'[y][z] = task[y][z]
      BY <1>0, <2>1, <2>2, SetRowHolds DEF SetTask
    <3>2. CASE v = w /\ u = s
      <4>1. task[w][s].pc = "reserved"
        BY <1>4, <3>2 DEF Claim
      <4> QED  BY <2>2, <3>1, <3>2, <4>1
    <3>3. CASE ~(v = w /\ u = s)
      BY <3>1, <3>3
    <3> QED  BY <3>2, <3>3
  <2>3. CASE SetTask(v, u, [pc |-> "deliver", job |-> j]) \/ SetTask(v, u, [pc |-> "ack", job |-> j])
    BY <1>3, <2>3
  <2> QED  BY <1>4, <2>2, <2>3 DEF Claim
<1>5. ASSUME NEW v \in Workers, NEW u \in Slots, Begin(v, u) PROVE Continues
  BY <1>0, <1>5 DEF Begin, SetTask
<1>6. ASSUME NEW v \in Workers, NEW u \in Slots,
             \/ Reserve(v, u) \/ GraphReturns(v, u) \/ Renew(v, u) \/ FencedOut(v, u)
             \/ Finish(v, u) \/ TaskDeliver(v, u) \/ JobRaises(v, u) \/ Ack(v, u)
      PROVE  Continues
  <2> HIDE DEF Continues, Begun
  <2>1. CASE Exit(v)
    BY <1>2, <2>1 DEF Exit
  <2>2. CASE \E x : SetTask(v, u, x) /\ x.pc \notin {"start", "graph"}
    BY <1>3, <2>2
  <2>3. CASE Reserve(v, u) \/ GraphReturns(v, u) \/ Finish(v, u)
    <3>1. \A i : [pc |-> "reserved", job |-> i].pc = "reserved"
      OBVIOUS
    <3>2. \A i, o : [pc |-> "finish", job |-> i, outcome |-> o].pc = "finish"
      OBVIOUS
    <3>3. \A i : [pc |-> "deliver", job |-> i].pc = "deliver" /\ [pc |-> "ack", job |-> i].pc = "ack"
      OBVIOUS
    <3>4. Reserve(v, u) => \E x : SetTask(v, u, x) /\ x.pc \notin {"start", "graph"}
      BY <3>1 DEF Reserve
    <3> QED  BY <2>2, <2>3, <3>1, <3>2, <3>3, <3>4 DEF GraphReturns, Finish
  <2>4. CASE FencedOut(v, u) \/ TaskDeliver(v, u) \/ JobRaises(v, u) \/ Ack(v, u)
    BY <2>1, <2>2, <2>4 DEF FencedOut, TaskDeliver, JobRaises, Ack, NoTask
  <2>5. CASE Renew(v, u)
    BY <1>1, <2>5 DEF Renew, procs
  <2> QED  BY <1>6, <2>3, <2>4, <2>5
<1>7. ASSUME NEW v \in Workers,
             Start(v) \/ Requeue(v) \/ Drain(v) \/ Drained(v) \/ LockLost(v) \/ Crash(v) \/ Restart(v)
      PROVE  Continues
  <2>1. CASE Drain(v)
    BY <1>1, <1>3, <2>1 DEF Drain, NoTask
  <2> QED  BY <1>1, <1>2, <1>7, <2>1 DEF Start, Requeue, Drained, LockLost, Crash, Restart, Exit
<1>8. RequestStep => UNCHANGED task
  BY DEF RequestStep, Prepare, Resume, LateStep, AwaitClaim, AwaitResume, ClaimLate, ResumeLate,
         Cancel, Delete, EnsureDispatch, Submit, SubmitFails,
         Compensate, ReqDeliver, DropStream, BulkRead, BulkWrite, BulkErase, ReqStops, procs
<1>9. ServiceStep => UNCHANGED task
  BY DEF ServiceStep, LockExpires, LeaseLapses, ReconcileDelivery, ScanRead, CleanupMarkers,
         ScanSubmit, procs
<1>10. WorkerStep => Continues \/ Begun
  BY <1>4, <1>5, <1>6, <1>7 DEF WorkerStep
<1> QED  BY <1>1, <1>8, <1>9, <1>10 DEF Next, vars

\* What an execution relies on stays, unless another worker claims its run.
LEMMA StaysOwned ==
  ASSUME IInv, NEW r \in Runs, NEW g \in Gens, NEW w \in Workers, RunStep(r), StillOwned(r, g, w),
         \A v \in Workers : IsClaimed(r, v) => v = w
  PROVE  \/ row'[r].status = "deleted"
         \/ row'[r].gen > g
         \/ /\ row'[r].gen = g
            /\ row'[r].status \in {"pending", "running"} => OwnsExecution(row'[r], g, w)
<1>1. row[r].gen \in Nat /\ g \in Nat /\ NoOwner # w
  BY MaxGenAssumption, OwnersAssumption, OwnersAreWorkers DEF IInv, RowsOK, Row, Gens
<1>2. CASE Holds(r)
  BY <1>2 DEF Holds, StillOwned, OwnsExecution
<1>3. CASE Begins(r)
  BY <1>1, <1>3, StepFields DEF StillOwned, Begins
<1>4. CASE IsDecided(r) \/ Settles(r)
  BY <1>1, <1>4, StepFields DEF StillOwned, Terminal, IsDecided, Settles
<1>5. CASE IsErased(r)
  BY <1>5, StepFields
<1>6. CASE BulkCancel /\ IsOverwritten(r)
  BY <1>1, <1>6, StepFields DEF StillOwned, IsOverwritten, Exists
<1>7. ASSUME NEW v \in Workers, IsClaimed(r, v)
      PROVE  row'[r].gen = row[r].gen /\ row[r].gen # g
  BY <1>1, <1>7, StepFields DEF StillOwned, IsClaimed, Claimable, OwnsExecution
<1>8. CASE \E v \in Workers : IsClaimed(r, v)
  BY <1>1, <1>7, <1>8, StepFields DEF StillOwned
<1> QED  BY <1>2, <1>3, <1>4, <1>5, <1>6, <1>8 DEF RunStep

LEMMA NextOwned ==
  ASSUME IInv, Exclusive, Owned, StreamStep, [Next]_vars
  PROVE  Owned'
<1> SUFFICES ASSUME NEW w \in Workers, NEW s \in Slots, task'[w][s].pc \in {"start", "graph"},
                    NEW j, j = task'[w][s].job
             PROVE  \/ row'[j.run].status = "deleted"
                    \/ row'[j.run].gen > j.gen
                    \/ /\ row'[j.run].gen = j.gen
                       /\ row'[j.run].status \in {"pending", "running"} =>
                            OwnsExecution(row'[j.run], j.gen, w)
  BY DEF Owned, StillOwned, OwnsExecution
<1>1. CASE task[w][s].pc \in {"start", "graph"} /\ task[w][s].job = j
  <2>1. j.run \in Runs /\ j.gen \in Gens
    BY <1>1, TaskFields DEF IInv, TypeOK, Jobs
  <2>2. StillOwned(j.run, j.gen, w) /\ RunStep(j.run)
    BY <1>1, <2>1, StreamStepOfRun DEF Owned
  <2>3. ASSUME NEW v \in Workers, IsClaimed(j.run, v) PROVE v = w
    <3>1. lock = v /\ lock = w
      BY <1>1, <2>3 DEF IsClaimed, Exclusive
    <3> QED  BY <3>1
  <2> QED  BY <2>1, <2>2, <2>3, StaysOwned
<1>2. CASE /\ task[w][s].pc = "reserved" /\ task[w][s].job = j
           /\ Claimable(row[j.run], j.gen, w, TRUE)
           /\ row'[j.run] = Claimed(row[j.run], w)
  <2>1. row[j.run] \in Row
    BY <1>2, TaskFields DEF IInv, TypeOK, Jobs, RowsOK
  <2>2. OwnsExecution(row'[j.run], j.gen, w) /\ row'[j.run].gen = j.gen
    BY <1>2, <2>1 DEF OwnsExecution, Claimed, Claimable, Row
  <2> QED  BY <2>2
<1> QED  BY <1>1, <1>2, NewExecutions

\* While live workers keep the lock, at most one execution of a run may write, for any number
\* of workers, slots, tokens and reconcilers.
FenceInv == StreamInv /\ Exclusive /\ Owned /\ OneFencedExecution

LEMMA FenceInit == Init => Exclusive /\ Owned /\ OneFencedExecution
BY DEF Init, Exclusive, Owned, OneFencedExecution, NoTask, Live

LEMMA NextFenced ==
  ASSUME FenceInv, Exclusive', [Next]_vars
  PROVE  OneFencedExecution'
<1> SUFFICES ASSUME NEW w \in Workers, NEW v \in Workers, NEW s \in Slots, NEW u \in Slots,
                    NEW r, NEW g,
                    task'[w][s].pc \in {"start", "graph"}, task'[v][u].pc \in {"start", "graph"},
                    task'[w][s].job.run = r, task'[v][u].job.run = r,
                    task'[w][s].job.gen = g,
                    OwnsExecution(row'[r], g, w), OwnsExecution(row'[r], task'[v][u].job.gen, v)
             PROVE  w = v /\ s = u
  BY DEF OneFencedExecution, OwnsExecution
<1>1. w = v
  BY DEF Exclusive
<1>2. IInv /\ Owned /\ StreamStep
  BY NextSteps DEF FenceInv, StreamInv
<1>3. task'[w][u].pc \in {"start", "graph"} /\ task'[w][u].job.run = r /\ task'[w][u].job.gen = g
  BY <1>1 DEF OwnsExecution
<1> DEFINE Goes(x) == task[w][x].pc \in {"start", "graph"} /\ task'[w][x].job = task[w][x].job
           Comes(x) == /\ task[w][x].pc = "reserved"
                       /\ task'[w][x].job = task[w][x].job
                       /\ Claimable(row[task[w][x].job.run], task[w][x].job.gen, w, TRUE)
                       /\ \A y \in Slots : y # x => task'[w][y] = task[w][y]
<1>4. ASSUME NEW x \in Slots, task'[w][x].pc \in {"start", "graph"} PROVE Goes(x) \/ Comes(x)
  <2>1. CASE Goes(x)
    BY <2>1
  <2>2. CASE /\ task[w][x].pc = "reserved"
             /\ task'[w][x].job = task[w][x].job
             /\ Claimable(row[task[w][x].job.run], task[w][x].job.gen, w, TRUE)
             /\ \A y \in Workers : \A z \in Slots : y # w \/ z # x => task'[y][z] = task[y][z]
    BY <2>2
  <2> QED  BY <1>2, <1>4, <2>1, <2>2, NewExecutions
\* An execution that went on excludes the claim of another.
<1>5. ASSUME NEW x \in Slots, NEW y \in Slots, x # y, Comes(x),
             task'[w][x].job.run = r, task'[w][x].job.gen = g,
             task'[w][y].job.run = r, task'[w][y].job.gen = g, task'[w][y].pc \in {"start", "graph"}
      PROVE  FALSE
  <2>1. /\ task[w][y].pc \in {"start", "graph"} /\ task[w][y].job.run = r /\ task[w][y].job.gen = g
        /\ Claimable(row[r], g, w, TRUE)
    BY <1>5
  <2>2. StillOwned(r, g, w)
    BY <1>2, <2>1 DEF Owned
  <2>3. r \in Runs /\ g \in Gens
    BY <1>2, <2>1, TaskFields DEF IInv, TypeOK, Jobs
  <2>4. row[r].gen = g /\ row[r].status \in {"pending", "running"} /\ row[r].owner # w
    BY <2>1, OwnersAssumption, OwnersAreWorkers DEF Claimable
  <2>5. row[r].gen \in Nat
    BY <1>2, <2>3, MaxGenAssumption DEF IInv, RowsOK, Row
  <2>6. ~(row[r].gen > g)
    BY <2>4, <2>5
  <2> QED  BY <2>2, <2>4, <2>6 DEF StillOwned, OwnsExecution
\* Of two executions that went on, both owned the run before.
<1>6. CASE Goes(s) /\ Goes(u)
  <2>1. /\ task[w][s].pc \in {"start", "graph"} /\ task[w][s].job.run = r /\ task[w][s].job.gen = g
        /\ task[w][u].pc \in {"start", "graph"} /\ task[w][u].job.run = r /\ task[w][u].job.gen = g
    BY <1>3, <1>6
  <2>2. r \in Runs /\ g \in Gens
    BY <1>2, <2>1, TaskFields DEF IInv, TypeOK, Jobs
  <2>3. StillOwned(r, g, w) /\ RunStep(r)
    BY <1>2, <2>1, <2>2, StreamStepOfRun DEF Owned
  <2>4. row'[r].status = "running" /\ row'[r].gen = g
    BY DEF OwnsExecution
  <2>5. row[r].gen \in Nat /\ g \in Nat
    BY <1>2, <2>2, MaxGenAssumption DEF IInv, RowsOK, Row, Gens
  <2>6. row[r].gen = g /\ row[r].status \in {"pending", "running"}
    <3>1. row'[r].gen = row[r].gen /\ row[r].status \in {"pending", "running"}
      BY <1>2, <2>2, <2>3, <2>4, StepFields DEF RunStep, Holds, Terminal
    <3> QED  BY <2>4, <3>1
  <2>7. OwnsExecution(row[r], g, w)
    BY <2>3, <2>5, <2>6 DEF StillOwned
  <2>8. OneFencedExecution
    BY DEF FenceInv
  <2> QED  BY <1>1, <2>1, <2>7, <2>8 DEF OneFencedExecution
<1>7. CASE Comes(s)
  BY <1>1, <1>3, <1>5, <1>7
<1>8. CASE Comes(u)
  BY <1>1, <1>3, <1>5, <1>8
<1> QED  BY <1>3, <1>4, <1>6, <1>7, <1>8

LEMMA FenceAlways == MaxLosses = 0 => (Spec => []FenceInv)
<1> SUFFICES ASSUME MaxLosses = 0 PROVE Spec => []FenceInv
  OBVIOUS
<1>1. Init => Exclusive /\ Owned /\ OneFencedExecution
  BY FenceInit
<1>2. StreamInv /\ Exclusive /\ Owned /\ OneFencedExecution /\ [Next]_vars
      => Exclusive' /\ Owned' /\ OneFencedExecution'
  BY NextSteps, NextExclusive, NextOwned, NextFenced DEF StreamInv, FenceInv
<1> QED  BY <1>1, <1>2, StreamsAlways, PTL DEF Spec, FenceInv

\* While no live worker loses its lock, at most one execution of a run passes the fence of its
\* writes (fence_execution_writes), for any number of workers, slots, tokens and reconcilers.
THEOREM OneWriter == MaxLosses = 0 => (Spec => []OneFencedExecution)
BY FenceAlways, PTL DEF FenceInv

\* With such workers and without bulk cancellations, whatever tokens of a run meet, one execution
\* writes for it, and its stream has the shape and the outcome of one (claim_execution,
\* fence_execution_writes, TerminalDeliveryService).
THEOREM RunsExecuteOnce == MaxLosses = 0 /\ ~BulkCancel => (Spec => []ExecutesOnce)
BY RunLogsInOrder, OneWriter, OutcomesAnnounced, PTL DEF ExecutesOnce
-----------------------------------------------------------------------------
(* The contract: what clients see of a step.                               *)

\* A run as the contract shows it.
View(r) ==
  /\ row[r].status \in {"absent", "deleted"} =>
       PhaseOf(r) = row[r].status /\ OutcomeOf(r) = "none"
  /\ row[r].status \in {"pending", "running"} =>
       PhaseOf(r) = "open" /\ OutcomeOf(r) = "none"
  /\ row[r].status = "terminal_pending" =>
       PhaseOf(r) = "decided" /\ OutcomeOf(r) = row[r].result
  /\ row[r].status \in Terminal =>
       PhaseOf(r) = "settled" /\ OutcomeOf(r) = row[r].status

LEMMA Views == \A r \in Runs : View(r) /\ View(r)'
BY DEF View, PhaseOf, OutcomeOf, Terminal

\* What readers were told is what the end records of the stream say.
Ends(log) ==
  {<<log[i].gen, log[i].status>> : i \in {i \in 1 .. Len(log) : log[i].kind = "end"}}

LEMMA ToldByEnds == \A r \in Runs : ToldOf(r) = Ends(runLog[r]) /\ ToldOf(r)' = Ends(runLog'[r])
BY DEF ToldOf, Ends

LEMMA EndsIn ==
  ASSUME NEW log \in Seq(RunRecord)
  PROVE  \A p : p \in Ends(log) <=>
           \E e \in RunRecord : In(e, log) /\ e.kind = "end" /\ p = <<e.gen, e.status>>
<1>1. \A i \in 1 .. Len(log) : log[i] \in RunRecord
  OBVIOUS
<1> QED  BY <1>1 DEF Ends, In

LEMMA EndsAppend ==
  ASSUME NEW log \in Seq(RunRecord), NEW e \in RunRecord
  PROVE  Ends(Append(log, e)) =
           IF e.kind = "end" THEN Ends(log) \cup {<<e.gen, e.status>>} ELSE Ends(log)
<1>1. /\ Append(log, e) \in Seq(RunRecord)
      /\ \A f : In(f, Append(log, e)) <=> In(f, log) \/ f = e
  BY AppendIn
<1>2. ASSUME NEW p
      PROVE  p \in Ends(Append(log, e)) <=> p \in Ends(log) \/ (e.kind = "end" /\ p = <<e.gen, e.status>>)
  <2>1. p \in Ends(log) <=>
          \E f \in RunRecord : In(f, log) /\ f.kind = "end" /\ p = <<f.gen, f.status>>
    BY EndsIn
  <2>2. p \in Ends(Append(log, e)) <=>
          \E f \in RunRecord : In(f, Append(log, e)) /\ f.kind = "end" /\ p = <<f.gen, f.status>>
    BY <1>1, EndsIn
  <2> QED  BY <1>1, <2>1, <2>2
<1> QED  BY <1>2

\* Its appearance is the same after the step.
Looks(r) ==
  /\ PhaseOf(r)' = PhaseOf(r)
  /\ row'[r].gen = row[r].gen
  /\ OutcomeOf(r)' = OutcomeOf(r)

LEMMA HoldsLooks ==
  ASSUME IInv, NEW r \in Runs, Holds(r)
  PROVE  Looks(r)
<1>1. row[r].status \in {"absent", "deleted"} \cup Active \cup Terminal
  BY DEF IInv, RowsOK, Row
<1> QED  BY <1>1, Views DEF Holds, Looks, View, Active, Terminal

LEMMA ClaimLooks ==
  ASSUME IInv, NEW r \in Runs, NEW w, IsClaimed(r, w)
  PROVE  Looks(r)
BY StepFields, Views DEF Looks, View

LEMMA Stutters ==
  ASSUME \A r \in Runs : Looks(r), \A r \in Runs : ToldOf(r)' = ToldOf(r)
  PROVE  UNCHANGED Contract!vars
BY DEF Looks, Contract!vars

\* One run changes its phase, its generation or its outcome.
LEMMA OneRunMoves ==
  ASSUME NEW r \in Runs, NEW p, NEW g, NEW o,
         \A x \in Runs : x # r => Looks(x),
         \A x \in Runs : ToldOf(x)' = ToldOf(x),
         PhaseOf(r)' = p, row'[r].gen = g, OutcomeOf(r)' = o
  PROVE  /\ [x \in Runs |-> PhaseOf(x)]' = [[x \in Runs |-> PhaseOf(x)] EXCEPT ![r] = p]
         /\ [x \in Runs |-> row[x].gen]' = [[x \in Runs |-> row[x].gen] EXCEPT ![r] = g]
         /\ [x \in Runs |-> OutcomeOf(x)]' = [[x \in Runs |-> OutcomeOf(x)] EXCEPT ![r] = o]
         /\ [x \in Runs |-> ToldOf(x)]' = [x \in Runs |-> ToldOf(x)]
<1>1. [x \in Runs |-> PhaseOf(x)]' = [[x \in Runs |-> PhaseOf(x)] EXCEPT ![r] = p]
  BY DEF Looks
<1>2. [x \in Runs |-> row[x].gen]' = [[x \in Runs |-> row[x].gen] EXCEPT ![r] = g]
  BY DEF Looks
<1>3. [x \in Runs |-> OutcomeOf(x)]' = [[x \in Runs |-> OutcomeOf(x)] EXCEPT ![r] = o]
  BY DEF Looks
<1>4. [x \in Runs |-> ToldOf(x)]' = [x \in Runs |-> ToldOf(x)]
  OBVIOUS
<1> QED  BY <1>1, <1>2, <1>3, <1>4

LEMMA BeginOpens ==
  ASSUME IInv, Erased, ~SnapshotClaims, NEW r \in Runs, Begins(r), OthersHold(r), UNCHANGED runLog
  PROVE  Contract!Open(r)
<1>1. \A x \in Runs : ToldOf(x)' = ToldOf(x)
  BY DEF ToldOf
<1>2. \A x \in Runs : x # r => Looks(x)
  BY HoldsLooks DEF OthersHold
<1>3. PhaseOf(r)' = "open" /\ OutcomeOf(r)' = "none" /\ row'[r].gen = row[r].gen + 1
  BY StepFields, Views DEF View
<1>4. row[r].gen < MaxGen
  BY DEF Begins
<1>5. \/ PhaseOf(r) = "absent"
      \/ PhaseOf(r) = "settled" /\ OutcomeOf(r) = "interrupted"
  BY Views DEF Begins, View, Terminal
<1>6. \A x \in Runs : ThreadOf[x] = ThreadOf[r] => PhaseOf(x) \notin {"open", "decided"}
  <2> SUFFICES ASSUME NEW x \in Runs, ThreadOf[x] = ThreadOf[r]
               PROVE  PhaseOf(x) \notin {"open", "decided"}
    OBVIOUS
  <2>1. row[x].status \in {"absent", "deleted"} \cup Terminal
    BY DEF Begins, ThreadFree, IInv, RowsOK, Row, Active
  <2> QED  BY <2>1, Views DEF View, Terminal
<1> QED  BY <1>1, <1>2, <1>3, <1>4, <1>5, <1>6, OneRunMoves DEF Contract!Open, Contract!ThreadFree

LEMMA DecisionDecides ==
  ASSUME IInv, NEW r \in Runs, IsDecided(r), OthersHold(r), UNCHANGED runLog
  PROVE  Contract!Decide(r)
<1>1. \A x \in Runs : ToldOf(x)' = ToldOf(x)
  BY DEF ToldOf
<1>2. \A x \in Runs : x # r => Looks(x)
  BY HoldsLooks DEF OthersHold
<1>3. PhaseOf(r) = "open"
  BY Views DEF IsDecided, View
<1>4. /\ PhaseOf(r)' = "decided" /\ row'[r].gen = row[r].gen
      /\ OutcomeOf(r)' = row'[r].result /\ row'[r].result \in Terminal
  BY StepFields, Views DEF View
<1> QED
  BY <1>1, <1>2, <1>3, <1>4, OneRunMoves DEF Contract!Decide, Contract!Outcomes, Terminal

LEMMA ErasureDeletes ==
  ASSUME IInv, NEW r \in Runs, IsErased(r), OthersHold(r), UNCHANGED runLog
  PROVE  Contract!Delete(r)
<1>1. \A x \in Runs : ToldOf(x)' = ToldOf(x)
  BY DEF ToldOf
<1>2. \A x \in Runs : x # r => Looks(x)
  BY HoldsLooks DEF OthersHold
<1>3. PhaseOf(r) \notin {"absent", "deleted"}
  <2>1. row[r].status \in Active \cup Terminal
    BY DEF IsErased, Exists, IInv, RowsOK, Row
  <2> QED  BY <2>1, Views DEF View, Active, Terminal
<1>4. PhaseOf(r)' = "deleted" /\ row'[r].gen = 0 /\ OutcomeOf(r)' = "none"
  BY StepFields, Views DEF View
<1> QED  BY <1>1, <1>2, <1>3, <1>4, OneRunMoves DEF Contract!Delete

LEMMA AnnouncementTells ==
  ASSUME IInv, NEW r \in Runs, OutcomeTold(r), Announces(r)
  PROVE  Contract!Announce(r)
<1>1. PhaseOf(r) = "decided" /\ OutcomeOf(r) = row[r].result /\ row[r].status = "terminal_pending"
  BY Views DEF Announces, View
<1>2. \A x \in Runs : x # r => Looks(x)
  BY HoldsLooks DEF Announces, OthersHold
<1>3. /\ row'[r].gen = row[r].gen /\ OutcomeOf(r)' = row[r].result
      /\ PhaseOf(r)' \in {"decided", "settled"}
  <2>1. CASE Holds(r)
    BY <1>1, <2>1, HoldsLooks DEF Looks
  <2>2. CASE row'[r] = Applied(row[r], row[r].result)
    BY <1>1, <2>2, StepFields, Views DEF Settles, View
  <2> QED  BY <2>1, <2>2 DEF Announces
<1> DEFINE e == EndRecord(r, row[r].result)
<1>4. /\ e \in RunRecord
      /\ \/ <<"run", r, row[r].gen>> \in marks /\ runLog' = runLog
         \/ runLog' = [runLog EXCEPT ![r] = Append(@, e)]
  BY <1>1, EndAppended DEF Announces
<1>5. runLog \in [Runs -> Seq(RunRecord)] /\ runLog[r] \in Seq(RunRecord)
  BY DEF IInv, TypeOK
<1>6. e.kind = "end" /\ <<e.gen, e.status>> = <<row[r].gen, row[r].result>>
  BY DEF EndRecord
<1> HIDE DEF e
<1>7. \A x \in Runs : x # r => ToldOf(x)' = ToldOf(x)
  BY <1>4, <1>5, ToldByEnds
<1>8. ToldOf(r)' = ToldOf(r) \cup {<<row[r].gen, row[r].result>>}
  <2>1. CASE <<"run", r, row[r].gen>> \in marks /\ runLog' = runLog
    <3>1. In(e, runLog[r])
      BY <1>1, <2>1 DEF OutcomeTold, e
    <3>2. <<row[r].gen, row[r].result>> \in Ends(runLog[r])
      BY <1>4, <1>5, <1>6, <3>1, EndsIn
    <3> QED  BY <2>1, <3>2, ToldByEnds
  <2>2. CASE runLog' = [runLog EXCEPT ![r] = Append(@, e)]
    <3>1. runLog'[r] = Append(runLog[r], e)
      BY <1>5, <2>2
    <3> QED  BY <1>4, <1>5, <1>6, <3>1, EndsAppend, ToldByEnds
  <2> QED  BY <1>4, <2>1, <2>2
<1>9. [x \in Runs |-> ToldOf(x)]' =
        [[x \in Runs |-> ToldOf(x)] EXCEPT ![r] = ToldOf(r) \cup {<<row[r].gen, row[r].result>>}]
  BY <1>7, <1>8
<1>10. /\ [x \in Runs |-> row[x].gen]' = [x \in Runs |-> row[x].gen]
       /\ [x \in Runs |-> OutcomeOf(x)]' = [x \in Runs |-> OutcomeOf(x)]
  BY <1>1, <1>2, <1>3 DEF Looks
<1>11. \/ [x \in Runs |-> PhaseOf(x)]' = [x \in Runs |-> PhaseOf(x)]
       \/ [x \in Runs |-> PhaseOf(x)]' = [[x \in Runs |-> PhaseOf(x)] EXCEPT ![r] = "settled"]
  BY <1>1, <1>2, <1>3 DEF Looks
<1> QED  BY <1>1, <1>9, <1>10, <1>11 DEF Contract!Announce

LEMMA DropForgets ==
  ASSUME IInv, NEW r \in Runs, Drops(r)
  PROVE  Contract!Forget(r)
<1>1. \A x \in Runs : Looks(x)
  BY HoldsLooks DEF Drops
<1>2. PhaseOf(r) = "deleted"
  BY Views DEF Drops, View
<1>3. runLog'[r] = <<>> /\ \A x \in Runs : x # r => runLog'[x] = runLog[x]
  BY DEF Drops, IInv, TypeOK
<1>4. Ends(<<>>) = {}
  BY DEF Ends
<1>5. ToldOf(r)' = {} /\ \A x \in Runs : x # r => ToldOf(x)' = ToldOf(x)
  BY <1>3, <1>4, ToldByEnds
<1>6. [x \in Runs |-> ToldOf(x)]' = [[x \in Runs |-> ToldOf(x)] EXCEPT ![r] = {}]
  BY <1>5
<1> QED  BY <1>1, <1>2, <1>6 DEF Contract!Forget, Looks

LEMMA StartTellsNothing ==
  ASSUME IInv, NEW r \in Runs, Starts(r)
  PROVE  UNCHANGED Contract!vars
<1> DEFINE e == [kind |-> "start", gen |-> row[r].gen, status |-> "none"]
<1>1. e \in RunRecord /\ e.kind # "end"
  BY DEF RunRecord, Starts, IInv, RowsOK, RowSound, Exists
<1>2. runLog \in [Runs -> Seq(RunRecord)] /\ runLog' = [runLog EXCEPT ![r] = Append(@, e)]
  BY DEF IInv, TypeOK, Starts
<1> HIDE DEF e
<1>3. \A x \in Runs : ToldOf(x)' = ToldOf(x)
  BY <1>1, <1>2, EndsAppend, ToldByEnds
<1>4. \A x \in Runs : Looks(x)
  BY HoldsLooks DEF Starts
<1> QED  BY <1>3, <1>4, Stutters

LEMMA StepKeepsContract ==
  ASSUME IInv, Erased, OutcomesTold, ~BulkCancel, ~SnapshotClaims, StreamStep
  PROVE  Contract!Next \/ UNCHANGED Contract!vars
<1>1. ASSUME UNCHANGED runLog, \A x \in Runs : Holds(x) PROVE UNCHANGED Contract!vars
  <2>1. \A x \in Runs : ToldOf(x)' = ToldOf(x)
    BY <1>1, ToldByEnds
  <2> QED  BY <1>1, <2>1, HoldsLooks, Stutters
<1>2. ASSUME NEW r \in Runs, NEW w \in Workers, UNCHANGED runLog, OthersHold(r), IsClaimed(r, w)
      PROVE  UNCHANGED Contract!vars
  <2>1. \A x \in Runs : ToldOf(x)' = ToldOf(x)
    BY <1>2, ToldByEnds
  <2>2. \A x \in Runs : Looks(x)
    BY <1>2, ClaimLooks, HoldsLooks DEF OthersHold
  <2> QED  BY <2>1, <2>2, Stutters
<1>3. CASE RowStep
  <2>1. ASSUME NEW r \in Runs, OthersHold(r), UNCHANGED runLog,
               Begins(r) \/ IsDecided(r) \/ IsErased(r)
        PROVE  Contract!Next
    BY <2>1, BeginOpens, DecisionDecides, ErasureDeletes DEF Contract!Next
  <2> QED  BY <1>1, <1>2, <1>3, <2>1 DEF RowStep, redis
<1>4. ASSUME NEW r \in Runs, Announces(r) PROVE Contract!Next
  <2>1. OutcomeTold(r)
    BY <1>4 DEF OutcomesTold, Announces
  <2> QED  BY <1>4, <2>1, AnnouncementTells DEF Contract!Next
<1>5. ASSUME NEW r \in Runs, Drops(r) PROVE Contract!Next
  BY <1>5, DropForgets DEF Contract!Next
<1>6. ASSUME NEW r \in Runs, NEW g \in Gens, Frees(r, g) PROVE UNCHANGED Contract!vars
  BY <1>1, <1>6 DEF Frees
<1> QED  BY <1>3, <1>4, <1>5, <1>6, StartTellsNothing DEF StreamStep

LEMMA InitKeepsContract == Init => Contract!Init
<1> SUFFICES ASSUME Init PROVE Contract!Init
  OBVIOUS
<1>1. ASSUME NEW r \in Runs
      PROVE  PhaseOf(r) = "absent" /\ row[r].gen = 0 /\ OutcomeOf(r) = "none"
  BY Views DEF Init, NoRow, View
<1>2. ASSUME NEW r \in Runs PROVE ToldOf(r) = {}
  BY ToldByEnds DEF Init, Ends
<1> QED  BY <1>1, <1>2 DEF Contract!Init

\* Every behaviour of the Redis deployment is one that RunContract allows, for any number of
\* runs, threads, workers, requests and reconcilers and through any faults, where no bulk
\* cancellation writes to rows that it did not lock (cancel_runs) and no claim is decided on a
\* snapshot (_claim_thread_for_resume).
THEOREM DeploymentKeepsContract == ~BulkCancel /\ ~SnapshotClaims => (Spec => KeepsContract)
<1> SUFFICES ASSUME ~BulkCancel, ~SnapshotClaims PROVE Spec => KeepsContract
  OBVIOUS
<1>1. Init => Contract!Init
  BY InitKeepsContract
<1>2. ToldInv /\ [Next]_vars => [Contract!Next]_(Contract!vars)
  BY NextSteps, StepKeepsContract DEF ToldInv, StreamInv
<1> QED  BY <1>1, <1>2, ToldAlways, PTL DEF Spec, KeepsContract, Contract!Spec
=============================================================================
