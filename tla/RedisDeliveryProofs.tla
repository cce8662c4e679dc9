------------------------ MODULE RedisDeliveryProofs ------------------------
(***************************************************************************)
(* Theorems about RedisDelivery, for any number of events, dispatchers,    *)
(* executions and generations and every bound on failures.                 *)
(***************************************************************************)
EXTENDS RedisDelivery, TLAPS, WellFoundedInduction

-----------------------------------------------------------------------------
(* The invariant.                                                          *)

At(op, s, n)  == n \in DOMAIN log[s] /\ log[s][n].op = op
InLog(op, s)  == \E n \in DOMAIN log[s] : log[s][n].op = op
Undone(op)    == outbox[op].kind = "row" /\ outbox[op].records = NoRecords
Calling(op)   == disp[op].pc \notin {"idle", "over"}
InTx(d)       == disp[d].pc \in InTransaction

\* A generation and an outcome to deliver.
RowSound ==
  /\ Exists(row) => row.gen \in Gens
  /\ row.status = "terminal_pending" => row.result \in Terminal
  /\ row.status # "absent"
  /\ erased => row.status = "deleted"

\* What a dispatcher has in hand, and at most one transaction at a time.
HoldsItsOwn(d) ==
  /\ disp[d].pc \in Stages \cup {"register"} => disp[d].op \in Ops
  /\ d \in Ops => /\ disp[d].pc \notin {"next", "end"}
                  /\ disp[d].pc # "idle" => disp[d].op = d /\ disp[d].gen \in Gens
  /\ d \in Helpers => disp[d].pc \notin {"register", "over"}

OneTransaction == \A d, e \in Dispatchers : InTx(d) /\ InTx(e) => d = e

Shape == TypeOK /\ RowSound /\ OneTransaction /\ \A d \in Dispatchers : HoldsItsOwn(d)

\* A transaction in which something is appended: the run is as it was opened.
Opened(d) ==
  /\ disp[d].pc \in InTransaction => outbox[disp[d].op].kind = "row"
  /\ disp[d].pc \in Scopes => Undone(disp[d].op) /\ ~Discarded(outbox[disp[d].op].gen)

\* An operation before its call has left no trace.  As long as the call goes on,
\* or the envelope awaits its delivery, the marker tells what a stream has.
Published(op) == disp[op].pc # "idle"
Traceless(op) == outbox[op] = NoEnvelope /\ \A s \in Scopes : mark[op][s].seq = 0 /\ ~InLog(op, s)
MarkersTell(op) ==
  /\ ~Published(op) => Traceless(op)
  /\ Calling(op) \/ Undone(op) => \A s \in Scopes : InLog(op, s) => Appended(op, s)

\* A marker that says so, or a cursor, names the record of the operation.
Stands(op, s, n) == (erased /\ s = "run") \/ At(op, s, n)
MarkTrue(op)     == \A s \in Scopes : mark[op][s].done => Stands(op, s, mark[op][s].seq)
TruePair(op, recs) ==
  recs.kind = "pair" /\ Stands(op, "run", recs.run) /\ Stands(op, "thread", recs.thread)

\* Envelopes are of the generation that published, which once it is over stays so.
Known(op) ==
  /\ outbox[op].kind = "row" => outbox[op].gen = disp[op].gen
  /\ Published(op) => disp[op].gen <= row.gen \/ ~Exists(row)

\* What a transaction saves, and what is answered, was appended or is of no use.
Delivered(op, recs) == TruePair(op, recs) \/ (recs = Dropped /\ Discarded(disp[op].gen))
Decided(d) ==
  /\ disp[d].pc = "thread" => Stands(disp[d].op, "run", disp[d].recs.run)
  /\ disp[d].pc \in {"commit", "expire", "clean"} =>
       Published(disp[d].op) /\ Delivered(disp[d].op, disp[d].recs)
Recorded(op) == outbox[op].kind = "row" => Undone(op) \/ Delivered(op, outbox[op].records)
Answered(op) == answer[op].kind = "pair" => TruePair(op, answer[op])

\* What is cleaned up has no marker without a TTL.
Expiring(d) ==
  disp[d].pc = "clean" =>
    \A s \in Scopes : mark[disp[d].op][s].seq # 0 => mark[disp[d].op][s].ttl

IInv ==
  /\ Shape
  /\ \A d \in Dispatchers : Opened(d) /\ Decided(d) /\ Expiring(d)
  /\ \A op \in Ops : MarkersTell(op) /\ MarkTrue(op) /\ Known(op) /\ Recorded(op) /\ Answered(op)
  /\ OncePerStream /\ MarkersCleaned

-----------------------------------------------------------------------------
(* Types, rows and what dispatchers hold.                                  *)

LEMMA Sets ==
  /\ NoRecords \in Records /\ Dropped \in Records /\ NoMarker \in Marker
  /\ \A i, j \in Nat : Cursors(i, j) \in Records
  /\ \A g \in Gens : Envelope(g) \in [kind : {"row"}, gen : Gens, records : Records]
  /\ \A s : s \in Scopes <=> s = "run" \/ s = "thread"
  /\ NoOp \notin Ops /\ Gap \notin Ops /\ End \notin Ops
  /\ Gens \subseteq Nat /\ Gens \subseteq 0 .. MaxGen
<1> USE OpsAssumption, MaxGenAssumption
<1>1. NoRecords \in Records /\ Dropped \in Records /\ NoMarker \in Marker
  BY DEF NoRecords, Dropped, NoMarker, Records, Marker
<1>2. \A i, j \in Nat : Cursors(i, j) \in Records
  BY DEF Cursors, Records
<1>3. \A g \in Gens : Envelope(g) \in [kind : {"row"}, gen : Gens, records : Records]
  BY <1>1 DEF Envelope
<1>4. \A s : s \in Scopes <=> s = "run" \/ s = "thread"
  BY DEF Scopes
<1>5. Gens \subseteq Nat /\ Gens \subseteq 0 .. MaxGen
  BY DEF Gens
<1> QED  BY <1>1, <1>2, <1>3, <1>4, <1>5

LEMMA RowMoves ==
  ASSUME row \in Row, RowSound
  PROVE  /\ \A w \in Owners : Claimable(row, row.gen, w, TRUE) => Claimed(row, w) \in Row
         /\ \A o \in Terminal : Staged(row, o) \in Row
         /\ row.status = "terminal_pending" => Applied(row, row.result) \in Row
         /\ row.gen < MaxGen => NewGeneration(row) \in Row /\ NewGeneration(row).gen \in Gens
         /\ NoRow("deleted") \in Row
<1> USE MaxGenAssumption DEF Row, Gens, RowSound, Terminal, Active
<1>1. \A w \in Owners : Claimed(row, w) \in Row
  BY DEF Claimed
<1>2. \A o \in Terminal : Staged(row, o) \in Row
  BY DEF Staged
<1>3. row.status = "terminal_pending" => Applied(row, row.result) \in Row
  BY DEF Applied
<1>4. row.gen < MaxGen => NewGeneration(row) \in Row /\ NewGeneration(row).gen \in Gens
  BY DEF NewGeneration
<1>5. NoRow("deleted") \in Row
  BY DEF NoRow
<1> QED  BY <1>1, <1>2, <1>3, <1>4, <1>5

Disp == [pc : Stages \cup {"idle", "register", "next", "end", "over"},
         op : Ops \cup {NoOp}, todo : SUBSET Ops, gen : 0 .. MaxGen,
         owner : Owners \cup {NoOwner}, recs : Records]

\* What dispatcher d may have in hand next.
SoundNext(d, new) ==
  /\ new \in Disp
  /\ new.pc \in Stages \cup {"register"} => new.op \in Ops
  /\ d \in Ops => /\ new.pc \notin {"next", "end"}
                  /\ new.pc # "idle" => new.op = d /\ new.gen \in Gens
  /\ d \in Helpers => new.pc \notin {"register", "over"}
  /\ new.pc \in InTransaction => InTx(d) \/ ~RunLocked

DispShape == /\ disp \in [Dispatchers -> Disp]
             /\ OneTransaction /\ \A d \in Dispatchers : HoldsItsOwn(d)

LEMMA ShapeDisp == Shape => DispShape
BY DEF Shape, TypeOK, DispShape, Disp

LEMMA MoveShape ==
  ASSUME Shape, NEW d \in Dispatchers, NEW new, SoundNext(d, new), Move(d, new)
  PROVE  DispShape'
<1>1. DispShape /\ disp' \in [Dispatchers -> Disp]
  BY ShapeDisp DEF DispShape, Move, SoundNext
<1>2. ASSUME NEW e \in Dispatchers PROVE HoldsItsOwn(e)'
  BY <1>1 DEF DispShape, HoldsItsOwn, SoundNext, Move
<1>3. OneTransaction'
  <2>1. SUFFICES ASSUME NEW x \in Dispatchers, NEW y \in Dispatchers, InTx(x)', InTx(y)'
                 PROVE  x = y
    BY DEF OneTransaction
  <2>2. \A e \in Dispatchers \ {d} : InTx(e)' => InTx(e)
    BY <1>1 DEF DispShape, InTx, Move
  <2>3. InTx(d)' => InTx(d) \/ ~RunLocked
    BY <1>1 DEF DispShape, InTx, Move, SoundNext
  <2> QED  BY <1>1, <2>1, <2>2, <2>3 DEF DispShape, OneTransaction, RunLocked, InTx
<1> QED  BY <1>1, <1>2, <1>3 DEF DispShape

\* A dispatcher moves on with the same envelope.
LEMMA GotoShape ==
  ASSUME Shape, NEW d \in Dispatchers, disp[d].pc \in Stages,
         NEW pc \in Stages, pc \in InTransaction => InTx(d) \/ ~RunLocked,
         NEW recs \in Records
  PROVE  SoundNext(d, [disp[d] EXCEPT !.pc = pc, !.recs = recs])
<1>1. DispShape /\ disp[d] \in Disp
  BY ShapeDisp DEF DispShape
<1>2. HoldsItsOwn(d)
  BY <1>1 DEF DispShape
<1>3. pc \notin {"next", "end", "register", "over", "idle"} /\ disp[d].pc # "idle"
  BY DEF Stages
<1> QED  BY <1>1, <1>2, <1>3 DEF SoundNext, HoldsItsOwn, Disp

LEMMA EndShape ==
  ASSUME Shape, NEW d \in Dispatchers, disp[d].pc \in Stages, NEW failed \in BOOLEAN
  PROVE  SoundNext(d, AfterEnvelope(d, failed)) /\ AfterEnvelope(d, failed).pc \notin Stages
<1>1. DispShape /\ disp[d] \in Disp /\ HoldsItsOwn(d)
  BY ShapeDisp DEF DispShape
<1>2. Idle \in Disp /\ Idle.pc = "idle" /\ Idle.gen = 0
  BY Sets, MaxGenAssumption DEF Idle, Disp
<1>3. CASE d \in Ops
  <2>1. AfterEnvelope(d, failed) = [disp[d] EXCEPT !.pc = "over"]
    BY <1>3 DEF AfterEnvelope
  <2>2. disp[d].op = d /\ disp[d].gen \in Gens /\ d \notin Helpers
    BY <1>1, <1>3, OpsAssumption DEF HoldsItsOwn, Stages
  <2> QED  BY <1>1, <1>3, <2>1, <2>2 DEF SoundNext, Disp, Stages, InTransaction
<1>4. CASE d \notin Ops
  <2>1. \/ AfterEnvelope(d, failed) = Idle
        \/ AfterEnvelope(d, failed) =
             [disp[d] EXCEPT !.pc = "next", !.op = NoOp, !.recs = NoRecords]
    BY <1>4 DEF AfterEnvelope
  <2> QED  BY <1>1, <1>2, <1>4, <2>1, Sets DEF SoundNext, Disp, Stages, InTransaction
<1> QED  BY <1>3, <1>4

LEMMA BudgetTypes == ASSUME Shape, Fault PROVE faults' \in 0 .. MaxFaults
BY MaxFaultsAssumption DEF Shape, TypeOK, Fault

Stage == {"reserved", "added", "done"}

LEMMA AppendTypes ==
  ASSUME Shape, NEW op \in Ops, NEW g \in Gens, NEW s \in Scopes, NEW stage \in Stage,
         AppendUpTo(op, g, s, stage)
  PROVE  /\ log' \in [Scopes -> Seq(Item)]
         /\ mark' \in [Ops -> [Scopes -> Marker]]
         /\ SeqOf(op, s) \in Nat
<1>1. log \in [Scopes -> Seq(Item)] /\ mark \in [Ops -> [Scopes -> Marker]]
  BY DEF Shape, TypeOK
<1>2. mark[op][s] \in Marker /\ log[s] \in Seq(Item) /\ mark[op] \in [Scopes -> Marker]
  BY <1>1
<1>3. SeqOf(op, s) \in Nat
  BY <1>2 DEF SeqOf, Marker
<1>4. CASE Appended(op, s)
  <2>1. [mark[op][s] EXCEPT !.done = TRUE] \in Marker
    BY <1>2 DEF Marker
  <2>2. mark' = [mark EXCEPT ![op] = [mark[op] EXCEPT ![s] = [mark[op][s] EXCEPT !.done = TRUE]]] /\ log' = log
    BY <1>1, <1>4 DEF AppendUpTo
  <2>3. mark' \in [Ops -> [Scopes -> Marker]]
    BY <1>1, <1>2, <2>1, <2>2
  <2> QED  BY <1>1, <1>3, <2>2, <2>3
<1>5. CASE ~Appended(op, s)
  <2> DEFINE what == IF stage = "reserved" THEN Gap ELSE op
             item == [op |-> what, gen |-> g]
             new  == [mark[op][s] EXCEPT !.seq = SeqOf(op, s), !.done = (stage = "done")]
  <2>1. log' = [log EXCEPT ![s] = Append(log[s], item)]
    BY <1>5 DEF AppendUpTo
  <2>2. mark' = [mark EXCEPT ![op] = [mark[op] EXCEPT ![s] = new]]
    BY <1>1, <1>5 DEF AppendUpTo
  <2>3. item \in Item
    BY DEF Item
  <2>4. Append(log[s], item) \in Seq(Item)
    BY <1>2, <2>3
  <2>5. new \in Marker
    BY <1>2, <1>3 DEF Marker
  <2> HIDE DEF item, new
  <2>6. log' \in [Scopes -> Seq(Item)]
    BY <1>1, <2>1, <2>4
  <2>7. mark' \in [Ops -> [Scopes -> Marker]]
    BY <1>1, <1>2, <2>2, <2>5
  <2> QED  BY <1>3, <2>6, <2>7
<1> QED  BY <1>4, <1>5

LEMMA TtlTypes ==
  ASSUME Shape, NEW op \in Ops, NEW scopes, mark' = WithTtl(op, scopes)
  PROVE  mark' \in [Ops -> [Scopes -> Marker]]
<1>1. mark \in [Ops -> [Scopes -> Marker]] /\ mark[op] \in [Scopes -> Marker]
  BY DEF Shape, TypeOK
<1> DEFINE new == [s \in Scopes |-> IF s \in scopes /\ mark[op][s].seq # 0
                                    THEN [mark[op][s] EXCEPT !.ttl = TRUE] ELSE mark[op][s]]
<1>2. new \in [Scopes -> Marker]
  BY <1>1 DEF Marker
<1>3. mark' = [mark EXCEPT ![op] = new]
  BY <1>1 DEF WithTtl
<1> QED  BY <1>1, <1>2, <1>3

\* The end of a generation is appended to some of the streams.
LEMMA EndTypes ==
  ASSUME Shape, NEW g \in Gens, NEW scopes
  PROVE  WithEnd(g, scopes) \in [Scopes -> Seq(Item)]
<1>1. log \in [Scopes -> Seq(Item)]
  BY DEF Shape, TypeOK
<1>2. [op |-> End, gen |-> g] \in Item
  BY DEF Item
<1>3. \A s \in Scopes : Append(log[s], [op |-> End, gen |-> g]) \in Seq(Item)
  BY <1>1, <1>2
<1> QED  BY <1>1, <1>3 DEF WithEnd

LEMMA InitShape == Init => Shape
<1> SUFFICES ASSUME Init PROVE Shape
  OBVIOUS
<1> USE DEF Init
<1>1. row \in Row /\ RowSound /\ row.gen = 1 /\ row.status = "pending"
  BY MaxGenAssumption DEF NewGeneration, NoRow, Row, RowSound, Exists, Gens, Active, Terminal
<1>2. Idle \in Disp
  BY Sets, MaxGenAssumption DEF Idle, Disp
<1>3. disp \in [Dispatchers -> Disp] /\ \A d \in Dispatchers : disp[d].pc = "idle"
  BY <1>2 DEF Idle
<1>4. OneTransaction /\ \A d \in Dispatchers : HoldsItsOwn(d)
  BY <1>3 DEF OneTransaction, InTx, InTransaction, HoldsItsOwn, Stages
<1>5. log \in [Scopes -> Seq(Item)]
  OBVIOUS
<1>6. mark \in [Ops -> [Scopes -> Marker]]
  BY Sets
<1>7. outbox \in [Ops -> {NoEnvelope} \cup [kind : {"row"}, gen : Gens, records : Records]]
  <2> DEFINE Box == {NoEnvelope} \cup [kind : {"row"}, gen : Gens, records : Records]
  <2>1. outbox = [op \in Ops |-> NoEnvelope] /\ NoEnvelope \in Box
    OBVIOUS
  <2> HIDE DEF Box, Init
  <2>2. outbox \in [Ops -> Box]
    BY <2>1
  <2> QED  BY <2>2 DEF Box
<1>8. answer \in [Ops -> Records] /\ accepted \in [Ops -> 0 .. MaxGen]
  BY Sets, MaxGenAssumption
<1>9. erased \in BOOLEAN
  OBVIOUS
<1>10. faults = 0
  OBVIOUS
<1> HIDE DEF Init
<1>11. faults \in 0 .. MaxFaults
  BY <1>10, MaxFaultsAssumption
<1> QED  BY <1>1, <1>3, <1>4, <1>5, <1>6, <1>7, <1>8, <1>9, <1>11
      DEF Shape, TypeOK, Disp

LEMMA SameDisp == ASSUME Shape, disp' = disp PROVE DispShape'
BY ShapeDisp DEF DispShape, OneTransaction, InTx, HoldsItsOwn

\* Nothing but what dispatchers hold changes.
DispOnly == UNCHANGED <<row, outbox, log, mark, answer, accepted, erased, faults>>

LEMMA DispOnlyShape ==
  ASSUME Shape, NEW d \in Dispatchers, NEW new, SoundNext(d, new), Move(d, new), DispOnly
  PROVE  Shape'
<1>1. DispShape'
  BY MoveShape
<1> QED  BY <1>1 DEF DispShape, Disp, Shape, TypeOK, RowSound, DispOnly

\* append_protocol_pair up to the registration.
LEMMA PublishShape ==
  ASSUME Shape, NEW op \in Ops, Publish(op) \/ Register(op)
  PROVE  Shape'
<1>1. DispShape /\ disp[op] \in Disp /\ HoldsItsOwn(op) /\ op \in Dispatchers /\ op \notin Helpers
  BY ShapeDisp, OpsAssumption DEF DispShape, Dispatchers
<1>2. row \in Row /\ RowSound
  BY DEF Shape, TypeOK
<1>3. CASE Publish(op)
  <2> DEFINE new == [Idle EXCEPT !.pc = "register", !.op = op, !.gen = row.gen, !.owner = row.owner]
  <2>1. row.gen \in Gens /\ row.owner \in Owners \cup {NoOwner}
    BY <1>2, <1>3 DEF Publish, RowSound, Row, Exists
  <2>2. Idle \in Disp
    BY Sets, MaxGenAssumption DEF Idle, Disp
  <2>3. new \in Disp /\ new.pc = "register" /\ new.op = op /\ new.gen = row.gen
    BY <2>1, <2>2, Sets DEF Disp
  <2> HIDE DEF new
  <2>4. SoundNext(op, new)
    BY <1>1, <2>1, <2>3 DEF SoundNext, InTransaction
  <2> QED  BY <1>1, <1>3, <2>4, DispOnlyShape DEF Publish, DispOnly, new
<1>4. CASE Register(op)
  <2>1. disp[op].pc = "register" /\ disp[op].op = op /\ disp[op].gen \in Gens
    BY <1>1, <1>4 DEF Register, HoldsItsOwn
  <2>2. SoundNext(op, [disp[op] EXCEPT !.pc = "open"]) /\ SoundNext(op, [disp[op] EXCEPT !.pc = "over"])
    BY <1>1, <2>1 DEF SoundNext, Disp, Stages, InTransaction
  <2>3. DispShape'
    BY <1>1, <1>4, <2>2, MoveShape DEF Register, Goto
  <2>4. OwnsExecution(row, disp[op].gen, disp[op].owner) => row.gen \in Gens
    BY <1>2 DEF OwnsExecution, RowSound, Exists
  <2>5. outbox' \in [Ops -> {NoEnvelope} \cup [kind : {"row"}, gen : Gens, records : Records]]
    <3>1. outbox \in [Ops -> {NoEnvelope} \cup [kind : {"row"}, gen : Gens, records : Records]]
      BY DEF Shape, TypeOK
    <3>2. CASE OwnsExecution(row, disp[op].gen, disp[op].owner)
      <4>1. Envelope(row.gen) \in [kind : {"row"}, gen : Gens, records : Records]
        BY <2>4, <3>2, Sets
      <4> QED  BY <1>4, <3>1, <3>2, <4>1 DEF Register
    <3> QED  BY <1>4, <3>1, <3>2 DEF Register
  <2>6. accepted' \in [Ops -> 0 .. MaxGen]
    BY <1>4, <2>4, Sets DEF Register, Shape, TypeOK
  <2> QED  BY <1>4, <2>3, <2>5, <2>6 DEF Register, Shape, TypeOK, RowSound, DispShape, Disp
<1> QED  BY <1>3, <1>4

LEMMA SavedTypes ==
  ASSUME Shape, NEW d \in Dispatchers, disp[d].pc = "commit", Opened(d)
  PROVE  Saved(d) \in [Ops -> {NoEnvelope} \cup [kind : {"row"}, gen : Gens, records : Records]]
<1>1. disp[d].op \in Ops /\ disp[d].recs \in Records
  BY ShapeDisp DEF DispShape, HoldsItsOwn, Stages, Disp
<1>2. outbox[disp[d].op].kind = "row"
  BY DEF Opened, InTransaction
<1>3. outbox \in [Ops -> {NoEnvelope} \cup [kind : {"row"}, gen : Gens, records : Records]]
  BY DEF Shape, TypeOK
<1>4. outbox[disp[d].op] \in [kind : {"row"}, gen : Gens, records : Records]
  BY <1>1, <1>2, <1>3 DEF NoEnvelope
<1>5. [outbox[disp[d].op] EXCEPT !.records = disp[d].recs] \in [kind : {"row"}, gen : Gens, records : Records]
  BY <1>1, <1>4
<1> QED  BY <1>1, <1>3, <1>5 DEF Saved

\* The steps of a delivery.
LEMMA DeliverShape ==
  ASSUME Shape, NEW d \in Dispatchers, Opened(d), Deliver(d)
  PROVE  Shape'
<1>1. DispShape /\ disp[d] \in Disp /\ HoldsItsOwn(d)
  BY ShapeDisp DEF DispShape
<1>2. disp[d].pc \in Stages => disp[d].op \in Ops
  BY <1>1 DEF HoldsItsOwn
<1>3. CASE OpenMissing(d)
  <2>1. disp[d].pc \in Stages /\ disp[d].pc = "open"
    BY <1>3 DEF OpenMissing, Stages
  <2>2. CASE d \in Ops
    <3>1. SoundNext(d, [disp[d] EXCEPT !.pc = "register"])
      BY <1>1, <2>1, <2>2, OpsAssumption DEF SoundNext, HoldsItsOwn, Disp, Stages, InTransaction
    <3> QED  BY <1>3, <2>2, <3>1, DispOnlyShape DEF OpenMissing, DispOnly
  <2>3. CASE d \notin Ops
    BY <1>3, <2>1, <2>3, EndShape, DispOnlyShape DEF OpenMissing, DispOnly
  <2> QED  BY <2>2, <2>3
<1>4. CASE Open(d)
  <2>1. disp[d].pc \in Stages /\ ~RunLocked /\ outbox[disp[d].op].kind = "row"
    BY <1>4 DEF Open, Stages
  <2>2. outbox[disp[d].op].records \in Records
    BY <1>2, <2>1 DEF Shape, TypeOK, NoEnvelope
  <2>3. \A pc \in {"commit", "run"} : \A recs \in Records :
          SoundNext(d, [disp[d] EXCEPT !.pc = pc, !.recs = recs])
    <3>1. {"commit", "run"} \subseteq Stages
      BY DEF Stages
    <3> QED  BY <2>1, <3>1, GotoShape
  <2> QED  BY <1>4, <2>2, <2>3, Sets, DispOnlyShape DEF Open, DispOnly
<1>5. CASE AppendRecord(d)
  <2> DEFINE op == disp[d].op
             s == disp[d].pc
  <2>1. s \in Scopes /\ s \in Stages /\ InTx(d) /\ op \in Ops
    BY <1>2, <1>5, Sets DEF AppendRecord, Stages, InTx, InTransaction
  <2>2. outbox[op].gen \in Gens
    BY <2>1 DEF Opened, Undone, Shape, TypeOK, NoEnvelope
  <2>3. AppendUpTo(op, outbox[op].gen, s, "done")
    BY <1>5 DEF AppendRecord
  <2>4. /\ log' \in [Scopes -> Seq(Item)]
        /\ mark' \in [Ops -> [Scopes -> Marker]]
        /\ SeqOf(op, s) \in Nat
    BY <2>1, <2>2, <2>3, AppendTypes DEF Stage
  <2>5. /\ [NoRecords EXCEPT !.run = SeqOf(op, s)] \in Records
        /\ Cursors(disp[d].recs.run, SeqOf(op, s)) \in Records
    BY <1>1, <2>4, Sets DEF Disp, Records, NoRecords
  <2>6. {"thread", "commit"} \subseteq Stages
    BY DEF Stages
  <2>7. SoundNext(d, [disp[d] EXCEPT
          !.pc = IF s = "run" THEN "thread" ELSE "commit",
          !.recs = IF s = "run" THEN [NoRecords EXCEPT !.run = SeqOf(op, s)]
                   ELSE Cursors(@.run, SeqOf(op, s))])
    BY <2>1, <2>5, <2>6, GotoShape
  <2>8. DispShape'
    BY <1>5, <2>7, MoveShape DEF AppendRecord
  <2> QED  BY <1>5, <2>4, <2>8 DEF AppendRecord, Shape, TypeOK, RowSound, DispShape, Disp
<1>6. CASE Commit(d)
  <2>1. disp[d].pc \in Stages /\ disp[d].pc = "commit" /\ "expire" \in Stages
    BY <1>6 DEF Commit, Stages
  <2>2. SoundNext(d, [disp[d] EXCEPT !.pc = "expire"])
    BY <1>1, <2>1 DEF SoundNext, HoldsItsOwn, Disp, Stages, InTransaction
  <2>3. DispShape'
    BY <1>6, <2>2, MoveShape DEF Commit, Goto
  <2> QED  BY <1>6, <2>1, <2>3, SavedTypes DEF Commit, Shape, TypeOK, RowSound, DispShape, Disp
<1>7. CASE Expire(d)
  <2>1. disp[d].pc \in Stages /\ disp[d].op \in Ops
    BY <1>2, <1>7 DEF Expire, Stages
  <2>2. SoundNext(d, [disp[d] EXCEPT !.pc = "clean"])
    BY <1>1, <2>1 DEF SoundNext, HoldsItsOwn, Disp, Stages, InTransaction
  <2>3. DispShape'
    BY <1>7, <2>2, MoveShape DEF Expire, Goto
  <2>4. mark' \in [Ops -> [Scopes -> Marker]]
    BY <1>7, <2>1, TtlTypes DEF Expire
  <2> QED  BY <1>7, <2>3, <2>4 DEF Expire, Shape, TypeOK, RowSound, DispShape, Disp
<1>8. CASE Clean(d)
  <2>1. disp[d].pc \in Stages
    BY <1>8 DEF Clean, Stages
  <2>2. DispShape'
    BY <1>8, <2>1, EndShape, MoveShape DEF Clean, Return
  <2>3. outbox' \in [Ops -> {NoEnvelope} \cup [kind : {"row"}, gen : Gens, records : Records]]
    BY <1>8 DEF Clean, Shape, TypeOK
  <2>4. answer' \in [Ops -> Records]
    BY <1>1, <1>8 DEF Clean, Return, Shape, TypeOK, Disp
  <2> QED  BY <1>8, <2>2, <2>3, <2>4 DEF Clean, Shape, TypeOK, RowSound, DispShape, Disp
<1> QED  BY <1>3, <1>4, <1>5, <1>6, <1>7, <1>8 DEF Deliver

\* A failing or stopped dispatcher.
LEMMA FailsShape ==
  ASSUME Shape, NEW d \in Dispatchers, Opened(d), Fails(d)
  PROVE  Shape'
<1>1. DispShape /\ disp[d] \in Disp /\ HoldsItsOwn(d)
  BY ShapeDisp DEF DispShape
<1>2. disp[d].pc \in Stages => disp[d].op \in Ops
  BY <1>1 DEF HoldsItsOwn
<1>3. faults' \in 0 .. MaxFaults
  BY BudgetTypes DEF Fails, AppendFails, CommitFails, CleanupFails, Stop
<1>4. CASE AppendFails(d)
  <2> DEFINE op == disp[d].op
             s == disp[d].pc
  <2>1. s \in Scopes /\ s \in Stages /\ op \in Ops
    BY <1>2, <1>4, Sets DEF AppendFails, Stages
  <2>2. outbox[op].gen \in Gens
    BY <2>1 DEF Opened, Undone, Shape, TypeOK, NoEnvelope
  <2>3. log' \in [Scopes -> Seq(Item)] /\ mark' \in [Ops -> [Scopes -> Marker]]
    <3>1. CASE UNCHANGED <<log, mark>>
      BY <3>1 DEF Shape, TypeOK
    <3>2. ASSUME NEW stage \in Stage, AppendUpTo(op, outbox[op].gen, s, stage)
          PROVE  log' \in [Scopes -> Seq(Item)] /\ mark' \in [Ops -> [Scopes -> Marker]]
      BY <2>1, <2>2, <3>2, AppendTypes
    <3> QED  BY <1>4, <3>1, <3>2 DEF AppendFails, Stage
  <2>4. DispShape'
    BY <1>4, <2>1, EndShape, MoveShape DEF AppendFails
  <2> QED  BY <1>3, <1>4, <2>3, <2>4 DEF AppendFails, Shape, TypeOK, RowSound, DispShape, Disp
<1>5. CASE CommitFails(d)
  <2>1. disp[d].pc \in Stages /\ disp[d].pc = "commit"
    BY <1>5 DEF CommitFails, Stages
  <2>2. SoundNext(d, [disp[d] EXCEPT !.pc = "open"])
    BY <1>1, <2>1 DEF SoundNext, HoldsItsOwn, Disp, Stages, InTransaction
  <2>3. DispShape'
    BY <1>5, <2>1, <2>2, EndShape, MoveShape DEF CommitFails, Goto
  <2>4. outbox' \in [Ops -> {NoEnvelope} \cup [kind : {"row"}, gen : Gens, records : Records]]
    BY <1>5, <2>1, SavedTypes DEF CommitFails, Shape, TypeOK
  <2> QED  BY <1>3, <1>5, <2>3, <2>4 DEF CommitFails, Shape, TypeOK, RowSound, DispShape, Disp
<1>6. CASE CleanupFails(d)
  <2>1. disp[d].pc \in Stages /\ disp[d].op \in Ops
    BY <1>2, <1>6 DEF CleanupFails, Stages
  <2>2. DispShape'
    BY <1>6, <2>1, EndShape, MoveShape DEF CleanupFails, Return
  <2>3. mark' \in [Ops -> [Scopes -> Marker]]
    BY <1>6, <2>1, TtlTypes DEF CleanupFails, Shape, TypeOK
  <2>4. answer' \in [Ops -> Records]
    BY <1>1, <1>6 DEF CleanupFails, Return, Shape, TypeOK, Disp
  <2> QED  BY <1>3, <1>6, <2>2, <2>3, <2>4 DEF CleanupFails, Shape, TypeOK, RowSound, DispShape, Disp
<1>7. CASE Stop(d)
  <2>1. Idle \in Disp /\ Idle.pc = "idle"
    BY Sets, MaxGenAssumption DEF Idle, Disp
  <2>2. d \in Ops => SoundNext(d, [disp[d] EXCEPT !.pc = "over"])
    BY <1>1, <1>7, OpsAssumption DEF Stop, SoundNext, HoldsItsOwn, Disp, Stages, InTransaction
  <2>3. d \notin Ops => SoundNext(d, Idle)
    BY <2>1 DEF SoundNext, Stages, InTransaction
  <2>4. DispShape'
    BY <1>7, <2>2, <2>3, MoveShape DEF Stop
  <2> QED  BY <1>3, <1>7, <2>4 DEF Stop, Shape, TypeOK, RowSound, DispShape, Disp
<1> QED  BY <1>4, <1>5, <1>6, <1>7 DEF Fails

\* Reconcilers and the delivery of an outcome.
LEMMA HelperShape ==
  ASSUME Shape, NEW h \in Helpers, List(h) \/ Drain(h) \/ EndFails(h)
  PROVE  Shape'
<1>1. /\ DispShape /\ disp[h] \in Disp /\ HoldsItsOwn(h)
      /\ h \in Dispatchers /\ h \notin Ops
  BY ShapeDisp, OpsAssumption DEF DispShape, Dispatchers
<1>2. row \in Row /\ RowSound
  BY DEF Shape, TypeOK
<1>3. Idle \in Disp /\ Idle.pc = "idle"
  BY Sets, MaxGenAssumption DEF Idle, Disp
<1>4. SoundNext(h, Idle)
  BY <1>1, <1>3 DEF SoundNext, Stages, InTransaction
<1>5. CASE List(h)
  <2>1. Pending \in SUBSET Ops /\ row.gen \in 0 .. MaxGen
    BY <1>2 DEF Pending, Row
  <2>2. /\ SoundNext(h, [Idle EXCEPT !.pc = "next", !.todo = Pending])
        /\ SoundNext(h, [Idle EXCEPT !.pc = "next", !.todo = Pending, !.gen = row.gen])
    BY <1>1, <1>3, <2>1 DEF SoundNext, Disp, Stages, InTransaction
  <2> QED  BY <1>1, <1>5, <2>2, DispOnlyShape DEF List, DispOnly
<1>6. CASE Take(h)
  <2>1. disp[h].todo \subseteq Ops
    BY <1>1 DEF Disp
  <2>2. \A op \in disp[h].todo :
          SoundNext(h, [disp[h] EXCEPT !.pc = "open", !.op = op, !.todo = @ \ {op}])
    BY <1>1, <2>1 DEF SoundNext, Disp, Stages, InTransaction
  <2> QED  BY <1>1, <1>6, <2>2, DispOnlyShape DEF Take, DispOnly
<1>7. CASE Listed(h)
  <2>1. SoundNext(h, [disp[h] EXCEPT !.pc = "end"])
    BY <1>1 DEF SoundNext, Disp, Stages, InTransaction
  <2> QED  BY <1>1, <1>4, <1>7, <2>1, DispOnlyShape DEF Listed, DispOnly
<1>8. AwaitsDelivery(row, disp[h].gen) => /\ disp[h].gen \in Gens
                                         /\ row.result \in Terminal
                                         /\ row.status = "terminal_pending"
                                         /\ Applied(row, row.result) \in Row
  BY <1>2, RowMoves DEF AwaitsDelivery, RowSound, Exists
<1>9. CASE DeliverEnd(h)
  <2>1. DispShape'
    BY <1>1, <1>4, <1>9, MoveShape DEF DeliverEnd
  <2>2. CASE AwaitsDelivery(row, disp[h].gen)
    <3>1. log' \in [Scopes -> Seq(Item)]
      BY <1>8, <1>9, <2>2, EndTypes DEF DeliverEnd
    <3>2. row' = Applied(row, row.result) /\ erased' = erased
      BY <1>9, <2>2 DEF DeliverEnd
    <3>3. row' \in Row /\ row'.gen = row.gen /\ row'.status \in Terminal
      BY <1>2, <1>8, <2>2, <3>2 DEF Applied, Row
    <3>4. RowSound'
      BY <1>2, <1>8, <2>2, <3>2, <3>3 DEF RowSound, Terminal, Exists
    <3> QED  BY <1>9, <2>1, <3>1, <3>3, <3>4 DEF DeliverEnd, Shape, TypeOK, DispShape, Disp
  <2>3. CASE ~AwaitsDelivery(row, disp[h].gen)
    BY <1>9, <2>1, <2>3 DEF DeliverEnd, Shape, TypeOK, RowSound, DispShape, Disp
  <2> QED  BY <2>2, <2>3
<1>10. CASE EndFails(h)
  <2>1. DispShape'
    BY <1>1, <1>4, <1>10, MoveShape DEF EndFails
  <2>2. log' \in [Scopes -> Seq(Item)]
    BY <1>8, <1>10, EndTypes DEF EndFails
  <2>3. faults' \in 0 .. MaxFaults
    BY <1>10, BudgetTypes DEF EndFails
  <2> QED  BY <1>10, <2>1, <2>2, <2>3 DEF EndFails, Shape, TypeOK, RowSound, DispShape, Disp
<1> QED  BY <1>5, <1>6, <1>7, <1>9, <1>10 DEF Drain

\* Markers that expire and the life of the run.
RunStep == \/ \E w \in Owners : Claim(w) \/ Finish(w)
           \/ Cancel \/ Resume \/ Delete

\* An execution goes on, the next generation begins, or the run is deleted.
RowMoved ==
  \/ /\ row'.gen = row.gen /\ Exists(row)' /\ Exists(row)
     /\ row.status \in {"pending", "running"} /\ row'.status \notin Terminal
  \/ row'.gen = row.gen + 1 /\ row.status \in Terminal /\ Exists(row)'
  \/ ~Exists(row)'

LEMMA RunShape ==
  ASSUME Shape, RunStep
  PROVE  /\ Shape' /\ ~RunLocked
         /\ UNCHANGED <<outbox, log, mark, disp, answer, accepted, erased, faults>>
         /\ RowMoved
<1> USE DEF SetRow
<1>1. row \in Row /\ RowSound
  BY DEF Shape, TypeOK
<1>2. /\ ~RunLocked
      /\ UNCHANGED <<outbox, log, mark, disp, answer, accepted, erased, faults>>
  BY DEF RunStep, Claim, Finish, Cancel, Resume, Delete
<1>3. row' \in Row /\ RowSound' /\ RowMoved
  <2>1. ASSUME NEW w \in Owners, Claim(w) PROVE row' \in Row /\ RowSound' /\ RowMoved
    <3>1. row' = Claimed(row, w) /\ Claimable(row, row.gen, w, TRUE)
      BY <2>1 DEF Claim
    <3>2. row.status \in {"pending", "running"} /\ row' \in Row
      BY <1>1, <3>1, RowMoves DEF Claimable
    <3>3. row'.status = "running" /\ row'.gen = row.gen /\ row'.result = row.result
      BY <1>1, <3>1 DEF Claimed, Row
    <3> QED  BY <1>1, <1>2, <3>2, <3>3 DEF RowSound, RowMoved, Exists, Terminal
  <2>2. ASSUME row.status \in {"pending", "running"}, NEW o \in Terminal, row' = Staged(row, o)
        PROVE  row' \in Row /\ RowSound' /\ RowMoved
    <3>1. row' \in Row
      BY <1>1, <2>2, RowMoves
    <3>2. row'.status = "terminal_pending" /\ row'.gen = row.gen /\ row'.result = o
      BY <1>1, <2>2 DEF Staged, Row
    <3> QED  BY <1>1, <1>2, <2>2, <3>1, <3>2 DEF RowSound, RowMoved, Exists, Terminal
  <2>3. CASE Resume
    <3>1. row' = NewGeneration(row) /\ row.status = "interrupted" /\ row.gen < MaxGen
      BY <2>3 DEF Resume
    <3>2. row' \in Row /\ row'.gen \in Gens
      BY <1>1, <3>1, RowMoves
    <3>3. row'.status = "pending" /\ row'.gen = row.gen + 1
      BY <3>1 DEF NewGeneration
    <3> QED  BY <1>1, <1>2, <3>1, <3>2, <3>3 DEF RowSound, RowMoved, Exists, Terminal
  <2>4. CASE Delete
    <3>1. row' = NoRow("deleted") /\ row' \in Row
      BY <1>1, <2>4, RowMoves DEF Delete
    <3>2. row'.status = "deleted"
      BY <3>1 DEF NoRow
    <3> QED  BY <1>2, <3>1, <3>2 DEF RowSound, RowMoved, Exists
  <2>5. ASSUME NEW w \in Owners, Finish(w) PROVE row' \in Row /\ RowSound' /\ RowMoved
    BY <2>2, <2>5 DEF Finish, MayFinish
  <2>6. CASE Cancel
    BY <2>2, <2>6 DEF Cancel, MayCancel, Terminal
  <2> QED  BY <2>1, <2>3, <2>4, <2>5, <2>6 DEF RunStep
<1>4. DispShape'
  BY <1>2, SameDisp
<1>5. Shape'
  BY <1>2, <1>3, <1>4 DEF Shape, TypeOK, DispShape, Disp
<1> QED  BY <1>2, <1>3, <1>5

LEMMA TimeShape ==
  ASSUME Shape, EraseStream \/ \E op \in Ops, s \in Scopes : MarkerExpires(op, s)
  PROVE  Shape'
<1>1. DispShape'
  BY SameDisp DEF EraseStream, MarkerExpires
<1>2. CASE EraseStream
  <2>1. log' \in [Scopes -> Seq(Item)]
    <3>1. log \in [Scopes -> Seq(Item)] /\ <<>> \in Seq(Item)
      BY DEF Shape, TypeOK
    <3> QED  BY <1>2, <3>1 DEF EraseStream
  <2> QED  BY <1>1, <1>2, <2>1 DEF EraseStream, Shape, TypeOK, RowSound, DispShape, Disp
<1>3. ASSUME NEW op \in Ops, NEW s \in Scopes, MarkerExpires(op, s) PROVE Shape'
  <2>1. mark' \in [Ops -> [Scopes -> Marker]]
    <3>1. mark \in [Ops -> [Scopes -> Marker]] /\ mark[op] \in [Scopes -> Marker]
      BY DEF Shape, TypeOK
    <3>2. [mark[op] EXCEPT ![s] = NoMarker] \in [Scopes -> Marker]
      BY <3>1, Sets
    <3>3. mark' = [mark EXCEPT ![op] = [mark[op] EXCEPT ![s] = NoMarker]]
      BY <1>3, <3>1 DEF MarkerExpires
    <3> QED  BY <3>1, <3>2, <3>3
  <2> QED  BY <1>1, <1>3, <2>1 DEF MarkerExpires, Shape, TypeOK, RowSound, DispShape, Disp
<1> QED  BY <1>2, <1>3

-----------------------------------------------------------------------------
(* What a step may do to the record and the marker of an operation in a    *)
(* stream.  Everything below follows from these moves.                     *)

SameLog(op, s)  == \A n : At(op, s, n)' <=> At(op, s, n)
SameMark(op, s) == /\ mark'[op][s].seq = mark[op][s].seq
                   /\ mark'[op][s].done = mark[op][s].done
                   /\ mark[op][s].ttl => mark'[op][s].ttl

\* Some dispatcher is about to append the pair of op.
Opening(op) == \E d \in Dispatchers : disp[d].pc \in Scopes /\ disp[d].op = op

Rests(op, s) == SameLog(op, s) /\ SameMark(op, s)
Expires(op, s) ==
  /\ SameLog(op, s)
  /\ mark'[op][s] = NoMarker
  /\ ~Calling(op) /\ ~Undone(op) /\ UNCHANGED <<disp, outbox>>
Confirms(op, s) ==
  /\ SameLog(op, s) /\ Opening(op)
  /\ mark'[op][s].done /\ mark[op][s].seq # 0 /\ At(op, s, mark[op][s].seq)
  /\ mark'[op][s].seq = mark[op][s].seq /\ mark'[op][s].ttl = mark[op][s].ttl
Enters(op, s) ==
  /\ ~InLog(op, s) /\ Opening(op)
  /\ mark'[op][s].seq \in Nat \ {0}
  /\ \A n : At(op, s, n)' => n = mark'[op][s].seq
  /\ mark'[op][s].done => At(op, s, mark[op][s].seq)'
Erases(op, s) ==
  s = "run" /\ erased' /\ (\A n : ~At(op, s, n)') /\ SameMark(op, s)

Moves(op, s) == Rests(op, s) \/ Expires(op, s) \/ Confirms(op, s) \/ Enters(op, s) \/ Erases(op, s)

AllMove == \A op \in Ops, s \in Scopes : Moves(op, s)

LEMMA QuietMoves == ASSUME UNCHANGED <<log, mark>> PROVE AllMove
BY DEF AllMove, Moves, Rests, SameLog, SameMark, At

\* A record of no operation is appended.
LEMMA ForeignAppend ==
  ASSUME Shape, NEW s \in Scopes, NEW item \in Item, item.op \notin Ops,
         log'[s] = Append(log[s], item), NEW op \in Ops
  PROVE  SameLog(op, s)
<1>1. log[s] \in Seq(Item)
  BY DEF Shape, TypeOK
<1>2. /\ DOMAIN log'[s] = 1 .. Len(log[s]) + 1 /\ DOMAIN log[s] = 1 .. Len(log[s])
      /\ Len(log[s]) \in Nat
      /\ log'[s][Len(log[s]) + 1] = item
      /\ \A n \in 1 .. Len(log[s]) : log'[s][n] = log[s][n]
  BY <1>1
<1> QED  BY <1>2 DEF SameLog, At

\* A record of an operation is appended.
LEMMA OwnAppend ==
  ASSUME Shape, NEW s \in Scopes, NEW item \in Item, log'[s] = Append(log[s], item), NEW op \in Ops
  PROVE  /\ item.op # op => SameLog(op, s)
         /\ item.op = op /\ ~InLog(op, s) =>
              \A n : At(op, s, n)' <=> n = Len(log[s]) + 1
<1>1. log[s] \in Seq(Item)
  BY DEF Shape, TypeOK
<1>2. /\ DOMAIN log'[s] = 1 .. Len(log[s]) + 1 /\ DOMAIN log[s] = 1 .. Len(log[s])
      /\ Len(log[s]) \in Nat
      /\ log'[s][Len(log[s]) + 1] = item
      /\ \A n \in 1 .. Len(log[s]) : log'[s][n] = log[s][n]
  BY <1>1
<1> QED  BY <1>2 DEF SameLog, At, InLog

LEMMA EndMoves ==
  ASSUME Shape, NEW g \in Gens, NEW scopes, log' = WithEnd(g, scopes), mark' = mark
  PROVE  AllMove
<1>1. SUFFICES ASSUME NEW op \in Ops, NEW s \in Scopes PROVE Rests(op, s)
  BY DEF AllMove, Moves
<1>2. [op |-> End, gen |-> g] \in Item /\ End \notin Ops
  BY Sets DEF Item
<1>3. log'[s] = log[s] \/ log'[s] = Append(log[s], [op |-> End, gen |-> g])
  BY DEF WithEnd
<1>4. SameLog(op, s)
  <2>1. CASE log'[s] = log[s]
    BY <2>1 DEF SameLog, At
  <2>2. CASE log'[s] = Append(log[s], [op |-> End, gen |-> g])
    BY <1>2, <2>2, ForeignAppend
  <2> QED  BY <1>3, <2>1, <2>2
<1> QED  BY <1>4 DEF Rests, SameMark

LEMMA TtlMoves ==
  ASSUME Shape, NEW op \in Ops, NEW scopes, mark' = WithTtl(op, scopes), log' = log
  PROVE  AllMove
<1>1. mark \in [Ops -> [Scopes -> Marker]]
  BY DEF Shape, TypeOK
<1>2. SUFFICES ASSUME NEW o \in Ops, NEW s \in Scopes PROVE SameMark(o, s)
  BY DEF AllMove, Moves, Rests, SameLog, At
<1>3. mark[o][s] \in Marker
  BY <1>1
<1>4. \/ mark'[o][s] = mark[o][s]
      \/ mark'[o][s] = [mark[o][s] EXCEPT !.ttl = TRUE]
  BY <1>1 DEF WithTtl
<1> QED  BY <1>3, <1>4 DEF SameMark, Marker

LEMMA AppendMoves ==
  ASSUME Shape, NEW op \in Ops, NEW s \in Scopes, Opening(op), ~erased,
         MarkTrue(op), MarkersTell(op), Undone(op),
         NEW g \in Gens, NEW stage \in Stage, AppendUpTo(op, g, s, stage)
  PROVE  AllMove
<1> DEFINE m == mark[op][s]
<1>1. /\ mark \in [Ops -> [Scopes -> Marker]] /\ log \in [Scopes -> Seq(Item)]
  BY DEF Shape, TypeOK
<1>2. m \in Marker /\ log[s] \in Seq(Item) /\ Len(log[s]) \in Nat
  BY <1>1
<1>4. Gap \notin Ops /\ \A x \in Ops \cup {Gap} : [op |-> x, gen |-> g] \in Item
  BY Sets DEF Item
<1>5. CASE Appended(op, s)
  <2>1. /\ mark' = [mark EXCEPT ![op] = [mark[op] EXCEPT ![s] = [m EXCEPT !.done = TRUE]]]
        /\ log' = log
    BY <1>1, <1>5 DEF AppendUpTo
  <2>2. /\ mark'[op][s] = [m EXCEPT !.done = TRUE]
        /\ \A o \in Ops, x \in Scopes : o # op \/ x # s => mark'[o][x] = mark[o][x]
    BY <1>1, <2>1
  <2>3. m.seq # 0 /\ At(op, s, m.seq)
    BY <1>5 DEF Appended, MarkTrue, Stands, At
  <2>4. Confirms(op, s)
    <3>1. /\ mark'[op][s].done /\ mark'[op][s].seq = m.seq /\ mark'[op][s].ttl = m.ttl
      BY <1>2, <2>2 DEF Marker
    <3>2. SameLog(op, s)
      BY <2>1 DEF SameLog, At
    <3> QED  BY <2>3, <3>1, <3>2 DEF Confirms
  <2>5. \A o \in Ops, x \in Scopes : o # op \/ x # s => Rests(o, x)
    BY <2>1, <2>2 DEF Rests, SameLog, SameMark, At
  <2> QED  BY <1>1, <2>4, <2>5 DEF AllMove, Moves
<1>6. CASE ~Appended(op, s)
  <2> DEFINE what == IF stage = "reserved" THEN Gap ELSE op
             item == [op |-> what, gen |-> g]
             new  == [m EXCEPT !.seq = Len(log[s]) + 1, !.done = (stage = "done")]
  <2>1. /\ log' = [log EXCEPT ![s] = Append(log[s], item)]
        /\ mark' = [mark EXCEPT ![op] = [mark[op] EXCEPT ![s] = new]]
    BY <1>1, <1>6 DEF AppendUpTo, SeqOf
  <2>2. /\ mark'[op][s] = new
        /\ \A o \in Ops, x \in Scopes : o # op \/ x # s => mark'[o][x] = mark[o][x]
        /\ log'[s] = Append(log[s], item)
        /\ \A x \in Scopes : x # s => log'[x] = log[x]
    BY <1>1, <2>1
  <2>3. new.seq = Len(log[s]) + 1 /\ new.done = (stage = "done")
    BY <1>2 DEF Marker
  <2>4. ~InLog(op, s)
    BY <1>1, <1>6 DEF MarkersTell
  <2>5. item \in Item /\ item.op = what
    BY <1>1, <1>4
  <2>6. (what # op => \A n : ~At(op, s, n)') /\ (what = op => \A n : At(op, s, n)' <=> n = Len(log[s]) + 1)
    <3> HIDE DEF item, new, what
    <3>1. CASE what # op
      <4>1. SameLog(op, s)
        BY <1>1, <2>2, <2>5, <3>1, OwnAppend
      <4> QED  BY <2>4, <3>1, <4>1 DEF SameLog, InLog, At
    <3>2. CASE what = op
      BY <1>1, <2>2, <2>4, <2>5, <3>2, OwnAppend
    <3> QED  BY <3>1, <3>2
  <2>7. Enters(op, s)
    <3>1. mark'[op][s].seq = Len(log[s]) + 1
      BY <2>2, <2>3
    <3>2. Len(log[s]) + 1 \in Nat \ {0}
      BY <1>2
    <3>3. mark'[op][s].done => what = op
      <4>1. new.done => stage # "reserved"
        BY <2>3
      <4> HIDE DEF new
      <4> QED  BY <2>2, <4>1
    <3> HIDE DEF item, new, what
    <3>4. \A n : At(op, s, n)' => n = mark'[op][s].seq
      BY <2>6, <3>1
    <3>5. mark'[op][s].done => At(op, s, mark[op][s].seq)'
      BY <2>6, <3>1, <3>3
    <3> QED  BY <2>4, <3>1, <3>2, <3>4, <3>5 DEF Enters
  <2>8. ASSUME NEW o \in Ops, NEW x \in Scopes, o # op \/ x # s PROVE Rests(o, x)
    <3>1. SameMark(o, x)
      BY <2>2, <2>8 DEF SameMark
    <3>2. CASE x # s
      BY <2>2, <3>1, <3>2 DEF Rests, SameLog, At
    <3>3. CASE x = s
      <4>1. item.op # o
        BY <1>4, <2>5, <2>8, <3>3
      <4> HIDE DEF item
      <4> QED  BY <1>1, <2>2, <2>5, <3>1, <3>3, <4>1, OwnAppend DEF Rests
    <3> QED  BY <3>2, <3>3
  <2> QED  BY <1>1, <2>7, <2>8 DEF AllMove, Moves
<1> QED  BY <1>5, <1>6

\* The number the script answers with is that of the record.
LEMMA RecordAppended ==
  ASSUME Shape, NEW op \in Ops, NEW s \in Scopes, ~erased, MarkTrue(op), MarkersTell(op),
         Undone(op), NEW g \in Gens, AppendUpTo(op, g, s, "done"), NEW n, n = SeqOf(op, s)
  PROVE  At(op, s, n)'
<1>1. log \in [Scopes -> Seq(Item)]
  BY DEF Shape, TypeOK
<1>2. CASE Appended(op, s)
  <2>1. n = mark[op][s].seq /\ log' = log
    BY <1>2 DEF SeqOf, AppendUpTo
  <2>2. At(op, s, n)
    BY <1>2, <2>1 DEF Appended, MarkTrue, Stands, At
  <2> QED  BY <2>1, <2>2 DEF At
<1>3. CASE ~Appended(op, s)
  <2>1. n = Len(log[s]) + 1 /\ ~InLog(op, s)
    BY <1>3 DEF SeqOf, MarkersTell
  <2> DEFINE item == [op |-> op, gen |-> g]
  <2>2. item \in Item /\ item.op = op
    BY DEF Item
  <2>3. log'[s] = Append(log[s], item)
    BY <1>1, <1>3 DEF AppendUpTo
  <2> HIDE DEF item
  <2> QED  BY <2>1, <2>2, <2>3, OwnAppend
<1> QED  BY <1>2, <1>3

\* In a transaction that appends the run is there, and so is its stream.
LEMMA AppendsOpened ==
  ASSUME IInv, NEW d \in Dispatchers, disp[d].pc \in Scopes
  PROVE  /\ disp[d].op \in Ops /\ disp[d].pc \in Scopes /\ Opening(disp[d].op)
         /\ Undone(disp[d].op) /\ ~erased /\ MarkTrue(disp[d].op) /\ MarkersTell(disp[d].op)
         /\ outbox[disp[d].op].gen \in Gens /\ ~Discarded(outbox[disp[d].op].gen)
<1>1. Shape /\ Opened(d)
  BY DEF IInv
<1>2. disp[d].op \in Ops
  BY <1>1, ShapeDisp, Sets DEF DispShape, HoldsItsOwn, Stages
<1>3. Undone(disp[d].op) /\ ~Discarded(outbox[disp[d].op].gen)
  BY <1>1 DEF Opened
<1>4. ~erased
  BY <1>1, <1>3 DEF Discarded, Exists, Shape, RowSound
<1>5. outbox[disp[d].op].gen \in Gens
  BY <1>1, <1>2, <1>3 DEF Undone, Shape, TypeOK, NoEnvelope
<1>6. MarkTrue(disp[d].op) /\ MarkersTell(disp[d].op)
  BY <1>2 DEF IInv
<1> QED  BY <1>2, <1>3, <1>4, <1>5, <1>6 DEF Opening

LEMMA StepMoves == ASSUME IInv, Next PROVE AllMove
<1>1. Shape /\ row \in Row /\ RowSound
  BY DEF IInv, Shape, TypeOK
<1>2. ASSUME NEW op \in Ops, Publish(op) \/ Register(op) PROVE AllMove
  BY <1>2, QuietMoves DEF Publish, Register
<1>3. ASSUME NEW d \in Dispatchers, NEW stage \in Stage, disp[d].pc \in Scopes,
             AppendUpTo(disp[d].op, outbox[disp[d].op].gen, disp[d].pc, stage)
      PROVE  AllMove
  BY <1>1, <1>3, AppendsOpened, AppendMoves
<1>4. ASSUME NEW d \in Dispatchers, Deliver(d) PROVE AllMove
  <2>1. ASSUME OpenMissing(d) \/ Open(d) \/ Commit(d) \/ Clean(d) PROVE AllMove
    BY <2>1, QuietMoves DEF OpenMissing, Open, Commit, Clean
  <2>2. CASE AppendRecord(d)
    BY <1>3, <2>2 DEF AppendRecord, Stage
  <2>3. CASE Expire(d)
    <3>1. disp[d].op \in Ops
      BY <1>1, <2>3, ShapeDisp DEF DispShape, HoldsItsOwn, Expire, Stages
    <3> QED  BY <1>1, <2>3, <3>1, TtlMoves DEF Expire
  <2> QED  BY <1>4, <2>1, <2>2, <2>3 DEF Deliver
<1>5. ASSUME NEW d \in Dispatchers, Fails(d) PROVE AllMove
  <2>1. ASSUME CommitFails(d) \/ Stop(d) PROVE AllMove
    BY <2>1, QuietMoves DEF CommitFails, Stop
  <2>2. CASE AppendFails(d)
    BY <1>3, <2>2, QuietMoves DEF AppendFails, Stage
  <2>3. CASE CleanupFails(d)
    <3>1. disp[d].op \in Ops
      BY <1>1, <2>3, ShapeDisp DEF DispShape, HoldsItsOwn, CleanupFails, Stages
    <3> QED  BY <1>1, <2>3, <3>1, TtlMoves, QuietMoves DEF CleanupFails
  <2> QED  BY <1>5, <2>1, <2>2, <2>3 DEF Fails
<1>6. ASSUME NEW h \in Helpers, List(h) \/ Drain(h) \/ EndFails(h) PROVE AllMove
  <2>1. AwaitsDelivery(row, disp[h].gen) => disp[h].gen \in Gens
    BY <1>1 DEF AwaitsDelivery, RowSound, Exists
  <2>2. ASSUME List(h) \/ Take(h) \/ Listed(h) PROVE AllMove
    BY <2>2, QuietMoves DEF List, Take, Listed
  <2>3. CASE DeliverEnd(h)
    BY <1>1, <2>1, <2>3, EndMoves, QuietMoves DEF DeliverEnd
  <2>4. CASE EndFails(h)
    BY <1>1, <2>1, <2>4, EndMoves DEF EndFails
  <2> QED  BY <1>6, <2>2, <2>3, <2>4 DEF Drain
<1>7. ASSUME NEW op \in Ops, NEW s \in Scopes, MarkerExpires(op, s) PROVE AllMove
  <2>1. /\ mark \in [Ops -> [Scopes -> Marker]]
        /\ mark' = [mark EXCEPT ![op] = [mark[op] EXCEPT ![s] = NoMarker]]
    BY <1>1, <1>7 DEF MarkerExpires, Shape, TypeOK
  <2>2. Expires(op, s)
    BY <1>7, <2>1 DEF MarkerExpires, Expires, SameLog, At, Calling, Undone
  <2>3. \A o \in Ops, x \in Scopes : o # op \/ x # s => Rests(o, x)
    BY <1>7, <2>1 DEF MarkerExpires, Rests, SameLog, SameMark, At
  <2> QED  BY <2>2, <2>3 DEF AllMove, Moves
<1>8. CASE RunStep
  BY <1>1, <1>8, RunShape, QuietMoves
<1>9. CASE EraseStream
  <2>1. log' = [log EXCEPT !["run"] = <<>>] /\ mark' = mark /\ erased' /\ log \in [Scopes -> Seq(Item)]
    BY <1>1, <1>9 DEF EraseStream, Shape, TypeOK
  <2>2. ASSUME NEW op \in Ops PROVE Erases(op, "run")
    BY <2>1, Sets DEF Erases, SameMark, At
  <2>3. ASSUME NEW op \in Ops, NEW s \in Scopes, s # "run" PROVE Rests(op, s)
    BY <2>1, <2>3 DEF Rests, SameLog, SameMark, At
  <2> QED  BY <2>2, <2>3 DEF AllMove, Moves
<1> QED  BY <1>2, <1>4, <1>5, <1>6, <1>7, <1>8, <1>9 DEF Next, RunStep

-----------------------------------------------------------------------------
(* What a step may do to the row, to an envelope, to a dispatcher and to   *)
(* an answer.                                                              *)

Past(g)   == g <= row.gen \/ ~Exists(row)
Closed(g) == Past(g) /\ (Discarded(g) \/ row.status = "terminal_pending")
Later(g)  ==
  /\ Past(g) => Past(g)' /\ (Discarded(g) => Discarded(g)')
  /\ Closed(g) => Closed(g)' /\ (AwaitsDelivery(row, g)' => AwaitsDelivery(row, g))
RowLater ==
  /\ \A g \in Gens : Later(g)
  /\ RunLocked => row' = row
  /\ erased => erased'

LEMMA StepRow == ASSUME IInv, Next PROVE RowLater
<1>1. Shape /\ row \in Row /\ RowSound
  BY DEF IInv, Shape, TypeOK
<1>2. ASSUME row' = row, erased' = erased \/ erased' PROVE RowLater
  BY <1>2 DEF RowLater, Later, Past, Closed, Discarded, Exists, AwaitsDelivery
<1>3. CASE RunStep
  <2>1. RowMoved /\ ~RunLocked /\ erased' = erased /\ row' \in Row
    BY <1>1, <1>3, RunShape DEF Shape, TypeOK
  <2>2. ASSUME NEW g \in Gens, Past(g) PROVE Later(g)
    <3>1. row.gen \in Nat /\ row'.gen \in Nat /\ g \in Nat
      BY <1>1, <2>1, Sets, MaxGenAssumption DEF Row
    <3>2. ~Exists(row) => ~Exists(row)'
      <4>1. RunStep /\ ~Exists(row) => FALSE
        BY <1>1, RunShape DEF RunStep, Claim, Finish, Cancel, Resume, Delete, Claimable,
             MayFinish, MayCancel, Exists
      <4> QED  BY <1>3, <4>1
    <3>3. CASE row'.gen = row.gen /\ row.status \in {"pending", "running"} /\ Exists(row)'
      BY <2>2, <3>1, <3>2, <3>3 DEF Later, Past, Closed, Discarded, AwaitsDelivery, Terminal, Exists
    <3>4. CASE row'.gen = row.gen + 1
      BY <2>2, <3>1, <3>2, <3>4 DEF Later, Past, Closed, Discarded, AwaitsDelivery, Exists
    <3>5. CASE ~Exists(row)'
      BY <3>5 DEF Later, Past, Closed, Discarded, AwaitsDelivery, Exists
    <3> QED  BY <2>1, <3>3, <3>4, <3>5 DEF RowMoved
  <2> QED  BY <2>1, <2>2 DEF RowLater, Later, Closed
<1>4. ASSUME NEW h \in Helpers, DeliverEnd(h) PROVE RowLater
  <2>1. CASE row' = row
    BY <1>2, <1>4, <2>1 DEF DeliverEnd
  <2>2. CASE row' # row
    <3>1. /\ row.status = "terminal_pending" /\ row' = Applied(row, row.result)
          /\ ~RunLocked /\ erased' = erased
      BY <1>4, <2>2 DEF DeliverEnd, AwaitsDelivery
    <3>2. row'.gen = row.gen /\ Exists(row) /\ row'.status \in Terminal
      BY <1>1, <3>1 DEF Applied, Row, Exists, RowSound
    <3>3. row.status \notin Terminal /\ row'.status # "terminal_pending"
      BY <3>1, <3>2 DEF Terminal
    <3> QED  BY <3>1, <3>2, <3>3 DEF RowLater, Later, Past, Closed, Discarded, AwaitsDelivery
  <2> QED  BY <2>1, <2>2
<1>5. ASSUME NEW op \in Ops, Publish(op) \/ Register(op) PROVE row' = row /\ erased' = erased
  BY <1>5 DEF Publish, Register
<1>6. ASSUME NEW d \in Dispatchers, Deliver(d) \/ Fails(d) PROVE row' = row /\ erased' = erased
  BY <1>6 DEF Deliver, Fails, OpenMissing, Open, AppendRecord, Commit, Expire, Clean,
       AppendFails, CommitFails, CleanupFails, Stop
<1>7. ASSUME NEW h \in Helpers, List(h) \/ Take(h) \/ Listed(h) \/ EndFails(h)
      PROVE  row' = row /\ erased' = erased
  BY <1>7 DEF List, Take, Listed, EndFails
<1>8. ASSUME EraseStream \/ \E op \in Ops, s \in Scopes : MarkerExpires(op, s)
      PROVE  row' = row /\ (erased' = erased \/ erased')
  BY <1>8 DEF EraseStream, MarkerExpires
<1> QED  BY <1>2, <1>3, <1>4, <1>5, <1>6, <1>7, <1>8 DEF Next, RunStep, Drain

\* An envelope is registered, saved, cleaned up, or stays as it is.
Registers(op) ==
  /\ outbox[op].kind = "absent" /\ disp[op].pc = "register" /\ Exists(row)
  /\ outbox'[op] = Envelope(row.gen) /\ row.gen = disp[op].gen /\ row.gen \in Gens
Saves(d, op) ==
  /\ disp[d].pc = "commit" /\ disp[d].op = op /\ disp'[d].pc \notin InTransaction
  /\ outbox'[op] = [outbox[op] EXCEPT !.records = disp[d].recs]
Cleans(d, op) ==
  /\ disp[d].pc = "clean" /\ disp[d].op = op /\ ~Locked(op) /\ mark' = mark
  /\ outbox'[op] = NoEnvelope /\ outbox[op].records # NoRecords
OutboxMoves(op) ==
  \/ outbox'[op] = outbox[op]
  \/ Registers(op)
  \/ \E d \in Dispatchers : Saves(d, op) \/ Cleans(d, op)

LEMMA StepOutbox == ASSUME IInv, Next PROVE \A op \in Ops : OutboxMoves(op)
<1>1. Shape /\ row \in Row /\ RowSound /\ outbox \in [Ops -> {NoEnvelope} \cup [kind : {"row"}, gen : Gens, records : Records]]
  BY DEF IInv, Shape, TypeOK
<1>2. ASSUME outbox' = outbox PROVE \A op \in Ops : OutboxMoves(op)
  BY <1>2 DEF OutboxMoves
<1>3. ASSUME NEW op \in Ops, Register(op) PROVE \A o \in Ops : OutboxMoves(o)
  <2>1. CASE outbox' = outbox
    BY <1>2, <2>1
  <2>2. CASE outbox' # outbox
    <3>1. /\ OwnsExecution(row, disp[op].gen, disp[op].owner) /\ disp[op].pc = "register"
          /\ outbox' = [outbox EXCEPT ![op] = Envelope(row.gen)] /\ outbox[op].kind # "row"
      BY <1>3, <2>2 DEF Register
    <3>2. Exists(row) /\ row.gen = disp[op].gen /\ row.gen \in Gens
      BY <1>1, <3>1 DEF OwnsExecution, Exists, RowSound
    <3>3. outbox[op].kind = "absent"
      BY <1>1, <3>1 DEF NoEnvelope
    <3> QED  BY <1>1, <3>1, <3>2, <3>3 DEF OutboxMoves, Registers
  <2> QED  BY <2>1, <2>2
<1>4. ASSUME NEW d \in Dispatchers, Commit(d) \/ CommitFails(d)
      PROVE  \A o \in Ops : OutboxMoves(o)
  <2>1. CASE outbox' = outbox
    BY <1>2, <2>1
  <2>2. CASE outbox' # outbox
    <3>1. disp[d].pc = "commit" /\ outbox' = Saved(d)
      BY <1>4, <2>2 DEF Commit, CommitFails
    <3>2. disp[d].op \in Ops /\ disp \in [Dispatchers -> Disp] /\ disp[d].pc \in Stages
      BY <1>1, <3>1, ShapeDisp DEF DispShape, HoldsItsOwn, Stages
    <3>3. disp'[d].pc \notin InTransaction
      <4>1. AfterEnvelope(d, TRUE).pc \notin Stages
        BY <1>1, <3>2, EndShape
      <4> QED  BY <1>4, <3>2, <4>1 DEF Commit, CommitFails, Goto, Move, Disp, InTransaction, Stages
    <3>4. Saves(d, disp[d].op)
      BY <1>1, <3>1, <3>2, <3>3 DEF Saves, Saved
    <3>5. \A o \in Ops : o # disp[d].op => outbox'[o] = outbox[o]
      BY <1>1, <3>1, <3>2 DEF Saved
    <3> QED  BY <3>2, <3>4, <3>5 DEF OutboxMoves
  <2> QED  BY <2>1, <2>2
<1>5. ASSUME NEW d \in Dispatchers, Clean(d) PROVE \A o \in Ops : OutboxMoves(o)
  <2>1. CASE outbox' = outbox
    BY <1>2, <2>1
  <2>2. CASE outbox' # outbox
    <3>1. /\ disp[d].pc = "clean" /\ outbox[disp[d].op].records # NoRecords /\ mark' = mark
          /\ ~Locked(disp[d].op) /\ outbox' = [outbox EXCEPT ![disp[d].op] = NoEnvelope]
      BY <1>5, <2>2 DEF Clean
    <3> QED  BY <1>1, <3>1 DEF OutboxMoves, Cleans
  <2> QED  BY <2>1, <2>2
<1>6. ASSUME NEW d \in Dispatchers,
             OpenMissing(d) \/ Open(d) \/ AppendRecord(d) \/ Expire(d)
               \/ AppendFails(d) \/ CleanupFails(d) \/ Stop(d)
      PROVE  outbox' = outbox
  BY <1>6 DEF OpenMissing, Open, AppendRecord, Expire, AppendFails, CleanupFails, Stop
<1>7. ASSUME NEW h \in Helpers, List(h) \/ Drain(h) \/ EndFails(h) PROVE outbox' = outbox
  BY <1>7 DEF List, Drain, Take, Listed, DeliverEnd, EndFails
<1>8. ASSUME NEW op \in Ops, Publish(op) \/ \E s \in Scopes : MarkerExpires(op, s)
      PROVE  outbox' = outbox
  BY <1>8 DEF Publish, MarkerExpires
<1>9. RunStep \/ EraseStream => outbox' = outbox
  BY <1>1, RunShape DEF EraseStream
<1> QED  BY <1>2, <1>3, <1>4, <1>5, <1>6, <1>7, <1>8, <1>9 DEF Next, RunStep, Deliver, Fails

\* A dispatcher stays, is not in a delivery, or makes one of the steps of one.
Holding == {"run", "thread", "commit", "expire", "clean"}
Leaves(d) == disp'[d].pc \notin Holding
Goes(d) == disp'[d].op = disp[d].op /\ disp'[d].recs = disp[d].recs
Steps(d) ==
  \/ Open(d) \/ AppendRecord(d)
  \/ disp[d].pc = "commit" /\ disp'[d].pc = "expire" /\ Goes(d)
  \/ Expire(d)
DispMoves(d) == disp'[d] = disp[d] \/ Leaves(d) \/ Steps(d)
CallMoves(op) ==
  IF Published(op)
  THEN Published(op)' /\ disp'[op].gen = disp[op].gen /\ (Calling(op)' => Calling(op))
  ELSE Published(op)' => disp'[op].gen = row.gen /\ row' = row /\ Exists(row)
AllDisp == (\A d \in Dispatchers : DispMoves(d)) /\ \A op \in Ops : CallMoves(op)

LEMMA MoveDisp ==
  ASSUME Shape, NEW d \in Dispatchers, NEW new, Move(d, new), DispMoves(d), d \in Ops => CallMoves(d)
  PROVE  AllDisp
<1>1. disp \in [Dispatchers -> Disp] /\ Ops \subseteq Dispatchers
  BY ShapeDisp DEF DispShape, Dispatchers
<1>2. ASSUME NEW e \in Dispatchers, e # d PROVE disp'[e] = disp[e]
  BY <1>1, <1>2 DEF Move
<1>3. \A e \in Dispatchers : DispMoves(e)
  BY <1>2 DEF DispMoves
<1>4. ASSUME NEW op \in Ops, op # d PROVE CallMoves(op)
  BY <1>1, <1>2, <1>4 DEF CallMoves, Published, Calling
<1> QED  BY <1>3, <1>4 DEF AllDisp

\* The step of a call under way.
LEMMA CallSteps ==
  ASSUME Shape, NEW d \in Dispatchers, NEW new, Move(d, new), disp[d].pc \in Stages \cup {"register"},
         DispMoves(d), d \in Ops => new.gen = disp[d].gen /\ new.pc # "idle"
  PROVE  AllDisp
<1>1. disp \in [Dispatchers -> Disp]
  BY ShapeDisp DEF DispShape
<1>2. disp'[d] = new /\ disp[d].pc \notin {"idle", "over"}
  BY <1>1 DEF Move, Stages
<1>3. d \in Ops => CallMoves(d)
  BY <1>2 DEF CallMoves, Published, Calling
<1> QED  BY <1>3, MoveDisp

LEMMA SameDispMoves == ASSUME disp' = disp PROVE AllDisp
BY DEF AllDisp, DispMoves, CallMoves, Published, Calling

LEMMA StepDisp == ASSUME IInv, Next PROVE AllDisp
<1>1. /\ Shape /\ row \in Row /\ RowSound /\ disp \in [Dispatchers -> Disp]
      /\ Ops \subseteq Dispatchers /\ Helpers \subseteq Dispatchers /\ Ops \cap Helpers = {}
  BY ShapeDisp, OpsAssumption DEF IInv, Shape, TypeOK, DispShape, Dispatchers
<1>2. Idle.pc = "idle"
  BY DEF Idle
<1>3. ASSUME NEW op \in Ops, Publish(op) PROVE AllDisp
  <2> DEFINE new == [Idle EXCEPT !.pc = "register", !.op = op, !.gen = row.gen, !.owner = row.owner]
  <2>1. new.pc = "register" /\ new.gen = row.gen
    BY DEF Idle
  <2>2. disp[op].pc = "idle" /\ row.status = "running" /\ row' = row /\ Move(op, new)
    BY <1>3 DEF Publish
  <2> HIDE DEF new
  <2>3. disp'[op] = new
    BY <1>1, <2>2 DEF Move
  <2>4. DispMoves(op) /\ CallMoves(op)
    BY <2>1, <2>2, <2>3 DEF DispMoves, Leaves, Holding, CallMoves, Published, Exists
  <2> QED  BY <1>1, <2>2, <2>4, MoveDisp
<1>4. ASSUME NEW op \in Ops, Register(op) PROVE AllDisp
  <2>1. ASSUME NEW pc \in {"open", "over"}, Goto(op, pc) PROVE AllDisp
    <3> DEFINE new == [disp[op] EXCEPT !.pc = pc]
    <3>1. Move(op, new) /\ new.pc = pc /\ new.gen = disp[op].gen
      BY <1>1, <2>1 DEF Goto, Disp
    <3> HIDE DEF new
    <3>2. DispMoves(op)
      BY <1>1, <3>1 DEF Move, DispMoves, Leaves, Holding
    <3> QED  BY <1>1, <1>4, <3>1, <3>2, CallSteps DEF Register
  <2> QED  BY <1>4, <2>1 DEF Register
<1>5. ASSUME NEW d \in Dispatchers, disp[d].pc \in Stages, NEW failed \in BOOLEAN,
             Move(d, AfterEnvelope(d, failed))
      PROVE  AllDisp
  <2>1. DispMoves(d)
    <3>1. AfterEnvelope(d, failed).pc \notin Stages
      BY <1>1, <1>5, EndShape
    <3> QED  BY <1>1, <1>5, <3>1 DEF Move, DispMoves, Leaves, Holding, Stages
  <2>2. d \in Ops => AfterEnvelope(d, failed).gen = disp[d].gen /\ AfterEnvelope(d, failed).pc # "idle"
    BY <1>1 DEF AfterEnvelope, Disp
  <2> QED  BY <1>1, <1>5, <2>1, <2>2, CallSteps
<1>6. ASSUME NEW d \in Dispatchers, NEW pc, Goto(d, pc), pc \in {"register", "open"} \/ DispMoves(d),
             pc # "idle", disp[d].pc \in Stages
      PROVE  AllDisp
  <2> DEFINE new == [disp[d] EXCEPT !.pc = pc]
  <2>1. Move(d, new) /\ new.pc = pc /\ new.gen = disp[d].gen
    BY <1>1, <1>6 DEF Goto, Disp
  <2> HIDE DEF new
  <2>2. DispMoves(d)
    BY <1>1, <1>6, <2>1 DEF Move, DispMoves, Leaves, Holding
  <2> QED  BY <1>1, <1>6, <2>1, <2>2, CallSteps
<1>7. ASSUME NEW d \in Dispatchers, Deliver(d) PROVE AllDisp
  <2>1. CASE OpenMissing(d)
    <3>1. disp[d].pc \in Stages /\ (Goto(d, "register") \/ Move(d, AfterEnvelope(d, FALSE)))
      BY <2>1 DEF OpenMissing, Stages, Goto
    <3> QED  BY <1>5, <1>6, <3>1
  <2>2. CASE Open(d)
    <3>1. DispMoves(d) /\ disp[d].pc \in Stages
      BY <2>2 DEF DispMoves, Steps, Open, Stages
    <3>2. PICK pc \in {"commit", "run"} : \E recs : Move(d, [disp[d] EXCEPT !.pc = pc, !.recs = recs])
      BY <2>2 DEF Open
    <3>3. PICK recs : Move(d, [disp[d] EXCEPT !.pc = pc, !.recs = recs])
      BY <3>2
    <3> DEFINE new == [disp[d] EXCEPT !.pc = pc, !.recs = recs]
    <3>4. new.gen = disp[d].gen /\ new.pc = pc
      BY <1>1 DEF Disp
    <3> QED  BY <1>1, <3>1, <3>3, <3>4, CallSteps
  <2>3. CASE AppendRecord(d)
    <3>1. DispMoves(d) /\ disp[d].pc \in Stages
      BY <2>3, Sets DEF DispMoves, Steps, AppendRecord, Stages
    <3>2. PICK pc \in {"thread", "commit"} : \E recs : Move(d, [disp[d] EXCEPT !.pc = pc, !.recs = recs])
      <4> DEFINE pcs == IF disp[d].pc = "run" THEN "thread" ELSE "commit"
                 rec == IF disp[d].pc = "run" THEN [NoRecords EXCEPT !.run = SeqOf(disp[d].op, disp[d].pc)]
                        ELSE Cursors(disp[d].recs.run, SeqOf(disp[d].op, disp[d].pc))
      <4>1. Move(d, [disp[d] EXCEPT !.pc = pcs, !.recs = rec])
        BY <2>3 DEF AppendRecord
      <4>2. pcs \in {"thread", "commit"}
        OBVIOUS
      <4> HIDE DEF pcs, rec
      <4> QED  BY <4>1, <4>2
    <3>3. PICK recs : Move(d, [disp[d] EXCEPT !.pc = pc, !.recs = recs])
      BY <3>2
    <3> DEFINE new == [disp[d] EXCEPT !.pc = pc, !.recs = recs]
    <3>4. new.gen = disp[d].gen /\ new.pc = pc
      BY <1>1 DEF Disp
    <3> QED  BY <1>1, <3>1, <3>3, <3>4, CallSteps
  <2>4. CASE Commit(d)
    <3>1. disp[d].pc = "commit" /\ Goto(d, "expire") /\ disp[d].pc \in Stages
      BY <2>4 DEF Commit, Stages
    <3>2. DispMoves(d)
      BY <1>1, <3>1 DEF Goto, Move, DispMoves, Steps, Goes, Disp
    <3> QED  BY <1>6, <3>1, <3>2
  <2>5. CASE Expire(d)
    <3>1. Goto(d, "clean") /\ disp[d].pc \in Stages /\ DispMoves(d)
      BY <2>5 DEF Expire, Stages, DispMoves, Steps
    <3> QED  BY <1>6, <3>1
  <2>6. CASE Clean(d)
    BY <1>5, <2>6 DEF Clean, Return, Stages
  <2> QED  BY <1>7, <2>1, <2>2, <2>3, <2>4, <2>5, <2>6 DEF Deliver
<1>8. ASSUME NEW d \in Dispatchers, Fails(d) PROVE AllDisp
  <2>1. CASE AppendFails(d)
    BY <1>5, <2>1, Sets DEF AppendFails, Stages
  <2>2. CASE CommitFails(d)
    BY <1>5, <1>6, <2>2 DEF CommitFails, Stages
  <2>3. CASE CleanupFails(d)
    BY <1>5, <2>3 DEF CleanupFails, Return, Stages
  <2>4. CASE Stop(d)
    <3> DEFINE new == IF d \in Ops THEN [disp[d] EXCEPT !.pc = "over"] ELSE Idle
    <3>1. Move(d, new) /\ new.pc \in {"idle", "over"} /\ disp[d].pc \notin {"idle", "over"}
          /\ (d \in Ops => new.pc = "over" /\ new.gen = disp[d].gen)
      BY <1>1, <1>2, <2>4 DEF Stop, Disp
    <3> HIDE DEF new
    <3>2. disp'[d] = new
      BY <1>1, <3>1 DEF Move
    <3>3. DispMoves(d) /\ (d \in Ops => CallMoves(d))
      BY <3>1, <3>2 DEF DispMoves, Leaves, Holding, CallMoves, Published, Calling
    <3> QED  BY <1>1, <3>1, <3>3, MoveDisp
  <2> QED  BY <1>8, <2>1, <2>2, <2>3, <2>4 DEF Fails
<1>9. ASSUME NEW h \in Helpers, NEW new, Move(h, new), new.pc \in {"idle", "next", "open", "end"}
      PROVE  AllDisp
  <2>1. DispMoves(h) /\ h \notin Ops /\ h \in Dispatchers
    BY <1>1, <1>9 DEF Move, DispMoves, Leaves, Holding
  <2> QED  BY <1>1, <1>9, <2>1, MoveDisp
<1>10. ASSUME NEW h \in Helpers, List(h) \/ Drain(h) \/ EndFails(h) PROVE AllDisp
  <2>1. CASE List(h)
    <3>1. /\ [Idle EXCEPT !.pc = "next", !.todo = Pending].pc = "next"
          /\ [Idle EXCEPT !.pc = "next", !.todo = Pending, !.gen = row.gen].pc = "next"
      BY DEF Idle
    <3> QED  BY <1>9, <2>1, <3>1 DEF List
  <2>2. CASE Take(h)
    <3>1. PICK op : Move(h, [disp[h] EXCEPT !.pc = "open", !.op = op, !.todo = @ \ {op}])
      BY <2>2 DEF Take
    <3> DEFINE new == [disp[h] EXCEPT !.pc = "open", !.op = op, !.todo = @ \ {op}]
    <3>2. new.pc = "open"
      BY <1>1 DEF Disp
    <3> HIDE DEF new
    <3>3. Move(h, new)
      BY <3>1 DEF new
    <3> QED  BY <1>9, <3>2, <3>3
  <2>3. CASE Listed(h)
    <3>1. [disp[h] EXCEPT !.pc = "end"].pc = "end"
      BY <1>1 DEF Disp
    <3> QED  BY <1>2, <1>9, <2>3, <3>1 DEF Listed
  <2>4. ASSUME DeliverEnd(h) \/ EndFails(h) PROVE AllDisp
    BY <1>2, <1>9, <2>4 DEF DeliverEnd, EndFails
  <2> QED  BY <1>10, <2>1, <2>2, <2>3, <2>4 DEF Drain
<1>11. ASSUME RunStep \/ EraseStream \/ \E op \in Ops, s \in Scopes : MarkerExpires(op, s)
       PROVE  AllDisp
  BY <1>1, <1>11, RunShape, SameDispMoves DEF EraseStream, MarkerExpires
<1> QED  BY <1>3, <1>4, <1>7, <1>8, <1>10, <1>11 DEF Next, RunStep

\* What is answered is what was saved.
LEMMA StepAnswer ==
  ASSUME IInv, Next, NEW op \in Ops
  PROVE  \/ answer'[op] = answer[op]
         \/ /\ disp[op].pc \in {"expire", "clean"} /\ disp[op].op = op
            /\ answer'[op] = disp[op].recs
<1>1. Shape /\ answer \in [Ops -> Records]
  BY DEF IInv, Shape, TypeOK
<1>2. ASSUME NEW d \in Dispatchers, Clean(d) \/ CleanupFails(d)
      PROVE  \/ answer'[op] = answer[op]
             \/ d = op /\ disp[op].pc \in {"expire", "clean"} /\ answer'[op] = disp[op].recs
  BY <1>1, <1>2 DEF Clean, CleanupFails, Return
<1>3. disp[op].pc \in {"expire", "clean"} => disp[op].op = op
  BY <1>1, ShapeDisp DEF DispShape, HoldsItsOwn, Dispatchers
<1>4. ASSUME NEW d \in Dispatchers,
             OpenMissing(d) \/ Open(d) \/ AppendRecord(d) \/ Commit(d) \/ Expire(d)
               \/ AppendFails(d) \/ CommitFails(d) \/ Stop(d)
      PROVE  answer' = answer
  BY <1>4 DEF OpenMissing, Open, AppendRecord, Commit, Expire, AppendFails, CommitFails, Stop
<1>5. ASSUME NEW h \in Helpers, List(h) \/ Drain(h) \/ EndFails(h) PROVE answer' = answer
  BY <1>5 DEF List, Drain, Take, Listed, DeliverEnd, EndFails
<1>6. ASSUME NEW o \in Ops, Publish(o) \/ Register(o) \/ \E s \in Scopes : MarkerExpires(o, s)
      PROVE  answer' = answer
  BY <1>6 DEF Publish, Register, MarkerExpires
<1>7. RunStep \/ EraseStream => answer' = answer
  BY <1>1, RunShape DEF EraseStream
<1> QED  BY <1>2, <1>3, <1>4, <1>5, <1>6, <1>7 DEF Next, RunStep, Deliver, Fails

LEMMA NextShape == ASSUME IInv, Next PROVE Shape'
<1>1. Shape /\ \A d \in Dispatchers : Opened(d)
  BY DEF IInv
<1> QED  BY <1>1, PublishShape, DeliverShape, FailsShape, HelperShape, RunShape, TimeShape
         DEF Next, RunStep, Dispatchers

-----------------------------------------------------------------------------
(* What was established stays so.                                          *)

\* A stream gets the record of an operation while its run is under way.
LEMMA WhileOpening ==
  ASSUME IInv, NEW op \in Ops, Opening(op)
  PROVE  /\ Undone(op) /\ Locked(op) /\ ~erased /\ Published(op)
         /\ ~Discarded(disp[op].gen)
<1>1. PICK d \in Dispatchers : disp[d].pc \in Scopes /\ disp[d].op = op
  BY DEF Opening
<1>2. Undone(op) /\ ~erased /\ ~Discarded(outbox[op].gen)
  BY <1>1, AppendsOpened
<1>3. outbox[op].gen = disp[op].gen /\ Published(op)
  BY <1>2 DEF IInv, Known, MarkersTell, Traceless, Undone, NoEnvelope
<1>4. Locked(op)
  BY <1>1, Sets DEF Locked, InTransaction
<1> QED  BY <1>2, <1>3, <1>4

LEMMA StandsStable ==
  ASSUME IInv, Next, NEW op \in Ops, NEW s \in Scopes, NEW n, Stands(op, s, n)
  PROVE  Stands(op, s, n)'
<1>1. Moves(op, s) /\ (erased => erased')
  BY StepMoves, StepRow DEF AllMove, RowLater
<1>2. CASE erased /\ s = "run"
  BY <1>1, <1>2 DEF Stands
<1>3. CASE At(op, s, n)
  <2>1. ~Enters(op, s)
    BY <1>3 DEF Enters, InLog, At
  <2>2. SameLog(op, s) => At(op, s, n)'
    BY <1>3 DEF SameLog
  <2>3. Erases(op, s) => erased' /\ s = "run"
    BY DEF Erases
  <2> QED  BY <1>1, <2>1, <2>2, <2>3 DEF Moves, Rests, Expires, Confirms, Stands
<1> QED  BY <1>2, <1>3 DEF Stands

LEMMA DiscardedStable ==
  ASSUME IInv, Next, NEW op \in Ops, Published(op)
  PROVE  /\ disp'[op].gen = disp[op].gen /\ Published(op)'
         /\ Past(disp[op].gen) /\ Past(disp[op].gen)'
         /\ Discarded(disp[op].gen) => Discarded(disp[op].gen)'
<1>1. disp'[op].gen = disp[op].gen /\ Published(op)'
  BY StepDisp DEF AllDisp, CallMoves
<1>2. disp[op].gen \in Gens
  <2>1. op \in Dispatchers /\ HoldsItsOwn(op)
    BY DEF IInv, Shape, Dispatchers
  <2> QED  BY <2>1 DEF HoldsItsOwn, Published
<1>3. Past(disp[op].gen)
  BY DEF IInv, Known, Past
<1>4. ASSUME NEW g \in Gens, g = disp[op].gen
      PROVE  Past(g)' /\ (Discarded(g) => Discarded(g)')
  BY <1>3, <1>4, StepRow DEF RowLater, Later
<1>5. PICK g \in Gens : g = disp[op].gen /\ g = disp'[op].gen
  BY <1>1, <1>2
<1>6. (Past(g)' => Past(disp[op].gen)') /\ (Discarded(g)' => Discarded(disp[op].gen)')
  BY <1>5
<1> QED  BY <1>1, <1>3, <1>4, <1>5, <1>6

LEMMA DeliveredStable ==
  ASSUME IInv, Next, NEW op \in Ops, NEW recs, Published(op), Delivered(op, recs)
  PROVE  Delivered(op, recs)'
<1>1. TruePair(op, recs) => TruePair(op, recs)'
  BY StandsStable, Sets DEF TruePair
<1>2. Discarded(disp[op].gen) => Discarded(disp[op].gen)'
  BY DiscardedStable
<1> QED  BY <1>1, <1>2 DEF Delivered

LEMMA NextMarkTrue ==
  ASSUME IInv, Next, NEW op \in Ops
  PROVE  MarkTrue(op)'
<1>1. SUFFICES ASSUME NEW s \in Scopes, mark'[op][s].done
               PROVE  Stands(op, s, mark[op][s].seq)'
  BY DEF MarkTrue
<1>2. Moves(op, s)
  BY StepMoves DEF AllMove
<1>3. ASSUME NEW n, n = mark'[op][s].seq, Stands(op, s, n)' PROVE Stands(op, s, mark[op][s].seq)'
  BY <1>3
<1>4. CASE Rests(op, s)
  <2>1. mark[op][s].done /\ mark'[op][s].seq = mark[op][s].seq
    BY <1>1, <1>4 DEF Rests, SameMark
  <2>2. Stands(op, s, mark[op][s].seq)
    BY <2>1 DEF IInv, MarkTrue
  <2>3. \A n : n = mark[op][s].seq => Stands(op, s, n)'
    BY <2>2, StandsStable
  <2> QED  BY <1>3, <2>1, <2>3
<1>5. CASE Expires(op, s)
  BY <1>1, <1>5 DEF Expires, NoMarker
<1>6. CASE Confirms(op, s)
  <2>1. \A n : n = mark[op][s].seq => Stands(op, s, n)'
    BY <1>6, StandsStable DEF Confirms, Stands
  <2> QED  BY <1>3, <1>6, <2>1 DEF Confirms
<1>7. CASE Enters(op, s)
  BY <1>1, <1>7 DEF Enters, Stands
<1>8. CASE Erases(op, s)
  BY <1>8 DEF Erases, Stands
<1> QED  BY <1>2, <1>4, <1>5, <1>6, <1>7, <1>8 DEF Moves

\* An envelope that someone is delivering keeps its place.
LEMMA RowKept ==
  ASSUME IInv, Next, NEW op \in Ops, Locked(op), outbox[op].kind = "row"
  PROVE  outbox'[op].kind = "row"
<1>1. OutboxMoves(op)
  BY StepOutbox
<1>2. outbox[op] \in [kind : {"row"}, gen : Gens, records : Records]
  BY DEF IInv, Shape, TypeOK, NoEnvelope
<1> QED  BY <1>1, <1>2 DEF OutboxMoves, Registers, Saves, Cleans

LEMMA NextMarkersCleaned ==
  ASSUME IInv, Next
  PROVE  MarkersCleaned'
<1>1. SUFFICES ASSUME NEW op \in Ops, NEW s \in Scopes, mark'[op][s].seq # 0, ~mark'[op][s].ttl
               PROVE  outbox'[op].kind = "row"
  BY DEF MarkersCleaned
<1>2. Moves(op, s)
  BY StepMoves DEF AllMove
<1>3. CASE Opening(op)
  BY <1>3, WhileOpening, RowKept DEF Undone
<1>4. CASE SameMark(op, s)
  <2>1. mark[op][s].seq # 0 /\ ~mark[op][s].ttl
    BY <1>1, <1>4 DEF SameMark
  <2>2. outbox[op].kind = "row"
    BY <2>1 DEF IInv, MarkersCleaned
  <2>3. outbox[op] \in [kind : {"row"}, gen : Gens, records : Records]
    BY <2>2 DEF IInv, Shape, TypeOK, NoEnvelope
  <2>4. ~\E d \in Dispatchers : Cleans(d, op)
    BY <2>1 DEF IInv, Expiring, Cleans
  <2> QED  BY <2>2, <2>3, <2>4, StepOutbox DEF OutboxMoves, Registers, Saves
<1>5. ~Expires(op, s)
  BY <1>1 DEF Expires, NoMarker
<1> QED  BY <1>2, <1>3, <1>4, <1>5 DEF Moves, Rests, Confirms, Enters, Erases

LEMMA NextOnce ==
  ASSUME IInv, Next
  PROVE  OncePerStream'
<1>1. SUFFICES ASSUME NEW s \in Scopes, NEW i \in DOMAIN log'[s], NEW j \in DOMAIN log'[s],
                      log'[s][i].op \in Ops, log'[s][i].op = log'[s][j].op
               PROVE  i = j
  BY DEF OncePerStream
<1>2. PICK op \in Ops : op = log'[s][i].op
  BY <1>1
<1>3. At(op, s, i)' /\ At(op, s, j)'
  BY <1>1, <1>2 DEF At
<1>4. Moves(op, s)
  BY StepMoves DEF AllMove
<1>5. CASE SameLog(op, s)
  <2>1. At(op, s, i) /\ At(op, s, j)
    BY <1>3, <1>5 DEF SameLog
  <2> QED  BY <2>1 DEF IInv, OncePerStream, At
<1>6. CASE Enters(op, s)
  BY <1>3, <1>6 DEF Enters
<1>7. ~Erases(op, s)
  BY <1>3 DEF Erases
<1> QED  BY <1>4, <1>5, <1>6, <1>7 DEF Moves, Rests, Expires, Confirms

\* What is saved was appended, or the run is over.
LEMMA SavesDelivered ==
  ASSUME IInv, NEW op \in Ops, NEW d \in Dispatchers, Saves(d, op)
  PROVE  /\ Published(op) /\ Delivered(op, disp[d].recs) /\ disp[d].recs # NoRecords
         /\ outbox[op].kind = "row" /\ outbox'[op].kind = "row"
         /\ outbox'[op].records = disp[d].recs /\ outbox'[op].gen = outbox[op].gen
<1>1. Published(op) /\ Delivered(op, disp[d].recs)
  BY DEF IInv, Decided, Saves
<1>2. disp[d].recs # NoRecords
  BY <1>1 DEF Delivered, TruePair, Dropped, NoRecords
<1>3. outbox[op].kind = "row"
  BY DEF IInv, Opened, Saves, InTransaction
<1>4. outbox[op] \in [kind : {"row"}, gen : Gens, records : Records]
  BY <1>3 DEF IInv, Shape, TypeOK, NoEnvelope
<1> QED  BY <1>1, <1>2, <1>3, <1>4 DEF Saves

LEMMA NextMarkersTell ==
  ASSUME IInv, Next, NEW op \in Ops
  PROVE  MarkersTell(op)'
<1>1. /\ MarkersTell(op) /\ OutboxMoves(op) /\ CallMoves(op)
      /\ \A s \in Scopes : Moves(op, s)
  BY StepMoves, StepOutbox, StepDisp DEF IInv, AllMove, AllDisp
<1>2. ASSUME Traceless(op), NEW s \in Scopes
      PROVE  mark'[op][s].seq = 0 /\ ~InLog(op, s)'
  <2>1. ~Opening(op)
    BY <1>2, WhileOpening DEF Traceless, Undone, NoEnvelope
  <2>2. mark[op][s].seq = 0 /\ \A n : ~At(op, s, n)
    BY <1>2 DEF Traceless, InLog, At
  <2>3. mark'[op][s].seq = 0 /\ \A n : ~At(op, s, n)'
    BY <1>1, <2>1, <2>2 DEF Moves, Rests, Expires, Confirms, Enters, Erases, SameMark, SameLog, NoMarker
  <2> QED  BY <2>3 DEF InLog, At
<1>3. ASSUME ~Published(op)' PROVE Traceless(op)'
  <2>1. ~Published(op) /\ Traceless(op) /\ disp[op].pc = "idle"
    BY <1>1, <1>3 DEF CallMoves, MarkersTell, Published
  <2>2. outbox'[op] = outbox[op]
    <3>1. ~Registers(op)
      BY <2>1 DEF Registers
    <3>2. ~\E d \in Dispatchers : Saves(d, op) \/ Cleans(d, op)
      BY <2>1 DEF IInv, Decided, Saves, Cleans
    <3> QED  BY <1>1, <3>1, <3>2 DEF OutboxMoves
  <2> QED  BY <1>2, <2>1, <2>2 DEF Traceless
<1>4. ASSUME Calling(op)' \/ Undone(op)' PROVE Calling(op) \/ Undone(op) \/ Traceless(op)
  <2>1. CASE Calling(op)'
    BY <1>1, <2>1 DEF CallMoves, MarkersTell
  <2>2. CASE Undone(op)'
    <3>1. CASE outbox'[op] = outbox[op]
      BY <2>2, <3>1 DEF Undone
    <3>2. CASE Registers(op)
      BY <3>2 DEF Registers, Calling
    <3>3. \A d \in Dispatchers : ~Saves(d, op)
      BY <2>2, SavesDelivered DEF Undone
    <3>4. \A d \in Dispatchers : ~Cleans(d, op)
      BY <2>2 DEF Cleans, Undone, NoEnvelope
    <3> QED  BY <1>1, <3>1, <3>2, <3>3, <3>4 DEF OutboxMoves
  <2> QED  BY <1>4, <2>1, <2>2
<1>5. ASSUME Calling(op)' \/ Undone(op)', NEW s \in Scopes, InLog(op, s)'
      PROVE  Appended(op, s)'
  <2>1. CASE Traceless(op)
    BY <1>2, <1>5, <2>1
  <2>2. CASE Calling(op) \/ Undone(op)
    <3>1. PICK n : At(op, s, n)'
      BY <1>5 DEF InLog, At
    <3>2. CASE Rests(op, s)
      <4>1. At(op, s, n)
        BY <3>1, <3>2 DEF Rests, SameLog
      <4>2. mark[op][s].seq # 0 /\ (mark[op][s].done \/ At(op, s, mark[op][s].seq))
        BY <1>1, <2>2, <4>1 DEF MarkersTell, InLog, At, Appended
      <4>3. PICK k : k = mark[op][s].seq /\ k = mark'[op][s].seq
        BY <3>2 DEF Rests, SameMark
      <4>4. mark'[op][s].done \/ At(op, s, k)'
        BY <3>2, <4>2, <4>3 DEF Rests, SameMark, SameLog
      <4> QED  BY <4>2, <4>3, <4>4 DEF Appended, At
    <3>3. CASE Expires(op, s)
      BY <1>5, <2>2, <3>3 DEF Expires, Calling, Undone
    <3>4. CASE Confirms(op, s)
      BY <3>4 DEF Confirms, Appended
    <3>5. CASE Enters(op, s)
      BY <3>1, <3>5 DEF Enters, Appended, At
    <3>6. CASE Erases(op, s)
      BY <3>1, <3>6 DEF Erases
    <3> QED  BY <1>1, <3>2, <3>3, <3>4, <3>5, <3>6 DEF Moves
  <2> QED  BY <1>4, <1>5, <2>1, <2>2
<1> QED  BY <1>3, <1>5 DEF MarkersTell

LEMMA NextKnown ==
  ASSUME IInv, Next, NEW op \in Ops
  PROVE  Known(op)'
<1>1. /\ Known(op) /\ MarkersTell(op) /\ OutboxMoves(op) /\ CallMoves(op)
      /\ row.gen \in Nat
  <2>1. row \in Row /\ row.gen \in Nat
    BY MaxGenAssumption DEF IInv, Shape, TypeOK, Row
  <2> QED  BY <2>1, StepOutbox, StepDisp DEF IInv, AllDisp
<1>2. ASSUME Published(op)' PROVE disp'[op].gen <= row'.gen \/ ~Exists(row)'
  <2>1. CASE Published(op)
    BY <2>1, DiscardedStable DEF Past
  <2>2. CASE ~Published(op)
    <3>1. disp'[op].gen = row.gen /\ row' = row
      BY <1>1, <1>2, <2>2 DEF CallMoves
    <3> QED  BY <1>1, <3>1
  <2> QED  BY <2>1, <2>2
<1>3. ASSUME outbox'[op].kind = "row" PROVE outbox'[op].gen = disp'[op].gen
  <2>1. CASE outbox'[op] = outbox[op]
    <3>1. Published(op)
      BY <1>1, <1>3, <2>1 DEF MarkersTell, Traceless, NoEnvelope
    <3> QED  BY <1>1, <1>3, <2>1, <3>1 DEF Known, CallMoves
  <2>2. CASE Registers(op)
    <3>1. Published(op) /\ outbox'[op].gen = disp[op].gen
      BY <2>2 DEF Registers, Published, Envelope
    <3> QED  BY <1>1, <3>1 DEF CallMoves
  <2>3. ASSUME NEW d \in Dispatchers, Saves(d, op) PROVE outbox'[op].gen = disp'[op].gen
    BY <1>1, <2>3, SavesDelivered DEF Known, CallMoves
  <2>4. \A d \in Dispatchers : ~Cleans(d, op)
    BY <1>3 DEF Cleans, NoEnvelope
  <2> QED  BY <1>1, <2>1, <2>2, <2>3, <2>4 DEF OutboxMoves
<1> QED  BY <1>2, <1>3 DEF Known

LEMMA NextRecorded ==
  ASSUME IInv, Next, NEW op \in Ops
  PROVE  Recorded(op)'
<1>1. Recorded(op) /\ OutboxMoves(op)
  BY StepOutbox DEF IInv
<1>2. SUFFICES ASSUME outbox'[op].kind = "row", ~Undone(op)' PROVE Delivered(op, outbox[op].records)'
  BY DEF Recorded
<1>3. ASSUME NEW recs, recs = outbox'[op].records, Delivered(op, recs)'
      PROVE  Delivered(op, outbox[op].records)'
  BY <1>3
<1>4. CASE outbox'[op] = outbox[op]
  <2>1. outbox[op].kind = "row" /\ ~Undone(op)
    BY <1>2, <1>4 DEF Undone
  <2>2. Published(op) /\ Delivered(op, outbox[op].records)
    BY <1>1, <2>1 DEF Recorded, IInv, MarkersTell, Traceless, NoEnvelope
  <2>3. \A recs : recs = outbox[op].records => Delivered(op, recs)'
    BY <2>2, DeliveredStable
  <2> QED  BY <1>3, <1>4, <2>3
<1>5. ~Registers(op)
  BY <1>2 DEF Registers, Undone, Envelope
<1>6. ASSUME NEW d \in Dispatchers, Saves(d, op) PROVE Delivered(op, outbox[op].records)'
  <2>1. \A recs : recs = disp[d].recs => Delivered(op, recs)'
    BY <1>6, SavesDelivered, DeliveredStable
  <2> QED  BY <1>3, <1>6, <2>1, SavesDelivered
<1>7. \A d \in Dispatchers : ~Cleans(d, op)
  BY <1>2 DEF Cleans, NoEnvelope
<1> QED  BY <1>1, <1>4, <1>5, <1>6, <1>7 DEF OutboxMoves

LEMMA NextAnswered ==
  ASSUME IInv, Next, NEW op \in Ops
  PROVE  Answered(op)'
<1>1. SUFFICES ASSUME answer'[op].kind = "pair" PROVE TruePair(op, answer[op])'
  BY DEF Answered
<1>2. ASSUME NEW recs, recs = answer'[op], TruePair(op, recs) PROVE TruePair(op, answer[op])'
  <2>1. TruePair(op, recs)'
    BY <1>2, StandsStable, Sets DEF TruePair
  <2> QED  BY <1>2, <2>1
<1>3. CASE answer'[op] = answer[op]
  BY <1>1, <1>2, <1>3 DEF IInv, Answered
<1>4. CASE disp[op].pc \in {"expire", "clean"} /\ disp[op].op = op /\ answer'[op] = disp[op].recs
  <2>1. Delivered(op, disp[op].recs)
    BY <1>4 DEF IInv, Decided, Dispatchers
  <2>2. TruePair(op, disp[op].recs)
    BY <1>1, <1>4, <2>1 DEF Delivered, Dropped
  <2> QED  BY <1>2, <1>4, <2>2
<1> QED  BY <1>3, <1>4, StepAnswer

\* The transaction of a dispatcher is not disturbed by another.
LEMMA LockedKept ==
  ASSUME IInv, Next, NEW d \in Dispatchers, InTx(d), InTx(d)', NEW op \in Ops, op = disp[d].op
  PROVE  outbox'[op] = outbox[op] /\ row' = row
<1>1. outbox[op].kind = "row"
  BY DEF IInv, Opened, InTx
<1>2. Locked(op) /\ RunLocked
  BY DEF Locked, RunLocked, InTx
<1>3. ~\E e \in Dispatchers : Saves(e, op)
  <2>1. SUFFICES ASSUME NEW e \in Dispatchers, Saves(e, op) PROVE FALSE
    OBVIOUS
  <2>2. InTx(e) /\ ~InTx(e)'
    BY <2>1 DEF Saves, InTx, InTransaction
  <2>3. e = d
    BY <2>2 DEF IInv, Shape, OneTransaction
  <2> QED  BY <2>2, <2>3
<1>4. ~Registers(op) /\ ~\E e \in Dispatchers : Cleans(e, op)
  BY <1>1, <1>2 DEF Registers, Cleans
<1> QED  BY <1>2, <1>3, <1>4, StepOutbox, StepRow DEF OutboxMoves, RowLater

LEMMA NextOpened ==
  ASSUME IInv, Next, NEW d \in Dispatchers
  PROVE  Opened(d)'
<1>1. /\ DispMoves(d) /\ Opened(d) /\ disp \in [Dispatchers -> Disp]
      /\ \A s : s \in Scopes => s \in InTransaction
  BY StepDisp, ShapeDisp, Sets DEF IInv, AllDisp, DispShape, InTransaction
<1>2. SUFFICES ASSUME InTx(d)' PROVE Opened(d)'
  BY <1>1 DEF Opened, InTx, Scopes, InTransaction
<1>3. CASE disp'[d] = disp[d]
  <2>1. InTx(d) /\ disp[d].op \in Ops
    BY <1>2, <1>3, ShapeDisp DEF InTx, IInv, DispShape, HoldsItsOwn, InTransaction, Stages
  <2>2. PICK op \in Ops : op = disp[d].op /\ op = disp'[d].op
    BY <1>3, <2>1
  <2>3. outbox'[op] = outbox[op] /\ row' = row
    BY <1>2, <2>1, <2>2, LockedKept
  <2> QED  BY <1>1, <1>3, <2>2, <2>3 DEF Opened, Undone, Discarded, Exists
<1>4. CASE Open(d)
  <2>1. outbox' = outbox /\ row' = row
    BY <1>4 DEF Open
  <2>2. disp'[d].op = disp[d].op /\ outbox[disp[d].op].kind = "row"
    BY <1>1, <1>4 DEF Open, Move, Disp
  <2>3. disp'[d].pc \in Scopes => Undone(disp[d].op) /\ ~Discarded(outbox[disp[d].op].gen)
    BY <1>1, <1>4 DEF Open, Move, Disp, Undone, Scopes
  <2> QED  BY <2>1, <2>2, <2>3 DEF Opened, Undone, Discarded, Exists
<1>5. CASE AppendRecord(d)
  <2>1. outbox' = outbox /\ row' = row /\ disp[d].pc \in Scopes
    BY <1>5 DEF AppendRecord
  <2>2. disp'[d].op = disp[d].op
    BY <1>1, <1>5 DEF AppendRecord, Move, Disp
  <2>3. Undone(disp[d].op) /\ ~Discarded(outbox[disp[d].op].gen)
    BY <1>1, <2>1 DEF Opened
  <2> QED  BY <2>1, <2>2, <2>3 DEF Opened, Undone, Discarded, Exists
<1>6. Leaves(d) => FALSE
  BY <1>2 DEF Leaves, Holding, InTx, InTransaction
<1>7. disp'[d].pc # "expire" /\ ~Expire(d)
  <2>1. Expire(d) => disp'[d].pc = "clean"
    BY <1>1 DEF Expire, Goto, Move, Disp
  <2> QED  BY <1>2, <2>1 DEF InTx, InTransaction
<1> QED  BY <1>1, <1>3, <1>4, <1>5, <1>6, <1>7 DEF DispMoves, Steps

LEMMA NextDecided ==
  ASSUME IInv, Next, NEW d \in Dispatchers
  PROVE  Decided(d)'
<1>1. /\ DispMoves(d) /\ Decided(d) /\ disp \in [Dispatchers -> Disp] /\ HoldsItsOwn(d)
      /\ Shape
  BY StepDisp, ShapeDisp DEF IInv, AllDisp, DispShape
<1>2. disp[d].pc \in Stages => disp[d].op \in Ops
  BY <1>1 DEF HoldsItsOwn
<1>3. ASSUME NEW op \in Ops, NEW recs, Published(op), Delivered(op, recs),
             disp'[d].op = op, disp'[d].recs = recs, disp'[d].pc # "thread"
      PROVE  Decided(d)'
  <2>1. Delivered(op, recs)' /\ Published(op)'
    BY <1>3, DeliveredStable, DiscardedStable
  <2> QED  BY <1>3, <2>1 DEF Decided
<1>4. CASE disp'[d] = disp[d]
  <2>1. CASE disp[d].pc = "thread"
    <3>1. PICK op, n : op \in Ops /\ op = disp[d].op /\ n = disp[d].recs.run
      BY <1>2, <2>1 DEF Stages
    <3>2. Stands(op, "run", n)'
      BY <1>1, <2>1, <3>1, StandsStable, Sets DEF Decided
    <3> QED  BY <1>4, <2>1, <3>1, <3>2 DEF Decided
  <2>2. CASE disp[d].pc \in {"commit", "expire", "clean"}
    <3>1. PICK op, recs : op \in Ops /\ op = disp[d].op /\ recs = disp[d].recs
      BY <1>2, <2>2 DEF Stages
    <3> QED  BY <1>1, <1>3, <1>4, <2>2, <3>1 DEF Decided
  <2> QED  BY <1>4, <2>1, <2>2 DEF Decided
<1>5. CASE Leaves(d)
  BY <1>5 DEF Leaves, Holding, Decided
<1>6. CASE Open(d)
  <2>1. PICK op \in Ops : op = disp[d].op
    BY <1>2, <1>6 DEF Open, Stages
  <2>2. outbox[op].kind = "row" /\ Published(op) /\ outbox[op].gen = disp[op].gen /\ Recorded(op)
    BY <1>6, <2>1 DEF Open, IInv, Known, MarkersTell, Traceless, NoEnvelope
  <2>3. \/ disp'[d].pc = "run"
        \/ /\ disp'[d].pc = "commit" /\ disp'[d].op = op
           /\ \/ disp'[d].recs = Dropped /\ Discarded(outbox[op].gen)
              \/ disp'[d].recs = outbox[op].records /\ outbox[op].records # NoRecords
    BY <1>1, <1>6, <2>1 DEF Open, Move, Disp
  <2>4. disp'[d].pc = "commit" => Delivered(op, disp'[d].recs)
    BY <2>2, <2>3 DEF Delivered, Recorded, Undone
  <2>5. PICK recs : recs = disp'[d].recs
    OBVIOUS
  <2>6. CASE disp'[d].pc = "run"
    BY <2>6 DEF Decided
  <2> QED  BY <1>3, <2>2, <2>3, <2>4, <2>5, <2>6
<1>7. CASE AppendRecord(d)
  <2>1. PICK op \in Ops, s \in Scopes : op = disp[d].op /\ s = disp[d].pc
    BY <1>7, AppendsOpened DEF AppendRecord
  <2>2. PICK n, g : n = SeqOf(op, s) /\ g \in Gens /\ g = outbox[op].gen
    BY <1>7, <2>1, AppendsOpened DEF AppendRecord
  <2>3. Stands(op, s, n)'
    <3>1. AppendUpTo(op, g, s, "done")
      BY <1>7, <2>1, <2>2 DEF AppendRecord
    <3>2. At(op, s, n)'
      BY <1>1, <1>7, <2>1, <2>2, <3>1, AppendsOpened, RecordAppended DEF AppendRecord
    <3> QED  BY <3>2 DEF Stands
  <2>4. Published(op)'
    BY <2>1, DiscardedStable, WhileOpening, AppendsOpened
  <2>5. CASE s = "run"
    <3>1. disp'[d] = [disp[d] EXCEPT !.pc = "thread", !.recs = [NoRecords EXCEPT !.run = n]]
      BY <1>1, <1>7, <2>1, <2>2, <2>5 DEF AppendRecord, Move
    <3>2. disp'[d].pc = "thread" /\ disp'[d].op = op /\ disp'[d].recs.run = n
      BY <1>1, <2>1, <3>1 DEF Disp, NoRecords
    <3> QED  BY <2>3, <2>5, <3>2 DEF Decided
  <2>6. CASE s = "thread"
    <3>1. PICK k : k = disp[d].recs.run
      OBVIOUS
    <3>2. disp'[d] = [disp[d] EXCEPT !.pc = "commit", !.recs = Cursors(k, n)]
      BY <1>1, <1>7, <2>1, <2>2, <2>6, <3>1 DEF AppendRecord, Move
    <3>3. disp'[d].pc = "commit" /\ disp'[d].op = op /\ disp'[d].recs = Cursors(k, n)
      BY <1>1, <2>1, <3>2 DEF Disp
    <3>4. Stands(op, "run", k)'
      BY <1>1, <2>1, <2>6, <3>1, StandsStable, Sets DEF Decided
    <3>5. Delivered(op, Cursors(k, n))'
      BY <2>3, <2>6, <3>4 DEF Delivered, TruePair, Cursors
    <3> QED  BY <2>4, <3>3, <3>5 DEF Decided
  <2> QED  BY <2>1, <2>5, <2>6, Sets
<1>8. ASSUME disp[d].pc \in {"commit", "expire"}, Goes(d), disp'[d].pc # "thread" PROVE Decided(d)'
  <2>1. PICK op, recs : op \in Ops /\ op = disp[d].op /\ recs = disp[d].recs
    BY <1>2, <1>8 DEF Stages
  <2> QED  BY <1>1, <1>3, <1>8, <2>1 DEF Decided, Goes
<1>9. CASE Expire(d)
  <2>1. disp[d].pc = "expire" /\ Goes(d) /\ disp'[d].pc = "clean"
    BY <1>1, <1>9 DEF Expire, Goto, Move, Goes, Disp
  <2> QED  BY <1>8, <2>1
<1> QED  BY <1>1, <1>4, <1>5, <1>6, <1>7, <1>8, <1>9 DEF DispMoves, Steps

LEMMA NextExpiring ==
  ASSUME IInv, Next, NEW d \in Dispatchers
  PROVE  Expiring(d)'
<1>1. /\ DispMoves(d) /\ Decided(d) /\ Expiring(d) /\ disp \in [Dispatchers -> Disp]
      /\ HoldsItsOwn(d) /\ mark \in [Ops -> [Scopes -> Marker]]
  BY StepDisp, ShapeDisp DEF IInv, AllDisp, DispShape, Shape, TypeOK
<1>2. SUFFICES ASSUME disp'[d].pc = "clean" PROVE Expiring(d)'
  BY DEF Expiring
<1>3. CASE disp'[d] = disp[d]
  <2>1. PICK op \in Ops : op = disp[d].op /\ op = disp'[d].op
    BY <1>1, <1>2, <1>3 DEF HoldsItsOwn, Stages
  <2>2. ASSUME NEW s \in Scopes, mark'[op][s].seq # 0 PROVE mark'[op][s].ttl
    <3>1. mark[op][s].seq # 0 => mark[op][s].ttl
      BY <1>1, <1>2, <1>3, <2>1 DEF Expiring
    <3>2. ~Enters(op, s)
      <4>1. SUFFICES ASSUME Enters(op, s) PROVE FALSE
        OBVIOUS
      <4>2. ~erased /\ ~Discarded(disp[op].gen) /\ ~InLog(op, s)
        BY <4>1, WhileOpening DEF Enters
      <4>3. TruePair(op, disp[d].recs)
        BY <1>1, <1>2, <1>3, <2>1, <4>2 DEF Decided, Delivered
      <4> QED  BY <4>2, <4>3, Sets DEF TruePair, Stands, InLog, At
    <3>3. Rests(op, s) \/ Expires(op, s) \/ Confirms(op, s) \/ Erases(op, s)
      BY <3>2, StepMoves DEF AllMove, Moves
    <3> QED  BY <2>2, <3>1, <3>3 DEF Rests, Expires, Confirms, Erases, SameMark, NoMarker
  <2> QED  BY <2>1, <2>2 DEF Expiring
<1>4. CASE Expire(d)
  <2>1. PICK op \in Ops : op = disp[d].op /\ op = disp'[d].op
    <3>1. disp'[d].op = disp[d].op /\ disp[d].op \in Ops
      BY <1>1, <1>4 DEF Expire, Goto, Move, Disp, HoldsItsOwn, Stages
    <3> QED  BY <3>1
  <2>2. mark' = WithTtl(op, Scopes)
    BY <1>4, <2>1 DEF Expire
  <2>3. ASSUME NEW s \in Scopes PROVE mark'[op][s].seq # 0 => mark'[op][s].ttl
    <3>1. mark[op][s] \in Marker
      BY <1>1
    <3>2. mark'[op][s] = IF mark[op][s].seq # 0 THEN [mark[op][s] EXCEPT !.ttl = TRUE] ELSE mark[op][s]
      BY <1>1, <2>2 DEF WithTtl
    <3> QED  BY <3>1, <3>2 DEF Marker
  <2> QED  BY <2>1, <2>3 DEF Expiring
<1>5. ~Leaves(d)
  BY <1>2 DEF Leaves, Holding
<1>6. ~Open(d) /\ ~AppendRecord(d)
  BY <1>1, <1>2 DEF Open, AppendRecord, Move, Disp
<1> QED  BY <1>1, <1>2, <1>3, <1>4, <1>5, <1>6 DEF DispMoves, Steps

-----------------------------------------------------------------------------
(* The theorems.                                                           *)

LEMMA NextInv == ASSUME IInv, Next PROVE IInv'
<1>1. Shape'
  BY NextShape
<1>2. \A d \in Dispatchers : Opened(d)' /\ Decided(d)' /\ Expiring(d)'
  BY NextOpened, NextDecided, NextExpiring
<1>3. \A op \in Ops :
        MarkersTell(op)' /\ MarkTrue(op)' /\ Known(op)' /\ Recorded(op)' /\ Answered(op)'
  BY NextMarkersTell, NextMarkTrue, NextKnown, NextRecorded, NextAnswered
<1>4. OncePerStream' /\ MarkersCleaned'
  BY NextOnce, NextMarkersCleaned
<1> QED  BY <1>1, <1>2, <1>3, <1>4 DEF IInv

LEMMA InitInv == Init => IInv
<1> SUFFICES ASSUME Init PROVE IInv
  OBVIOUS
<1>1. Shape
  BY InitShape
<1>2. /\ \A d \in Dispatchers : disp[d].pc = "idle"
      /\ Ops \subseteq Dispatchers
      /\ \A op \in Ops : outbox[op] = NoEnvelope /\ answer[op] = NoRecords
      /\ \A op \in Ops, s \in Scopes : mark[op][s] = NoMarker
      /\ \A s \in Scopes : log[s] = <<>>
  BY DEF Init, Idle, Dispatchers
<1>3. \A d \in Dispatchers : Opened(d) /\ Decided(d) /\ Expiring(d)
  BY <1>2, Sets DEF Opened, Decided, Expiring, InTransaction
<1>4. \A s \in Scopes : DOMAIN log[s] = {}
  BY <1>2
<1>5. \A op \in Ops : MarkersTell(op) /\ MarkTrue(op) /\ Known(op) /\ Recorded(op) /\ Answered(op)
  BY <1>2, <1>4 DEF MarkersTell, Published, Traceless, Calling, Undone, InLog, MarkTrue,
     Known, Recorded, Answered, NoEnvelope, NoRecords, NoMarker
<1>6. OncePerStream
  BY <1>4 DEF OncePerStream
<1>7. MarkersCleaned
  BY <1>2 DEF MarkersCleaned, NoMarker
<1> QED  BY <1>1, <1>3, <1>5, <1>6, <1>7 DEF IInv

\* The invariant holds in every state of every behaviour.
THEOREM InvInvariant == Spec => []IInv
<1>1. IInv /\ [Next]_vars => IInv'
  <2>1. IInv /\ Next => IInv'
    BY NextInv
  <2>2. IInv /\ UNCHANGED vars => IInv'
    BY DEF vars, IInv, Shape, TypeOK, RowSound, OneTransaction, InTx, HoldsItsOwn, Opened,
       Undone, Discarded, Exists, Decided, Stands, At, Published, Delivered, TruePair,
       Expiring, MarkersTell, Traceless, InLog, Calling, Appended, MarkTrue, Known,
       Recorded, Answered, OncePerStream, MarkersCleaned
  <2> QED  BY <2>1, <2>2
<1> QED  BY <1>1, InitInv, PTL DEF Spec

\* Types: of the run's row, the outbox, the streams, the markers, what each
\* dispatcher has in hand and what calls return (redis_delivery.py).
THEOREM DeliveryTypeInvariant == Spec => []TypeOK
<1>1. IInv => TypeOK
  BY DEF IInv, Shape
<1> QED  BY <1>1, InvInvariant, PTL

\* A pair stands in a stream at most once, no marker without a TTL outlives its
\* envelope, and the cursors a caller is given are those of its records:
\* deliver, the append script and the cleanup, for any number of dispatchers.
THEOREM PairsOnce == Spec => [](OncePerStream /\ MarkersCleaned /\ CursorsTrue)
<1>1. IInv => CursorsTrue
  BY DEF IInv, Answered, TruePair, Stands, At, CursorsTrue
<1>2. IInv => OncePerStream /\ MarkersCleaned /\ CursorsTrue
  BY <1>1 DEF IInv
<1> QED  BY <1>2, InvInvariant, PTL

-----------------------------------------------------------------------------
(***************************************************************************)
(* The end of a generation: that no stream has it before the pairs of that *)
(* generation, for any number of events, dispatchers, executions and       *)
(* generations.  It rests on the invariant above.                          *)
(***************************************************************************)
(* The invariant.                                                          *)

\* The pair is in both streams.
Both(op) == \A s \in Scopes : (erased /\ s = "run") \/ InLog(op, s)

\* What was registered is delivered, or will be, or its run is over.
Accounted(op) ==
  accepted[op] # 0 =>
    /\ Published(op) /\ accepted[op] = disp[op].gen
    /\ Discarded(accepted[op]) \/ Undone(op) \/ Both(op)

\* Whoever delivers an outcome has listed every pair that is not delivered.
Covers(h) ==
  /\ disp[h].gen # 0 => Closed(disp[h].gen)
  /\ disp[h].pc = "end" => disp[h].todo = {}
  /\ disp[h].gen # 0 /\ AwaitsDelivery(row, disp[h].gen) =>
       \A op \in Ops : accepted[op] = disp[h].gen =>
         Both(op) \/ op \in disp[h].todo \/ (disp[h].pc \in Stages /\ disp[h].op = op)

EndsClosed == \A s \in Scopes : \A g \in Gens : In(s, End, g) => Closed(g)

EndInv ==
  /\ \A op \in Ops : Accounted(op)
  /\ \A h \in Helpers : Covers(h)
  /\ EndsClosed /\ EndsComplete

-----------------------------------------------------------------------------
(* What a step may do to a registration, to an end and to a helper.        *)

\* A pair is registered by the execution that owns the run.
Accepts(op) ==
  /\ OwnsExecution(row, disp[op].gen, disp[op].owner) /\ Published(op) /\ row' = row
  /\ accepted'[op] = row.gen /\ row.gen = disp[op].gen
  /\ outbox'[op] = IF outbox[op].kind = "row" THEN outbox[op] ELSE Envelope(row.gen)

LEMMA StepAccepted ==
  ASSUME IInv, Next, NEW op \in Ops
  PROVE  accepted'[op] = accepted[op] \/ Accepts(op)
<1>1. /\ Shape /\ accepted \in [Ops -> 0 .. MaxGen]
      /\ outbox \in [Ops -> {NoEnvelope} \cup [kind : {"row"}, gen : Gens, records : Records]]
  BY DEF IInv, Shape, TypeOK
<1>2. ASSUME NEW o \in Ops, Register(o) PROVE accepted'[op] = accepted[op] \/ Accepts(op)
  <2>1. CASE o = op /\ OwnsExecution(row, disp[op].gen, disp[op].owner)
    <3>1. accepted'[op] = row.gen /\ row' = row /\ disp[op].pc = "register"
      BY <1>1, <1>2, <2>1 DEF Register
    <3>2. outbox' = IF outbox[op].kind = "row" THEN outbox
                    ELSE [outbox EXCEPT ![op] = Envelope(row.gen)]
      BY <1>2, <2>1 DEF Register
    <3>3. outbox'[op] = IF outbox[op].kind = "row" THEN outbox[op] ELSE Envelope(row.gen)
      BY <1>1, <3>2
    <3> QED  BY <2>1, <3>1, <3>3 DEF Accepts, OwnsExecution, Published
  <2>2. CASE ~(o = op /\ OwnsExecution(row, disp[op].gen, disp[op].owner))
    BY <1>1, <1>2, <2>2 DEF Register
  <2> QED  BY <2>1, <2>2
<1>3. ASSUME NEW d \in Dispatchers, Deliver(d) \/ Fails(d) PROVE accepted' = accepted
  BY <1>3 DEF Deliver, Fails, OpenMissing, Open, AppendRecord, Commit, Expire, Clean,
     AppendFails, CommitFails, CleanupFails, Stop
<1>4. ASSUME NEW h \in Helpers, List(h) \/ Drain(h) \/ EndFails(h) PROVE accepted' = accepted
  BY <1>4 DEF List, Drain, Take, Listed, DeliverEnd, EndFails
<1>5. ASSUME NEW o \in Ops, Publish(o) \/ \E s \in Scopes : MarkerExpires(o, s)
      PROVE  accepted' = accepted
  BY <1>5 DEF Publish, MarkerExpires
<1>6. RunStep \/ EraseStream => accepted' = accepted
  BY <1>1, RunShape DEF EraseStream
<1> QED  BY <1>2, <1>3, <1>4, <1>5, <1>6 DEF Next, RunStep

\* An end is appended by the delivery of an outcome that has drained its pairs.
LEMMA AppendIn ==
  ASSUME Shape, NEW s \in Scopes, NEW item \in Item, log'[s] = Append(log[s], item),
         NEW g \in Gens, In(s, End, g)', item # [op |-> End, gen |-> g]
  PROVE  In(s, End, g)
<1>1. log[s] \in Seq(Item)
  BY DEF Shape, TypeOK
<1>2. /\ DOMAIN log'[s] = 1 .. Len(log[s]) + 1 /\ DOMAIN log[s] = 1 .. Len(log[s])
      /\ Len(log[s]) \in Nat
      /\ log'[s][Len(log[s]) + 1] = item
      /\ \A n \in 1 .. Len(log[s]) : log'[s][n] = log[s][n]
  BY <1>1
<1>3. PICK n \in DOMAIN log'[s] : log'[s][n] = [op |-> End, gen |-> g]
  BY DEF In
<1>4. n # Len(log[s]) + 1
  BY <1>2, <1>3
<1>5. n \in 1 .. Len(log[s])
  BY <1>2, <1>3, <1>4
<1> QED  BY <1>2, <1>3, <1>5 DEF In

LEMMA StepEnds ==
  ASSUME IInv, Next, NEW s \in Scopes, NEW g \in Gens, In(s, End, g)'
  PROVE  \/ In(s, End, g)
         \/ \E h \in Helpers : disp[h].pc = "end" /\ disp[h].gen = g /\ AwaitsDelivery(row, g)
<1>1. Shape /\ log \in [Scopes -> Seq(Item)]
  BY DEF IInv, Shape, TypeOK
<1>2. ASSUME log' = log PROVE In(s, End, g)
  BY <1>2 DEF In
<1>3. ASSUME NEW d \in Dispatchers, NEW stage \in Stage, disp[d].pc \in Scopes,
             AppendUpTo(disp[d].op, outbox[disp[d].op].gen, disp[d].pc, stage)
      PROVE  In(s, End, g)
  <2>1. PICK op \in Ops, x \in Scopes, k \in Gens :
          op = disp[d].op /\ x = disp[d].pc /\ k = outbox[disp[d].op].gen
    BY <1>3, AppendsOpened
  <2> DEFINE what == IF stage = "reserved" THEN Gap ELSE op
             item == [op |-> what, gen |-> k]
  <2>2. log' = log \/ log' = [log EXCEPT ![x] = Append(log[x], item)]
    BY <1>3, <2>1 DEF AppendUpTo
  <2>3. item \in Item /\ item # [op |-> End, gen |-> g]
    <3>1. item.op # End
      BY OpsAssumption
    <3> QED  BY <3>1 DEF Item
  <2> HIDE DEF item
  <2>4. CASE log' = [log EXCEPT ![x] = Append(log[x], item)]
    <3>1. CASE x = s
      BY <1>1, <2>3, <2>4, <3>1, AppendIn
    <3>2. CASE x # s
      BY <1>1, <2>4, <3>2 DEF In
    <3> QED  BY <3>1, <3>2
  <2> QED  BY <1>2, <2>2, <2>4
<1>4. ASSUME NEW d \in Dispatchers, Deliver(d) \/ Fails(d) PROVE In(s, End, g)
  <2>1. ASSUME OpenMissing(d) \/ Open(d) \/ Commit(d) \/ Expire(d) \/ Clean(d)
                 \/ CommitFails(d) \/ CleanupFails(d) \/ Stop(d)
        PROVE  log' = log
    BY <2>1 DEF OpenMissing, Open, Commit, Expire, Clean, CommitFails, CleanupFails, Stop
  <2>2. CASE AppendRecord(d)
    BY <1>3, <2>2 DEF AppendRecord, Stage
  <2>3. CASE AppendFails(d)
    BY <1>2, <1>3, <2>3 DEF AppendFails, Stage
  <2> QED  BY <1>2, <1>4, <2>1, <2>2, <2>3 DEF Deliver, Fails
<1>5. ASSUME NEW h \in Helpers, NEW scopes, log' = WithEnd(disp[h].gen, scopes),
             disp[h].pc = "end", AwaitsDelivery(row, disp[h].gen)
      PROVE  \/ In(s, End, g)
             \/ \E k \in Helpers : disp[k].pc = "end" /\ disp[k].gen = g /\ AwaitsDelivery(row, g)
  <2>1. PICK k : k = disp[h].gen
    OBVIOUS
  <2>2. k \in Gens
    BY <1>5, <2>1 DEF IInv, Shape, RowSound, AwaitsDelivery, Exists
  <2>3. CASE k = g
    BY <1>5, <2>1, <2>3
  <2>4. CASE k # g
    <3>1. log'[s] = log[s] \/ log'[s] = Append(log[s], [op |-> End, gen |-> k])
      BY <1>5, <2>1 DEF WithEnd
    <3>2. log[s] \in Seq(Item) /\ [op |-> End, gen |-> k] \in Item
      BY <1>1, <2>2 DEF Item
    <3>3. CASE log'[s] = log[s]
      BY <3>3 DEF In
    <3>4. CASE log'[s] = Append(log[s], [op |-> End, gen |-> k])
      BY <1>1, <2>4, <3>2, <3>4, AppendIn
    <3> QED  BY <3>1, <3>3, <3>4
  <2> QED  BY <2>3, <2>4
<1>6. ASSUME NEW h \in Helpers, List(h) \/ Take(h) \/ Listed(h) PROVE In(s, End, g)
  BY <1>2, <1>6 DEF List, Take, Listed
<1>7. ASSUME NEW h \in Helpers, DeliverEnd(h) \/ EndFails(h)
      PROVE  log' = log \/ (/\ \E scopes : log' = WithEnd(disp[h].gen, scopes)
                            /\ disp[h].pc = "end" /\ AwaitsDelivery(row, disp[h].gen))
  BY <1>7 DEF DeliverEnd, EndFails
<1>8. ASSUME NEW op \in Ops,
             Publish(op) \/ Register(op) \/ \E x \in Scopes : MarkerExpires(op, x)
      PROVE  In(s, End, g)
  BY <1>2, <1>8 DEF Publish, Register, MarkerExpires
<1>9. RunStep => In(s, End, g)
  BY <1>1, <1>2, RunShape
<1>10. EraseStream => In(s, End, g)
  BY <1>1 DEF EraseStream, In
<1> QED  BY <1>2, <1>4, <1>5, <1>6, <1>7, <1>8, <1>9, <1>10 DEF Next, RunStep, Drain

\* What a helper that delivers an outcome does next.
Begins(h) ==
  /\ row.status = "terminal_pending" /\ row' = row
  /\ disp'[h].gen = row.gen /\ disp'[h].todo = Pending /\ disp'[h].pc = "next"
SameHand(h) == disp'[h].op = disp[h].op /\ disp'[h].todo = disp[h].todo
Continues(h) ==
  /\ disp'[h].gen = disp[h].gen
  /\ \/ disp[h].pc \in Stages /\ disp'[h].pc \in Stages /\ SameHand(h)
     \/ disp[h].pc = "next" /\ disp'[h].pc = "open" /\ disp[h].todo \subseteq disp'[h].todo \cup {disp'[h].op}
     \/ disp[h].pc = "next" /\ disp'[h].pc = "end" /\ disp[h].todo = {} /\ disp'[h].todo = {}
     \/ /\ disp'[h].pc = "next" /\ disp'[h].todo = disp[h].todo
        /\ \/ disp[h].pc = "open" /\ outbox[disp[h].op].kind = "absent"
           \/ disp[h].pc \in {"expire", "clean"}
HelperMoves(h) ==
  disp'[h] = disp[h] \/ (disp'[h].gen = 0 /\ disp'[h].pc # "end") \/ Begins(h) \/ Continues(h)

\* A delivery of an outcome ends where an envelope fails.
LEMMA AfterHelper ==
  ASSUME Shape, NEW h \in Helpers, NEW failed \in BOOLEAN, Move(h, AfterEnvelope(h, failed)),
         ~failed => \/ disp[h].pc = "open" /\ outbox[disp[h].op].kind = "absent"
                    \/ disp[h].pc \in {"expire", "clean"}
  PROVE  HelperMoves(h)
<1>1. disp \in [Dispatchers -> Disp] /\ h \in Dispatchers /\ h \notin Ops
  BY ShapeDisp, OpsAssumption DEF DispShape, Dispatchers
<1>2. CASE failed /\ disp[h].gen # 0
  BY <1>1, <1>2 DEF AfterEnvelope, Move, HelperMoves, Idle
<1>3. CASE ~(failed /\ disp[h].gen # 0)
  <2>1. disp'[h] = [disp[h] EXCEPT !.pc = "next", !.op = NoOp, !.recs = NoRecords]
    BY <1>1, <1>3 DEF AfterEnvelope, Move
  <2>2. disp'[h].pc = "next" /\ disp'[h].todo = disp[h].todo /\ disp'[h].gen = disp[h].gen
    BY <1>1, <2>1 DEF Disp
  <2> QED  BY <1>3, <2>2 DEF HelperMoves, Continues
<1> QED  BY <1>2, <1>3

LEMMA StepHelpers ==
  ASSUME IInv, Next, NEW h \in Helpers
  PROVE  HelperMoves(h)
<1>1. /\ Shape /\ disp \in [Dispatchers -> Disp] /\ h \in Dispatchers /\ h \notin Ops
      /\ Ops \subseteq Dispatchers /\ Helpers \subseteq Dispatchers
  BY ShapeDisp, OpsAssumption DEF IInv, DispShape, Dispatchers
<1>2. ASSUME NEW d \in Dispatchers, NEW new, Move(d, new), d # h PROVE HelperMoves(h)
  BY <1>1, <1>2 DEF Move, HelperMoves
<1>3. ASSUME NEW pc \in Stages, Goto(h, pc), disp[h].pc \in Stages PROVE HelperMoves(h)
  <2>1. disp'[h] = [disp[h] EXCEPT !.pc = pc]
    BY <1>1, <1>3 DEF Goto, Move
  <2>2. disp'[h].pc = pc /\ SameHand(h) /\ disp'[h].gen = disp[h].gen
    BY <1>1, <2>1 DEF Disp, SameHand
  <2> QED  BY <1>3, <2>2 DEF HelperMoves, Continues
<1>4. ASSUME NEW pc \in Stages, NEW recs, disp[h].pc \in Stages,
             Move(h, [disp[h] EXCEPT !.pc = pc, !.recs = recs])
      PROVE  HelperMoves(h)
  <2>1. disp'[h] = [disp[h] EXCEPT !.pc = pc, !.recs = recs]
    BY <1>1, <1>4 DEF Move
  <2>2. disp'[h].pc = pc /\ SameHand(h) /\ disp'[h].gen = disp[h].gen
    BY <1>1, <2>1 DEF Disp, SameHand
  <2> QED  BY <1>4, <2>2 DEF HelperMoves, Continues
<1>5. "commit" \in Stages /\ "run" \in Stages /\ "thread" \in Stages /\ "expire" \in Stages
      /\ "clean" \in Stages /\ "open" \in Stages
  BY DEF Stages
<1>6. CASE Deliver(h)
  <2>1. CASE OpenMissing(h)
    BY <1>1, <2>1, AfterHelper DEF OpenMissing
  <2>2. CASE Open(h)
    BY <1>4, <1>5, <2>2 DEF Open
  <2>3. CASE AppendRecord(h)
    <3> DEFINE pc == IF disp[h].pc = "run" THEN "thread" ELSE "commit"
               rec == IF disp[h].pc = "run" THEN [NoRecords EXCEPT !.run = SeqOf(disp[h].op, disp[h].pc)]
                      ELSE Cursors(disp[h].recs.run, SeqOf(disp[h].op, disp[h].pc))
    <3>1. Move(h, [disp[h] EXCEPT !.pc = pc, !.recs = rec]) /\ disp[h].pc \in Scopes
      BY <2>3 DEF AppendRecord
    <3>2. pc \in Stages /\ disp[h].pc \in Stages
      BY <1>5, <3>1, Sets
    <3> HIDE DEF pc, rec
    <3> QED  BY <1>4, <3>1, <3>2
  <2>4. CASE Commit(h)
    BY <1>3, <1>5, <2>4 DEF Commit
  <2>5. CASE Expire(h)
    BY <1>3, <1>5, <2>5 DEF Expire
  <2>6. CASE Clean(h)
    BY <1>1, <2>6, AfterHelper DEF Clean, Return
  <2> QED  BY <1>6, <2>1, <2>2, <2>3, <2>4, <2>5, <2>6 DEF Deliver
<1>7. CASE Fails(h)
  <2>1. CASE AppendFails(h)
    BY <1>1, <2>1, AfterHelper DEF AppendFails
  <2>2. CASE CommitFails(h)
    BY <1>1, <1>3, <1>5, <2>2, AfterHelper DEF CommitFails
  <2>3. CASE CleanupFails(h)
    BY <1>1, <2>3, AfterHelper DEF CleanupFails, Return
  <2>4. CASE Stop(h)
    BY <1>1, <2>4 DEF Stop, Move, HelperMoves, Idle
  <2> QED  BY <1>7, <2>1, <2>2, <2>3, <2>4 DEF Fails
<1>8. CASE List(h)
  <2>1. row' = row
    BY <1>8 DEF List
  <2>2. CASE disp' = [disp EXCEPT ![h] = [Idle EXCEPT !.pc = "next", !.todo = Pending]]
    BY <1>1, <2>2 DEF HelperMoves, Idle
  <2>3. CASE /\ disp' = [disp EXCEPT ![h] = [Idle EXCEPT !.pc = "next", !.todo = Pending, !.gen = row.gen]]
             /\ row.status = "terminal_pending"
    <3>1. disp'[h] = [Idle EXCEPT !.pc = "next", !.todo = Pending, !.gen = row.gen]
      BY <1>1, <2>3
    <3>2. disp'[h].pc = "next" /\ disp'[h].todo = Pending /\ disp'[h].gen = row.gen
      BY <3>1 DEF Idle
    <3> QED  BY <2>1, <2>3, <3>2 DEF HelperMoves, Begins
  <2> QED  BY <1>8, <2>2, <2>3 DEF List, Move
<1>9. CASE Take(h)
  <2>1. PICK op \in disp[h].todo : Move(h, [disp[h] EXCEPT !.pc = "open", !.op = op, !.todo = @ \ {op}])
    BY <1>9 DEF Take
  <2>2. disp'[h] = [disp[h] EXCEPT !.pc = "open", !.op = op, !.todo = disp[h].todo \ {op}]
    BY <1>1, <2>1 DEF Move
  <2>3. /\ disp'[h].pc = "open" /\ disp'[h].op = op /\ disp'[h].gen = disp[h].gen
        /\ disp'[h].todo = disp[h].todo \ {op}
    BY <1>1, <2>2 DEF Disp
  <2> QED  BY <1>9, <2>3 DEF Take, HelperMoves, Continues
<1>10. CASE Listed(h)
  <2>1. CASE disp[h].gen = 0
    BY <1>1, <1>10, <2>1 DEF Listed, Move, HelperMoves, Idle
  <2>2. CASE disp[h].gen # 0
    <3>1. disp'[h] = [disp[h] EXCEPT !.pc = "end"]
      BY <1>1, <1>10, <2>2 DEF Listed, Move
    <3>2. disp'[h].pc = "end" /\ disp'[h].gen = disp[h].gen /\ disp'[h].todo = disp[h].todo
      BY <1>1, <3>1 DEF Disp
    <3> QED  BY <1>10, <3>2 DEF Listed, HelperMoves, Continues
  <2> QED  BY <2>1, <2>2
<1>11. CASE DeliverEnd(h) \/ EndFails(h)
  BY <1>1, <1>11 DEF DeliverEnd, EndFails, Move, HelperMoves, Idle
<1>12. ASSUME NEW d \in Dispatchers, d # h,
              Deliver(d) \/ Fails(d) \/ List(d) \/ Drain(d) \/ EndFails(d) \/ Publish(d) \/ Register(d)
       PROVE  HelperMoves(h)
  <2>1. \E new : Move(d, new)
    BY <1>12 DEF Deliver, Fails, List, Drain, EndFails, Publish, Register, OpenMissing, Open,
       AppendRecord, Commit, Expire, Clean, AppendFails, CommitFails, CleanupFails, Stop, Take,
       Listed, DeliverEnd, Return, Goto
  <2> QED  BY <1>2, <1>12, <2>1
<1>13. ASSUME RunStep \/ EraseStream \/ \E op \in Ops, s \in Scopes : MarkerExpires(op, s)
       PROVE  HelperMoves(h)
  BY <1>1, <1>13, RunShape DEF EraseStream, MarkerExpires, HelperMoves
<1> QED  BY <1>1, <1>6, <1>7, <1>8, <1>9, <1>10, <1>11, <1>12, <1>13 DEF Next, RunStep, Drain

-----------------------------------------------------------------------------
(* What was established stays so.                                          *)

LEMMA BothStable ==
  ASSUME IInv, Next, NEW op \in Ops, Both(op)
  PROVE  Both(op)'
<1>1. SUFFICES ASSUME NEW s \in Scopes PROVE (erased' /\ s = "run") \/ InLog(op, s)'
  BY DEF Both
<1>2. CASE erased /\ s = "run"
  BY <1>2, StepRow DEF RowLater
<1>3. CASE InLog(op, s)
  <2>1. PICK n : Stands(op, s, n)
    BY <1>3 DEF InLog, Stands, At
  <2>2. Stands(op, s, n)'
    BY <2>1, StandsStable
  <2> QED  BY <2>2 DEF Stands, InLog, At
<1> QED  BY <1>2, <1>3 DEF Both

LEMMA PairIsBoth == ASSUME NEW op, NEW recs, TruePair(op, recs) PROVE Both(op)
BY Sets DEF TruePair, Stands, Both, InLog, At

\* No generation is over that awaits the delivery of its outcome, or is running.
LEMMA NotOver ==
  ASSUME NEW g
  PROVE  /\ AwaitsDelivery(row, g) => ~Discarded(g)
         /\ row.status = "running" /\ row.gen = g => ~Closed(g) /\ ~AwaitsDelivery(row, g)
BY DEF AwaitsDelivery, Discarded, Closed, Exists, Terminal

LEMMA NextAccounted ==
  ASSUME IInv, EndInv, Next, NEW op \in Ops
  PROVE  Accounted(op)'
<1>1. Accounted(op) /\ Recorded(op) /\ OutboxMoves(op)
  BY StepOutbox DEF IInv, EndInv
<1>2. SUFFICES ASSUME accepted'[op] # 0 PROVE Accounted(op)'
  BY DEF Accounted
<1>3. CASE accepted'[op] = accepted[op]
  <2>1. Published(op) /\ accepted[op] = disp[op].gen
    BY <1>1, <1>2, <1>3 DEF Accounted
  <2>2. /\ Published(op)' /\ accepted'[op] = disp'[op].gen
        /\ Discarded(disp[op].gen) => Discarded(disp[op].gen)'
    BY <1>3, <2>1, DiscardedStable
  <2>3. Discarded(disp[op].gen) \/ Undone(op)' \/ Both(op)
    <3>1. SUFFICES ASSUME Undone(op) PROVE Discarded(disp[op].gen) \/ Undone(op)' \/ Both(op)
      BY <1>1, <1>2, <1>3, <2>1 DEF Accounted
    <3>2. CASE outbox'[op] = outbox[op]
      BY <3>1, <3>2 DEF Undone
    <3>3. ASSUME NEW d \in Dispatchers, Saves(d, op) PROVE Discarded(disp[op].gen) \/ Both(op)
      BY <3>3, SavesDelivered, PairIsBoth DEF Delivered
    <3>4. ~Registers(op) /\ ~\E d \in Dispatchers : Cleans(d, op)
      BY <3>1 DEF Registers, Cleans, Undone
    <3> QED  BY <1>1, <3>2, <3>3, <3>4 DEF OutboxMoves
  <2>4. Discarded(disp[op].gen)' => Discarded(accepted[op])'
    BY <2>2
  <2> QED  BY <2>2, <2>3, <2>4, BothStable DEF Accounted
<1>4. CASE Accepts(op)
  <2>1. Published(op)' /\ accepted'[op] = disp'[op].gen /\ disp'[op].gen = disp[op].gen
    BY <1>4, DiscardedStable DEF Accepts
  <2>2. ~Discarded(disp[op].gen)
    BY <1>4 DEF Accepts, OwnsExecution, Discarded, Exists, Terminal
  <2>3. CASE outbox[op].kind = "row"
    <3>1. Undone(op) \/ Both(op)
      BY <1>1, <2>2, <2>3, PairIsBoth DEF Recorded, Delivered
    <3>2. outbox'[op] = outbox[op]
      BY <1>4, <2>3 DEF Accepts
    <3> QED  BY <2>1, <3>1, <3>2, BothStable DEF Accounted, Undone
  <2>4. CASE outbox[op].kind # "row"
    <3>1. Undone(op)'
      BY <1>4, <2>4 DEF Accepts, Undone, Envelope
    <3> QED  BY <2>1, <3>1 DEF Accounted
  <2> QED  BY <2>3, <2>4
<1> QED  BY <1>3, <1>4, StepAccepted

LEMMA NextCovers ==
  ASSUME IInv, EndInv, Next, NEW h \in Helpers
  PROVE  Covers(h)'
<1>1. /\ Covers(h) /\ HelperMoves(h) /\ h \in Dispatchers /\ disp[h] \in Disp
      /\ HoldsItsOwn(h) /\ Decided(h) /\ RowSound
  BY StepHelpers, ShapeDisp DEF IInv, EndInv, DispShape, Dispatchers, Shape
<1>2. disp'[h].pc = "end" => disp'[h].todo = {}
  <2>1. \A pc \in Stages : pc # "end"
    BY DEF Stages
  <2> QED  BY <1>1, <2>1 DEF Covers, HelperMoves, Begins, Continues
\* The generation is over, and its outcome was to be delivered before.
<1>3. ASSUME NEW g \in Gens, disp'[h].gen = g
      PROVE  /\ Closed(g)'
             /\ AwaitsDelivery(row, g)' => AwaitsDelivery(row, g)
             /\ Begins(h) \/ disp[h].gen = g
  <2>1. CASE Begins(h)
    <3>1. g = row.gen /\ row.status = "terminal_pending" /\ row' = row
      BY <1>3, <2>1 DEF Begins
    <3>2. row.gen \in Nat
      BY <3>1, Sets
    <3> QED  BY <2>1, <3>1, <3>2 DEF Closed, Past, AwaitsDelivery
  <2>2. CASE disp[h].gen = g
    <3>1. Closed(g) /\ g # 0
      BY <1>1, <2>2 DEF Covers, Gens
    <3> QED  BY <2>2, <3>1, StepRow DEF RowLater, Later
  <2>3. g # 0
    BY DEF Gens
  <2> QED  BY <1>1, <1>3, <2>1, <2>2, <2>3 DEF HelperMoves, Continues
<1>4. ASSUME NEW g \in Gens, disp'[h].gen = g, AwaitsDelivery(row, g)',
             NEW op \in Ops, accepted'[op] = g
      PROVE  Both(op)' \/ op \in disp'[h].todo \/ (disp'[h].pc \in Stages /\ disp'[h].op = op)
  <2>1. AwaitsDelivery(row, g) /\ ~Discarded(g)
    BY <1>3, <1>4, NotOver
  <2>2. accepted[op] = g
    <3>1. ~Accepts(op)
      BY <1>4, <2>1 DEF Accepts, OwnsExecution, AwaitsDelivery
    <3> QED  BY <1>4, <3>1, StepAccepted
  <2>3. (Undone(op) \/ Both(op)) /\ g = disp[op].gen
    <3>1. g # 0
      BY DEF Gens
    <3> QED  BY <2>1, <2>2, <3>1 DEF EndInv, Accounted
  <2>4. SUFFICES ASSUME ~Both(op)
                 PROVE  op \in disp'[h].todo \/ (disp'[h].pc \in Stages /\ disp'[h].op = op)
    BY BothStable
  <2>5. CASE Begins(h)
    BY <2>3, <2>4, <2>5 DEF Begins, Pending, Undone
  <2>6. CASE ~Begins(h)
    <3>1. disp[h].gen = g /\ g # 0
      BY <1>3, <1>4, <2>6 DEF Gens
    <3>2. op \in disp[h].todo \/ (disp[h].pc \in Stages /\ disp[h].op = op)
      BY <1>1, <2>1, <2>2, <2>4, <3>1 DEF Covers
    <3>3. ~(disp[h].op = op /\ disp[h].pc = "open" /\ outbox[disp[h].op].kind = "absent")
      BY <2>3, <2>4 DEF Undone
    <3>4. ~(disp[h].op = op /\ disp[h].pc \in {"expire", "clean"})
      <4>1. SUFFICES ASSUME disp[h].op = op, disp[h].pc \in {"expire", "clean"} PROVE FALSE
        OBVIOUS
      <4>2. Delivered(op, disp[h].recs)
        BY <1>1, <4>1 DEF Decided
      <4> QED  BY <2>1, <2>3, <2>4, <4>2, PairIsBoth DEF Delivered
    <3>5. CASE disp'[h] = disp[h]
      BY <3>2, <3>5
    <3>6. CASE Continues(h)
      <4>1. "open" \in Stages /\ "next" \notin Stages /\ "end" \notin Stages
        BY DEF Stages
      <4> QED  BY <3>2, <3>3, <3>4, <3>6, <4>1 DEF Continues, SameHand
    <3> QED  BY <1>1, <1>4, <2>6, <3>1, <3>5, <3>6 DEF HelperMoves
  <2> QED  BY <2>5, <2>6
<1>5. disp'[h].gen # 0 => disp'[h].gen \in Gens
  <2>1. disp'[h] \in Disp
    BY <1>1, NextShape, ShapeDisp DEF Shape, TypeOK, Disp, IInv
  <2> QED  BY <2>1, MaxGenAssumption DEF Disp, Gens
<1>6. CASE disp'[h].gen = 0
  BY <1>2, <1>6 DEF Covers
<1>7. CASE disp'[h].gen # 0
  <2>1. PICK g \in Gens : g = disp'[h].gen
    BY <1>5, <1>7
  <2>2. Closed(disp[h].gen)'
    BY <1>3, <2>1
  <2>3. AwaitsDelivery(row', disp'[h].gen) => AwaitsDelivery(row, g)'
    BY <2>1
  <2> QED  BY <1>2, <1>4, <2>1, <2>2, <2>3 DEF Covers
<1> QED  BY <1>6, <1>7

\* An end, new or old, is of a generation that is over and whose pairs are there.
LEMMA NextEnds ==
  ASSUME IInv, EndInv, Next
  PROVE  EndsClosed' /\ EndsComplete'
<1>1. ASSUME NEW s \in Scopes, NEW g \in Gens, In(s, End, g)'
      PROVE  Closed(g) /\ Closed(g)'
  <2>1. Closed(g)
    <3>1. CASE In(s, End, g)
      BY <3>1 DEF EndInv, EndsClosed
    <3>2. ASSUME NEW h \in Helpers, disp[h].gen = g PROVE Closed(g)
      BY <3>2 DEF EndInv, Covers, Gens
    <3> QED  BY <1>1, <3>1, <3>2, StepEnds
  <2> QED  BY <2>1, StepRow DEF RowLater, Later
<1>2. ASSUME NEW s \in Scopes, NEW g \in Gens, In(s, End, g)', NEW op \in Ops, accepted'[op] = g
      PROVE  Both(op)'
  <2>1. accepted[op] = g
    <3>1. ~Accepts(op)
      <4>1. Closed(g)
        BY <1>1, <1>2
      <4> QED  BY <1>2, <4>1, NotOver DEF Accepts, OwnsExecution
    <3> QED  BY <1>2, <3>1, StepAccepted
  <2>2. CASE In(s, End, g)
    BY <2>1, <2>2, BothStable DEF EndInv, EndsComplete, Both, InLog
  <2>3. ASSUME NEW h \in Helpers, disp[h].pc = "end", disp[h].gen = g, AwaitsDelivery(row, g)
        PROVE  Both(op)
    <3>1. "end" \notin Stages /\ g # 0
      BY DEF Stages, Gens
    <3> QED  BY <2>1, <2>3, <3>1 DEF EndInv, Covers
  <2> QED  BY <1>2, <2>2, <2>3, BothStable, StepEnds
<1>3. EndsClosed'
  BY <1>1 DEF EndsClosed
<1>4. EndsComplete'
  <2>1. SUFFICES ASSUME NEW op \in Ops, NEW s \in Scopes, NEW x \in Scopes,
                        In(s, End, accepted[op])'
                 PROVE  (erased' /\ x = "run") \/ InLog(op, x)'
    BY DEF EndsComplete, InLog
  <2>2. accepted'[op] \in Gens
    <3>1. PICK i \in DOMAIN log'[s] : log'[s][i] = [op |-> End, gen |-> accepted'[op]]
      BY <2>1 DEF In
    <3>2. log'[s] \in Seq(Item)
      BY NextShape DEF Shape, TypeOK
    <3>3. log'[s][i] \in Item
      BY <3>1, <3>2
    <3> QED  BY <3>1, <3>3 DEF Item
  <2>3. PICK g \in Gens : g = accepted'[op]
    BY <2>2
  <2>4. In(s, End, g)'
    BY <2>1, <2>3
  <2>5. Both(op)'
    BY <1>2, <2>3, <2>4
  <2> QED  BY <2>5 DEF Both
<1> QED  BY <1>3, <1>4

-----------------------------------------------------------------------------
(* The theorem.                                                            *)

LEMMA InitEndInv == Init => EndInv
<1> SUFFICES ASSUME Init PROVE EndInv
  OBVIOUS
<1>1. /\ \A d \in Dispatchers : disp[d].pc = "idle" /\ disp[d].gen = 0
      /\ Helpers \subseteq Dispatchers
      /\ \A op \in Ops : accepted[op] = 0
      /\ \A s \in Scopes : log[s] = <<>>
  BY DEF Init, Idle, Dispatchers
<1>2. \A s \in Scopes, g \in Nat : ~In(s, End, g)
  BY <1>1 DEF In
<1>3. EndsClosed /\ EndsComplete
  BY <1>1, <1>2, Sets DEF EndsClosed, EndsComplete
<1>4. (\A op \in Ops : Accounted(op)) /\ \A h \in Helpers : Covers(h)
  BY <1>1 DEF Accounted, Covers
<1> QED  BY <1>3, <1>4 DEF EndInv

\* The invariant of the ends, for every step (_deliver_pending, append_redis_envelope).
THEOREM EndsInvariant == Spec => []EndInv
<1>1. IInv /\ EndInv /\ [Next]_vars => EndInv'
  <2>1. IInv /\ EndInv /\ Next => EndInv'
    BY NextAccounted, NextCovers, NextEnds DEF EndInv
  <2>2. EndInv /\ UNCHANGED vars => EndInv'
    BY DEF vars, EndInv, Accounted, Covers, EndsClosed, EndsComplete, In, Closed, Past,
       Discarded, Exists, AwaitsDelivery, Both, InLog, Undone, Published
  <2> QED  BY <2>1, <2>2
<1> QED  BY <1>1, InvInvariant, InitEndInv, PTL DEF Spec

\* No stream tells the end of a generation before every pair registered in that
\* generation is in both streams (_deliver_pending drains the pairs first), whichever
\* dispatchers race, fail or stop, and whatever becomes of the run.
THEOREM NoEndOvertakes == Spec => []EndsComplete
<1>1. EndInv => EndsComplete
  BY DEF EndInv
<1> QED  BY <1>1, EndsInvariant, PTL

\* What the outbox promises of its state: a pair is in a stream once and before
\* the end of its generation, callers learn the true cursors, and no marker
\* without a TTL is left when the envelope goes.
THEOREM PairsDelivered == Spec => []DeliveredOnce
<1>1. OncePerStream /\ MarkersCleaned /\ CursorsTrue /\ EndsComplete => DeliveredOnce
  BY DEF DeliveredOnce
<1> QED  BY <1>1, PairsOnce, NoEndOvertakes, PTL

-----------------------------------------------------------------------------
(***************************************************************************)
(* The outbox implements PairLog: what readers see of the two streams is   *)
(* an append-only pair of logs, whatever dispatchers do to them.           *)
(***************************************************************************)
(* What readers see of a stream.                                           *)

\* A set of numbers has a least one: what induction along a stream rests on.
LEMMA LeastOf ==
  ASSUME NEW T \in SUBSET Nat, T # {}
  PROVE  \E x \in T : \A y \in T : x <= y
<1> DEFINE R == OpToRel(<, Nat)
<1>1. IsWellFoundedOn(R, Nat)
  BY NatLessThanWellFounded
<1>2. \E x \in T : \A y \in T : <<y, x>> \notin R
  <2> HIDE DEF R
  <2> QED  BY <1>1, WFMin
<1>3. \A x, y \in Nat : y < x => <<y, x>> \in R
  BY DEF R, OpToRel
<1> HIDE DEF R
<1>4. PICK x \in T : \A y \in T : <<y, x>> \notin R
  BY <1>2
<1>5. ASSUME NEW y \in T PROVE x <= y
  <2>1. x \in Nat /\ y \in Nat
    OBVIOUS
  <2>2. ~ (y < x)
    BY <1>3, <1>4, <2>1
  <2> QED  BY <2>1, <2>2
<1> QED  BY <1>4, <1>5

\* What holds of no records, and of one more, holds of all: T are the counterexamples.
LEMMA NoCounterexample ==
  ASSUME NEW n \in Nat, NEW T \in SUBSET (0 .. n),
         0 \notin T,
         \A k \in 1 .. n : k - 1 \notin T => k \notin T
  PROVE  T = {}
<1> SUFFICES ASSUME T # {} PROVE FALSE
  OBVIOUS
<1>1. T \in SUBSET Nat
  OBVIOUS
<1>2. PICK k \in T : \A y \in T : k <= y
  BY <1>1, LeastOf
<1>3. k \in 1 .. n
  <2>1. k \in 0 .. n /\ k # 0
    BY <1>2
  <2> QED  BY <2>1
<1>4. k - 1 \notin T
  <2>1. ~ (k <= k - 1)
    BY <1>3
  <2> QED  BY <1>2, <2>1
<1> QED  BY <1>2, <1>3, <1>4

\* The records of l that readers see, after each of its numbers.
Sees(f, l) ==
  f = [n \in 0 .. Len(l) |->
         IF n = 0 THEN <<>> ELSE IF l[n].op = Gap THEN f[n - 1] ELSE Append(f[n - 1], l[n])]

\* So far: f shows the first k records of l.
Shows(f, l, k) ==
  /\ f = [n \in 0 .. k |-> f[n]]
  /\ f[0] = <<>>
  /\ \A n \in 1 .. k : f[n] = IF l[n].op = Gap THEN f[n - 1] ELSE Append(f[n - 1], l[n])

Unseen(l) == {k \in 0 .. Len(l) : ~ \E f : Shows(f, l, k)}

LEMMA ShowsOneMore ==
  ASSUME NEW l, NEW k \in Nat \ {0}, NEW f, Shows(f, l, k - 1)
  PROVE  \E g : Shows(g, l, k)
<1> DEFINE next == IF l[k].op = Gap THEN f[k - 1] ELSE Append(f[k - 1], l[k])
           g    == [n \in 0 .. k |-> IF n = k THEN next ELSE f[n]]
<1>1. k \in 0 .. k /\ k - 1 \in 0 .. k /\ k - 1 # k /\ 0 \in 0 .. k /\ 0 # k
  OBVIOUS
<1>2. g = [n \in 0 .. k |-> g[n]]
  OBVIOUS
<1>3. /\ g[k] = next
      /\ \A n \in 0 .. k : n # k => g[n] = f[n]
  BY <1>1
<1> HIDE DEF g
<1>4. ASSUME NEW n \in 1 .. k
      PROVE  g[n] = IF l[n].op = Gap THEN g[n - 1] ELSE Append(g[n - 1], l[n])
  <2>1. n - 1 \in 0 .. k /\ n - 1 # k /\ n \in 0 .. k
    OBVIOUS
  <2>2. g[n - 1] = f[n - 1]
    BY <1>3, <2>1
  <2>3. CASE n = k
    BY <1>3, <2>2, <2>3
  <2>4. CASE n # k
    <3>1. n \in 1 .. k - 1
      BY <2>4
    <3>2. g[n] = f[n]
      BY <1>3, <2>1, <2>4
    <3> QED  BY <2>2, <3>1, <3>2 DEF Shows
  <2> QED  BY <2>3, <2>4
<1>5. g[0] = <<>>
  BY <1>1, <1>3 DEF Shows
<1> QED  BY <1>2, <1>4, <1>5 DEF Shows

\* Every stream can be read so: what one record less shows decides what one more shows.
LEMMA SeesExists == ASSUME NEW l \in Seq(Item) PROVE \E f : Sees(f, l)
<1>1. Len(l) \in Nat /\ Unseen(l) \in SUBSET (0 .. Len(l))
  BY DEF Unseen
<1>2. 0 \notin Unseen(l)
  <2> DEFINE f == [n \in 0 .. 0 |-> <<>>]
  <2>1. f = [n \in 0 .. 0 |-> f[n]] /\ f[0] = <<>>
    OBVIOUS
  <2> HIDE DEF f
  <2>2. Shows(f, l, 0)
    BY <2>1 DEF Shows
  <2> QED  BY <2>2 DEF Unseen
<1>3. ASSUME NEW k \in 1 .. Len(l), k - 1 \notin Unseen(l) PROVE k \notin Unseen(l)
  <2>1. k \in Nat \ {0} /\ k - 1 \in 0 .. Len(l)
    BY <1>1
  <2>2. PICK f : Shows(f, l, k - 1)
    BY <1>3, <2>1 DEF Unseen
  <2> QED  BY <2>1, <2>2, ShowsOneMore DEF Unseen
<1>4. Unseen(l) = {}
  BY <1>1, <1>2, <1>3, NoCounterexample
<1>5. Len(l) \in 0 .. Len(l)
  BY <1>1
<1>6. PICK f : Shows(f, l, Len(l))
  BY <1>4, <1>5 DEF Unseen
<1>7. \A n \in 0 .. Len(l) :
        f[n] = IF n = 0 THEN <<>> ELSE IF l[n].op = Gap THEN f[n - 1] ELSE Append(f[n - 1], l[n])
  <2>1. \A n \in 0 .. Len(l) : n = 0 \/ n \in 1 .. Len(l)
    BY <1>1
  <2> QED  BY <1>6, <2>1 DEF Shows
<1>8. f = [n \in 0 .. Len(l) |-> f[n]]
  BY <1>6 DEF Shows
<1>9. Sees(f, l)
  BY <1>7, <1>8 DEF Sees
<1> QED  BY <1>9

\* A stream, as readers see it, from its first record on.
LEMMA VisibleSteps ==
  ASSUME NEW l \in Seq(Item)
  PROVE  \E f : Sees(f, l) /\ Visible(l) = f[Len(l)]
<1>1. Sees(CHOOSE f : Sees(f, l), l)
  BY SeesExists
<1>2. Visible(l) = (CHOOSE f : Sees(f, l))[Len(l)]
  BY DEF Visible, Sees
<1> QED  BY <1>1, <1>2

LEMMA SeesEach ==
  ASSUME NEW l \in Seq(Item), NEW f, Sees(f, l)
  PROVE  /\ f[0] = <<>>
         /\ \A n \in 1 .. Len(l) : f[n] = IF l[n].op = Gap THEN f[n - 1] ELSE Append(f[n - 1], l[n])
<1>1. Len(l) \in Nat
  OBVIOUS
<1>2. \A n \in 0 .. Len(l) :
        f[n] = IF n = 0 THEN <<>> ELSE IF l[n].op = Gap THEN f[n - 1] ELSE Append(f[n - 1], l[n])
  BY DEF Sees
<1>3. 0 \in 0 .. Len(l) /\ \A n \in 1 .. Len(l) : n \in 0 .. Len(l) /\ n # 0
  BY <1>1
<1> QED  BY <1>2, <1>3

\* Streams that begin alike show the same of their beginnings.
LEMMA SeesAgree ==
  ASSUME NEW l \in Seq(Item), NEW m \in Seq(Item), NEW f, NEW g, Sees(f, l), Sees(g, m),
         Len(l) <= Len(m), \A n \in 1 .. Len(l) : m[n] = l[n]
  PROVE  g[Len(l)] = f[Len(l)]
<1> DEFINE T == {n \in 0 .. Len(l) : g[n] # f[n]}
<1>1. Len(l) \in Nat /\ Len(m) \in Nat /\ T \in SUBSET (0 .. Len(l))
  OBVIOUS
<1>2. 0 \notin T
  BY SeesEach
<1>3. ASSUME NEW k \in 1 .. Len(l), k - 1 \notin T PROVE k \notin T
  <2>1. k - 1 \in 0 .. Len(l) /\ k \in 1 .. Len(m)
    BY <1>1
  <2>2. g[k - 1] = f[k - 1] /\ m[k] = l[k]
    BY <1>3, <2>1
  <2>3. /\ f[k] = IF l[k].op = Gap THEN f[k - 1] ELSE Append(f[k - 1], l[k])
        /\ g[k] = IF m[k].op = Gap THEN g[k - 1] ELSE Append(g[k - 1], m[k])
    BY <2>1, SeesEach
  <2> QED  BY <2>2, <2>3
<1>4. T = {}
  <2> HIDE DEF T
  <2> QED  BY <1>1, <1>2, <1>3, NoCounterexample
<1>5. Len(l) \in 0 .. Len(l)
  BY <1>1
<1> QED  BY <1>4, <1>5

LEMMA VisibleEmpty == Visible(<<>>) = <<>>
<1>1. <<>> \in Seq(Item)
  OBVIOUS
<1>2. PICK f : Sees(f, <<>>) /\ Visible(<<>>) = f[Len(<<>>)]
  BY <1>1, VisibleSteps
<1>3. Len(<<>>) = 0
  OBVIOUS
<1>4. f[0] = <<>>
  BY <1>1, <1>2, SeesEach
<1> QED  BY <1>2, <1>3, <1>4

\* A reserved number shows nothing, a record shows at the end.
LEMMA VisibleAppend ==
  ASSUME NEW l \in Seq(Item), NEW e \in Item
  PROVE  Visible(Append(l, e)) = IF e.op = Gap THEN Visible(l) ELSE Append(Visible(l), e)
<1> DEFINE m == Append(l, e)
<1>1. m \in Seq(Item)
  OBVIOUS
<1>2. PICK f : Sees(f, l) /\ Visible(l) = f[Len(l)]
  BY VisibleSteps
<1>3. PICK g : Sees(g, m) /\ Visible(m) = g[Len(m)]
  BY <1>1, VisibleSteps
<1>4. /\ Len(l) \in Nat /\ Len(m) = Len(l) + 1 /\ m[Len(m)] = e
      /\ \A n \in 1 .. Len(l) : m[n] = l[n]
  BY <1>1
<1> HIDE DEF m
<1>5. g[Len(l)] = f[Len(l)]
  BY <1>1, <1>2, <1>3, <1>4, SeesAgree
<1>6. Len(m) \in 1 .. Len(m) /\ Len(m) - 1 = Len(l)
  BY <1>4
<1>7. g[Len(m)] = IF e.op = Gap THEN g[Len(m) - 1] ELSE Append(g[Len(m) - 1], e)
  BY <1>1, <1>3, <1>4, <1>6, SeesEach
<1> QED  BY <1>2, <1>3, <1>5, <1>6, <1>7 DEF m

\* Readers see the records, and nothing else.
LEMMA VisibleHolds ==
  ASSUME NEW l \in Seq(Item)
  PROVE  /\ Visible(l) \in Seq(Item)
         /\ \A x \in Item : x.op # Gap =>
              ((\E i \in DOMAIN Visible(l) : Visible(l)[i] = x) <=> \E i \in DOMAIN l : l[i] = x)
<1>1. PICK f : Sees(f, l) /\ Visible(l) = f[Len(l)]
  BY VisibleSteps
<1> DEFINE Alike(n, x) == (\E i \in DOMAIN f[n] : f[n][i] = x) <=> \E i \in 1 .. n : l[i] = x
           T == {n \in 0 .. Len(l) : ~ (f[n] \in Seq(Item) /\ \A x \in Item : x.op # Gap => Alike(n, x))}
<1>2. Len(l) \in Nat /\ T \in SUBSET (0 .. Len(l)) /\ DOMAIN l = 1 .. Len(l)
  OBVIOUS
<1>3. 0 \notin T
  <2>1. f[0] = <<>>
    BY <1>1, SeesEach
  <2>2. \A x \in Item : Alike(0, x)
    BY <2>1
  <2>3. f[0] \in Seq(Item)
    BY <2>1
  <2> HIDE DEF Alike
  <2> QED  BY <2>2, <2>3
<1>4. ASSUME NEW k \in 1 .. Len(l), k - 1 \notin T PROVE k \notin T
  <2>1. k - 1 \in 0 .. Len(l) /\ k \in Nat /\ k - 1 \in Nat
    BY <1>2
  <2>2. f[k - 1] \in Seq(Item) /\ \A x \in Item : x.op # Gap => Alike(k - 1, x)
    BY <1>4, <2>1
  <2>3. f[k] = IF l[k].op = Gap THEN f[k - 1] ELSE Append(f[k - 1], l[k])
    BY <1>1, SeesEach
  <2>4. l[k] \in Item
    BY <1>2
  <2>5. f[k] \in Seq(Item)
    BY <2>2, <2>3, <2>4
  <2>6. ASSUME NEW x \in Item, x.op # Gap PROVE Alike(k, x)
    <3>1. \A i \in 1 .. k : i = k \/ i \in 1 .. k - 1
      BY <2>1
    <3>2. \A i \in 1 .. k - 1 : i \in 1 .. k
      BY <2>1
    <3>3. k \in 1 .. k
      BY <2>1
    <3>4. Alike(k - 1, x)
      BY <2>2, <2>6
    <3>5. CASE l[k].op = Gap
      <4>1. f[k] = f[k - 1] /\ l[k] # x
        BY <2>3, <2>6, <3>5
      <4> QED  BY <3>1, <3>2, <3>4, <4>1
    <3>6. CASE l[k].op # Gap
      <4>1. PICK q \in Seq(Item) : q = f[k - 1]
        BY <2>2
      <4>2. f[k] = Append(q, l[k])
        BY <2>3, <3>6, <4>1
      <4>3. (\E i \in DOMAIN f[k] : f[k][i] = x) <=> x = l[k] \/ \E i \in DOMAIN q : q[i] = x
        <5>1. /\ Len(q) \in Nat /\ DOMAIN q = 1 .. Len(q) /\ DOMAIN f[k] = 1 .. Len(q) + 1
              /\ f[k][Len(q) + 1] = l[k]
              /\ \A i \in 1 .. Len(q) : f[k][i] = q[i]
          BY <2>4, <4>2
        <5>2. \A i \in 1 .. Len(q) + 1 : i = Len(q) + 1 \/ i \in 1 .. Len(q)
          BY <5>1
        <5>3. Len(q) + 1 \in 1 .. Len(q) + 1 /\ \A i \in 1 .. Len(q) : i \in 1 .. Len(q) + 1
          BY <5>1
        <5> HIDE DEF T
        <5> QED  BY <5>1, <5>2, <5>3
      <4> QED  BY <3>1, <3>2, <3>3, <3>4, <4>1, <4>3
    <3> QED  BY <3>5, <3>6
  <2> QED  BY <2>5, <2>6
<1>5. T = {}
  <2> HIDE DEF T
  <2> QED  BY <1>2, <1>3, <1>4, NoCounterexample
<1>6. Len(l) \in 0 .. Len(l)
  BY <1>2
<1>7. f[Len(l)] \in Seq(Item) /\ \A x \in Item : x.op # Gap => Alike(Len(l), x)
  BY <1>5, <1>6
<1> QED  BY <1>1, <1>2, <1>7

-----------------------------------------------------------------------------
(* What a step may do to the streams and to what is accepted.              *)

\* A transaction appends the record of its operation, or reserves its number.
Puts(d) ==
  /\ disp[d].pc \in Scopes /\ ~Appended(disp[d].op, disp[d].pc)
  /\ \E what \in {Gap, disp[d].op} :
       log' = [log EXCEPT ![disp[d].pc] = Append(@, [op |-> what, gen |-> outbox[disp[d].op].gen])]

\* The delivery of an outcome appends the end of its generation.
PutsEnd(h) ==
  /\ disp[h].pc = "end" /\ AwaitsDelivery(row, disp[h].gen)
  /\ log' \in {WithEnd(disp[h].gen, {"run"}), WithEnd(disp[h].gen, Scopes)}

LEMMA StepLog ==
  ASSUME IInv, Next
  PROVE  \/ UNCHANGED <<log, erased>>
         \/ UNCHANGED <<accepted, erased>> /\ \E d \in Dispatchers : Puts(d)
         \/ UNCHANGED <<accepted, erased>> /\ \E h \in Helpers : PutsEnd(h)
         \/ EraseStream
<1>1. Shape
  BY DEF IInv
<1>2. ASSUME NEW d \in Dispatchers, NEW stage, disp[d].pc \in Scopes, UNCHANGED <<accepted, erased>>,
             AppendUpTo(disp[d].op, outbox[disp[d].op].gen, disp[d].pc, stage)
      PROVE  UNCHANGED <<log, erased>> \/ Puts(d)
  BY <1>2 DEF AppendUpTo, Puts
<1>3. ASSUME NEW d \in Dispatchers, Deliver(d) \/ Fails(d)
      PROVE  UNCHANGED <<log, erased>> \/ (UNCHANGED <<accepted, erased>> /\ Puts(d))
  <2>1. ASSUME OpenMissing(d) \/ Open(d) \/ Commit(d) \/ Expire(d) \/ Clean(d)
                 \/ CommitFails(d) \/ CleanupFails(d) \/ Stop(d)
        PROVE  UNCHANGED <<log, erased>>
    BY <2>1 DEF OpenMissing, Open, Commit, Expire, Clean, CommitFails, CleanupFails, Stop
  <2>2. AppendRecord(d) => UNCHANGED <<log, erased>> \/ (UNCHANGED <<accepted, erased>> /\ Puts(d))
    BY <1>2 DEF AppendRecord
  <2>3. AppendFails(d) => UNCHANGED <<log, erased>> \/ (UNCHANGED <<accepted, erased>> /\ Puts(d))
    BY <1>2 DEF AppendFails
  <2> QED  BY <1>3, <2>1, <2>2, <2>3 DEF Deliver, Fails
<1>4. ASSUME NEW h \in Helpers, List(h) \/ Drain(h) \/ EndFails(h)
      PROVE  UNCHANGED <<log, erased>> \/ (UNCHANGED <<accepted, erased>> /\ PutsEnd(h))
  BY <1>4 DEF List, Drain, Take, Listed, DeliverEnd, EndFails, PutsEnd
<1>5. ASSUME NEW op \in Ops,
             Publish(op) \/ Register(op) \/ \E x \in Scopes : MarkerExpires(op, x)
      PROVE  UNCHANGED <<log, erased>>
  BY <1>5 DEF Publish, Register, MarkerExpires
<1>6. RunStep => UNCHANGED <<log, erased>>
  BY <1>1, RunShape
<1> QED  BY <1>3, <1>4, <1>5, <1>6 DEF Next, RunStep

LEMMA StepRegisters ==
  ASSUME IInv, Next
  PROVE  accepted' = accepted \/ \E op \in Ops : accepted' = [accepted EXCEPT ![op] = row.gen] /\ row.gen \in Gens
<1>1. Shape
  BY DEF IInv
<1>2. ASSUME NEW op \in Ops, Register(op), accepted' # accepted
      PROVE  accepted' = [accepted EXCEPT ![op] = row.gen] /\ row.gen \in Gens
  BY <1>1, <1>2 DEF Register, OwnsExecution, Shape, RowSound, Exists
<1>3. ASSUME NEW d \in Dispatchers, Deliver(d) \/ Fails(d) PROVE accepted' = accepted
  BY <1>3 DEF Deliver, Fails, OpenMissing, Open, AppendRecord, Commit, Expire, Clean,
     AppendFails, CommitFails, CleanupFails, Stop
<1>4. ASSUME NEW h \in Helpers, List(h) \/ Drain(h) \/ EndFails(h) PROVE accepted' = accepted
  BY <1>4 DEF List, Drain, Take, Listed, DeliverEnd, EndFails
<1>5. ASSUME NEW o \in Ops, Publish(o) \/ \E s \in Scopes : MarkerExpires(o, s)
      PROVE  accepted' = accepted
  BY <1>5 DEF Publish, MarkerExpires
<1>6. RunStep \/ EraseStream => accepted' = accepted
  BY <1>1, RunShape DEF EraseStream
<1> QED  BY <1>2, <1>3, <1>4, <1>5, <1>6 DEF Next, RunStep

-----------------------------------------------------------------------------
(* Records are of the generation that registered their operation.          *)

Tagged(op) ==
  /\ outbox[op].kind = "row" => accepted[op] # 0
  /\ \A s \in Scopes : \A i \in DOMAIN log[s] :
       log[s][i].op = op => accepted[op] # 0 /\ log[s][i].gen = accepted[op]

PairInv == \A op \in Ops : Tagged(op)

\* An operation is registered in one generation only.
LEMMA AcceptedOnce ==
  ASSUME IInv, EndInv, Next, NEW op \in Ops, accepted[op] # 0
  PROVE  accepted'[op] = accepted[op]
<1>1. Accounted(op)
  BY DEF EndInv
<1> QED  BY <1>1, StepAccepted DEF Accounted, Accepts

\* What an envelope carries is what was registered.
LEMMA EnvelopeAccepted ==
  ASSUME IInv, EndInv, PairInv, NEW op \in Ops, outbox[op].kind = "row"
  PROVE  accepted[op] # 0 /\ accepted[op] = outbox[op].gen
BY DEF PairInv, Tagged, EndInv, Accounted, IInv, Known

\* An envelope is there since its operation was registered.
LEMMA StepEnvelope ==
  ASSUME IInv, Next, NEW op \in Ops, outbox'[op].kind = "row"
  PROVE  outbox[op].kind = "row" \/ accepted'[op] \in Gens
<1>1. /\ Shape /\ accepted \in [Ops -> 0 .. MaxGen]
      /\ outbox \in [Ops -> {NoEnvelope} \cup [kind : {"row"}, gen : Gens, records : Records]]
  BY DEF IInv, Shape, TypeOK
<1>2. ASSUME NEW o \in Ops, Register(o) PROVE outbox[op].kind = "row" \/ accepted'[op] \in Gens
  <2>1. CASE o = op /\ OwnsExecution(row, disp[op].gen, disp[op].owner)
    <3>1. accepted'[op] = row.gen /\ row.gen \in Gens
      BY <1>1, <1>2, <2>1 DEF Register, OwnsExecution, Shape, RowSound, Exists
    <3> QED  BY <3>1
  <2>2. CASE ~(o = op /\ OwnsExecution(row, disp[op].gen, disp[op].owner))
    BY <1>1, <1>2, <2>2 DEF Register
  <2> QED  BY <2>1, <2>2
<1>3. ASSUME NEW d \in Dispatchers, Commit(d) \/ CommitFails(d) \/ Clean(d) PROVE outbox[op].kind = "row"
  <2>1. \/ outbox' = outbox \/ outbox' = Saved(d)
        \/ outbox' = [outbox EXCEPT ![disp[d].op] = NoEnvelope]
    BY <1>3 DEF Commit, CommitFails, Clean
  <2>2. outbox' = Saved(d) => outbox[op].kind = "row"
    BY <1>1 DEF Saved, NoEnvelope
  <2>3. outbox' = [outbox EXCEPT ![disp[d].op] = NoEnvelope] => outbox[op].kind = "row"
    BY <1>1 DEF NoEnvelope
  <2> QED  BY <2>1, <2>2, <2>3
<1>4. ASSUME NEW d \in Dispatchers,
             OpenMissing(d) \/ Open(d) \/ AppendRecord(d) \/ Expire(d)
               \/ AppendFails(d) \/ CleanupFails(d) \/ Stop(d)
      PROVE  outbox' = outbox
  BY <1>4 DEF OpenMissing, Open, AppendRecord, Expire, AppendFails, CleanupFails, Stop
<1>5. ASSUME NEW h \in Helpers, List(h) \/ Drain(h) \/ EndFails(h) PROVE outbox' = outbox
  BY <1>5 DEF List, Drain, Take, Listed, DeliverEnd, EndFails
<1>6. ASSUME NEW o \in Ops, Publish(o) \/ \E s \in Scopes : MarkerExpires(o, s)
      PROVE  outbox' = outbox
  BY <1>6 DEF Publish, MarkerExpires
<1>7. RunStep \/ EraseStream => outbox' = outbox
  BY <1>1, RunShape DEF EraseStream
<1> QED  BY <1>2, <1>3, <1>4, <1>5, <1>6, <1>7 DEF Next, RunStep, Deliver, Fails

\* A record that comes last was there, or is what was appended.
LEMMA LastAppended ==
  ASSUME NEW l \in Seq(Item), NEW e \in Item, NEW i \in DOMAIN Append(l, e)
  PROVE  Append(l, e)[i] = e \/ (i \in DOMAIN l /\ Append(l, e)[i] = l[i])
<1>1. /\ DOMAIN l = 1 .. Len(l) /\ DOMAIN Append(l, e) = 1 .. Len(l) + 1 /\ Len(l) \in Nat
      /\ Append(l, e)[Len(l) + 1] = e
      /\ \A n \in 1 .. Len(l) : Append(l, e)[n] = l[n]
  OBVIOUS
<1>2. i = Len(l) + 1 \/ i \in 1 .. Len(l)
  BY <1>1
<1> QED  BY <1>1, <1>2

LEMMA NextTagged ==
  ASSUME IInv, EndInv, PairInv, Next, NEW op \in Ops
  PROVE  Tagged(op)'
<1>1. /\ Tagged(op) /\ Shape /\ log \in [Scopes -> Seq(Item)]
      /\ \A s \in Scopes : log[s] \in Seq(Item)
  BY DEF PairInv, IInv, Shape, TypeOK
<1>2. ASSUME outbox'[op].kind = "row" PROVE accepted'[op] # 0
  <2>1. CASE outbox[op].kind = "row"
    BY <1>1, <2>1, AcceptedOnce DEF Tagged
  <2>2. CASE accepted'[op] \in Gens
    BY <2>2 DEF Gens
  <2> QED  BY <1>2, <2>1, <2>2, StepEnvelope
\* What is there stays tagged.
<1>3. ASSUME NEW s \in Scopes, NEW i \in DOMAIN log[s], log[s][i].op = op
      PROVE  accepted'[op] # 0 /\ log[s][i].gen = accepted'[op]
  <2>1. accepted[op] # 0 /\ log[s][i].gen = accepted[op]
    BY <1>1, <1>3 DEF Tagged
  <2> QED  BY <2>1, AcceptedOnce
<1>4. ASSUME NEW s \in Scopes, log'[s] = log[s], NEW i \in DOMAIN log'[s], log'[s][i].op = op
      PROVE  accepted'[op] # 0 /\ log'[s][i].gen = accepted'[op]
  BY <1>3, <1>4
<1>5. ASSUME NEW s \in Scopes, NEW e \in Item, log'[s] = Append(log[s], e),
             e.op = op => accepted'[op] # 0 /\ e.gen = accepted'[op],
             NEW i \in DOMAIN log'[s], log'[s][i].op = op
      PROVE  accepted'[op] # 0 /\ log'[s][i].gen = accepted'[op]
  <2>1. log'[s][i] = e \/ (i \in DOMAIN log[s] /\ log'[s][i] = log[s][i])
    BY <1>1, <1>5, LastAppended
  <2> QED  BY <1>3, <1>5, <2>1
<1>6. SUFFICES ASSUME NEW s \in Scopes, NEW i \in DOMAIN log'[s], log'[s][i].op = op
               PROVE  accepted'[op] # 0 /\ log'[s][i].gen = accepted'[op]
  BY <1>2 DEF Tagged
<1>7. CASE UNCHANGED log
  BY <1>4, <1>6, <1>7
<1>8. ASSUME NEW d \in Dispatchers, Puts(d), accepted' = accepted
      PROVE  accepted'[op] # 0 /\ log'[s][i].gen = accepted'[op]
  <2>1. /\ disp[d].op \in Ops /\ Undone(disp[d].op) /\ outbox[disp[d].op].gen \in Gens
        /\ disp[d].pc \in Scopes
    BY <1>8, AppendsOpened DEF Puts
  <2>2. accepted[disp[d].op] # 0 /\ accepted[disp[d].op] = outbox[disp[d].op].gen
    BY <2>1, EnvelopeAccepted DEF Undone
  <2>3. PICK e \in Item : /\ log' = [log EXCEPT ![disp[d].pc] = Append(log[disp[d].pc], e)]
                          /\ e.op \in {Gap, disp[d].op} /\ e.gen = outbox[disp[d].op].gen
    <3>1. PICK what \in {Gap, disp[d].op} :
            log' = [log EXCEPT ![disp[d].pc] = Append(log[disp[d].pc], [op |-> what, gen |-> outbox[disp[d].op].gen])]
      BY <1>8 DEF Puts
    <3>2. [op |-> what, gen |-> outbox[disp[d].op].gen] \in Item
      BY <2>1 DEF Item
    <3> QED  BY <3>1, <3>2
  <2>4. e.op = op => accepted'[op] # 0 /\ e.gen = accepted'[op]
    BY <1>8, <2>2, <2>3, Sets
  <2>5. log'[s] = log[s] \/ log'[s] = Append(log[s], e)
    BY <1>1, <2>1, <2>3
  <2> QED  BY <1>4, <1>5, <1>6, <2>4, <2>5
<1>9. ASSUME NEW h \in Helpers, PutsEnd(h)
      PROVE  accepted'[op] # 0 /\ log'[s][i].gen = accepted'[op]
  <2>1. disp[h].gen \in Gens
    BY <1>1, <1>9 DEF PutsEnd, Shape, RowSound, AwaitsDelivery, Exists
  <2>2. PICK e \in Item : e = [op |-> End, gen |-> disp[h].gen]
    BY <2>1 DEF Item
  <2>3. log'[s] = log[s] \/ log'[s] = Append(log[s], e)
    BY <1>9, <2>2 DEF PutsEnd, WithEnd
  <2>4. e.op # op
    BY <2>2, Sets
  <2> QED  BY <1>4, <1>5, <1>6, <2>3, <2>4
<1>10. CASE EraseStream
  <2>1. log'[s] = log[s] \/ log'[s] = <<>>
    BY <1>1, <1>10 DEF EraseStream
  <2> QED  BY <1>4, <1>6, <2>1
<1> QED  BY <1>7, <1>8, <1>9, <1>10, StepLog

-----------------------------------------------------------------------------
(* The steps of the outbox are those of the pair of logs.                  *)

Logs == [s \in Scopes |-> Visible(log[s])]

\* Readers see a record, or an end, where it is.
LEMMA ShownIn ==
  ASSUME NEW l \in Seq(Item), NEW op \in Ops \cup {End}, NEW g \in Gens
  PROVE  Contract!In(Visible(l), op, g) <=> \E i \in DOMAIN l : l[i] = [op |-> op, gen |-> g]
<1>1. PICK x \in Item : x = [op |-> op, gen |-> g]
  BY DEF Item
<1>2. x.op # Gap
  BY <1>1, OpsAssumption
<1> QED  BY <1>1, <1>2, VisibleHolds DEF Contract!In

LEMMA Shown ==
  ASSUME Shape
  PROVE  \A s \in Scopes, op \in Ops \cup {End}, g \in Gens :
           Contract!In(Visible(log[s]), op, g) <=> In(s, op, g)
<1>1. \A s \in Scopes : log[s] \in Seq(Item)
  BY DEF Shape, TypeOK
<1> QED  BY <1>1, ShownIn DEF In

\* A record appended to one stream shows at the end of that one.
LEMMA ShowsAppended ==
  ASSUME Shape, NEW s \in Scopes, NEW e \in Item, e.op # Gap,
         log' = [log EXCEPT ![s] = Append(@, e)]
  PROVE  Logs' = [Logs EXCEPT ![s] = Append(@, e)]
<1>1. log \in [Scopes -> Seq(Item)] /\ \A x \in Scopes : log[x] \in Seq(Item)
  BY DEF Shape, TypeOK
<1>2. Visible(log'[s]) = Append(Visible(log[s]), e)
  BY <1>1, VisibleAppend
<1>3. \A x \in Scopes : x # s => log'[x] = log[x]
  BY <1>1
<1>4. \A x \in Scopes : Logs[x] = Visible(log[x])
  BY DEF Logs
<1>5. ASSUME NEW x \in Scopes
      PROVE  Visible(log'[x]) = IF x = s THEN Append(Logs[s], e) ELSE Logs[x]
  <2>1. CASE x = s
    <3>1. Append(Visible(log[s]), e) = Append(Logs[s], e)
      BY <1>4
    <3> QED  BY <1>2, <2>1, <3>1
  <2>2. CASE x # s
    <3>1. Visible(log'[x]) = Visible(log[x])
      BY <1>3, <2>2
    <3> QED  BY <1>4, <2>2, <3>1
  <2> QED  BY <2>1, <2>2
<1>6. Logs' = [x \in Scopes |-> IF x = s THEN Append(Logs[s], e) ELSE Logs[x]]
  BY <1>5 DEF Logs
<1>7. DOMAIN Logs = Scopes
  BY DEF Logs
<1>8. [Logs EXCEPT ![s] = Append(@, e)] = [x \in Scopes |-> IF x = s THEN Append(Logs[s], e) ELSE Logs[x]]
  BY <1>7
<1> QED  BY <1>6, <1>8

\* A reserved number does not show.
LEMMA ShowsNoGap ==
  ASSUME Shape, NEW s \in Scopes, NEW e \in Item, e.op = Gap,
         log' = [log EXCEPT ![s] = Append(@, e)]
  PROVE  Logs' = Logs
<1>1. log \in [Scopes -> Seq(Item)] /\ \A x \in Scopes : log[x] \in Seq(Item)
  BY DEF Shape, TypeOK
<1>2. Visible(log'[s]) = Visible(log[s])
  BY <1>1, VisibleAppend
<1>3. \A x \in Scopes : x # s => log'[x] = log[x]
  BY <1>1
<1> QED  BY <1>2, <1>3 DEF Logs

\* A pair that is in both streams is there for readers, of its generation.
LEMMA BothShown ==
  ASSUME Shape, PairInv, NEW op \in Ops, NEW g \in Gens, accepted[op] = g, NEW s \in Scopes, InLog(op, s)
  PROVE  In(s, op, g)
<1>1. PICK i \in DOMAIN log[s] : log[s][i].op = op
  BY DEF InLog
<1>2. log[s] \in Seq(Item)
  BY DEF Shape, TypeOK
<1>3. log[s][i] \in Item
  BY <1>1, <1>2
<1>4. log[s][i].gen = g
  BY <1>1 DEF PairInv, Tagged
<1>5. log[s][i] = [op |-> op, gen |-> g]
  BY <1>1, <1>3, <1>4 DEF Item
<1> QED  BY <1>5 DEF In

LEMMA PutKeeps ==
  ASSUME IInv, EndInv, PairInv, NEW d \in Dispatchers, Puts(d), UNCHANGED <<accepted, erased>>
  PROVE  Contract!Next \/ UNCHANGED Contract!vars
<1>1. PICK op \in Ops, s \in Scopes, g \in Gens :
        op = disp[d].op /\ s = disp[d].pc /\ g = outbox[disp[d].op].gen
  BY AppendsOpened DEF Puts
<1>2. /\ Undone(op) /\ ~erased /\ MarkTrue(op) /\ MarkersTell(op) /\ ~Appended(op, s) /\ Shape
      /\ Opened(d) /\ Decided(d)
  BY <1>1, AppendsOpened DEF Puts, IInv
<1>3. accepted[op] = g /\ g # 0
  BY <1>1, <1>2, EnvelopeAccepted DEF Undone
<1>4. ~InLog(op, s)
  BY <1>2 DEF MarkersTell
<1>5. PICK what \in {Gap, op} :
        log' = [log EXCEPT ![s] = Append(@, [op |-> what, gen |-> g])]
  BY <1>1 DEF Puts
<1>6. [op |-> what, gen |-> g] \in Item
  BY <1>5 DEF Item
<1>7. CASE what = Gap
  <2>1. Logs' = Logs
    BY <1>2, <1>5, <1>6, <1>7, ShowsNoGap
  <2> QED  BY <2>1 DEF Contract!vars, Logs
<1>8. CASE what = op
  <2>1. Logs' = [Logs EXCEPT ![s] = Append(@, [op |-> op, gen |-> g])]
    BY <1>2, <1>5, <1>6, <1>8, ShowsAppended, Sets
  <2>2. ~In(s, op, g)
    BY <1>4 DEF In, InLog
  <2>3. ~In(s, End, g)
    BY <1>2, <1>3, <1>4 DEF EndInv, EndsComplete, InLog
  <2>4. s = "thread" => In("run", op, g)
    <3>1. SUFFICES ASSUME s = "thread" PROVE In("run", op, g)
      OBVIOUS
    <3>2. InLog(op, "run")
      BY <1>1, <1>2, <3>1 DEF Decided, Stands, At, InLog
    <3> QED  BY <1>2, <1>3, <3>2, BothShown, Sets
  <2>5. /\ ~Contract!In(Visible(log[s]), op, g) /\ ~Contract!In(Visible(log[s]), End, g)
        /\ s = "thread" => Contract!In(Visible(log["run"]), op, g)
    BY <1>2, <2>2, <2>3, <2>4, Shown, Sets
  <2>6. Contract!Put(op, s)
    BY <1>2, <1>3, <2>1, <2>5, Sets DEF Contract!Put, Logs
  <2> QED  BY <1>1, <2>6 DEF Contract!Next, Contract!Scopes, Scopes
<1> QED  BY <1>5, <1>7, <1>8

LEMMA PutEndKeeps ==
  ASSUME IInv, EndInv, PairInv, NEW h \in Helpers, PutsEnd(h), UNCHANGED <<accepted, erased>>
  PROVE  Contract!Next
<1>1. Shape
  BY DEF IInv
<1>2. PICK g \in Gens : g = disp[h].gen
  BY <1>1 DEF PutsEnd, Shape, RowSound, AwaitsDelivery, Exists
<1>3. ~erased
  BY <1>1 DEF PutsEnd, Shape, RowSound, AwaitsDelivery, Exists
<1>4. ASSUME NEW op \in Ops, accepted[op] = g, NEW s \in Scopes
      PROVE  Contract!In(Visible(log[s]), op, g)
  <2>1. disp[h].todo = {} /\ "end" \notin Stages /\ g # 0
    BY <1>2 DEF EndInv, Covers, PutsEnd, Stages, Gens
  <2>2. Both(op)
    BY <1>2, <1>4, <2>1 DEF EndInv, Covers, PutsEnd
  <2>3. InLog(op, s)
    BY <1>3, <2>2 DEF Both
  <2> QED  BY <1>1, <1>4, <2>3, BothShown, Shown
<1>5. Contract!Complete(g)
  BY <1>4 DEF Contract!Complete, Contract!Scopes, Scopes
<1>6. ASSUME NEW s \in Scopes, NEW scopes, log'[s] = WithEnd(g, scopes)[s]
      PROVE  Visible(log'[s]) = IF s \in scopes THEN Contract!WithEnd(g, s) ELSE Visible(log[s])
  <2>1. log[s] \in Seq(Item)
    BY <1>1 DEF Shape, TypeOK
  <2>2. [op |-> End, gen |-> g] \in Item
    BY DEF Item
  <2>3. Visible(Append(log[s], [op |-> End, gen |-> g])) = Append(Visible(log[s]), [op |-> End, gen |-> g])
    BY <2>1, <2>2, VisibleAppend, OpsAssumption
  <2>4. Contract!In(Visible(log[s]), End, g) <=> In(s, End, g)
    BY <1>1, Shown
  <2> QED  BY <1>6, <2>3, <2>4 DEF WithEnd, Contract!WithEnd
<1>7. Logs' \in {[Logs EXCEPT !["run"] = Contract!WithEnd(g, "run")],
                 [s \in Scopes |-> Contract!WithEnd(g, s)]}
  <2>1. CASE log' = WithEnd(g, {"run"})
    <3>1. Visible(log'["run"]) = Contract!WithEnd(g, "run")
      BY <1>6, <2>1, Sets
    <3>2. \A s \in Scopes : s # "run" => Visible(log'[s]) = Visible(log[s])
      BY <1>6, <2>1
    <3> QED  BY <3>1, <3>2 DEF Logs
  <2>2. CASE log' = WithEnd(g, Scopes)
    <3>1. \A s \in Scopes : Visible(log'[s]) = Contract!WithEnd(g, s)
      BY <1>6, <2>2
    <3> QED  BY <3>1 DEF Logs
  <2> QED  BY <1>2, <2>1, <2>2 DEF PutsEnd
<1>8. Contract!PutEnd(g)
  BY <1>3, <1>5, <1>7 DEF Contract!PutEnd, Contract!Scopes, Logs, Scopes
<1> QED  BY <1>8 DEF Contract!Next, Gens

LEMMA EraseKeeps == ASSUME IInv, EraseStream PROVE Contract!Next
<1>1. log \in [Scopes -> Seq(Item)] /\ "run" \in Scopes
  BY Sets DEF IInv, Shape, TypeOK
<1>2. log'["run"] = <<>> /\ \A s \in Scopes : s # "run" => log'[s] = log[s]
  BY <1>1 DEF EraseStream
<1>3. Logs' = [Logs EXCEPT !["run"] = <<>>]
  BY <1>2, VisibleEmpty DEF Logs
<1>4. Contract!Erase
  BY <1>3 DEF Contract!Erase, EraseStream, Logs
<1> QED  BY <1>4 DEF Contract!Next

LEMMA RegisterKeeps ==
  ASSUME IInv, EndInv, Next, UNCHANGED <<log, erased>>
  PROVE  Contract!Next \/ UNCHANGED Contract!vars
<1>1. accepted \in [Ops -> 0 .. MaxGen]
  BY DEF IInv, Shape, TypeOK
<1>2. Logs' = Logs
  BY DEF Logs
<1>3. CASE accepted' = accepted
  BY <1>2, <1>3 DEF Contract!vars, Logs
<1>4. ASSUME NEW op \in Ops, accepted' = [accepted EXCEPT ![op] = row.gen], row.gen \in Gens
      PROVE  Contract!Next \/ UNCHANGED Contract!vars
  <2>1. CASE accepted[op] = 0
    <3>1. Contract!Accept(op)
      BY <1>2, <1>4, <2>1 DEF Contract!Accept, Logs, Gens
    <3> QED  BY <3>1 DEF Contract!Next
  <2>2. CASE accepted[op] # 0
    <3>1. accepted' = accepted
      <4>1. accepted'[op] = accepted[op]
        BY <2>2, AcceptedOnce
      <4> QED  BY <1>1, <1>4, <4>1
    <3> QED  BY <1>3, <3>1
  <2> QED  BY <2>1, <2>2
<1> QED  BY <1>3, <1>4, StepRegisters

LEMMA StepKeepsPairs ==
  ASSUME IInv, EndInv, PairInv, Next
  PROVE  Contract!Next \/ UNCHANGED Contract!vars
BY StepLog, RegisterKeeps, PutKeeps, PutEndKeeps, EraseKeeps

LEMMA InitKeepsPairs == Init => Contract!Init /\ PairInv
<1> SUFFICES ASSUME Init PROVE Contract!Init /\ PairInv
  OBVIOUS
<1>1. /\ \A s \in Scopes : log[s] = <<>>
      /\ \A op \in Ops : outbox[op].kind # "row"
  BY DEF Init, NoEnvelope
<1>2. Contract!Init
  BY <1>1, VisibleEmpty DEF Init, Contract!Init, Contract!Scopes, Scopes
<1>3. PairInv
  BY <1>1 DEF PairInv, Tagged
<1> QED  BY <1>2, <1>3

\* What a run's readers see of its events is what PairLog promises: every event accepted once,
\* put once in each stream, in the run's first, and before the end of its generation
\* (append_protocol_pair, _deliver, _deliver_pending, the append script), for any number of
\* events, dispatchers, executions and generations and every bound on failures.
THEOREM OutboxKeepsPairs == Spec => KeepsPairs
<1>1. Init => Contract!Init /\ PairInv
  BY InitKeepsPairs
<1>2. IInv /\ EndInv /\ PairInv /\ [Next]_vars => PairInv' /\ [Contract!Next]_(Contract!vars)
  <2>1. IInv /\ EndInv /\ PairInv /\ Next => PairInv' /\ [Contract!Next]_(Contract!vars)
    BY NextTagged, StepKeepsPairs DEF PairInv
  <2>2. UNCHANGED vars => (PairInv => PairInv') /\ UNCHANGED Contract!vars
    BY DEF vars, PairInv, Tagged, Contract!vars
  <2> QED  BY <2>1, <2>2
<1> QED  BY <1>1, <1>2, InvInvariant, EndsInvariant, PTL DEF Spec, KeepsPairs, Contract!Spec
=============================================================================
