--------------------------- MODULE RedisDelivery ---------------------------
(***************************************************************************)
(* The protocol outbox of the Redis deployment: services/redis_delivery.py *)
(* with the append script of services/stream_persistence.py.  An event of  *)
(* a run is a pair of records, one in the run's stream and one in the      *)
(* thread's.  SQL owns the envelope until both streams have it.            *)
(*                                                                         *)
(* Several dispatchers drain the outbox at once: the calls that publish,   *)
(* the reconciler of every process, and the delivery of a run's outcome,   *)
(* which drains the run's pairs before it appends the end.  Any of them    *)
(* may stop or fail between two steps, and Redis may apply an append whose *)
(* answer is lost.  The life of the run is RunRow's.                       *)
(***************************************************************************)
EXTENDS RunRow, FiniteSets, Sequences

CONSTANTS
  Ops,            (* calls of append_protocol_pair, by operation id        *)
  Helpers,        (* reconcilers and deliveries of an outcome              *)
  Gap,            (* a sequence number the script reserved and never used  *)
  End,            (* the end of a generation                               *)
  NoOp,
  MaxFaults       (* bound: failures and stops                             *)

ASSUME OpsAssumption ==
  /\ Ops \cap Helpers = {}
  /\ Gap \notin Ops /\ End \notin Ops /\ NoOp \notin Ops /\ Gap # End
ASSUME MaxFaultsAssumption == MaxFaults \in Nat

VARIABLES
  row,        (* the run                                                   *)
  outbox,     (* table stream_deliveries                                   *)
  log,        (* the two Redis streams: position = sequence number         *)
  mark,       (* operation markers in Redis                                *)
  disp,       (* progress of each dispatcher                               *)
  answer,     (* what append_protocol_pair returned                        *)
  accepted,   (* history: the generation an operation was registered in    *)
  erased,     (* the stream of the deleted run was removed                 *)
  faults

vars == <<row, outbox, log, mark, disp, answer, accepted, erased, faults>>

Scopes == {"run", "thread"}

Dispatchers == Ops \cup Helpers

\* records: NULL, the two cursors, or the empty list of a discarded pair.
NoRecords == [kind |-> "null", run |-> 0, thread |-> 0]
Dropped   == [kind |-> "dropped", run |-> 0, thread |-> 0]
Cursors(i, j) == [kind |-> "pair", run |-> i, thread |-> j]

Records == [kind : {"null", "dropped", "pair"}, run : Nat, thread : Nat]

NoEnvelope == [kind |-> "absent", gen |-> 0, records |-> NoRecords]
Envelope(g) == [kind |-> "row", gen |-> g, records |-> NoRecords]

Marker == [seq : Nat, done : BOOLEAN, ttl : BOOLEAN]
NoMarker == [seq |-> 0, done |-> FALSE, ttl |-> FALSE]

Item == [op : Ops \cup {Gap, End}, gen : Gens]

\* op: the envelope in hand; todo: those still to do; gen, owner: of the
\* execution that publishes, or the generation whose outcome is delivered;
\* recs: what the transaction will save, or has saved.
Idle == [pc |-> "idle", op |-> NoOp, todo |-> {}, gen |-> 0,
         owner |-> NoOwner, recs |-> NoRecords]

Stages == {"open", "run", "thread", "commit", "expire", "clean"}

InTransaction == {"run", "thread", "commit"}

TypeOK ==
  /\ row \in Row
  /\ outbox \in [Ops -> {NoEnvelope} \cup [kind : {"row"}, gen : Gens, records : Records]]
  /\ log \in [Scopes -> Seq(Item)]
  /\ mark \in [Ops -> [Scopes -> Marker]]
  /\ disp \in [Dispatchers ->
       [pc : Stages \cup {"idle", "register", "next", "end", "over"},
        op : Ops \cup {NoOp}, todo : SUBSET Ops, gen : 0 .. MaxGen,
        owner : Owners \cup {NoOwner}, recs : Records]]
  /\ answer \in [Ops -> Records]
  /\ accepted \in [Ops -> 0 .. MaxGen]
  /\ erased \in BOOLEAN
  /\ faults \in 0 .. MaxFaults

Init ==
  /\ row = NewGeneration(NoRow("absent"))
  /\ outbox = [op \in Ops |-> NoEnvelope]
  /\ log = [s \in Scopes |-> <<>>]
  /\ mark = [op \in Ops |-> [s \in Scopes |-> NoMarker]]
  /\ disp = [d \in Dispatchers |-> Idle]
  /\ answer = [op \in Ops |-> NoRecords]
  /\ accepted = [op \in Ops |-> 0]
  /\ erased = FALSE
  /\ faults = 0

-----------------------------------------------------------------------------
(* Building blocks.                                                        *)

In(s, op, g) == \E i \in DOMAIN log[s] : log[s][i] = [op |-> op, gen |-> g]

Move(d, new) == disp' = [disp EXCEPT ![d] = new]

Goto(d, pc) == Move(d, [disp[d] EXCEPT !.pc = pc])

Fault == faults < MaxFaults /\ faults' = faults + 1

\* The delivery transaction holds the run FOR UPDATE (SQLite: the database)
\* through its appends, so that whoever else wants the run waits.
RunLocked == \E d \in Dispatchers : disp[d].pc \in InTransaction

Locked(op) ==
  \E d \in Dispatchers : disp[d].pc \in InTransaction /\ disp[d].op = op

\* The run is gone, has another generation or is over: the pair is discarded.
Discarded(g) == ~Exists(row) \/ row.gen # g \/ row.status \in Terminal

-----------------------------------------------------------------------------
(* The append script.                                                      *)

\* Mutant: only a marked completion counts, not the record itself.
AppendedIfDone(op, s) == mark[op][s].seq # 0 /\ mark[op][s].done

\* The marker names a record that is in the stream, or says it was.
Appended(op, s) ==
  LET m == mark[op][s] IN
  /\ m.seq # 0
  /\ m.done \/ (m.seq \in DOMAIN log[s] /\ log[s][m.seq].op = op)

\* The number the script answers with: the one it used before, or the next.
SeqOf(op, s) == IF Appended(op, s) THEN mark[op][s].seq ELSE Len(log[s]) + 1

\* The script reserves a number under the operation's marker, appends, and
\* notes that it is done.  It may fail after each of these; a later run of it
\* finds out by the marker how far the earlier one came.
AppendUpTo(op, g, s, stage) ==
  LET what == IF stage = "reserved" THEN Gap ELSE op IN
  IF Appended(op, s)
  THEN /\ mark' = [mark EXCEPT ![op][s].done = TRUE]
       /\ UNCHANGED log
  ELSE /\ log' = [log EXCEPT ![s] = Append(@, [op |-> what, gen |-> g])]
       /\ mark' = [mark EXCEPT ![op][s] =
                     [@ EXCEPT !.seq = SeqOf(op, s), !.done = (stage = "done")]]

-----------------------------------------------------------------------------
(* append_protocol_pair.                                                   *)

\* The graph of the execution that owns the run publishes an event.
Publish(op) ==
  /\ disp[op].pc = "idle"
  /\ row.status = "running"
  /\ \A x \in Ops : disp[x].pc \in {"idle", "over"}
                    \/ disp[x].gen # row.gen \/ disp[x].owner # row.owner
  /\ Move(op, [Idle EXCEPT !.pc = "register", !.op = op, !.gen = row.gen,
                           !.owner = row.owner])
  /\ UNCHANGED <<row, outbox, log, mark, answer, accepted, erased, faults>>

\* Mutant: the registration does not ask who owns the execution.
UnfencedRegister(op) ==
  /\ disp[op].pc = "register" /\ ~RunLocked
  /\ Goto(op, "open")
  /\ outbox' = IF outbox[op].kind = "row" THEN outbox
               ELSE [outbox EXCEPT ![op] = Envelope(row.gen)]
  /\ accepted' = [accepted EXCEPT ![op] = row.gen]
  /\ UNCHANGED <<row, log, mark, answer, erased, faults>>

\* The envelope is inserted unless it is there, by the owner of the execution
\* only.
Register(op) ==
  /\ disp[op].pc = "register" /\ ~RunLocked
  /\ IF OwnsExecution(row, disp[op].gen, disp[op].owner)
     THEN /\ Goto(op, "open")
          /\ outbox' = IF outbox[op].kind = "row" THEN outbox
                       ELSE [outbox EXCEPT ![op] = Envelope(row.gen)]
          /\ accepted' = [accepted EXCEPT ![op] = row.gen]
     ELSE Goto(op, "over") /\ UNCHANGED <<outbox, accepted>>
  /\ UNCHANGED <<row, log, mark, answer, erased, faults>>

-----------------------------------------------------------------------------
(* _deliver.                                                               *)

\* The call ends: with records for its caller, for the next envelope of a
\* reconciler, or with an error.  An error ends the delivery of an outcome.
AfterEnvelope(d, failed) ==
  IF d \in Ops THEN [disp[d] EXCEPT !.pc = "over"]
  ELSE IF failed /\ disp[d].gen # 0 THEN Idle
  ELSE [disp[d] EXCEPT !.pc = "next", !.op = NoOp, !.recs = NoRecords]

\* Another dispatcher finished the envelope: a reconciler goes on, a caller
\* registers it again to learn its cursors.
OpenMissing(d) ==
  LET op == disp[d].op IN
  /\ disp[d].pc = "open" /\ ~RunLocked
  /\ outbox[op].kind = "absent"
  /\ Move(d, IF d \in Ops THEN [disp[d] EXCEPT !.pc = "register"]
             ELSE AfterEnvelope(d, FALSE))
  /\ UNCHANGED <<row, outbox, log, mark, answer, accepted, erased, faults>>

\* Lock the envelope and the run; see whether to discard, append or confirm.
Open(d) ==
  LET op == disp[d].op
      box == outbox[op] IN
  /\ disp[d].pc = "open" /\ ~RunLocked
  /\ box.kind = "row"
  /\ \/ /\ Discarded(box.gen)
        /\ Move(d, [disp[d] EXCEPT !.pc = "commit", !.recs = Dropped])
     \/ /\ ~Discarded(box.gen)
        /\ box.records # NoRecords
        /\ Move(d, [disp[d] EXCEPT !.pc = "commit", !.recs = box.records])
     \/ /\ ~Discarded(box.gen)
        /\ box.records = NoRecords
        /\ Move(d, [disp[d] EXCEPT !.pc = "run", !.recs = NoRecords])
  /\ UNCHANGED <<row, outbox, log, mark, answer, accepted, erased, faults>>

AppendRecord(d) ==
  LET op == disp[d].op
      s == disp[d].pc IN
  /\ s \in Scopes
  /\ AppendUpTo(op, outbox[op].gen, s, "done")
  /\ Move(d, [disp[d] EXCEPT
       !.pc = IF s = "run" THEN "thread" ELSE "commit",
       !.recs = IF s = "run" THEN [NoRecords EXCEPT !.run = SeqOf(op, s)]
                ELSE Cursors(@.run, SeqOf(op, s))])
  /\ UNCHANGED <<row, outbox, answer, accepted, erased, faults>>

\* The script fails on its way or its answer is lost: the transaction is rolled
\* back, what Redis did stays.
AppendFails(d) ==
  LET op == disp[d].op
      s == disp[d].pc IN
  /\ s \in Scopes
  /\ Fault
  /\ \/ UNCHANGED <<log, mark>>
     \/ \E stage \in {"reserved", "added", "done"} :
          AppendUpTo(op, outbox[op].gen, s, stage)
  /\ Move(d, AfterEnvelope(d, TRUE))
  /\ UNCHANGED <<row, outbox, answer, accepted, erased>>

Saved(d) == [outbox EXCEPT ![disp[d].op].records = disp[d].recs]

Commit(d) ==
  /\ disp[d].pc = "commit"
  /\ outbox' = Saved(d)
  /\ Goto(d, "expire")
  /\ UNCHANGED <<row, log, mark, answer, accepted, erased, faults>>

\* The commit fails, with or without effect; a conflict is tried again.
CommitFails(d) ==
  /\ disp[d].pc = "commit"
  /\ Fault
  /\ outbox' \in {outbox, Saved(d)}
  /\ \/ Goto(d, "open")
     \/ Move(d, AfterEnvelope(d, TRUE))
  /\ UNCHANGED <<row, log, mark, answer, accepted, erased>>

Return(d) ==
  /\ Move(d, AfterEnvelope(d, FALSE))
  /\ answer' = IF d \in Ops THEN [answer EXCEPT ![d] = disp[d].recs] ELSE answer

WithTtl(op, scopes) ==
  [mark EXCEPT ![op] =
     [s \in Scopes |-> IF s \in scopes /\ @[s].seq # 0
                       THEN [@[s] EXCEPT !.ttl = TRUE] ELSE @[s]]]

\* The committed cursors make the markers dispensable: they get a TTL.
Expire(d) ==
  /\ disp[d].pc = "expire"
  /\ mark' = WithTtl(disp[d].op, Scopes)
  /\ Goto(d, "clean")
  /\ UNCHANGED <<row, outbox, log, answer, accepted, erased, faults>>

\* The envelope goes, unless it was registered anew and is not delivered yet.
Clean(d) ==
  LET op == disp[d].op IN
  /\ disp[d].pc = "clean" /\ ~Locked(op)
  /\ outbox' = IF outbox[op].records = NoRecords THEN outbox
               ELSE [outbox EXCEPT ![op] = NoEnvelope]
  /\ Return(d)
  /\ UNCHANGED <<row, log, mark, accepted, erased, faults>>

\* A failure of the cleanup is logged; the envelope stays for a reconciler.
CleanupFails(d) ==
  /\ disp[d].pc \in {"expire", "clean"}
  /\ Fault
  /\ \/ disp[d].pc = "expire" /\ mark' = WithTtl(disp[d].op, {"run"})
     \/ UNCHANGED mark
  /\ Return(d)
  /\ UNCHANGED <<row, outbox, log, accepted, erased>>

-----------------------------------------------------------------------------
(* reconcile_protocol_deliveries and the delivery of an outcome.           *)

\* Mutant: only undelivered envelopes are looked for.
Undelivered == {op \in Ops : outbox[op].kind = "row" /\ outbox[op].records = NoRecords}

Pending == {op \in Ops : outbox[op].kind = "row"}

\* The reconciler of a process (gen 0), or _deliver_pending of a generation
\* whose outcome is stored, reads what is pending.
List(h) ==
  /\ disp[h].pc = "idle"
  /\ \/ Pending # {}
        /\ Move(h, [Idle EXCEPT !.pc = "next", !.todo = Pending])
     \/ row.status = "terminal_pending"
        /\ Move(h, [Idle EXCEPT !.pc = "next", !.todo = Pending, !.gen = row.gen])
  /\ UNCHANGED <<row, outbox, log, mark, answer, accepted, erased, faults>>

Take(h) ==
  /\ disp[h].pc = "next"
  /\ \E op \in disp[h].todo :
       Move(h, [disp[h] EXCEPT !.pc = "open", !.op = op, !.todo = @ \ {op}])
  /\ UNCHANGED <<row, outbox, log, mark, answer, accepted, erased, faults>>

\* Mutant: an envelope that failed does not keep the end back.
EndRegardless(h) ==
  /\ disp[h].pc = "next"
  /\ Move(h, IF disp[h].gen = 0 THEN Idle ELSE [disp[h] EXCEPT !.pc = "end", !.todo = {}])
  /\ UNCHANGED <<row, outbox, log, mark, answer, accepted, erased, faults>>

Listed(h) ==
  /\ disp[h].pc = "next" /\ disp[h].todo = {}
  /\ Move(h, IF disp[h].gen = 0 THEN Idle ELSE [disp[h] EXCEPT !.pc = "end"])
  /\ UNCHANGED <<row, outbox, log, mark, answer, accepted, erased, faults>>

\* The end is appended where the marker does not say that it is there.
WithEnd(g, scopes) ==
  [s \in Scopes |->
     IF s \in scopes /\ ~In(s, End, g)
     THEN Append(log[s], [op |-> End, gen |-> g]) ELSE log[s]]

DeliverEnd(h) ==
  LET g == disp[h].gen IN
  /\ disp[h].pc = "end" /\ ~RunLocked
  /\ IF AwaitsDelivery(row, g)
     THEN log' = WithEnd(g, Scopes) /\ row' = Applied(row, row.result)
     ELSE UNCHANGED <<log, row>>
  /\ Move(h, Idle)
  /\ UNCHANGED <<outbox, mark, answer, accepted, erased, faults>>

EndFails(h) ==
  LET g == disp[h].gen IN
  /\ disp[h].pc = "end" /\ ~RunLocked
  /\ AwaitsDelivery(row, g)
  /\ Fault
  /\ log' \in {WithEnd(g, {"run"}), WithEnd(g, Scopes)}
  /\ Move(h, Idle)
  /\ UNCHANGED <<row, outbox, mark, answer, accepted, erased>>

-----------------------------------------------------------------------------
(* Processes, time, and the life of the run.                               *)

Stop(d) ==
  /\ disp[d].pc \notin {"idle", "over"}
  /\ Fault
  /\ Move(d, IF d \in Ops THEN [disp[d] EXCEPT !.pc = "over"] ELSE Idle)
  /\ UNCHANGED <<row, outbox, log, mark, answer, accepted, erased>>

\* The TTL is that of the streams, long against a delivery and the retries of
\* one: no marker expires under a dispatcher of its operation, nor while the
\* envelope awaits its delivery.
MarkerExpires(op, s) ==
  /\ mark[op][s].ttl
  /\ outbox[op].kind = "absent" \/ outbox[op].records # NoRecords
  /\ disp[op].pc \in {"idle", "over"}
  /\ ~Locked(op)
  /\ mark' = [mark EXCEPT ![op][s] = NoMarker]
  /\ UNCHANGED <<row, outbox, log, disp, answer, accepted, erased, faults>>

SetRow(new) ==
  row' = new /\ UNCHANGED <<outbox, log, mark, disp, answer, accepted, erased, faults>>

Claim(w) ==
  /\ ~RunLocked
  /\ Claimable(row, row.gen, w, TRUE)
  /\ SetRow(Claimed(row, w))

\* The graph returned, so none of its calls is under way.
Finish(w) ==
  /\ ~RunLocked
  /\ MayFinish(row, row.gen, w)
  /\ \A op \in Ops : disp[op].pc \in {"idle", "over"}
                     \/ disp[op].gen # row.gen \/ disp[op].owner # w
  /\ \E outcome \in Terminal : SetRow(Staged(row, outcome))

Cancel ==
  /\ ~RunLocked
  /\ MayCancel(row)
  /\ SetRow(Staged(row, "interrupted"))

Resume ==
  /\ ~RunLocked
  /\ row.status = "interrupted" /\ row.gen < MaxGen
  /\ SetRow(NewGeneration(row))

Delete ==
  /\ ~RunLocked
  /\ Exists(row)
  /\ SetRow(NoRow("deleted"))

\* delete_run removes the stream after the row.
EraseStream ==
  /\ row.status = "deleted" /\ ~erased
  /\ erased' = TRUE
  /\ log' = [log EXCEPT !["run"] = <<>>]
  /\ UNCHANGED <<row, outbox, mark, disp, answer, accepted, faults>>

Deliver(d) ==
  \/ OpenMissing(d) \/ Open(d) \/ AppendRecord(d) \/ Commit(d) \/ Expire(d)
  \/ Clean(d)

Fails(d) == AppendFails(d) \/ CommitFails(d) \/ CleanupFails(d) \/ Stop(d)

Drain(h) == Take(h) \/ Listed(h) \/ DeliverEnd(h)

Next ==
  \/ \E op \in Ops : Publish(op) \/ Register(op)
  \/ \E d \in Dispatchers : Deliver(d) \/ Fails(d)
  \/ \E h \in Helpers : List(h) \/ Drain(h) \/ EndFails(h)
  \/ \E op \in Ops, s \in Scopes : MarkerExpires(op, s)
  \/ \E w \in Owners : Claim(w) \/ Finish(w)
  \/ Cancel \/ Resume \/ Delete \/ EraseStream

Spec == Init /\ [][Next]_vars

\* run_recovery_service reconciles every two seconds in every process; a call
\* that was made goes on.  Nothing is assumed of clients, graphs and failures.
Fairness ==
  /\ \A d \in Dispatchers : WF_vars(Deliver(d))
  /\ \A op \in Ops : WF_vars(Register(op))
  /\ \A h \in Helpers : WF_vars(List(h)) /\ WF_vars(Drain(h))

FairSpec == Spec /\ Fairness

-----------------------------------------------------------------------------
(* Properties.                                                             *)

\* "SQL owns the envelope until both logs ack": no operation is twice in a
\* stream, whichever dispatchers raced, answers were lost, transactions rolled
\* back and markers expired.
OncePerStream ==
  \A s \in Scopes : \A i, j \in DOMAIN log[s] :
    log[s][i].op \in Ops /\ log[s][i].op = log[s][j].op => i = j

\* The cursors a caller is given, and will notify subscribers with, are those
\* under which its records stand in the two streams, also when another
\* dispatcher appended them and removed the envelope.
CursorsTrue ==
  \A op \in Ops : answer[op].kind = "pair" =>
    /\ ~erased => log["run"][answer[op].run].op = op
    /\ log["thread"][answer[op].thread].op = op

\* "A transient failure must not leak markers": a marker that does not expire
\* has an envelope whose dispatcher will see to it.
MarkersCleaned ==
  \A op \in Ops : \A s \in Scopes :
    mark[op][s].seq # 0 /\ ~mark[op][s].ttl => outbox[op].kind = "row"

\* "Never append an end ahead of an incomplete protocol pair": once a stream tells
\* the end of a generation, every pair that generation registered is complete, so
\* that a reader who stops there missed nothing.  (_deliver_pending, append_redis_envelope)
EndsComplete ==
  \A op \in Ops, s, x \in Scopes :
    In(s, End, accepted[op]) =>
      (erased /\ x = "run") \/ \E i \in DOMAIN log[x] : log[x][i].op = op

\* A pair is in a stream once and before the end, its cursors are true, and no
\* marker that makes it so is left when the envelope goes.  (_deliver, the append
\* script, the cleanup, _deliver_pending)
DeliveredOnce ==
  /\ OncePerStream
  /\ MarkersCleaned
  /\ CursorsTrue
  /\ EndsComplete

\* The streams as readers see them implement the abstract pair of logs: to
\* the run's stream first, nothing after the end of its generation, and no late
\* append revives the stream of a deleted run.
Visible(l) ==
  LET Upto[n \in 0 .. Len(l)] ==
        IF n = 0 THEN <<>>
        ELSE IF l[n].op = Gap THEN Upto[n - 1]
        ELSE Append(Upto[n - 1], l[n])
  IN  Upto[Len(l)]

Contract == INSTANCE PairLog WITH
  logs <- [s \in Scopes |-> Visible(log[s])],
  gone <- erased

KeepsPairs == Contract!Spec

\* Every envelope leaves the outbox, although calls and reconcilers fail.
OutboxDrains == \A op \in Ops : outbox[op].kind = "row" ~> outbox[op].kind = "absent"
=============================================================================
