---------------------------- MODULE EventStreamsProofs ----------------------------
(***************************************************************************)
(* Theorems about the durable streams of a run that executes inline:       *)
(* numbers have no gaps, a reader is told every record once and in order,  *)
(* through the end, and no event of a graph is lost or written twice.      *)
(***************************************************************************)
EXTENDS EventStreams, FiniteSetTheorems, SequenceTheorems, TLAPS

-----------------------------------------------------------------------------
(* The numbers.                                                            *)

\* A writer has records in a transaction that is open.
Holds(w, s) == tx[w].stage = "open" /\ tx[w].new[s] # <<>>

\* A stream is numbered from one to its counter, without a gap, and what an open transaction
\* will add follows; no two have records for the same stream, no two have the row of the run,
\* and the run cannot change hands under a transaction that has its row.
Numbers ==
  /\ \A s \in Scopes :
       /\ \A r \in rows[s] : r.seq \in 1 .. counter[s]
       /\ \A a, b \in rows[s] : a.seq = b.seq => a = b
       /\ \A k \in 1 .. counter[s] : \E r \in rows[s] : r.seq = k
  /\ \A w \in Writers, s \in Scopes : tx[w].stage = "open" =>
       \A i \in DOMAIN tx[w].new[s] : tx[w].new[s][i].seq = counter[s] + i
  /\ \A s \in Scopes, v, w \in Writers : Holds(v, s) /\ Holds(w, s) => v = w
  /\ \A x, y \in Owners : tx[x].stage = "open" /\ tx[y].stage = "open" => x = y
  /\ \A x \in Owners : tx[x].stage = "open" => OwnsExecution(row, 1, x)

-----------------------------------------------------------------------------
(* The phases of an execution and what is on its way to the streams.       *)

\* Who has the buffer's lock, and when there is an outcome.
Phases(x) ==
  LET e == exec[x]
      b == buf[x] IN
  /\ e.pc \in {"new", "finish", "gone"} => b.holder = "none"
  /\ e.pc = "start" <=> b.holder = "start"
  /\ b.holder = "graph" => e.pc = "graph"
  /\ b.holder = "worker" => e.pc \in {"graph", "exit"}
  /\ b.holder = "finish" => e.pc = "exit"
  /\ tx[x].stage # "none" => b.holder # "none"
  /\ e.pc \in {"new", "start"} =>
       e.emitted = 0 /\ b.pending = <<>> /\ b.carry = 0
  /\ b.carry # 0 /\ e.pc # "gone" => b.holder = "graph"
  /\ e.outcome # "none" => e.pc \in {"exit", "finish", "gone"}
  /\ e.pc = "exit" /\ ~e.cancelled => e.outcome # "none"
  /\ e.cancelled => e.pc \in {"exit", "finish", "gone"}
  /\ e.pc = "finish" => e.outcome # "none"
  /\ e.pc = "finish" /\ e.outcome = "success" => b.pending = <<>> /\ ~e.cancelled

\* Event n waits in the buffer.
Waits(x, n) == n = buf[x].carry \/ \E i \in DOMAIN buf[x].pending : buf[x].pending[i] = n

Told(s, c) == \E r \in rows[s] : r.what = c

\* What is in the buffer was emitted, and is there once.
Queued(x) ==
  LET p == buf[x].pending IN
  /\ \A i \in DOMAIN p : p[i] \in 1 .. exec[x].emitted /\ p[i] # buf[x].carry
  /\ \A i, j \in DOMAIN p : p[i] = p[j] => i = j
  /\ buf[x].carry <= exec[x].emitted

\* Every transaction of an execution holds what the buffer holds, and what is done is stored.
Carries(x) ==
  /\ tx[x].stage # "none" => \A s \in Scopes :
       /\ DOMAIN tx[x].new[s] = DOMAIN Contents(x)[s]
       /\ \A i \in DOMAIN tx[x].new[s] : tx[x].new[s][i].what = Contents(x)[s][i]
  /\ tx[x].stage = "done" =>
       \A s \in Scopes : \A i \in DOMAIN tx[x].new[s] : tx[x].new[s][i] \in rows[s]

\* No event of a graph that goes on or succeeded is lost.
Kept(x) ==
  exec[x].outcome # "error" /\ ~exec[x].cancelled =>
    \A n \in 1 .. exec[x].emitted :
      Waits(x, n) \/ \A s \in Scopes : Told(s, Event(x, n))

\* An event that is stored waits no longer, unless its execution did not learn of a commit.
Once(x) ==
  ~cut[x] /\ exec[x].pc # "gone" => \A n \in 1 .. exec[x].emitted, s \in Scopes :
    Waits(x, n) /\ Told(s, Event(x, n)) => n # buf[x].carry /\ tx[x].stage = "done"

Executions == \A x \in Owners : Phases(x) /\ Queued(x) /\ Carries(x) /\ Kept(x) /\ Once(x)

-----------------------------------------------------------------------------
(* What the streams say.                                                   *)

\* What can be in a stream, and when.
Says(s) ==
  {Event(x, n) : x \in Owners, n \in 1 .. NEvents}
  \cup (IF s = "run" THEN {Starting(x) : x \in Owners} ELSE {Started})
  \cup {Ending}

Contained ==
  /\ \A s \in Scopes : \A r \in rows[s] : r.what \in Says(s)
  /\ \A x \in Owners, s \in Scopes, n \in 1 .. NEvents :
       Told(s, Event(x, n)) => n <= exec[x].emitted
  /\ \A x \in Owners : Told("run", Starting(x)) =>
       exec[x].pc # "new" /\ (exec[x].pc = "start" => tx[x].stage = "done")
  /\ tx[Api].stage # "done"
  /\ tx[Api].stage = "open" =>
       /\ ~Told("thread", Started)
       /\ tx[Api].new["run"] = <<>>
       /\ DOMAIN tx[Api].new["thread"] = {1} /\ tx[Api].new["thread"][1].what = Started

\* TwiceOnlyIfCut, and what is repeated is an execution's.
Repeats ==
  \A s \in Scopes : \A a, b \in rows[s] :
    a.what = b.what /\ a.seq # b.seq => a.what.by \in Owners /\ cut[a.what.by]

\* The run is over exactly when both streams say so, and nothing follows the end of the run's.
Ended ==
  /\ \A s \in Scopes : Told(s, Ending) <=> row.status \in Terminal
  /\ \A r, t \in rows["run"] : r.what = Ending => t.seq <= r.seq
  /\ row.status = "success" =>
       \E x \in Owners : exec[x].pc = "gone" /\ \A n \in 1 .. exec[x].emitted, s \in Scopes :
         Told(s, Event(x, n))

-----------------------------------------------------------------------------
(* The reader.                                                             *)

HasEnd == \E i \in DOMAIN rd.got : rd.got[i].what = Ending

\* What a reader has is the part of the stream after its start; it counts polls only when the
\* run is over, and the second one has found the end.
Follows ==
  /\ \A i \in DOMAIN rd.got : rd.got[i] \in rows[rd.scope] /\ rd.got[i].seq = rd.from + i
  /\ rd.from + Len(rd.got) <= counter[rd.scope]
  /\ rd.pc = "new" => rd = NoReader
  /\ rd.pc # "over" => rd.idle < Polls
  /\ rd.idle > 0 => row.status \in Terminal
  /\ rd.pc = "check" /\ rd.idle > 0 => HasEnd
  /\ rd.pc = "over" => HasEnd
  /\ \A r \in rows[rd.scope] : r.what = Ending => r.seq > rd.from

-----------------------------------------------------------------------------
(* The pairs.                                                              *)

Events(s) == {r \in rows[s] : r.what.kind = "event"}

\* f takes the events of the run's stream to those of the thread's, in their order.
Pairing(f) ==
  /\ f \in [Events("run") -> Events("thread")]
  /\ \A t \in Events("thread") : \E r \in Events("run") : f[r] = t
  /\ \A r \in Events("run") : f[r].what = r.what
  /\ \A a, b \in Events("run") : a.seq < b.seq => f[a].seq < f[b].seq

Paired == \E f : Pairing(f)

-----------------------------------------------------------------------------

\* The inductive invariant.
StreamsInv ==
  /\ TypeOK
  /\ Numbers
  /\ Executions
  /\ Contained
  /\ Repeats
  /\ Ended
  /\ Follows
  /\ Paired

-----------------------------------------------------------------------------
(* The operators.                                                          *)

LEMMA MaxIs ==
  ASSUME NEW S \in SUBSET Nat, NEW m \in S, \A y \in S : m >= y
  PROVE  Max(S) = m
<1> DEFINE P(x) == x \in S /\ \A y \in S : x >= y
<1>1. P(m)
  OBVIOUS
<1>2. \A x \in S : P(x) => x = m
  BY SMT
<1>. QED
  BY <1>1, <1>2 DEF Max

LEMMA FieldTypes ==
  /\ Scopes = {"run", "thread"}
  /\ \A x \in Owners : x \in Writers /\ x # Api /\ x # NoOwner
  /\ Api \in Writers /\ Api \notin Owners /\ Api # NoOwner
  /\ NoOwner \notin Writers
  /\ NEvents \in Nat /\ Polls \in Nat /\ Polls >= 2
  /\ MaxFaults \in Nat /\ MaxDrops \in Nat
BY EventsAssumption, ApiAssumption, OwnersAssumption, LimitsAssumption DEF Scopes, Writers

\* The contents of the records that are written are contents, and are told apart.
LEMMA SaysContent ==
  /\ Ending \in Content /\ Started \in Content
  /\ \A x \in Owners : Starting(x) \in Content /\ \A n \in 0 .. NEvents : Event(x, n) \in Content
BY FieldTypes DEF Content, Ending, Started, Starting, Event, Writers

LEMMA SaysApart ==
  /\ \A x, y, n, m : Event(x, n) = Event(y, m) => x = y /\ n = m
  /\ \A x, y : Starting(x) = Starting(y) => x = y
  /\ \A x, y, n : Event(x, n) # Starting(y) /\ Event(x, n) # Started /\ Event(x, n) # Ending
  /\ \A x : Starting(x) # Started /\ Starting(x) # Ending
  /\ Started # Ending
  /\ \A x, n : Event(x, n).kind = "event" /\ Event(x, n).by = x
  /\ \A x : Starting(x).kind # "event" /\ Starting(x).by = x
  /\ Started.kind # "event" /\ Ending.kind # "event"
<1>1. /\ \A x, n : Event(x, n).kind = "event" /\ Event(x, n).by = x /\ Event(x, n).n = n
      /\ \A x : Starting(x).kind = "start" /\ Starting(x).by = x
      /\ Started.kind = "started" /\ Ending.kind = "end"
  BY DEF Ending, Started, Starting, Event
<1>2. \A x, y, n, m : Event(x, n) = Event(y, m) => x = y /\ n = m
  BY <1>1
<1>3. \A x, y : Starting(x) = Starting(y) => x = y
  BY <1>1
<1>. QED
  BY <1>1, <1>2, <1>3

\* A record has a number and a content.
LEMMA RecordFields ==
  /\ \A r \in Record : r.seq \in Nat /\ r.what \in Content
  /\ \A n \in Nat, c \in Content :
       [seq |-> n, what |-> c] \in Record /\ [seq |-> n, what |-> c].seq = n
         /\ [seq |-> n, what |-> c].what = c
BY DEF Record

-----------------------------------------------------------------------------
(* Numbers and insertions.                                                 *)

\* What both streams are, under the type invariant.
LEMMA RowTypes ==
  ASSUME TypeOK, NEW s \in Scopes
  PROVE  /\ counter[s] \in Nat
         /\ rows[s] \subseteq Record
         /\ \A r \in rows[s] : r.seq \in Nat /\ r.what \in Content
BY RecordFields DEF TypeOK

LEMMA LastIs ==
  ASSUME TypeOK, Numbers, NEW s \in Scopes
  PROVE  LastSeq(s) = counter[s]
<1> DEFINE S == {counter[s]} \cup Seqs(rows[s])
<1>1. S \in SUBSET Nat /\ counter[s] \in S /\ \A y \in S : counter[s] >= y
  BY RowTypes DEF Numbers, Seqs
<1>. QED
  BY <1>1, MaxIs DEF LastSeq

LEMMA NumberedIs ==
  ASSUME TypeOK, Numbers, NEW s \in Scopes, NEW c \in Seq(Content)
  PROVE  /\ Numbered(s, c) \in Seq(Record)
         /\ DOMAIN Numbered(s, c) = DOMAIN c
         /\ Len(Numbered(s, c)) = Len(c)
         /\ Numbered(s, c) = <<>> <=> c = <<>>
         /\ \A i \in DOMAIN c : /\ Numbered(s, c)[i].seq = counter[s] + i
                                /\ Numbered(s, c)[i].what = c[i]
<1>1. DOMAIN c = 1 .. Len(c) /\ Len(c) \in Nat /\ \A i \in DOMAIN c : c[i] \in Content
  OBVIOUS
<1>2. Numbered(s, c) = [i \in 1 .. Len(c) |-> [seq |-> counter[s] + i, what |-> c[i]]]
  BY <1>1, LastIs DEF Numbered
<1>3. \A i \in 1 .. Len(c) : counter[s] + i \in Nat
  BY <1>1, RowTypes
<1>4. \A i \in 1 .. Len(c) : Numbered(s, c)[i] \in Record
  BY <1>1, <1>2, <1>3, RecordFields
<1>5. Numbered(s, c) \in Seq(Record)
  BY <1>1, <1>2, <1>4, IsASeq
<1>. QED
  BY <1>1, <1>2, <1>3, <1>5, RecordFields

LEMMA NumberedOne ==
  ASSUME TypeOK, Numbers, NEW s \in Scopes, NEW c \in Content
  PROVE  /\ Numbered(s, <<c>>) \in Seq(Record)
         /\ DOMAIN Numbered(s, <<c>>) = {1}
         /\ Numbered(s, <<c>>)[1].seq = counter[s] + 1
         /\ Numbered(s, <<c>>)[1].what = c
<1>0. <<c>> \in Seq(Content)
  OBVIOUS
<1>1. PICK q \in Seq(Content) : q = <<c>>
  BY <1>0
<1>2. DOMAIN q = {1} /\ q[1] = c
  BY <1>1
<1>3. /\ Numbered(s, q) \in Seq(Record)
      /\ DOMAIN Numbered(s, q) = DOMAIN q
      /\ \A i \in DOMAIN q : /\ Numbered(s, q)[i].seq = counter[s] + i
                            /\ Numbered(s, q)[i].what = q[i]
  BY NumberedIs
<1>4. 1 \in DOMAIN q
  BY <1>2
<1>5. Numbered(s, q)[1].seq = counter[s] + 1 /\ Numbered(s, q)[1].what = q[1]
  BY <1>3, <1>4
<1>. QED
  BY <1>1, <1>2, <1>3, <1>5

\* The records of new follow what is stored, and are stored.
Adds(new) ==
  \A s \in Scopes :
    /\ new[s] \in Seq(Record)
    /\ \A i \in DOMAIN new[s] : new[s][i].seq = counter[s] + i
    /\ rows'[s] = rows[s] \cup ToSet(new[s])
    /\ counter'[s] = counter[s] + Len(new[s])

LEMMA InsertAdds ==
  ASSUME TypeOK, Numbers, NEW new \in [Scopes -> Seq(Record)], Insert(new),
         \A s \in Scopes : \A i \in DOMAIN new[s] : new[s][i].seq = counter[s] + i
  PROVE  Adds(new)
<1> SUFFICES ASSUME NEW s \in Scopes
             PROVE  counter'[s] = counter[s] + Len(new[s])
  BY DEF Adds, Insert
<1> DEFINE S == {counter[s]} \cup Seqs(ToSet(new[s]))
           m == counter[s] + Len(new[s])
<1>1. new[s] \in Seq(Record) /\ Len(new[s]) \in Nat /\ DOMAIN new[s] = 1 .. Len(new[s])
      /\ counter[s] \in Nat
  BY RowTypes
<1>2. S = {counter[s]} \cup {new[s][i].seq : i \in DOMAIN new[s]}
  BY DEF Seqs, ToSet
<1>3. \A y \in S : y = counter[s] \/ \E i \in 1 .. Len(new[s]) : y = counter[s] + i
  BY <1>1, <1>2
<1>4. S \in SUBSET Nat /\ \A y \in S : m >= y
  BY <1>1, <1>3
<1>5. m \in S
  <2>1. CASE Len(new[s]) = 0
    BY <2>1, <1>1
  <2>2. CASE Len(new[s]) # 0
    <3>1. Len(new[s]) \in DOMAIN new[s]
      BY <2>2, <1>1
    <3>2. new[s][Len(new[s])].seq = m
      BY <3>1
    <3>. QED
      BY <3>1, <3>2, <1>2
  <2>. QED
    BY <2>1, <2>2
<1>6. Max(S) = m
  BY <1>4, <1>5, MaxIs
<1>. QED
  BY <1>6 DEF Insert

\* What an insertion does to the streams.
LEMMA AddsRows ==
  ASSUME TypeOK, NEW new, Adds(new), NEW s \in Scopes
  PROVE  /\ rows'[s] \subseteq Record
         /\ counter'[s] \in Nat
         /\ counter'[s] >= counter[s]
         /\ rows[s] \subseteq rows'[s]
         /\ \A r \in rows'[s] : r \in rows[s] \/ \E i \in DOMAIN new[s] : r = new[s][i]
         /\ \A i \in DOMAIN new[s] : new[s][i] \in rows'[s]
<1>1. new[s] \in Seq(Record) /\ Len(new[s]) \in Nat /\ DOMAIN new[s] = 1 .. Len(new[s])
  BY DEF Adds
<1>2. rows'[s] = rows[s] \cup {new[s][i] : i \in DOMAIN new[s]}
  BY DEF Adds, ToSet
<1>3. \A i \in DOMAIN new[s] : new[s][i] \in Record
  BY <1>1
<1>4. counter'[s] = counter[s] + Len(new[s])
  BY DEF Adds
<1>. QED
  BY <1>1, <1>2, <1>3, <1>4, RowTypes

\* Streams stay numbered without a gap.
LEMMA AddsNumbers ==
  ASSUME TypeOK, Numbers, NEW new, Adds(new), NEW s \in Scopes
  PROVE  /\ \A r \in rows'[s] : r.seq \in 1 .. counter'[s]
         /\ \A a, b \in rows'[s] : a.seq = b.seq => a = b
         /\ \A k \in 1 .. counter'[s] : \E r \in rows'[s] : r.seq = k
<1>1. new[s] \in Seq(Record) /\ Len(new[s]) \in Nat /\ DOMAIN new[s] = 1 .. Len(new[s])
  BY DEF Adds
<1>2. \A i \in 1 .. Len(new[s]) : new[s][i].seq = counter[s] + i
  BY <1>1 DEF Adds
<1>3. counter'[s] = counter[s] + Len(new[s]) /\ counter[s] \in Nat
  BY RowTypes DEF Adds
<1>4. \A r \in rows[s] : r.seq \in 1 .. counter[s]
  BY DEF Numbers
<1>5. \A r \in rows'[s] : r \in rows[s] \/ \E i \in 1 .. Len(new[s]) : r = new[s][i]
  BY <1>1, AddsRows
<1>6. \A r \in rows'[s] : r.seq \in 1 .. counter'[s]
  BY <1>1, <1>2, <1>3, <1>4, <1>5
<1>7. ASSUME NEW a \in rows'[s], NEW b \in rows'[s], a.seq = b.seq
      PROVE  a = b
  <2>1. CASE a \in rows[s] /\ b \in rows[s]
    BY <2>1, <1>7 DEF Numbers
  <2>2. CASE a \in rows[s] /\ b \notin rows[s]
    <3>1. PICK i \in 1 .. Len(new[s]) : b = new[s][i]
      BY <2>2, <1>5
    <3>2. b.seq = counter[s] + i /\ a.seq \in 1 .. counter[s]
      BY <3>1, <2>2, <1>2, <1>4
    <3>. QED
      BY <3>2, <1>7, <1>1, <1>3
  <2>3. CASE a \notin rows[s] /\ b \in rows[s]
    <3>1. PICK i \in 1 .. Len(new[s]) : a = new[s][i]
      BY <2>3, <1>5
    <3>2. a.seq = counter[s] + i /\ b.seq \in 1 .. counter[s]
      BY <3>1, <2>3, <1>2, <1>4
    <3>. QED
      BY <3>2, <1>7, <1>1, <1>3
  <2>4. CASE a \notin rows[s] /\ b \notin rows[s]
    <3>1. PICK i \in 1 .. Len(new[s]) : a = new[s][i]
      BY <2>4, <1>5
    <3>2. PICK j \in 1 .. Len(new[s]) : b = new[s][j]
      BY <2>4, <1>5
    <3>. QED
      BY <3>1, <3>2, <1>7, <1>1, <1>2, <1>3
  <2>. QED
    BY <2>1, <2>2, <2>3, <2>4
<1>8. ASSUME NEW k \in 1 .. counter'[s]
      PROVE  \E r \in rows'[s] : r.seq = k
  <2>1. CASE k <= counter[s]
    <3>1. PICK r \in rows[s] : r.seq = k
      BY <2>1, <1>3 DEF Numbers
    <3>. QED
      BY <3>1, AddsRows
  <2>2. CASE ~(k <= counter[s])
    <3>1. k - counter[s] \in 1 .. Len(new[s])
      BY <2>2, <1>1, <1>3
    <3>2. new[s][k - counter[s]].seq = k
      BY <3>1, <1>2, <1>3
    <3>. QED
      BY <3>1, <3>2, <1>1, AddsRows
  <2>. QED
    BY <2>1, <2>2
<1>. QED
  BY <1>6, <1>7, <1>8

-----------------------------------------------------------------------------
(* What the steps of an execution do to its parts.                         *)

ExecRec == [pc : {"new", "start", "graph", "exit", "finish", "gone"},
            emitted : 0 .. NEvents,
            outcome : {"none", "success", "error"},
            cancelled : BOOLEAN]

BufRec == [pending : Seq(1 .. NEvents), carry : 0 .. NEvents,
           holder : {"none", "start", "graph", "worker", "finish"},
           closed : BOOLEAN, worker : {"alive", "done", "dead"}]

TxRec == [stage : {"none", "open", "done"}, new : [Scopes -> Seq(Record)]]

LEMMA PartTypes ==
  ASSUME TypeOK
  PROVE  /\ exec \in [Owners -> ExecRec]
         /\ buf \in [Owners -> BufRec]
         /\ tx \in [Writers -> TxRec]
         /\ cut \in [Owners -> BOOLEAN]
BY DEF TypeOK, ExecRec, BufRec, TxRec

\* The fields of one writer's parts after a step that leaves those of the others alone.
ExecTo(x, p, n, o, c) ==
  /\ exec' \in [Owners -> ExecRec]
  /\ exec'[x].pc = p
  /\ exec'[x].emitted = n
  /\ exec'[x].outcome = o
  /\ exec'[x].cancelled = c
  /\ \A y \in Owners \ {x} : exec'[y] = exec[y]

BufTo(x, p, c, h) ==
  /\ buf' \in [Owners -> BufRec]
  /\ buf'[x].pending = p
  /\ buf'[x].carry = c
  /\ buf'[x].holder = h
  /\ \A y \in Owners \ {x} : buf'[y] = buf[y]

TxTo(w, stage, new) ==
  /\ tx' \in [Writers -> TxRec]
  /\ tx'[w].stage = stage
  /\ tx'[w].new = new
  /\ \A v \in Writers \ {w} : tx'[v] = tx[v]

CutTo(x, c) ==
  /\ cut' \in [Owners -> BOOLEAN]
  /\ cut'[x] = c
  /\ \A y \in Owners \ {x} : cut'[y] = cut[y]

LEMMA PartFields ==
  /\ \A e \in ExecRec : /\ e.pc \in {"new", "start", "graph", "exit", "finish", "gone"}
                        /\ e.emitted \in 0 .. NEvents
                        /\ e.outcome \in {"none", "success", "error"}
                        /\ e.cancelled \in BOOLEAN
  /\ \A b \in BufRec : /\ b.pending \in Seq(1 .. NEvents)
                       /\ b.carry \in 0 .. NEvents
                       /\ b.holder \in {"none", "start", "graph", "worker", "finish"}
                       /\ b.closed \in BOOLEAN
                       /\ b.worker \in {"alive", "done", "dead"}
  /\ \A t \in TxRec : /\ t.stage \in {"none", "open", "done"}
                      /\ t.new \in [Scopes -> Seq(Record)]
BY DEF ExecRec, BufRec, TxRec

LEMMA SetExecIs ==
  ASSUME TypeOK, NEW x \in Owners, NEW new \in ExecRec, SetExec(x, new)
  PROVE  ExecTo(x, new.pc, new.emitted, new.outcome, new.cancelled)
BY PartTypes DEF SetExec, ExecTo

LEMMA SetBufIs ==
  ASSUME TypeOK, NEW x \in Owners, NEW new \in BufRec, SetBuf(x, new)
  PROVE  BufTo(x, new.pending, new.carry, new.holder)
BY PartTypes DEF SetBuf, BufTo

LEMMA SetTxIs ==
  ASSUME TypeOK, NEW w \in Writers, NEW new \in TxRec, tx' = [tx EXCEPT ![w] = new]
  PROVE  TxTo(w, new.stage, new.new)
BY PartTypes DEF TxTo

LEMMA NoTxIs ==
  /\ NoTx \in TxRec /\ NoTx.stage = "none" /\ \A s \in Scopes : NoTx.new[s] = <<>>
<1>1. <<>> \in Seq(Record)
  OBVIOUS
<1>2. [s \in Scopes |-> <<>>] \in [Scopes -> Seq(Record)]
  BY <1>1
<1>. QED
  BY <1>2 DEF NoTx, TxRec

LEMMA ClearTx ==
  ASSUME TypeOK, NEW w \in Writers, tx' = [tx EXCEPT ![w] = NoTx]
  PROVE  TxTo(w, "none", NoTx.new)
<1>1. TxTo(w, NoTx.stage, NoTx.new)
  BY NoTxIs, SetTxIs
<1>. QED
  BY <1>1, NoTxIs

\* A step may also leave a part as it is.
LEMMA SameParts ==
  ASSUME TypeOK, NEW x \in Owners
  PROVE  /\ UNCHANGED exec =>
              ExecTo(x, exec[x].pc, exec[x].emitted, exec[x].outcome, exec[x].cancelled)
         /\ UNCHANGED buf => BufTo(x, buf[x].pending, buf[x].carry, buf[x].holder)
         /\ UNCHANGED tx => TxTo(x, tx[x].stage, tx[x].new)
         /\ UNCHANGED cut => CutTo(x, cut[x])
BY PartTypes DEF ExecTo, BufTo, TxTo, CutTo

-----------------------------------------------------------------------------
(* The steps of an execution, field by field.                              *)

\* The fields of an execution after one of its steps.
Becomes(x, p, n, o, c, pending, carry, holder) ==
  ExecTo(x, p, n, o, c) /\ BufTo(x, pending, carry, holder)

\* The streams and their reader are left alone.
Still == UNCHANGED <<rows, counter, rd, drops>>

LEMMA ClaimDoes ==
  ASSUME TypeOK, NEW x \in Owners, Claim(x)
  PROVE  /\ exec[x].pc = "new" /\ ~RowLocked
         /\ Claimable(row, 1, x, FALSE) /\ row' = Claimed(row, x)
         /\ Becomes(x, "start", exec[x].emitted, exec[x].outcome, exec[x].cancelled,
                    buf[x].pending, buf[x].carry, "start")
         /\ UNCHANGED <<tx, cut, faults>> /\ Still
<1>. DEFINE e == [exec[x] EXCEPT !.pc = "start"]
            b == [buf[x] EXCEPT !.holder = "start"]
<1>1. /\ e \in ExecRec /\ e.pc = "start" /\ e.emitted = exec[x].emitted
      /\ e.outcome = exec[x].outcome /\ e.cancelled = exec[x].cancelled
  BY PartTypes DEF ExecRec
<1>2. b \in BufRec /\ b.pending = buf[x].pending /\ b.carry = buf[x].carry /\ b.holder = "start"
  BY PartTypes DEF BufRec
<1>3. SetExec(x, e) /\ SetBuf(x, b)
  BY DEF Claim
<1>. HIDE DEF e, b
<1>4. Becomes(x, "start", exec[x].emitted, exec[x].outcome, exec[x].cancelled,
              buf[x].pending, buf[x].carry, "start")
  BY <1>1, <1>2, <1>3, SetExecIs, SetBufIs DEF Becomes
<1>. QED
  BY <1>4 DEF Claim, Still

LEMMA ContentsType ==
  ASSUME TypeOK, NEW x \in Owners, NEW s \in Scopes
  PROVE  /\ Contents(x)[s] \in Seq(Content)
         /\ buf[x].holder = "start" =>
              Contents(x)[s] = IF s = "run" THEN <<Starting(x)>> ELSE <<>>
         /\ buf[x].holder # "start" =>
              /\ DOMAIN Contents(x)[s] = DOMAIN buf[x].pending
              /\ Len(Contents(x)[s]) = Len(buf[x].pending)
              /\ \A i \in DOMAIN buf[x].pending : Contents(x)[s][i] = Event(x, buf[x].pending[i])
<1>1. buf[x].pending \in Seq(1 .. NEvents) /\ NEvents \in Nat
  BY PartTypes, PartFields, FieldTypes
<1>2. CASE buf[x].holder = "start"
  <2>1. Starting(x) \in Content
    BY SaysContent
  <2>2. <<Starting(x)>> \in Seq(Content) /\ <<>> \in Seq(Content)
    BY <2>1
  <2>3. Contents(x)[s] = IF s = "run" THEN <<Starting(x)>> ELSE <<>>
    BY <1>2 DEF Contents
  <2>. QED
    BY <2>2, <2>3, <1>2
<1>3. CASE buf[x].holder # "start"
  <2>. DEFINE p == buf[x].pending
  <2>1. Contents(x)[s] = [i \in 1 .. Len(p) |-> Event(x, p[i])]
    BY <1>1, <1>3 DEF Contents
  <2>2. \A i \in 1 .. Len(p) : p[i] \in 0 .. NEvents
    BY <1>1
  <2>3. \A i \in 1 .. Len(p) : Event(x, p[i]) \in Content
    BY <2>2, SaysContent
  <2>4. Len(p) \in Nat /\ DOMAIN p = 1 .. Len(p)
    BY <1>1
  <2>. HIDE DEF p
  <2>5. Contents(x)[s] \in Seq(Content)
    BY <2>1, <2>3, <2>4, IsASeq
  <2>. QED
    BY <2>1, <2>4, <2>5, <1>3 DEF p
<1>. QED
  BY <1>2, <1>3

LEMMA WriteStageDoes ==
  ASSUME TypeOK, Numbers, NEW x \in Owners, WriteStage(x)
  PROVE  /\ buf[x].holder # "none" /\ tx[x].stage = "none" /\ ~RowLocked
         /\ OwnsExecution(row, 1, x)
         /\ \A s \in Scopes : Contents(x)[s] # <<>> => CounterFree(x, s)
         /\ TxTo(x, "open", [s \in Scopes |-> Numbered(s, Contents(x)[s])])
         /\ UNCHANGED <<row, exec, buf, cut, faults>> /\ Still
<1>. DEFINE new == [s \in Scopes |-> Numbered(s, Contents(x)[s])]
<1>1. \A s \in Scopes : Numbered(s, Contents(x)[s]) \in Seq(Record)
  BY NumberedIs, ContentsType
<1>2. new \in [Scopes -> Seq(Record)]
  BY <1>1
<1>3. tx' = [tx EXCEPT ![x] = [stage |-> "open", new |-> new]]
  BY DEF WriteStage
<1>. HIDE DEF new
<1>4. /\ [stage |-> "open", new |-> new] \in TxRec
      /\ [stage |-> "open", new |-> new].stage = "open"
      /\ [stage |-> "open", new |-> new].new = new
  BY <1>2 DEF TxRec
<1>5. TxTo(x, "open", new)
  BY <1>3, <1>4, SetTxIs, FieldTypes
<1>. QED
  BY <1>5 DEF WriteStage, Still, new

\* The phase and the outcome that an error of a write leads to.
RaisedTo(x, p, o) ==
  /\ buf[x].holder = "graph" => p = "exit" /\ o = "error"
  /\ buf[x].holder \in {"start", "finish"} => p = "finish" /\ o = "error"
  /\ buf[x].holder \notin {"graph", "start", "finish"} =>
       p = exec[x].pc /\ o = exec[x].outcome

LEMMA RaisedDoes ==
  ASSUME TypeOK, NEW x \in Owners, Raised(x)
  PROVE  \E p, o : /\ RaisedTo(x, p, o)
                   /\ Becomes(x, p, exec[x].emitted, o, exec[x].cancelled,
                              buf[x].pending, 0, "none")
<1>. DEFINE b == [buf[x] EXCEPT
                    !.carry = 0,
                    !.holder = "none",
                    !.closed = @ \/ buf[x].holder = "graph",
                    !.worker = IF buf[x].holder = "worker" THEN "dead" ELSE @]
            e == CASE buf[x].holder = "graph" ->
                        [exec[x] EXCEPT !.pc = "exit", !.outcome = "error"]
                   [] buf[x].holder \in {"start", "finish"} ->
                        [exec[x] EXCEPT !.pc = "finish", !.outcome = "error"]
                   [] OTHER -> exec[x]
<1>0. exec[x] \in ExecRec /\ buf[x] \in BufRec /\ NEvents \in Nat
  BY PartTypes, FieldTypes
<1>1. b \in BufRec /\ b.pending = buf[x].pending /\ b.carry = 0 /\ b.holder = "none"
  <2>1. (buf[x].closed \/ buf[x].holder = "graph") \in BOOLEAN
    OBVIOUS
  <2>2. (IF buf[x].holder = "worker" THEN "dead" ELSE buf[x].worker)
           \in {"alive", "done", "dead"}
    BY <1>0, PartFields
  <2>3. PICK z \in 0 .. NEvents : z = 0
    BY <1>0
  <2>4. PICK c \in BOOLEAN : c = (buf[x].closed \/ buf[x].holder = "graph")
    BY <2>1
  <2>5. PICK w \in {"alive", "done", "dead"} :
          w = IF buf[x].holder = "worker" THEN "dead" ELSE buf[x].worker
    BY <2>2
  <2>6. b = [buf[x] EXCEPT !.carry = z, !.holder = "none", !.closed = c, !.worker = w]
    BY <2>3, <2>4, <2>5
  <2>. HIDE DEF b
  <2>. QED
    BY <1>0, <2>3, <2>6 DEF BufRec
<1>2. /\ e \in ExecRec /\ e.emitted = exec[x].emitted /\ e.cancelled = exec[x].cancelled
      /\ RaisedTo(x, e.pc, e.outcome)
  <2>1. CASE buf[x].holder = "graph"
    <3>1. e = [exec[x] EXCEPT !.pc = "exit", !.outcome = "error"]
      BY <2>1
    <3>. QED
      BY <3>1, <2>1, <1>0 DEF ExecRec, RaisedTo
  <2>2. CASE buf[x].holder \in {"start", "finish"}
    <3>1. e = [exec[x] EXCEPT !.pc = "finish", !.outcome = "error"]
      BY <2>2
    <3>. QED
      BY <3>1, <2>2, <1>0 DEF ExecRec, RaisedTo
  <2>3. CASE buf[x].holder \notin {"graph", "start", "finish"}
    <3>1. e = exec[x]
      BY <2>3
    <3>. QED
      BY <3>1, <2>3, <1>0 DEF RaisedTo
  <2>. QED
    BY <2>1, <2>2, <2>3
<1>3. SetExec(x, e) /\ SetBuf(x, b)
  BY DEF Raised
<1>. HIDE DEF e, b
<1>4. Becomes(x, e.pc, exec[x].emitted, e.outcome, exec[x].cancelled, buf[x].pending, 0, "none")
  BY <1>1, <1>2, <1>3, SetExecIs, SetBufIs DEF Becomes
<1>. QED
  BY <1>2, <1>4

LEMMA WriteCommitDoes ==
  ASSUME TypeOK, Numbers, NEW x \in Owners, WriteCommit(x)
  PROVE  /\ tx[x].stage = "open" /\ Adds(tx[x].new)
         /\ TxTo(x, "done", tx[x].new)
         /\ UNCHANGED <<row, exec, buf, cut, faults, rd, drops>>
<1>1. tx[x] \in TxRec /\ x \in Writers
  BY PartTypes, FieldTypes
<1>2. tx[x].new \in [Scopes -> Seq(Record)]
  BY <1>1, PartFields
<1>3. tx[x].stage = "open" /\ Insert(tx[x].new) /\ tx' = [tx EXCEPT ![x].stage = "done"]
      /\ UNCHANGED <<row, exec, buf, cut, faults, rd, drops>>
  BY DEF WriteCommit
<1>4. \A s \in Scopes : \A i \in DOMAIN tx[x].new[s] : tx[x].new[s][i].seq = counter[s] + i
  BY <1>1, <1>3 DEF Numbers
<1>5. Adds(tx[x].new)
  BY <1>2, <1>3, <1>4, InsertAdds
<1>6. TxTo(x, "done", tx[x].new)
  BY <1>1, <1>3, PartTypes DEF TxTo, TxRec
<1>. QED
  BY <1>3, <1>5, <1>6

LEMMA WritePublishDoes ==
  ASSUME TypeOK, NEW x \in Owners, WritePublish(x)
  PROVE  \E p, q :
           /\ buf[x].holder = "start" => p = "graph" /\ q = buf[x].pending
           /\ buf[x].holder = "finish" =>
                p = IF exec[x].cancelled THEN "gone" ELSE "finish"
           /\ buf[x].holder \notin {"start", "finish"} => p = exec[x].pc
           /\ buf[x].holder # "start" =>
                q = IF buf[x].carry # 0 THEN <<buf[x].carry>> ELSE <<>>
           /\ tx[x].stage = "done"
           /\ Becomes(x, p, exec[x].emitted, exec[x].outcome, exec[x].cancelled, q, 0, "none")
           /\ TxTo(x, "none", NoTx.new)
           /\ UNCHANGED <<row, cut, faults>> /\ Still
<1>. DEFINE b == Cleared(x)
            e == AfterWrite(x)
            q == IF buf[x].holder = "start" THEN buf[x].pending
                 ELSE IF buf[x].carry # 0 THEN <<buf[x].carry>> ELSE <<>>
            w == IF buf[x].holder = "worker" /\ buf[x].closed THEN "done" ELSE buf[x].worker
            p == CASE buf[x].holder = "start"  -> "graph"
                   [] buf[x].holder = "finish" -> IF exec[x].cancelled THEN "gone" ELSE "finish"
                   [] OTHER                    -> exec[x].pc
<1>0. exec[x] \in ExecRec /\ buf[x] \in BufRec /\ NEvents \in Nat
  BY PartTypes, FieldTypes
<1>1. q \in Seq(1 .. NEvents)
  <2>1. buf[x].carry # 0 => buf[x].carry \in 1 .. NEvents
    BY <1>0, PartFields
  <2>2. buf[x].carry # 0 => <<buf[x].carry>> \in Seq(1 .. NEvents)
    BY <2>1
  <2>3. <<>> \in Seq(1 .. NEvents) /\ buf[x].pending \in Seq(1 .. NEvents)
    BY <1>0, PartFields
  <2>. QED
    BY <2>2, <2>3
<1>2. w \in {"alive", "done", "dead"}
  BY <1>0, PartFields
<1>3. p \in {"new", "start", "graph", "exit", "finish", "gone"}
  BY <1>0, PartFields
<1>4. b = [buf[x] EXCEPT !.pending = q, !.carry = 0, !.holder = "none", !.worker = w]
  BY DEF Cleared
<1>5. e = [exec[x] EXCEPT !.pc = p]
  BY DEF AfterWrite
<1>6. /\ buf[x].holder = "start" => p = "graph" /\ q = buf[x].pending
      /\ buf[x].holder = "finish" => p = IF exec[x].cancelled THEN "gone" ELSE "finish"
      /\ buf[x].holder \notin {"start", "finish"} => p = exec[x].pc
      /\ buf[x].holder # "start" => q = IF buf[x].carry # 0 THEN <<buf[x].carry>> ELSE <<>>
  OBVIOUS
<1>7. SetExec(x, e) /\ SetBuf(x, b)
  BY DEF WritePublish
<1>. HIDE DEF q, w, p, e, b
<1>8. b \in BufRec /\ b.pending = q /\ b.carry = 0 /\ b.holder = "none"
  <2>1. PICK z \in 0 .. NEvents : z = 0
    BY <1>0
  <2>2. b = [buf[x] EXCEPT !.pending = q, !.carry = z, !.holder = "none", !.worker = w]
    BY <1>4, <2>1
  <2>. QED
    BY <1>0, <1>1, <1>2, <2>1, <2>2 DEF BufRec
<1>9. /\ e \in ExecRec /\ e.pc = p /\ e.emitted = exec[x].emitted
      /\ e.outcome = exec[x].outcome /\ e.cancelled = exec[x].cancelled
  BY <1>0, <1>3, <1>5 DEF ExecRec
<1>10. Becomes(x, p, exec[x].emitted, exec[x].outcome, exec[x].cancelled, q, 0, "none")
  BY <1>7, <1>8, <1>9, SetExecIs, SetBufIs DEF Becomes
<1>11. TxTo(x, "none", NoTx.new)
  BY ClearTx, FieldTypes DEF WritePublish
<1>12. tx[x].stage = "done" /\ UNCHANGED <<row, cut, faults>> /\ Still
  BY DEF WritePublish, Still
<1>. QED
  BY <1>6, <1>10, <1>11, <1>12

LEMMA EmitDoes ==
  ASSUME TypeOK, NEW x \in Owners, Emit(x)
  PROVE  LET n == exec[x].emitted + 1 IN
         /\ exec[x].pc = "graph" /\ buf[x].holder = "none" /\ n \in 1 .. NEvents
         /\ \E q, c, h :
              /\ \/ q = Append(buf[x].pending, n) /\ c = buf[x].carry /\ h \in {"none", "graph"}
                 \/ q = buf[x].pending /\ c = n /\ h = "graph"
              /\ Becomes(x, "graph", n, exec[x].outcome, exec[x].cancelled, q, c, h)
         /\ UNCHANGED <<row, tx, cut, faults>> /\ Still
<1>. DEFINE n == exec[x].emitted + 1
            e == [exec[x] EXCEPT !.emitted = n]
<1>0. /\ exec[x] \in ExecRec /\ buf[x] \in BufRec /\ NEvents \in Nat
      /\ exec[x].pc = "graph" /\ buf[x].holder = "none" /\ n <= NEvents
      /\ SetExec(x, e)
      /\ UNCHANGED <<row, tx, cut, faults>> /\ Still
  BY PartTypes, FieldTypes DEF Emit, Still
<1>1. n \in 1 .. NEvents /\ n \in 0 .. NEvents
  BY <1>0, PartFields
<1>2. PICK m \in 0 .. NEvents : m = n
  BY <1>1
<1>3. /\ e \in ExecRec /\ e.pc = "graph" /\ e.emitted = n
      /\ e.outcome = exec[x].outcome /\ e.cancelled = exec[x].cancelled
  <2>1. e = [exec[x] EXCEPT !.emitted = m]
    BY <1>2
  <2>. HIDE DEF e, n
  <2>. QED
    BY <2>1, <1>0, <1>2 DEF ExecRec
<1>4. ExecTo(x, "graph", n, exec[x].outcome, exec[x].cancelled)
  <2>. HIDE DEF e, n
  <2>. QED
    BY <1>0, <1>3, SetExecIs
<1>5. PICK q \in Seq(1 .. NEvents) : q = Append(buf[x].pending, n)
  <2>. HIDE DEF e, n
  <2>1. buf[x].pending \in Seq(1 .. NEvents)
    BY <1>0, PartFields
  <2>2. Append(buf[x].pending, n) \in Seq(1 .. NEvents)
    BY <2>1, <1>1, AppendProperties
  <2>. QED
    BY <2>2
<1>6. CASE \E full \in {TRUE, Len(buf[x].pending) + 1 >= MaxPending} :
             SetBuf(x, [buf[x] EXCEPT !.pending = Append(@, n),
                                      !.holder = IF full THEN "graph" ELSE @])
  <2>1. PICK full \in {TRUE, Len(buf[x].pending) + 1 >= MaxPending} :
             SetBuf(x, [buf[x] EXCEPT !.pending = Append(@, n),
                                      !.holder = IF full THEN "graph" ELSE @])
    BY <1>6
  <2>2. PICK h \in {"none", "graph"} : h = IF full THEN "graph" ELSE buf[x].holder
    BY <1>0
  <2>. DEFINE b == [buf[x] EXCEPT !.pending = q, !.holder = h]
  <2>3. SetBuf(x, b)
    BY <2>1, <2>2, <1>5
  <2>4. b \in BufRec /\ b.pending = q /\ b.carry = buf[x].carry /\ b.holder = h
    <3>. HIDE DEF n
    <3>. QED
      BY <1>0 DEF BufRec
  <2>. HIDE DEF b, n, e
  <2>5. BufTo(x, q, buf[x].carry, h)
    BY <2>3, <2>4, SetBufIs
  <2>6. Becomes(x, "graph", n, exec[x].outcome, exec[x].cancelled, q, buf[x].carry, h)
    BY <2>5, <1>4 DEF Becomes
  <2>. QED
    BY <2>6, <1>0, <1>1, <1>5 DEF n
<1>7. CASE SetBuf(x, [buf[x] EXCEPT !.carry = n, !.holder = "graph"])
  <2>. DEFINE b == [buf[x] EXCEPT !.carry = m, !.holder = "graph"]
  <2>1. SetBuf(x, b)
    BY <1>7, <1>2
  <2>2. b \in BufRec /\ b.pending = buf[x].pending /\ b.carry = m /\ b.holder = "graph"
    <3>. HIDE DEF n
    <3>. QED
      BY <1>0 DEF BufRec
  <2>. HIDE DEF b, n, e
  <2>3. BufTo(x, buf[x].pending, n, "graph")
    BY <2>1, <2>2, <1>2, SetBufIs
  <2>4. Becomes(x, "graph", n, exec[x].outcome, exec[x].cancelled, buf[x].pending, n, "graph")
    BY <2>3, <1>4 DEF Becomes
  <2>. QED
    BY <2>4, <1>0, <1>1 DEF n
<1>. QED
  BY <1>6, <1>7 DEF Emit

LEMMA GraphEndsDoes ==
  ASSUME TypeOK, NEW x \in Owners, GraphEnds(x)
  PROVE  \E o \in {"success", "error"} :
           /\ exec[x].pc = "graph" /\ buf[x].holder \in {"none", "worker"}
           /\ Becomes(x, "exit", exec[x].emitted, o, exec[x].cancelled,
                      buf[x].pending, buf[x].carry, buf[x].holder)
           /\ UNCHANGED <<row, tx, cut, faults>> /\ Still
<1>. DEFINE b == [buf[x] EXCEPT !.closed = TRUE]
<1>0. exec[x] \in ExecRec /\ buf[x] \in BufRec
  BY PartTypes
<1>1. PICK o \in {"success", "error"} : SetExec(x, [exec[x] EXCEPT !.pc = "exit", !.outcome = o])
  BY DEF GraphEnds
<1>. DEFINE e == [exec[x] EXCEPT !.pc = "exit", !.outcome = o]
<1>2. /\ e \in ExecRec /\ e.pc = "exit" /\ e.emitted = exec[x].emitted
      /\ e.outcome = o /\ e.cancelled = exec[x].cancelled
  BY <1>0 DEF ExecRec
<1>3. /\ b \in BufRec /\ b.pending = buf[x].pending /\ b.carry = buf[x].carry
      /\ b.holder = buf[x].holder
  BY <1>0 DEF BufRec
<1>4. SetExec(x, e) /\ SetBuf(x, b)
  BY <1>1 DEF GraphEnds
<1>. HIDE DEF e, b
<1>5. Becomes(x, "exit", exec[x].emitted, o, exec[x].cancelled,
              buf[x].pending, buf[x].carry, buf[x].holder)
  BY <1>2, <1>3, <1>4, SetExecIs, SetBufIs DEF Becomes
<1>. QED
  BY <1>5 DEF GraphEnds, Still

\* The flusher and the end of the buffer.
LEMMA BufferDoes ==
  ASSUME TypeOK, NEW x \in Owners, Buffer(x)
  PROVE  \E p, h :
           /\ buf[x].holder = "none"
           /\ \/ /\ exec[x].pc \in {"graph", "exit"} /\ buf[x].pending # <<>>
                 /\ p = exec[x].pc /\ h = "worker"
              \/ exec[x].pc = "exit" /\ p = "exit" /\ h = "none"
              \/ /\ exec[x].pc = "exit" /\ buf[x].pending = <<>> /\ h = "none"
                 /\ p = IF exec[x].cancelled THEN "gone" ELSE "finish"
              \/ exec[x].pc = "exit" /\ buf[x].pending # <<>> /\ p = "exit" /\ h = "finish"
           /\ Becomes(x, p, exec[x].emitted, exec[x].outcome, exec[x].cancelled,
                      buf[x].pending, buf[x].carry, h)
           /\ UNCHANGED <<row, tx, cut, faults>> /\ Still
<1>0. /\ exec[x] \in ExecRec /\ buf[x] \in BufRec
      /\ buf[x].holder = "none" /\ UNCHANGED <<row, tx, cut, faults>> /\ Still
  BY PartTypes DEF Buffer, WorkerFlush, WorkerEnds, Close, Still
<1>1. ASSUME NEW h \in {"worker", "finish"}, SetBuf(x, [buf[x] EXCEPT !.holder = h])
      PROVE  BufTo(x, buf[x].pending, buf[x].carry, h)
  <2>. DEFINE b == [buf[x] EXCEPT !.holder = h]
  <2>1. b \in BufRec /\ b.pending = buf[x].pending /\ b.carry = buf[x].carry /\ b.holder = h
    BY <1>0 DEF BufRec
  <2>. HIDE DEF b
  <2>. QED
    BY <2>1, <1>1, SetBufIs DEF b
<1>2. CASE WorkerFlush(x)
  <2>1. BufTo(x, buf[x].pending, buf[x].carry, "worker")
    BY <1>1, <1>2 DEF WorkerFlush
  <2>2. ExecTo(x, exec[x].pc, exec[x].emitted, exec[x].outcome, exec[x].cancelled)
    BY <1>2, SameParts DEF WorkerFlush
  <2>3. exec[x].pc \in {"graph", "exit"} /\ buf[x].pending # <<>>
    BY <1>2 DEF WorkerFlush
  <2>. QED
    BY <1>0, <2>1, <2>2, <2>3 DEF Becomes
<1>3. CASE WorkerEnds(x)
  <2>. DEFINE b == [buf[x] EXCEPT !.worker = "done"]
  <2>1. b \in BufRec /\ b.pending = buf[x].pending /\ b.carry = buf[x].carry /\ b.holder = "none"
    BY <1>0 DEF BufRec
  <2>2. SetBuf(x, b)
    BY <1>3 DEF WorkerEnds
  <2>. HIDE DEF b
  <2>3. BufTo(x, buf[x].pending, buf[x].carry, "none")
    BY <2>1, <2>2, SetBufIs
  <2>4. ExecTo(x, exec[x].pc, exec[x].emitted, exec[x].outcome, exec[x].cancelled)
    BY <1>3, SameParts DEF WorkerEnds
  <2>5. exec[x].pc = "exit"
    BY <1>3 DEF WorkerEnds
  <2>. QED
    BY <1>0, <2>3, <2>4, <2>5 DEF Becomes
<1>4. CASE Close(x) /\ buf[x].pending = <<>>
  <2>1. PICK p \in {"gone", "finish"} : p = IF exec[x].cancelled THEN "gone" ELSE "finish"
    OBVIOUS
  <2>. DEFINE e == [exec[x] EXCEPT !.pc = p]
  <2>2. /\ e \in ExecRec /\ e.pc = p /\ e.emitted = exec[x].emitted
        /\ e.outcome = exec[x].outcome /\ e.cancelled = exec[x].cancelled
    BY <1>0 DEF ExecRec
  <2>3. SetExec(x, e) /\ UNCHANGED buf /\ exec[x].pc = "exit"
    BY <1>4, <2>1 DEF Close
  <2>. HIDE DEF e
  <2>4. ExecTo(x, p, exec[x].emitted, exec[x].outcome, exec[x].cancelled)
    BY <2>2, <2>3, SetExecIs
  <2>5. BufTo(x, buf[x].pending, buf[x].carry, "none")
    BY <2>3, <1>0, SameParts
  <2>. QED
    BY <1>0, <1>4, <2>1, <2>3, <2>4, <2>5 DEF Becomes
<1>5. CASE Close(x) /\ buf[x].pending # <<>>
  <2>1. BufTo(x, buf[x].pending, buf[x].carry, "finish")
    BY <1>1, <1>5 DEF Close
  <2>2. ExecTo(x, exec[x].pc, exec[x].emitted, exec[x].outcome, exec[x].cancelled)
    BY <1>5, SameParts DEF Close
  <2>3. exec[x].pc = "exit"
    BY <1>5 DEF Close
  <2>. QED
    BY <1>0, <1>5, <2>1, <2>2, <2>3 DEF Becomes
<1>. QED
  BY <1>2, <1>3, <1>4, <1>5 DEF Buffer

LEMMA WriteRefusedDoes ==
  ASSUME TypeOK, NEW x \in Owners, WriteRefused(x)
  PROVE  \E p, o : /\ buf[x].holder # "none" /\ tx[x].stage = "none"
                   /\ RaisedTo(x, p, o)
                   /\ Becomes(x, p, exec[x].emitted, o, exec[x].cancelled,
                              buf[x].pending, 0, "none")
                   /\ UNCHANGED <<row, tx, cut, faults>> /\ Still
<1>1. /\ Raised(x) /\ buf[x].holder # "none" /\ tx[x].stage = "none"
      /\ UNCHANGED <<row, tx, cut, faults>> /\ Still
  BY DEF WriteRefused, Still
<1>. QED
  BY <1>1, RaisedDoes

LEMMA WriteFailsDoes ==
  ASSUME TypeOK, NEW x \in Owners, WriteFails(x)
  PROVE  /\ tx[x].stage = "open"
         /\ TxTo(x, "none", NoTx.new)
         /\ \/ UNCHANGED <<exec, buf>>
            \/ \E p, o : /\ RaisedTo(x, p, o)
                         /\ Becomes(x, p, exec[x].emitted, o, exec[x].cancelled,
                                    buf[x].pending, 0, "none")
         /\ faults' \in 0 .. MaxFaults
         /\ UNCHANGED <<row, cut>> /\ Still
<1>1. /\ tx[x].stage = "open" /\ tx' = [tx EXCEPT ![x] = NoTx] /\ Fault
      /\ Raised(x) \/ UNCHANGED <<exec, buf>>
      /\ UNCHANGED <<row, cut>> /\ Still
  BY DEF WriteFails, Still
<1>2. TxTo(x, "none", NoTx.new)
  BY <1>1, ClearTx, FieldTypes
<1>3. faults' \in 0 .. MaxFaults
  BY <1>1, FieldTypes DEF Fault, TypeOK
<1>. QED
  BY <1>1, <1>2, <1>3, RaisedDoes

LEMMA AnswerLostDoes ==
  ASSUME TypeOK, NEW x \in Owners, AnswerLost(x)
  PROVE  \E p, o : /\ tx[x].stage = "done"
                   /\ TxTo(x, "none", NoTx.new)
                   /\ RaisedTo(x, p, o)
                   /\ Becomes(x, p, exec[x].emitted, o, exec[x].cancelled,
                              buf[x].pending, 0, "none")
                   /\ CutTo(x, TRUE)
                   /\ faults' \in 0 .. MaxFaults
                   /\ UNCHANGED row /\ Still
<1>1. /\ tx[x].stage = "done" /\ tx' = [tx EXCEPT ![x] = NoTx] /\ Fault
      /\ Raised(x) /\ cut' = [cut EXCEPT ![x] = TRUE]
      /\ UNCHANGED row /\ Still
  BY DEF AnswerLost, Still
<1>2. TxTo(x, "none", NoTx.new)
  BY <1>1, ClearTx, FieldTypes
<1>3. faults' \in 0 .. MaxFaults
  BY <1>1, FieldTypes DEF Fault, TypeOK
<1>4. CutTo(x, TRUE)
  BY <1>1, PartTypes DEF CutTo
<1>. QED
  BY <1>1, <1>2, <1>3, <1>4, RaisedDoes

LEMMA CrashDoes ==
  ASSUME TypeOK, NEW x \in Owners, Crash(x)
  PROVE  /\ exec[x].pc \notin {"new", "gone"}
         /\ Becomes(x, "gone", exec[x].emitted, exec[x].outcome, exec[x].cancelled,
                    buf[x].pending, buf[x].carry, "none")
         /\ TxTo(x, "none", NoTx.new)
         /\ faults' \in 0 .. MaxFaults
         /\ UNCHANGED <<row, cut>> /\ Still
<1>. DEFINE e == [exec[x] EXCEPT !.pc = "gone"]
            b == [buf[x] EXCEPT !.holder = "none", !.worker = "dead"]
<1>0. exec[x] \in ExecRec /\ buf[x] \in BufRec
  BY PartTypes
<1>1. /\ e \in ExecRec /\ e.pc = "gone" /\ e.emitted = exec[x].emitted
      /\ e.outcome = exec[x].outcome /\ e.cancelled = exec[x].cancelled
  BY <1>0 DEF ExecRec
<1>2. b \in BufRec /\ b.pending = buf[x].pending /\ b.carry = buf[x].carry /\ b.holder = "none"
  BY <1>0 DEF BufRec
<1>3. /\ SetExec(x, e) /\ SetBuf(x, b) /\ tx' = [tx EXCEPT ![x] = NoTx] /\ Fault
      /\ UNCHANGED <<row, cut>> /\ Still /\ exec[x].pc \notin {"new", "gone"}
  BY DEF Crash, Still
<1>. HIDE DEF e, b
<1>4. Becomes(x, "gone", exec[x].emitted, exec[x].outcome, exec[x].cancelled,
              buf[x].pending, buf[x].carry, "none")
  BY <1>1, <1>2, <1>3, SetExecIs, SetBufIs DEF Becomes
<1>5. TxTo(x, "none", NoTx.new)
  BY <1>3, ClearTx, FieldTypes
<1>6. faults' \in 0 .. MaxFaults
  BY <1>3, FieldTypes DEF Fault, TypeOK
<1>. QED
  BY <1>3, <1>4, <1>5, <1>6

\* A cancellation, by the phase that it meets.
LEMMA InterruptedDoes ==
  ASSUME TypeOK, NEW x \in Owners, Interrupted(x)
  PROVE  /\ UNCHANGED row /\ Still
         /\ \/ /\ exec[x].pc = "start"
               /\ Becomes(x, "gone", exec[x].emitted, exec[x].outcome, exec[x].cancelled,
                          buf[x].pending, buf[x].carry, "none")
               /\ TxTo(x, "none", NoTx.new)
               /\ UNCHANGED cut
            \/ /\ exec[x].pc = "graph" /\ buf[x].holder = "graph"
               /\ Becomes(x, "exit", exec[x].emitted, exec[x].outcome, TRUE,
                          buf[x].pending, 0, "none")
               /\ TxTo(x, "none", NoTx.new)
               /\ CutTo(x, cut[x] \/ tx[x].stage = "done")
            \/ /\ \/ exec[x].pc \in {"graph", "exit"} /\ buf[x].holder # "graph"
                  \/ exec[x].pc = "exit"
               /\ Becomes(x, "exit", exec[x].emitted, exec[x].outcome, TRUE,
                          buf[x].pending, buf[x].carry, buf[x].holder)
               /\ UNCHANGED <<tx, cut>>
<1>0. exec[x] \in ExecRec /\ buf[x] \in BufRec /\ UNCHANGED row /\ Still /\ NEvents \in Nat
  BY PartTypes, FieldTypes DEF Interrupted, Still
<1>1. CASE /\ exec[x].pc = "start"
           /\ SetExec(x, [exec[x] EXCEPT !.pc = "gone"])
           /\ SetBuf(x, [buf[x] EXCEPT !.holder = "none"])
           /\ tx' = [tx EXCEPT ![x] = NoTx]
           /\ UNCHANGED cut
  <2>. DEFINE e == [exec[x] EXCEPT !.pc = "gone"]
              b == [buf[x] EXCEPT !.holder = "none"]
  <2>1. /\ e \in ExecRec /\ e.pc = "gone" /\ e.emitted = exec[x].emitted
        /\ e.outcome = exec[x].outcome /\ e.cancelled = exec[x].cancelled
    BY <1>0 DEF ExecRec
  <2>2. b \in BufRec /\ b.pending = buf[x].pending /\ b.carry = buf[x].carry /\ b.holder = "none"
    BY <1>0 DEF BufRec
  <2>3. SetExec(x, e) /\ SetBuf(x, b)
    BY <1>1
  <2>. HIDE DEF e, b
  <2>4. Becomes(x, "gone", exec[x].emitted, exec[x].outcome, exec[x].cancelled,
                buf[x].pending, buf[x].carry, "none")
    BY <2>1, <2>2, <2>3, SetExecIs, SetBufIs DEF Becomes
  <2>5. TxTo(x, "none", NoTx.new)
    BY <1>1, ClearTx, FieldTypes
  <2>. QED
    BY <1>0, <1>1, <2>4, <2>5
<1>2. CASE /\ exec[x].pc = "graph"
           /\ SetExec(x, [exec[x] EXCEPT !.pc = "exit", !.cancelled = TRUE])
           /\ IF buf[x].holder = "graph"
              THEN /\ SetBuf(x, [buf[x] EXCEPT !.closed = TRUE, !.holder = "none", !.carry = 0])
                   /\ tx' = [tx EXCEPT ![x] = NoTx]
                   /\ cut' = [cut EXCEPT ![x] = @ \/ tx[x].stage = "done"]
              ELSE /\ SetBuf(x, [buf[x] EXCEPT !.closed = TRUE])
                   /\ UNCHANGED <<tx, cut>>
  <2>. DEFINE e == [exec[x] EXCEPT !.pc = "exit", !.cancelled = TRUE]
  <2>1. /\ e \in ExecRec /\ e.pc = "exit" /\ e.emitted = exec[x].emitted
        /\ e.outcome = exec[x].outcome /\ e.cancelled = TRUE
    BY <1>0 DEF ExecRec
  <2>2. SetExec(x, e)
    BY <1>2
  <2>. HIDE DEF e
  <2>3. ExecTo(x, "exit", exec[x].emitted, exec[x].outcome, TRUE)
    BY <2>1, <2>2, SetExecIs
  <2>4. CASE buf[x].holder = "graph"
    <3>1. PICK z \in 0 .. NEvents : z = 0
      BY <1>0
    <3>. DEFINE b == [buf[x] EXCEPT !.closed = TRUE, !.holder = "none", !.carry = z]
    <3>2. b \in BufRec /\ b.pending = buf[x].pending /\ b.carry = z /\ b.holder = "none"
      BY <1>0 DEF BufRec
    <3>3. SetBuf(x, b)
      BY <1>2, <2>4, <3>1
    <3>. HIDE DEF b
    <3>4. BufTo(x, buf[x].pending, 0, "none")
      BY <3>1, <3>2, <3>3, SetBufIs
    <3>5. TxTo(x, "none", NoTx.new)
      BY <1>2, <2>4, ClearTx, FieldTypes
    <3>6. CutTo(x, cut[x] \/ tx[x].stage = "done")
      BY <1>2, <2>4, PartTypes DEF CutTo
    <3>. QED
      BY <1>0, <1>2, <2>3, <2>4, <3>4, <3>5, <3>6 DEF Becomes
  <2>5. CASE buf[x].holder # "graph"
    <3>. DEFINE b == [buf[x] EXCEPT !.closed = TRUE]
    <3>2. /\ b \in BufRec /\ b.pending = buf[x].pending /\ b.carry = buf[x].carry
          /\ b.holder = buf[x].holder
      BY <1>0 DEF BufRec
    <3>3. SetBuf(x, b) /\ UNCHANGED <<tx, cut>>
      BY <1>2, <2>5
    <3>. HIDE DEF b
    <3>4. BufTo(x, buf[x].pending, buf[x].carry, buf[x].holder)
      BY <3>2, <3>3, SetBufIs
    <3>. QED
      BY <1>0, <1>2, <2>3, <2>5, <3>3, <3>4 DEF Becomes
  <2>. QED
    BY <2>4, <2>5
<1>3. CASE /\ exec[x].pc = "exit" /\ ~exec[x].cancelled
           /\ SetExec(x, [exec[x] EXCEPT !.cancelled = TRUE])
           /\ UNCHANGED <<buf, tx, cut>>
  <2>. DEFINE e == [exec[x] EXCEPT !.cancelled = TRUE]
  <2>1. /\ e \in ExecRec /\ e.pc = "exit" /\ e.emitted = exec[x].emitted
        /\ e.outcome = exec[x].outcome /\ e.cancelled = TRUE
    BY <1>0, <1>3 DEF ExecRec
  <2>2. SetExec(x, e)
    BY <1>3
  <2>. HIDE DEF e
  <2>3. ExecTo(x, "exit", exec[x].emitted, exec[x].outcome, TRUE)
    BY <2>1, <2>2, SetExecIs
  <2>4. BufTo(x, buf[x].pending, buf[x].carry, buf[x].holder)
    BY <1>3, SameParts
  <2>. QED
    BY <1>0, <1>3, <2>3, <2>4 DEF Becomes
<1>. QED
  BY <1>1, <1>2, <1>3 DEF Interrupted

\* An outcome's transaction appends the end to both streams.
LEMMA SettleDoes ==
  ASSUME TypeOK, Numbers, NEW outcome, Settle(outcome)
  PROVE  /\ ~RowLocked /\ \A s \in Scopes, w \in Writers : ~Holds(w, s)
         /\ row' = Applied(row, outcome)
         /\ \E new : Adds(new) /\ \A s \in Scopes : DOMAIN new[s] = {1} /\ new[s][1].what = Ending
<1>2. \A s \in Scopes :
        /\ EndRecords[s] = Numbered(s, <<Ending>>)
        /\ EndRecords[s] \in Seq(Record) /\ DOMAIN EndRecords[s] = {1}
        /\ EndRecords[s][1].seq = counter[s] + 1 /\ EndRecords[s][1].what = Ending
  BY SaysContent, NumberedOne DEF EndRecords
<1>3. EndRecords \in [Scopes -> Seq(Record)]
  BY <1>2 DEF EndRecords
<1>4. Insert(EndRecords) /\ ~RowLocked /\ row' = Applied(row, outcome)
      /\ \A s \in Scopes : CounterFree(NoOwner, s)
  BY DEF Settle
<1>5. Adds(EndRecords)
  BY <1>2, <1>3, <1>4, InsertAdds
<1>6. \A s \in Scopes, w \in Writers : ~Holds(w, s)
  BY <1>4, FieldTypes DEF CounterFree, Holds
<1>. QED
  BY <1>2, <1>4, <1>5, <1>6

LEMMA FinishDoes ==
  ASSUME TypeOK, NEW x \in Owners, Finish(x)
  PROVE  /\ exec[x].pc = "finish"
         /\ Becomes(x, "gone", exec[x].emitted, exec[x].outcome, exec[x].cancelled,
                    buf[x].pending, buf[x].carry, buf[x].holder)
         /\ \/ MayFinish(row, 1, x) /\ Settle(exec[x].outcome)
            \/ UNCHANGED <<row, rows, counter>>
         /\ UNCHANGED <<tx, rd, cut, faults, drops>>
<1>. DEFINE e == [exec[x] EXCEPT !.pc = "gone"]
<1>0. exec[x] \in ExecRec
  BY PartTypes
<1>1. /\ e \in ExecRec /\ e.pc = "gone" /\ e.emitted = exec[x].emitted
      /\ e.outcome = exec[x].outcome /\ e.cancelled = exec[x].cancelled
  BY <1>0 DEF ExecRec
<1>2. /\ SetExec(x, e) /\ UNCHANGED buf /\ exec[x].pc = "finish"
      /\ \/ MayFinish(row, 1, x) /\ Settle(exec[x].outcome)
         \/ UNCHANGED <<row, rows, counter>>
      /\ UNCHANGED <<tx, rd, cut, faults, drops>>
  BY DEF Finish
<1>. HIDE DEF e
<1>3. Becomes(x, "gone", exec[x].emitted, exec[x].outcome, exec[x].cancelled,
              buf[x].pending, buf[x].carry, buf[x].holder)
  BY <1>1, <1>2, SetExecIs, SameParts DEF Becomes
<1>. QED
  BY <1>2, <1>3

LEMMA StartedStageDoes ==
  ASSUME TypeOK, Numbers, StartedStage
  PROVE  /\ tx[Api].stage = "none" /\ CounterFree(Api, "thread")
         /\ ~Told("thread", Started)
         /\ \E new : /\ TxTo(Api, "open", new)
                     /\ new["run"] = <<>>
                     /\ DOMAIN new["thread"] = {1} /\ new["thread"][1].what = Started
                     /\ new["thread"][1].seq = counter["thread"] + 1
         /\ UNCHANGED <<row, exec, buf, cut, faults>> /\ Still
<1>. DEFINE new == [run |-> <<>>, thread |-> Numbered("thread", <<Started>>)]
            t == [stage |-> "open", new |-> new]
<1>2. /\ Numbered("thread", <<Started>>) \in Seq(Record)
      /\ DOMAIN Numbered("thread", <<Started>>) = {1}
      /\ Numbered("thread", <<Started>>)[1].what = Started
      /\ Numbered("thread", <<Started>>)[1].seq = counter["thread"] + 1
  BY SaysContent, NumberedOne, FieldTypes
<1>3. new["run"] = <<>> /\ new["thread"] = Numbered("thread", <<Started>>)
  OBVIOUS
<1>4. new \in [Scopes -> Seq(Record)]
  <2>1. <<>> \in Seq(Record)
    OBVIOUS
  <2>2. new = [s \in {"run", "thread"} |->
                 IF s = "run" THEN <<>> ELSE Numbered("thread", <<Started>>)]
    OBVIOUS
  <2>. QED
    BY <1>2, <2>1, <2>2, FieldTypes
<1>5. /\ tx' = [tx EXCEPT ![Api] = t] /\ tx[Api].stage = "none" /\ CounterFree(Api, "thread")
      /\ \A r \in rows["thread"] : r.what # Started
      /\ UNCHANGED <<row, exec, buf, cut, faults>> /\ Still
  BY DEF StartedStage, Still
<1>. HIDE DEF new
<1>6. t \in TxRec /\ t.stage = "open" /\ t.new = new
  BY <1>4 DEF TxRec
<1>. HIDE DEF t
<1>7. TxTo(Api, "open", new)
  BY <1>5, <1>6, SetTxIs, FieldTypes
<1>. QED
  BY <1>2, <1>3, <1>5, <1>7 DEF Told

LEMMA StartedCommitDoes ==
  ASSUME TypeOK, Numbers, StartedCommit
  PROVE  /\ tx[Api].stage = "open" /\ Adds(tx[Api].new)
         /\ TxTo(Api, "none", NoTx.new)
         /\ UNCHANGED <<row, exec, buf, cut, faults, rd, drops>>
<1>1. tx[Api] \in TxRec /\ Api \in Writers
  BY PartTypes, FieldTypes
<1>2. tx[Api].new \in [Scopes -> Seq(Record)]
  BY <1>1, PartFields
<1>3. tx[Api].stage = "open" /\ Insert(tx[Api].new) /\ tx' = [tx EXCEPT ![Api] = NoTx]
      /\ UNCHANGED <<row, exec, buf, cut, faults, rd, drops>>
  BY DEF StartedCommit
<1>4. \A s \in Scopes : \A i \in DOMAIN tx[Api].new[s] : tx[Api].new[s][i].seq = counter[s] + i
  BY <1>1, <1>3 DEF Numbers
<1>5. Adds(tx[Api].new)
  BY <1>2, <1>3, <1>4, InsertAdds
<1>6. TxTo(Api, "none", NoTx.new)
  BY <1>1, <1>3, ClearTx
<1>. QED
  BY <1>3, <1>5, <1>6

-----------------------------------------------------------------------------
(* Every step adds records to the streams, many of them none.              *)

Nothing == [s \in Scopes |-> <<>>]

LEMMA NothingIs == \A s \in Scopes : Nothing[s] = <<>> /\ DOMAIN Nothing[s] = {}
BY DEF Nothing

LEMMA StillAdds ==
  ASSUME TypeOK, UNCHANGED <<rows, counter>>
  PROVE  Adds(Nothing)
<1> SUFFICES ASSUME NEW s \in Scopes
             PROVE  /\ Nothing[s] \in Seq(Record)
                    /\ \A i \in DOMAIN Nothing[s] : Nothing[s][i].seq = counter[s] + i
                    /\ rows'[s] = rows[s] \cup ToSet(Nothing[s])
                    /\ counter'[s] = counter[s] + Len(Nothing[s])
  BY DEF Adds
<1>1. <<>> \in Seq(Record) /\ Len(<<>>) = 0 /\ DOMAIN <<>> = {}
  OBVIOUS
<1>2. Nothing[s] = <<>>
  BY NothingIs
<1>3. ToSet(Nothing[s]) = {}
  BY <1>1, <1>2 DEF ToSet
<1>4. counter[s] + 0 = counter[s]
  BY RowTypes
<1>. QED
  BY <1>1, <1>2, <1>3, <1>4

LEMMA ToldGrows ==
  ASSUME TypeOK, NEW new, Adds(new), NEW s \in Scopes, NEW c
  PROVE  Told(s, c)' <=> Told(s, c) \/ \E i \in DOMAIN new[s] : new[s][i].what = c
BY AddsRows DEF Told

LEMMA ToldStill ==
  ASSUME UNCHANGED rows, NEW s, NEW c
  PROVE  Told(s, c)' <=> Told(s, c)
BY DEF Told

-----------------------------------------------------------------------------
(* Executions: the ones that do not act.                                   *)

Keeps(x) == Phases(x) /\ Queued(x) /\ Carries(x) /\ Kept(x) /\ Once(x)

Same(y) == exec'[y] = exec[y] /\ buf'[y] = buf[y] /\ tx'[y] = tx[y] /\ cut'[y] = cut[y]

LEMMA OthersKeep ==
  ASSUME TypeOK, NEW y \in Owners, Keeps(y), Same(y), NEW new, Adds(new),
         \A s \in Scopes : \A i \in DOMAIN new[s], n \in 1 .. NEvents :
            new[s][i].what # Event(y, n)
  PROVE  Keeps(y)'
<1>0. exec[y].emitted \in 0 .. NEvents /\ NEvents \in Nat
  BY PartTypes, PartFields, FieldTypes
<1>1. \A s \in Scopes, n \in 1 .. exec[y].emitted :
        /\ Told(s, Event(y, n))' <=> Told(s, Event(y, n))
        /\ Waits(y, n)' <=> Waits(y, n)
  BY <1>0, ToldGrows DEF Waits, Same
<1>2. Phases(y)'
  BY DEF Phases, Keeps, Same
<1>3. Queued(y)'
  BY DEF Queued, Keeps, Same
<1>4. Contents(y)' = Contents(y)
  BY DEF Contents, Same
<1>5. \A s \in Scopes : rows[s] \subseteq rows'[s]
  BY AddsRows
<1>6. Carries(y)'
  BY <1>4, <1>5 DEF Carries, Keeps, Same
<1>7. Kept(y)'
  BY <1>1 DEF Kept, Keeps, Same
<1>8. Once(y)'
  BY <1>1 DEF Once, Keeps, Same
<1>. QED
  BY <1>2, <1>3, <1>6, <1>7, <1>8 DEF Keeps

-----------------------------------------------------------------------------
(* Executions: the one that acts.                                          *)

\* Everything a step without a transaction leaves as it is for its execution.
LEMMA ClaimKeeps ==
  ASSUME TypeOK, NEW x \in Owners, Keeps(x), Claim(x)
  PROVE  Keeps(x)'
<1>1. /\ exec[x].pc = "new"
      /\ Becomes(x, "start", exec[x].emitted, exec[x].outcome, exec[x].cancelled,
                 buf[x].pending, buf[x].carry, "start")
      /\ UNCHANGED <<tx, cut, rows>>
  BY ClaimDoes DEF Still
<1>2. Phases(x) /\ Queued(x)
  BY DEF Keeps
<1>3. exec[x].emitted = 0 /\ buf[x].pending = <<>> /\ buf[x].carry = 0 /\ tx[x].stage = "none"
  BY <1>1, <1>2, PartTypes, PartFields, FieldTypes DEF Phases
<1>4. Phases(x)'
  BY <1>1, <1>2, <1>3 DEF Phases, Becomes, ExecTo, BufTo
<1>5. Queued(x)' /\ Carries(x)' /\ Kept(x)' /\ Once(x)'
  BY <1>1, <1>2, <1>3 DEF Queued, Carries, Kept, Once, Becomes, ExecTo, BufTo
<1>. QED
  BY <1>4, <1>5 DEF Keeps

LEMMA WriteStageKeeps ==
  ASSUME TypeOK, Numbers, NEW x \in Owners, Keeps(x), WriteStage(x)
  PROVE  Keeps(x)'
<1>1. /\ buf[x].holder # "none" /\ tx[x].stage = "none"
      /\ TxTo(x, "open", [s \in Scopes |-> Numbered(s, Contents(x)[s])])
      /\ UNCHANGED <<exec, buf, cut, rows>>
  BY WriteStageDoes DEF Still
<1>2. Contents(x)' = Contents(x) /\ \A n : Waits(x, n)' <=> Waits(x, n)
  BY <1>1 DEF Contents, Waits
<1>3. \A s \in Scopes : /\ DOMAIN tx'[x].new[s] = DOMAIN Contents(x)[s]
                        /\ \A i \in DOMAIN Contents(x)[s] :
                             tx'[x].new[s][i].what = Contents(x)[s][i]
  <2> SUFFICES ASSUME NEW s \in Scopes
               PROVE  /\ DOMAIN tx'[x].new[s] = DOMAIN Contents(x)[s]
                      /\ \A i \in DOMAIN Contents(x)[s] :
                           tx'[x].new[s][i].what = Contents(x)[s][i]
    OBVIOUS
  <2>1. tx'[x].new[s] = Numbered(s, Contents(x)[s])
    BY <1>1 DEF TxTo
  <2>2. PICK c \in Seq(Content) : c = Contents(x)[s]
    BY ContentsType
  <2>3. /\ DOMAIN Numbered(s, c) = DOMAIN c
        /\ \A i \in DOMAIN c : Numbered(s, c)[i].what = c[i]
    BY NumberedIs
  <2>. QED
    BY <2>1, <2>2, <2>3
<1>4. tx'[x].stage = "open"
  BY <1>1 DEF TxTo
<1>5. Phases(x)' /\ Queued(x)'
  BY <1>1, <1>4 DEF Phases, Queued, Keeps
<1>6. Carries(x)'
  BY <1>2, <1>3, <1>4 DEF Carries
<1>7. Kept(x)' /\ Once(x)'
  BY <1>1, <1>2, <1>4, ToldStill DEF Kept, Once, Keeps
<1>. QED
  BY <1>5, <1>6, <1>7 DEF Keeps

LEMMA RaisedKeeps ==
  ASSUME TypeOK, NEW x \in Owners, Keeps(x), NEW p, NEW o,
         buf[x].holder # "none", tx'[x].stage = "none",
         RaisedTo(x, p, o),
         Becomes(x, p, exec[x].emitted, o, exec[x].cancelled, buf[x].pending, 0, "none"),
         cut'[x] \/ (UNCHANGED cut /\ tx[x].stage # "done"), UNCHANGED rows
  PROVE  Keeps(x)'
<1>2. Phases(x) /\ Queued(x) /\ Kept(x) /\ Once(x)
  BY DEF Keeps
<1>3. exec[x].emitted \in 0 .. NEvents /\ NEvents \in Nat /\ exec[x].cancelled \in BOOLEAN
      /\ buf[x].holder \in {"none", "start", "graph", "worker", "finish"}
  BY PartTypes, PartFields, FieldTypes
<1>4. Phases(x)'
  BY <1>2, <1>3 DEF Phases, Becomes, ExecTo, BufTo, RaisedTo
<1>5. Queued(x)'
  BY <1>2, <1>3 DEF Queued, Becomes, ExecTo, BufTo
<1>6. Carries(x)'
  BY DEF Carries
<1>7. \A n \in 1 .. exec[x].emitted : Waits(x, n)' <=> Waits(x, n) /\ n # buf[x].carry
  BY <1>2, <1>3 DEF Waits, Becomes, BufTo, Queued
<1>8. Kept(x)'
  <2>1. CASE buf[x].holder \in {"graph", "start", "finish"}
    BY <2>1 DEF Kept, Becomes, ExecTo, RaisedTo
  <2>2. CASE buf[x].holder = "worker"
    <3>1. buf[x].carry = 0
      BY <1>2, <2>2 DEF Phases
    <3>2. \A n \in 1 .. exec[x].emitted : Waits(x, n)' <=> Waits(x, n)
      BY <3>1, <1>3, <1>7
    <3>. QED
      BY <1>2, <2>2, <3>2, ToldStill DEF Kept, Becomes, ExecTo, RaisedTo
  <2>. QED
    BY <1>3, <2>1, <2>2
<1>9. Once(x)'
  <2>1. exec'[x].pc # "gone" => exec[x].pc # "gone"
    BY <1>2, <1>3 DEF RaisedTo, Phases, Becomes, ExecTo
  <2>2. exec'[x].emitted = exec[x].emitted /\ buf'[x].carry = 0
    BY DEF Becomes, ExecTo, BufTo
  <2>. QED
    BY <1>2, <1>7, <2>1, <2>2, ToldStill DEF Once
<1>. QED
  BY <1>4, <1>5, <1>6, <1>8, <1>9 DEF Keeps

LEMMA WriteRefusedKeeps ==
  ASSUME TypeOK, NEW x \in Owners, Keeps(x), WriteRefused(x)
  PROVE  Keeps(x)'
BY WriteRefusedDoes, RaisedKeeps DEF Still

LEMMA WriteFailsKeeps ==
  ASSUME TypeOK, NEW x \in Owners, Keeps(x), WriteFails(x)
  PROVE  Keeps(x)'
<1>1. tx[x].stage = "open" /\ tx'[x].stage = "none" /\ UNCHANGED <<cut, rows>>
  BY WriteFailsDoes DEF Still, TxTo
<1>2. buf[x].holder # "none"
  BY <1>1 DEF Keeps, Phases
<1>3. CASE UNCHANGED <<exec, buf>>
  <2>1. \A n : Waits(x, n)' <=> Waits(x, n)
    BY <1>3 DEF Waits
  <2>2. Phases(x)' /\ Queued(x)' /\ Carries(x)'
    BY <1>1, <1>3 DEF Phases, Queued, Carries, Keeps
  <2>3. Kept(x)' /\ Once(x)'
    BY <1>1, <1>3, <2>1, ToldStill DEF Kept, Once, Keeps
  <2>. QED
    BY <2>2, <2>3 DEF Keeps
<1>4. CASE \E p, o : /\ RaisedTo(x, p, o)
                     /\ Becomes(x, p, exec[x].emitted, o, exec[x].cancelled,
                                buf[x].pending, 0, "none")
  BY <1>1, <1>2, <1>4, RaisedKeeps
<1>. QED
  BY <1>3, <1>4, WriteFailsDoes

LEMMA AnswerLostKeeps ==
  ASSUME TypeOK, NEW x \in Owners, Keeps(x), AnswerLost(x)
  PROVE  Keeps(x)'
<1>1. PICK p, o : /\ tx[x].stage = "done"
                  /\ TxTo(x, "none", NoTx.new)
                  /\ RaisedTo(x, p, o)
                  /\ Becomes(x, p, exec[x].emitted, o, exec[x].cancelled,
                             buf[x].pending, 0, "none")
                  /\ CutTo(x, TRUE) /\ Still
  BY AnswerLostDoes
<1>2. tx'[x].stage = "none" /\ cut'[x] /\ UNCHANGED rows
  BY <1>1 DEF TxTo, CutTo, Still
<1>3. buf[x].holder # "none"
  BY <1>1 DEF Keeps, Phases
<1>. QED
  BY <1>1, <1>2, <1>3, RaisedKeeps

LEMMA WriteCommitKeeps ==
  ASSUME TypeOK, Numbers, NEW x \in Owners, Keeps(x), WriteCommit(x)
  PROVE  Keeps(x)'
<1>1. /\ tx[x].stage = "open" /\ Adds(tx[x].new)
      /\ tx'[x].stage = "done" /\ tx'[x].new = tx[x].new
      /\ UNCHANGED <<exec, buf, cut>>
  BY WriteCommitDoes DEF TxTo
<1>2. Contents(x)' = Contents(x) /\ \A n : Waits(x, n)' <=> Waits(x, n)
  BY <1>1 DEF Contents, Waits
<1>3. Phases(x)' /\ Queued(x)'
  BY <1>1 DEF Phases, Queued, Keeps
<1>4. \A s \in Scopes : \A i \in DOMAIN tx[x].new[s] : tx[x].new[s][i] \in rows'[s]
  BY <1>1, AddsRows
<1>5. Carries(x)'
  BY <1>1, <1>2, <1>4 DEF Carries, Keeps
<1>6. Kept(x)'
  BY <1>1, <1>2, ToldGrows DEF Kept, Keeps
<1>7. Once(x)'
  <2> SUFFICES ASSUME ~cut[x], exec[x].pc # "gone", NEW n \in 1 .. exec[x].emitted,
                      NEW s \in Scopes, Waits(x, n), Told(s, Event(x, n))'
               PROVE  n # buf[x].carry
    BY <1>1, <1>2 DEF Once
  <2>1. ~Told(s, Event(x, n))
    BY <1>1 DEF Once, Keeps
  <2>2. PICK i \in DOMAIN tx[x].new[s] : tx[x].new[s][i].what = Event(x, n)
    BY <1>1, <2>1, ToldGrows
  <2>3. i \in DOMAIN Contents(x)[s] /\ Contents(x)[s][i] = Event(x, n)
    BY <1>1, <2>2 DEF Carries, Keeps
  <2>4. buf[x].holder # "start"
    <3>1. ASSUME buf[x].holder = "start" PROVE FALSE
      <4>1. Contents(x)[s] = IF s = "run" THEN <<Starting(x)>> ELSE <<>>
        BY <3>1, ContentsType
      <4>2. Contents(x)[s] = <<Starting(x)>> /\ i = 1
        BY <2>3, <4>1
      <4>. QED
        BY <2>3, <4>2, SaysApart
    <3>. QED
      BY <3>1
  <2>5. i \in DOMAIN buf[x].pending /\ Event(x, buf[x].pending[i]) = Event(x, n)
    BY <2>3, <2>4, ContentsType
  <2>6. buf[x].pending[i] = n
    BY <2>5, SaysApart
  <2>. QED
    BY <2>5, <2>6 DEF Queued, Keeps
<1>. QED
  BY <1>3, <1>5, <1>6, <1>7 DEF Keeps

LEMMA WritePublishKeeps ==
  ASSUME TypeOK, NEW x \in Owners, Keeps(x), WritePublish(x)
  PROVE  Keeps(x)'
<1>1. PICK p, q :
        /\ buf[x].holder = "start" => p = "graph" /\ q = buf[x].pending
        /\ buf[x].holder = "finish" => p = IF exec[x].cancelled THEN "gone" ELSE "finish"
        /\ buf[x].holder \notin {"start", "finish"} => p = exec[x].pc
        /\ buf[x].holder # "start" => q = IF buf[x].carry # 0 THEN <<buf[x].carry>> ELSE <<>>
        /\ tx[x].stage = "done"
        /\ Becomes(x, p, exec[x].emitted, exec[x].outcome, exec[x].cancelled, q, 0, "none")
        /\ tx'[x].stage = "none"
        /\ UNCHANGED <<cut, rows>>
  BY WritePublishDoes DEF Still, TxTo
<1>2. Phases(x) /\ Queued(x) /\ Carries(x) /\ Kept(x) /\ Once(x)
  BY DEF Keeps
<1>3. /\ exec[x].emitted \in 0 .. NEvents /\ NEvents \in Nat /\ exec[x].cancelled \in BOOLEAN
      /\ buf[x].holder \in {"none", "start", "graph", "worker", "finish"}
      /\ buf[x].carry \in 0 .. NEvents
      /\ exec[x].pc \in {"new", "start", "graph", "exit", "finish", "gone"}
  BY PartTypes, PartFields, FieldTypes
<1>4. buf[x].holder # "none"
  BY <1>1, <1>2 DEF Phases
<1>5. /\ exec'[x].pc = p /\ exec'[x].emitted = exec[x].emitted
      /\ exec'[x].outcome = exec[x].outcome /\ exec'[x].cancelled = exec[x].cancelled
      /\ buf'[x].pending = q /\ buf'[x].carry = 0 /\ buf'[x].holder = "none"
  BY <1>1 DEF Becomes, ExecTo, BufTo
<1>6. Phases(x)'
  BY <1>1, <1>2, <1>3, <1>4, <1>5 DEF Phases
<1>7. CASE buf[x].holder = "start"
  <2>1. exec[x].emitted = 0 /\ q = <<>>
    BY <1>1, <1>2, <1>7 DEF Phases
  <2>2. Queued(x)' /\ Carries(x)' /\ Kept(x)' /\ Once(x)'
    BY <1>1, <1>5, <2>1 DEF Queued, Carries, Kept, Once
  <2>. QED
    BY <1>6, <2>2 DEF Keeps
<1>8. CASE buf[x].holder # "start"
  <2>1. q = IF buf[x].carry # 0 THEN <<buf[x].carry>> ELSE <<>>
    BY <1>1, <1>8
  <2>2. \A n : Waits(x, n)' <=> n = 0 \/ n = buf[x].carry
    <3>1. CASE buf[x].carry = 0
      BY <2>1, <1>5, <3>1 DEF Waits
    <3>2. CASE buf[x].carry # 0
      <4>1. q = <<buf[x].carry>> /\ DOMAIN q = {1} /\ q[1] = buf[x].carry
        BY <2>1, <3>2
      <4>. QED
        BY <1>5, <4>1 DEF Waits
    <3>. QED
      BY <3>1, <3>2
  <2>3. Queued(x)'
    <3>1. CASE buf[x].carry = 0
      BY <2>1, <1>3, <1>5, <3>1 DEF Queued
    <3>2. CASE buf[x].carry # 0
      <4>1. q = <<buf[x].carry>> /\ DOMAIN q = {1} /\ q[1] = buf[x].carry
        BY <2>1, <3>2
      <4>2. buf[x].carry \in 1 .. exec[x].emitted
        BY <1>2, <1>3, <3>2 DEF Queued
      <4>. QED
        BY <1>3, <1>5, <4>1, <4>2 DEF Queued
    <3>. QED
      BY <3>1, <3>2
  <2>4. Carries(x)'
    BY <1>1 DEF Carries
  <2>5. \A i \in DOMAIN buf[x].pending, s \in Scopes : Told(s, Event(x, buf[x].pending[i]))
    <3> SUFFICES ASSUME NEW i \in DOMAIN buf[x].pending, NEW s \in Scopes
                 PROVE  Told(s, Event(x, buf[x].pending[i]))
      OBVIOUS
    <3>1. DOMAIN Contents(x)[s] = DOMAIN buf[x].pending
          /\ Contents(x)[s][i] = Event(x, buf[x].pending[i])
      BY <1>8, ContentsType
    <3>2. /\ DOMAIN tx[x].new[s] = DOMAIN Contents(x)[s]
          /\ \A j \in DOMAIN tx[x].new[s] : tx[x].new[s][j].what = Contents(x)[s][j]
          /\ \A j \in DOMAIN tx[x].new[s] : tx[x].new[s][j] \in rows[s]
      BY <1>1, <1>2 DEF Carries
    <3>. QED
      BY <3>1, <3>2 DEF Told
  <2>6. Kept(x)'
    <3> SUFFICES ASSUME exec[x].outcome # "error", ~exec[x].cancelled,
                        NEW n \in 1 .. exec[x].emitted
                 PROVE  Waits(x, n)' \/ \A s \in Scopes : Told(s, Event(x, n))'
      BY <1>5 DEF Kept
    <3>1. Waits(x, n) \/ \A s \in Scopes : Told(s, Event(x, n))
      BY <1>2 DEF Kept
    <3>2. Waits(x, n) => n = buf[x].carry \/ \A s \in Scopes : Told(s, Event(x, n))
      BY <2>5 DEF Waits
    <3>. QED
      BY <3>1, <3>2, <2>2, <1>1, ToldStill
  <2>7. Once(x)'
    <3> SUFFICES ASSUME ~cut[x], p # "gone", NEW n \in 1 .. exec[x].emitted, NEW s \in Scopes,
                        Waits(x, n)', Told(s, Event(x, n))'
                 PROVE  FALSE
      BY <1>1, <1>5 DEF Once
    <3>0. n # 0
      BY <1>3
    <3>1. n = buf[x].carry /\ Told(s, Event(x, n)) /\ Waits(x, n)
      <4>1. n = buf[x].carry
        BY <2>2, <3>0
      <4>2. Told(s, Event(x, n))
        BY <1>1, ToldStill
      <4>. QED
        BY <4>1, <4>2 DEF Waits
    <3>2. exec[x].pc # "gone"
      BY <1>2, <1>4 DEF Phases
    <3>. QED
      BY <3>1, <3>2, <1>2 DEF Once
  <2>. QED
    BY <1>6, <2>3, <2>4, <2>6, <2>7 DEF Keeps
<1>. QED
  BY <1>7, <1>8

LEMMA EmitKeeps ==
  ASSUME TypeOK, NEW x \in Owners, Keeps(x), Contained, Emit(x)
  PROVE  Keeps(x)'
<1>. DEFINE m == exec[x].emitted + 1
<1>1. PICK q, c, h :
        /\ \/ q = Append(buf[x].pending, m) /\ c = buf[x].carry /\ h \in {"none", "graph"}
           \/ q = buf[x].pending /\ c = m /\ h = "graph"
        /\ Becomes(x, "graph", m, exec[x].outcome, exec[x].cancelled, q, c, h)
        /\ exec[x].pc = "graph" /\ buf[x].holder = "none" /\ m \in 1 .. NEvents
        /\ UNCHANGED <<tx, cut, rows>>
  BY EmitDoes DEF Still
<1>2. Phases(x) /\ Queued(x) /\ Kept(x) /\ Once(x)
  BY DEF Keeps
<1>3. /\ exec[x].emitted \in 0 .. NEvents /\ NEvents \in Nat /\ exec[x].cancelled \in BOOLEAN
      /\ buf[x].pending \in Seq(1 .. NEvents)
  BY PartTypes, PartFields, FieldTypes
<1>4. tx[x].stage = "none" /\ buf[x].carry = 0
  BY <1>1, <1>2, PartTypes, PartFields, FieldTypes DEF Phases
<1>5. /\ exec'[x].pc = "graph" /\ exec'[x].emitted = m
      /\ exec'[x].outcome = exec[x].outcome /\ exec'[x].cancelled = exec[x].cancelled
      /\ buf'[x].pending = q /\ buf'[x].carry = c /\ buf'[x].holder = h
  BY <1>1 DEF Becomes, ExecTo, BufTo
<1>6. Phases(x)'
  BY <1>1, <1>2, <1>4, <1>5 DEF Phases
<1>7. Queued(x)' /\ \A n \in 1 .. m : Waits(x, n)' <=> Waits(x, n) \/ n = m
  <2>1. CASE q = buf[x].pending /\ c = m
    BY <1>2, <1>3, <1>4, <1>5, <2>1 DEF Queued, Waits
  <2>2. CASE q = Append(buf[x].pending, m) /\ c = buf[x].carry
    <3>. DEFINE k == Len(buf[x].pending) + 1
    <3>1. /\ DOMAIN q = 1 .. k /\ k \in Nat /\ q[k] = m
          /\ DOMAIN buf[x].pending = 1 .. k - 1
          /\ \A i \in 1 .. k - 1 : q[i] = buf[x].pending[i]
      BY <2>2, <1>1, <1>3, AppendProperties
    <3>2. \A i \in 1 .. k - 1 : q[i] \in 1 .. exec[x].emitted
      BY <3>1, <1>2 DEF Queued
    <3>3. \A i \in 1 .. k : i \in 1 .. k - 1 \/ i = k
      BY <3>1
    <3>. HIDE DEF k
    <3>4. \A i \in 1 .. k : q[i] \in 1 .. m /\ q[i] # 0
      BY <3>1, <3>2, <3>3, <1>3
    <3>5. \A i, j \in 1 .. k : q[i] = q[j] => i = j
      <4> SUFFICES ASSUME NEW i \in 1 .. k, NEW j \in 1 .. k, q[i] = q[j]
                   PROVE  i = j
        OBVIOUS
      <4>1. CASE i = k \/ j = k
        BY <4>1, <3>1, <3>2, <3>3, <1>3
      <4>2. CASE i \in 1 .. k - 1 /\ j \in 1 .. k - 1
        BY <4>2, <3>1, <1>2 DEF Queued
      <4>. QED
        BY <4>1, <4>2, <3>3
    <3>6. Queued(x)'
      <4>1. c = 0 /\ m \in Nat
        BY <1>1, <1>3, <1>4, <2>2
      <4>2. \A i \in DOMAIN q : q[i] \in 1 .. m /\ q[i] # c
        BY <3>1, <3>4, <4>1
      <4>3. \A i, j \in DOMAIN q : q[i] = q[j] => i = j
        BY <3>1, <3>5
      <4>4. c <= m
        BY <4>1
      <4>. QED
        BY <1>5, <4>2, <4>3, <4>4 DEF Queued
    <3>7. \A n \in 1 .. m : Waits(x, n)' <=> Waits(x, n) \/ n = m
      BY <3>1, <3>3, <1>4, <1>5, <2>2 DEF Waits
    <3>. QED
      BY <3>6, <3>7
  <2>. QED
    BY <1>1, <2>1, <2>2
<1>8. Carries(x)'
  BY <1>1, <1>4 DEF Carries
<1>9. \A s \in Scopes : ~Told(s, Event(x, m))
  <2> SUFFICES ASSUME NEW s \in Scopes, Told(s, Event(x, m)) PROVE FALSE
    OBVIOUS
  <2>1. m <= exec[x].emitted
    BY <1>1 DEF Contained
  <2>. QED
    BY <2>1, <1>3
<1>10. \A n \in 1 .. m : n = m \/ n \in 1 .. exec[x].emitted
  BY <1>3
<1>. HIDE DEF m
<1>11. Kept(x)'
  BY <1>1, <1>2, <1>5, <1>7, <1>10, ToldStill DEF Kept
<1>12. Once(x)'
  <2> SUFFICES ASSUME ~cut[x], NEW n \in 1 .. m, NEW s \in Scopes,
                      Waits(x, n)', Told(s, Event(x, n))'
               PROVE  FALSE
    BY <1>1, <1>5 DEF Once
  <2>1. n # m /\ Waits(x, n) /\ Told(s, Event(x, n)) /\ n \in 1 .. exec[x].emitted
    BY <1>1, <1>7, <1>9, <1>10, ToldStill
  <2>. QED
    BY <2>1, <1>1, <1>2, <1>4 DEF Once
<1>. QED
  BY <1>6, <1>7, <1>8, <1>11, <1>12 DEF Keeps

LEMMA GraphEndsKeeps ==
  ASSUME TypeOK, NEW x \in Owners, Keeps(x), GraphEnds(x)
  PROVE  Keeps(x)'
<1>1. PICK o \in {"success", "error"} :
        /\ exec[x].pc = "graph" /\ buf[x].holder \in {"none", "worker"}
        /\ Becomes(x, "exit", exec[x].emitted, o, exec[x].cancelled,
                   buf[x].pending, buf[x].carry, buf[x].holder)
        /\ UNCHANGED <<tx, cut, rows>>
  BY GraphEndsDoes DEF Still
<1>2. Phases(x) /\ Queued(x) /\ Carries(x) /\ Kept(x) /\ Once(x)
  BY DEF Keeps
<1>3. exec[x].outcome \in {"none", "success", "error"} /\ exec[x].cancelled \in BOOLEAN
  BY PartTypes, PartFields
<1>4. /\ exec'[x].pc = "exit" /\ exec'[x].emitted = exec[x].emitted
      /\ exec'[x].outcome = o /\ exec'[x].cancelled = exec[x].cancelled
      /\ buf'[x].pending = buf[x].pending /\ buf'[x].carry = buf[x].carry
      /\ buf'[x].holder = buf[x].holder
  BY <1>1 DEF Becomes, ExecTo, BufTo
<1>5. Contents(x)' = Contents(x) /\ \A n : Waits(x, n)' <=> Waits(x, n)
  BY <1>4 DEF Contents, Waits
<1>6. exec[x].outcome = "none"
  BY <1>1, <1>2 DEF Phases
<1>7. Phases(x)' /\ Queued(x)'
  BY <1>1, <1>2, <1>3, <1>4 DEF Phases, Queued
<1>8. Carries(x)'
  BY <1>1, <1>2, <1>5 DEF Carries
<1>9. Kept(x)' /\ Once(x)'
  BY <1>1, <1>2, <1>4, <1>5, <1>6, ToldStill DEF Kept, Once
<1>. QED
  BY <1>7, <1>8, <1>9 DEF Keeps

LEMMA BufferKeeps ==
  ASSUME TypeOK, NEW x \in Owners, Keeps(x), Buffer(x)
  PROVE  Keeps(x)'
<1>1. PICK p, h :
        /\ buf[x].holder = "none"
        /\ \/ /\ exec[x].pc \in {"graph", "exit"} /\ buf[x].pending # <<>>
              /\ p = exec[x].pc /\ h = "worker"
           \/ exec[x].pc = "exit" /\ p = "exit" /\ h = "none"
           \/ /\ exec[x].pc = "exit" /\ buf[x].pending = <<>> /\ h = "none"
              /\ p = IF exec[x].cancelled THEN "gone" ELSE "finish"
           \/ exec[x].pc = "exit" /\ buf[x].pending # <<>> /\ p = "exit" /\ h = "finish"
        /\ Becomes(x, p, exec[x].emitted, exec[x].outcome, exec[x].cancelled,
                   buf[x].pending, buf[x].carry, h)
        /\ UNCHANGED <<tx, cut, rows>>
  BY BufferDoes DEF Still
<1>2. Phases(x) /\ Queued(x) /\ Kept(x) /\ Once(x)
  BY DEF Keeps
<1>3. exec[x].cancelled \in BOOLEAN /\ buf[x].carry \in 0 .. NEvents /\ tx[x].stage = "none"
  BY <1>1, <1>2, PartTypes, PartFields DEF Phases
<1>4. /\ exec'[x].pc = p /\ exec'[x].emitted = exec[x].emitted
      /\ exec'[x].outcome = exec[x].outcome /\ exec'[x].cancelled = exec[x].cancelled
      /\ buf'[x].pending = buf[x].pending /\ buf'[x].carry = buf[x].carry
      /\ buf'[x].holder = h
  BY <1>1 DEF Becomes, ExecTo, BufTo
<1>5. \A n : Waits(x, n)' <=> Waits(x, n)
  BY <1>4 DEF Waits
<1>6. Phases(x)'
  BY <1>1, <1>2, <1>3, <1>4 DEF Phases
<1>7. Queued(x)' /\ Carries(x)'
  BY <1>1, <1>2, <1>3, <1>4 DEF Queued, Carries
<1>8. exec[x].pc # "gone"
  BY <1>1
<1>9. Kept(x)' /\ Once(x)'
  BY <1>1, <1>2, <1>4, <1>5, <1>8, ToldStill DEF Kept, Once
<1>. QED
  BY <1>6, <1>7, <1>9 DEF Keeps

\* An execution that is gone has no obligations but what it kept.
LEMMA GoneKeeps ==
  ASSUME TypeOK, NEW x \in Owners, Keeps(x), NEW new, Adds(new),
         Becomes(x, "gone", exec[x].emitted, exec[x].outcome, exec[x].cancelled,
                 buf[x].pending, buf[x].carry, "none"),
         tx'[x].stage = "none", exec[x].pc # "new"
  PROVE  Keeps(x)'
<1>2. Phases(x) /\ Queued(x) /\ Kept(x)
  BY DEF Keeps
<1>4. /\ exec'[x].pc = "gone" /\ exec'[x].emitted = exec[x].emitted
      /\ exec'[x].outcome = exec[x].outcome /\ exec'[x].cancelled = exec[x].cancelled
      /\ buf'[x].pending = buf[x].pending /\ buf'[x].carry = buf[x].carry
      /\ buf'[x].holder = "none"
  BY DEF Becomes, ExecTo, BufTo
<1>5. \A n : Waits(x, n)' <=> Waits(x, n)
  BY <1>4 DEF Waits
<1>6. Phases(x)' /\ Queued(x)' /\ Carries(x)' /\ Once(x)'
  BY <1>2, <1>4 DEF Phases, Queued, Carries, Once
<1>7. Kept(x)'
  BY <1>2, <1>4, <1>5, ToldGrows DEF Kept
<1>. QED
  BY <1>6, <1>7 DEF Keeps

LEMMA InterruptedKeeps ==
  ASSUME TypeOK, NEW x \in Owners, Keeps(x), Interrupted(x)
  PROVE  Keeps(x)'
<1>0. UNCHANGED <<rows, counter>>
  BY InterruptedDoes DEF Still
<1>2. Phases(x) /\ Queued(x) /\ Carries(x) /\ Kept(x) /\ Once(x)
  BY DEF Keeps
<1>3. /\ exec[x].cancelled \in BOOLEAN /\ buf[x].carry \in 0 .. NEvents /\ cut[x] \in BOOLEAN
      /\ exec[x].emitted \in 0 .. NEvents /\ NEvents \in Nat
      /\ buf[x].holder \in {"none", "start", "graph", "worker", "finish"}
  BY PartTypes, PartFields, FieldTypes
<1>4. CASE /\ exec[x].pc = "start"
           /\ Becomes(x, "gone", exec[x].emitted, exec[x].outcome, exec[x].cancelled,
                      buf[x].pending, buf[x].carry, "none")
           /\ TxTo(x, "none", NoTx.new)
  <2>1. Adds(Nothing) /\ tx'[x].stage = "none"
    BY <1>0, <1>4, StillAdds DEF TxTo
  <2>. QED
    BY <2>1, <1>4, GoneKeeps
<1>5. CASE /\ exec[x].pc = "graph" /\ buf[x].holder = "graph"
           /\ Becomes(x, "exit", exec[x].emitted, exec[x].outcome, TRUE,
                      buf[x].pending, 0, "none")
           /\ TxTo(x, "none", NoTx.new)
           /\ CutTo(x, cut[x] \/ tx[x].stage = "done")
  <2>1. /\ exec'[x].pc = "exit" /\ exec'[x].emitted = exec[x].emitted
        /\ exec'[x].outcome = exec[x].outcome /\ exec'[x].cancelled = TRUE
        /\ buf'[x].pending = buf[x].pending /\ buf'[x].carry = 0
        /\ buf'[x].holder = "none" /\ tx'[x].stage = "none"
        /\ cut'[x] = (cut[x] \/ tx[x].stage = "done")
    BY <1>5 DEF Becomes, ExecTo, BufTo, TxTo, CutTo
  <2>2. Phases(x)'
    BY <1>2, <1>5, <2>1 DEF Phases
  <2>3. Queued(x)' /\ Carries(x)' /\ Kept(x)'
    BY <1>2, <1>3, <2>1 DEF Queued, Carries, Kept
  <2>4. Once(x)'
    <3> SUFFICES ASSUME ~cut'[x], NEW n \in 1 .. exec[x].emitted, NEW s \in Scopes,
                        Waits(x, n)', Told(s, Event(x, n))'
                 PROVE  FALSE
      BY <2>1 DEF Once
    <3>1. Waits(x, n)
      BY <1>3, <2>1 DEF Waits
    <3>2. Told(s, Event(x, n))
      BY <1>0, ToldStill
    <3>3. ~cut[x] /\ tx[x].stage # "done"
      BY <2>1, <1>3
    <3>. QED
      BY <3>1, <3>2, <3>3, <1>2, <1>5 DEF Once
  <2>. QED
    BY <2>2, <2>3, <2>4 DEF Keeps
<1>6. CASE /\ \/ exec[x].pc \in {"graph", "exit"} /\ buf[x].holder # "graph"
              \/ exec[x].pc = "exit"
           /\ Becomes(x, "exit", exec[x].emitted, exec[x].outcome, TRUE,
                      buf[x].pending, buf[x].carry, buf[x].holder)
           /\ UNCHANGED <<tx, cut>>
  <2>1. /\ exec'[x].pc = "exit" /\ exec'[x].emitted = exec[x].emitted
        /\ exec'[x].outcome = exec[x].outcome /\ exec'[x].cancelled = TRUE
        /\ buf'[x].pending = buf[x].pending /\ buf'[x].carry = buf[x].carry
        /\ buf'[x].holder = buf[x].holder
    BY <1>6 DEF Becomes, ExecTo, BufTo
  <2>2. exec[x].pc \in {"graph", "exit"} /\ buf[x].holder # "graph"
    BY <1>2, <1>6 DEF Phases
  <2>3. Contents(x)' = Contents(x) /\ \A n : Waits(x, n)' <=> Waits(x, n)
    BY <2>1 DEF Contents, Waits
  <2>4. Phases(x)'
    BY <1>2, <1>3, <1>6, <2>1, <2>2 DEF Phases
  <2>5. Queued(x)' /\ Kept(x)'
    BY <1>2, <2>1 DEF Queued, Kept
  <2>6. Carries(x)'
    BY <1>0, <1>2, <1>6, <2>3 DEF Carries
  <2>7. Once(x)'
    BY <1>0, <1>2, <1>6, <2>1, <2>2, <2>3, ToldStill DEF Once
  <2>. QED
    BY <2>4, <2>5, <2>6, <2>7 DEF Keeps
<1>. QED
  BY <1>4, <1>5, <1>6, InterruptedDoes

LEMMA CrashKeeps ==
  ASSUME TypeOK, NEW x \in Owners, Keeps(x), Crash(x)
  PROVE  Keeps(x)'
<1>1. Adds(Nothing) /\ tx'[x].stage = "none"
  BY CrashDoes, StillAdds DEF Still, TxTo
<1>. QED
  BY <1>1, CrashDoes, GoneKeeps

\* Whatever a settlement adds, it is the end.
LEMMA FinishAdds ==
  ASSUME TypeOK, Numbers, NEW x \in Owners, Finish(x)
  PROVE  \E new : Adds(new) /\ \A s \in Scopes : \A i \in DOMAIN new[s] : new[s][i].what = Ending
<1>1. CASE Settle(exec[x].outcome)
  <2>1. PICK new : Adds(new) /\ \A s \in Scopes : DOMAIN new[s] = {1} /\ new[s][1].what = Ending
    BY <1>1, SettleDoes
  <2>. QED
    BY <2>1
<1>2. CASE UNCHANGED <<rows, counter>>
  BY <1>2, StillAdds, NothingIs
<1>. QED
  BY <1>1, <1>2, FinishDoes

LEMMA FinishKeeps ==
  ASSUME TypeOK, Numbers, NEW x \in Owners, Keeps(x), Finish(x)
  PROVE  Keeps(x)'
<1>1. /\ exec[x].pc = "finish" /\ UNCHANGED tx
      /\ Becomes(x, "gone", exec[x].emitted, exec[x].outcome, exec[x].cancelled,
                 buf[x].pending, buf[x].carry, buf[x].holder)
  BY FinishDoes
<1>2. buf[x].holder = "none" /\ tx[x].stage = "none"
  BY <1>1, PartTypes, PartFields DEF Keeps, Phases
<1>3. PICK new : Adds(new)
  BY FinishAdds
<1>. QED
  BY <1>1, <1>2, <1>3, GoneKeeps

-----------------------------------------------------------------------------
(* An execution's steps, as the other parts of the invariant see them.     *)

OwnAct(x) ==
  \/ Claim(x) \/ Write(x) \/ WriteFails(x) \/ AnswerLost(x) \/ Emit(x) \/ GraphEnds(x)
  \/ Buffer(x) \/ FencedOut(x) \/ Shutdown(x) \/ Crash(x) \/ Finish(x)

\* An execution does not go back.
Advances(x) ==
  /\ exec'[x].emitted >= exec[x].emitted
  /\ exec'[x].pc = "new" => exec[x].pc = "new"
  /\ exec'[x].pc = "start" =>
       \/ exec[x].pc = "new"
       \/ exec[x].pc = "start" /\ (tx[x].stage = "done" => tx'[x].stage = "done")
  /\ exec[x].pc = "gone" => exec'[x].pc = "gone" /\ exec'[x].emitted = exec[x].emitted
  /\ cut[x] => cut'[x]

\* A step of x leaves the other writers alone.
Alone(x) ==
  /\ \A y \in Owners \ {x} : Same(y)
  /\ tx'[Api] = tx[Api]

PartsTyped ==
  /\ exec' \in [Owners -> ExecRec]
  /\ buf' \in [Owners -> BufRec]
  /\ tx' \in [Writers -> TxRec]
  /\ cut' \in [Owners -> BOOLEAN]
  /\ faults' \in 0 .. MaxFaults

LEMMA Unmoved ==
  ASSUME TypeOK, NEW x \in Owners
  PROVE  /\ UNCHANGED <<exec, buf>> =>
              Becomes(x, exec[x].pc, exec[x].emitted, exec[x].outcome, exec[x].cancelled,
                      buf[x].pending, buf[x].carry, buf[x].holder)
         /\ UNCHANGED tx => TxTo(x, tx[x].stage, tx[x].new)
         /\ UNCHANGED cut => CutTo(x, cut[x])
         /\ UNCHANGED faults => faults' \in 0 .. MaxFaults
         /\ exec[x].emitted \in Nat /\ exec[x].emitted + 1 >= exec[x].emitted
         /\ exec[x].emitted >= exec[x].emitted
         /\ \A y \in Owners \ {x} : y \in Writers \ {x}
         /\ Api \in Writers \ {x}
<1>1. exec[x].emitted \in 0 .. NEvents /\ NEvents \in Nat
  BY PartTypes, PartFields, FieldTypes
<1>2. faults \in 0 .. MaxFaults
  BY DEF TypeOK
<1>. QED
  BY <1>1, <1>2, SameParts, FieldTypes DEF Becomes

LEMMA OwnMoves ==
  ASSUME TypeOK, Numbers, Contained, NEW x \in Owners, Keeps(x), OwnAct(x)
  PROVE  Keeps(x)' /\ Advances(x) /\ Alone(x) /\ PartsTyped
<1>0. Phases(x)
  BY DEF Keeps
<1>1. CASE Claim(x)
  <2>1. /\ exec[x].pc = "new"
        /\ Becomes(x, "start", exec[x].emitted, exec[x].outcome, exec[x].cancelled,
                   buf[x].pending, buf[x].carry, "start")
        /\ UNCHANGED <<tx, cut, faults>>
    BY <1>1, ClaimDoes
  <2>2. Keeps(x)'
    BY <1>1, ClaimKeeps
  <2>. QED
    BY <2>1, <2>2, Unmoved
       DEF Becomes, ExecTo, BufTo, TxTo, CutTo, Same, Alone, Advances, PartsTyped
<1>2. CASE WriteStage(x)
  <2>1. /\ tx[x].stage = "none"
        /\ TxTo(x, "open", [s \in Scopes |-> Numbered(s, Contents(x)[s])])
        /\ UNCHANGED <<exec, buf, cut, faults>>
    BY <1>2, WriteStageDoes
  <2>2. Keeps(x)'
    BY <1>2, WriteStageKeeps
  <2>. QED
    BY <2>1, <2>2, Unmoved
       DEF Becomes, ExecTo, BufTo, TxTo, CutTo, Same, Alone, Advances, PartsTyped
<1>3. CASE WriteRefused(x)
  <2>1. PICK p, o : /\ buf[x].holder # "none" /\ tx[x].stage = "none"
                    /\ RaisedTo(x, p, o)
                    /\ Becomes(x, p, exec[x].emitted, o, exec[x].cancelled,
                               buf[x].pending, 0, "none")
                    /\ UNCHANGED <<row, tx, cut, faults>>
    BY <1>3, WriteRefusedDoes
  <2>2. (p = "start" => exec[x].pc = "start") /\ p # "new" /\ exec[x].pc # "gone"
    BY <1>0, <2>1, PartTypes, PartFields DEF Phases, RaisedTo
  <2>3. Keeps(x)'
    BY <1>3, WriteRefusedKeeps
  <2>. QED
    BY <2>1, <2>2, <2>3, Unmoved
     DEF Becomes, ExecTo, BufTo, TxTo, CutTo, Same, Alone, Advances, PartsTyped
<1>4. CASE WriteCommit(x)
  <2>1. TxTo(x, "done", tx[x].new) /\ UNCHANGED <<exec, buf, cut, faults>>
    BY <1>4, WriteCommitDoes
  <2>2. Keeps(x)'
    BY <1>4, WriteCommitKeeps
  <2>. QED
    BY <2>1, <2>2, Unmoved
       DEF Becomes, ExecTo, BufTo, TxTo, CutTo, Same, Alone, Advances, PartsTyped
<1>5. CASE WritePublish(x)
  <2>1. PICK p, q :
           /\ buf[x].holder = "start" => p = "graph" /\ q = buf[x].pending
           /\ buf[x].holder = "finish" =>
                p = IF exec[x].cancelled THEN "gone" ELSE "finish"
           /\ buf[x].holder \notin {"start", "finish"} => p = exec[x].pc
           /\ tx[x].stage = "done"
           /\ Becomes(x, p, exec[x].emitted, exec[x].outcome, exec[x].cancelled, q, 0, "none")
           /\ TxTo(x, "none", NoTx.new)
           /\ UNCHANGED <<row, cut, faults>>
    BY <1>5, WritePublishDoes
  <2>2. p \notin {"new", "start"} /\ exec[x].pc # "gone"
    BY <1>0, <2>1, PartTypes, PartFields DEF Phases
  <2>3. Keeps(x)'
    BY <1>5, WritePublishKeeps
  <2>. QED
    BY <2>1, <2>2, <2>3, Unmoved
     DEF Becomes, ExecTo, BufTo, TxTo, CutTo, Same, Alone, Advances, PartsTyped
<1>6. CASE WriteFails(x)
  <2>1. /\ tx[x].stage = "open" /\ TxTo(x, "none", NoTx.new)
        /\ faults' \in 0 .. MaxFaults /\ UNCHANGED <<row, cut>>
    BY <1>6, WriteFailsDoes
  <2>0. Keeps(x)'
    BY <1>6, WriteFailsKeeps
  <2>2. CASE UNCHANGED <<exec, buf>>
    BY <2>0, <2>1, <2>2, Unmoved
     DEF Becomes, ExecTo, BufTo, TxTo, CutTo, Same, Alone, Advances, PartsTyped
  <2>3. CASE \E p, o : /\ RaisedTo(x, p, o)
                       /\ Becomes(x, p, exec[x].emitted, o, exec[x].cancelled,
                                  buf[x].pending, 0, "none")
    <3>1. PICK p, o : /\ RaisedTo(x, p, o)
                      /\ Becomes(x, p, exec[x].emitted, o, exec[x].cancelled,
                                 buf[x].pending, 0, "none")
      BY <2>3
    <3>2. (p = "start" => exec[x].pc = "start") /\ p # "new" /\ exec[x].pc # "gone"
      BY <1>0, <2>1, <3>1, PartTypes, PartFields DEF Phases, RaisedTo
    <3>. QED
      BY <2>0, <2>1, <3>1, <3>2, Unmoved
     DEF Becomes, ExecTo, BufTo, TxTo, CutTo, Same, Alone, Advances, PartsTyped
  <2>. QED
    BY <1>6, <2>2, <2>3, WriteFailsDoes
<1>14. CASE AnswerLost(x)
  <2>1. PICK p, o : /\ tx[x].stage = "done"
                    /\ TxTo(x, "none", NoTx.new)
                    /\ RaisedTo(x, p, o)
                    /\ Becomes(x, p, exec[x].emitted, o, exec[x].cancelled,
                               buf[x].pending, 0, "none")
                    /\ CutTo(x, TRUE)
                    /\ faults' \in 0 .. MaxFaults
    BY <1>14, AnswerLostDoes
  <2>2. p \notin {"new", "start"} /\ exec[x].pc # "gone"
    BY <1>0, <2>1, PartTypes, PartFields DEF Phases, RaisedTo
  <2>3. Keeps(x)'
    BY <1>14, AnswerLostKeeps
  <2>. QED
    BY <2>1, <2>2, <2>3, Unmoved
     DEF Becomes, ExecTo, BufTo, TxTo, CutTo, Same, Alone, Advances, PartsTyped
<1>7. CASE Emit(x)
  <2>1. PICK q, c, h : /\ exec[x].pc = "graph"
                       /\ Becomes(x, "graph", exec[x].emitted + 1, exec[x].outcome,
                                  exec[x].cancelled, q, c, h)
                       /\ UNCHANGED <<row, tx, cut, faults>>
    BY <1>7, EmitDoes
  <2>2. Keeps(x)'
    BY <1>7, EmitKeeps
  <2>. QED
    BY <2>1, <2>2, Unmoved
     DEF Becomes, ExecTo, BufTo, TxTo, CutTo, Same, Alone, Advances, PartsTyped
<1>8. CASE GraphEnds(x)
  <2>1. PICK o \in {"success", "error"} :
           /\ exec[x].pc = "graph"
           /\ Becomes(x, "exit", exec[x].emitted, o, exec[x].cancelled,
                      buf[x].pending, buf[x].carry, buf[x].holder)
           /\ UNCHANGED <<row, tx, cut, faults>>
    BY <1>8, GraphEndsDoes
  <2>2. Keeps(x)'
    BY <1>8, GraphEndsKeeps
  <2>. QED
    BY <2>1, <2>2, Unmoved
     DEF Becomes, ExecTo, BufTo, TxTo, CutTo, Same, Alone, Advances, PartsTyped
<1>9. CASE Buffer(x)
  <2>1. PICK p, h :
           /\ exec[x].pc \in {"graph", "exit"} /\ p \in {"graph", "exit", "gone", "finish"}
           /\ Becomes(x, p, exec[x].emitted, exec[x].outcome, exec[x].cancelled,
                      buf[x].pending, buf[x].carry, h)
           /\ UNCHANGED <<row, tx, cut, faults>>
    BY <1>9, BufferDoes
  <2>2. Keeps(x)'
    BY <1>9, BufferKeeps
  <2>. QED
    BY <2>1, <2>2, Unmoved
     DEF Becomes, ExecTo, BufTo, TxTo, CutTo, Same, Alone, Advances, PartsTyped
<1>10. CASE Interrupted(x) /\ faults' \in 0 .. MaxFaults
  <2>0. Keeps(x)' /\ cut[x] \in BOOLEAN
    BY <1>10, InterruptedKeeps, PartTypes
  <2>1. CASE /\ exec[x].pc = "start"
             /\ Becomes(x, "gone", exec[x].emitted, exec[x].outcome, exec[x].cancelled,
                        buf[x].pending, buf[x].carry, "none")
             /\ TxTo(x, "none", NoTx.new)
             /\ UNCHANGED cut
    BY <1>10, <2>0, <2>1, Unmoved
     DEF Becomes, ExecTo, BufTo, TxTo, CutTo, Same, Alone, Advances, PartsTyped
  <2>2. CASE /\ exec[x].pc = "graph" /\ buf[x].holder = "graph"
             /\ Becomes(x, "exit", exec[x].emitted, exec[x].outcome, TRUE,
                        buf[x].pending, 0, "none")
             /\ TxTo(x, "none", NoTx.new)
             /\ CutTo(x, cut[x] \/ tx[x].stage = "done")
    BY <1>10, <2>0, <2>2, Unmoved
     DEF Becomes, ExecTo, BufTo, TxTo, CutTo, Same, Alone, Advances, PartsTyped
  <2>3. CASE /\ \/ exec[x].pc \in {"graph", "exit"} /\ buf[x].holder # "graph"
                \/ exec[x].pc = "exit"
             /\ Becomes(x, "exit", exec[x].emitted, exec[x].outcome, TRUE,
                        buf[x].pending, buf[x].carry, buf[x].holder)
             /\ UNCHANGED <<tx, cut>>
    BY <1>10, <2>0, <2>3, Unmoved
     DEF Becomes, ExecTo, BufTo, TxTo, CutTo, Same, Alone, Advances, PartsTyped
  <2>. QED
    BY <1>10, <2>1, <2>2, <2>3, InterruptedDoes
<1>11. CASE Crash(x)
  <2>1. /\ Becomes(x, "gone", exec[x].emitted, exec[x].outcome, exec[x].cancelled,
                   buf[x].pending, buf[x].carry, "none")
        /\ TxTo(x, "none", NoTx.new)
        /\ faults' \in 0 .. MaxFaults
        /\ UNCHANGED cut
    BY <1>11, CrashDoes
  <2>2. Keeps(x)'
    BY <1>11, CrashKeeps
  <2>. QED
    BY <2>1, <2>2, Unmoved
       DEF Becomes, ExecTo, BufTo, TxTo, CutTo, Same, Alone, Advances, PartsTyped
<1>12. CASE Finish(x)
  <2>1. /\ exec[x].pc = "finish"
        /\ Becomes(x, "gone", exec[x].emitted, exec[x].outcome, exec[x].cancelled,
                   buf[x].pending, buf[x].carry, buf[x].holder)
        /\ UNCHANGED <<tx, cut, faults>>
    BY <1>12, FinishDoes
  <2>2. Keeps(x)'
    BY <1>12, FinishKeeps
  <2>. QED
    BY <2>1, <2>2, Unmoved
     DEF Becomes, ExecTo, BufTo, TxTo, CutTo, Same, Alone, Advances, PartsTyped
<1>13. FencedOut(x) \/ Shutdown(x) => Interrupted(x) /\ faults' \in 0 .. MaxFaults
  <2>1. faults \in 0 .. MaxFaults /\ MaxFaults \in Nat
    BY FieldTypes DEF TypeOK
  <2>2. Fault => faults' \in 0 .. MaxFaults
    BY <2>1 DEF Fault
  <2>3. UNCHANGED faults => faults' \in 0 .. MaxFaults
    BY <2>1
  <2>. QED
    BY <2>2, <2>3 DEF FencedOut, Shutdown
<1>. QED
  BY <1>1, <1>2, <1>3, <1>4, <1>5, <1>6, <1>7, <1>8, <1>9, <1>10, <1>11, <1>12, <1>13,
     <1>14 DEF OwnAct, Write

-----------------------------------------------------------------------------
(* Numbers.                                                                *)

\* A step after which no transaction is open that was not, and that adds nothing to a stream
\* for which an open one has records.
LEMMA NumbersKept ==
  ASSUME TypeOK, Numbers, NEW new, Adds(new),
         \A w \in Writers : tx'[w].stage = "open" =>
            tx'[w] = tx[w] /\ \A s \in Scopes : new[s] # <<>> => tx[w].new[s] = <<>>,
         \A x \in Owners : tx'[x].stage = "open" => OwnsExecution(row', 1, x)
  PROVE  Numbers'
<1>1. \A s \in Scopes :
        /\ \A r \in rows'[s] : r.seq \in 1 .. counter'[s]
        /\ \A a, b \in rows'[s] : a.seq = b.seq => a = b
        /\ \A k \in 1 .. counter'[s] : \E r \in rows'[s] : r.seq = k
  BY AddsNumbers
<1>2. ASSUME NEW w \in Writers, NEW s \in Scopes, tx'[w].stage = "open",
             NEW i \in DOMAIN tx'[w].new[s]
      PROVE  tx'[w].new[s][i].seq = counter'[s] + i
  <2>1. tx'[w] = tx[w] /\ tx[w].new[s][i].seq = counter[s] + i
    BY <1>2 DEF Numbers
  <2>2. new[s] = <<>>
    <3>1. ASSUME new[s] # <<>> PROVE FALSE
      <4>1. tx[w].new[s] = <<>>
        BY <3>1, <1>2
      <4>. QED
        BY <4>1, <2>1, <1>2
    <3>. QED
      BY <3>1
  <2>3. counter'[s] = counter[s]
    BY <2>2, RowTypes DEF Adds
  <2>. QED
    BY <2>1, <2>3
<1>3. \A w \in Writers, s \in Scopes : Holds(w, s)' => Holds(w, s)
  BY DEF Holds
<1>4. \A x \in Owners : x \in Writers
  BY FieldTypes
<1>5. \A x, y \in Owners : tx'[x].stage = "open" /\ tx'[y].stage = "open" => x = y
  BY <1>4 DEF Numbers
<1>6. \A s \in Scopes, v, w \in Writers : Holds(v, s)' /\ Holds(w, s)' => v = w
  BY <1>3 DEF Numbers
<1>. QED
  BY <1>1, <1>2, <1>5, <1>6 DEF Numbers

\* A transaction begins, in a stream that no other one has records for.
LEMMA NumbersStaged ==
  ASSUME TypeOK, Numbers, UNCHANGED <<row, rows, counter>>, NEW w \in Writers, NEW new,
         TxTo(w, "open", new),
         \A s \in Scopes : new[s] # <<>> => CounterFree(w, s),
         \A s \in Scopes : \A i \in DOMAIN new[s] : new[s][i].seq = counter[s] + i,
         w \in Owners => ~RowLocked /\ OwnsExecution(row, 1, w)
  PROVE  Numbers'
<1>1. tx'[w].stage = "open" /\ tx'[w].new = new /\ \A v \in Writers \ {w} : tx'[v] = tx[v]
  BY DEF TxTo
<1>2. \A x \in Owners : x \in Writers
  BY FieldTypes
<1>3. ASSUME NEW v \in Writers, NEW s \in Scopes, tx'[v].stage = "open"
      PROVE  \A i \in DOMAIN tx'[v].new[s] : tx'[v].new[s][i].seq = counter[s] + i
  BY <1>1, <1>3 DEF Numbers
<1>4. \A s \in Scopes, v \in Writers \ {w} : new[s] # <<>> => ~Holds(v, s)'
  BY <1>1 DEF CounterFree, Holds
<1>5. \A s \in Scopes, v \in Writers \ {w} : Holds(v, s)' <=> Holds(v, s)
  BY <1>1 DEF Holds
<1>6. \A s \in Scopes : Holds(w, s)' => new[s] # <<>>
  BY <1>1 DEF Holds
<1>7. \A s \in Scopes, u, v \in Writers : Holds(u, s)' /\ Holds(v, s)' => u = v
  BY <1>4, <1>5, <1>6 DEF Numbers
<1>8. \A x, y \in Owners : tx'[x].stage = "open" /\ tx'[y].stage = "open" => x = y
  BY <1>1, <1>2 DEF Numbers, RowLocked
<1>9. \A x \in Owners : tx'[x].stage = "open" => OwnsExecution(row, 1, x)
  BY <1>1, <1>2 DEF Numbers
<1>10. \A s \in Scopes :
        /\ \A r \in rows[s] : r.seq \in 1 .. counter[s]
        /\ \A a, b \in rows[s] : a.seq = b.seq => a = b
        /\ \A k \in 1 .. counter[s] : \E r \in rows[s] : r.seq = k
  BY DEF Numbers
<1>. QED
  BY <1>3, <1>7, <1>8, <1>9, <1>10 DEF Numbers

\* How an execution's step treats the row, the streams and the reader.
LEMMA OwnRows ==
  ASSUME TypeOK, Numbers, NEW x \in Owners, OwnAct(x)
  PROVE  /\ UNCHANGED <<rd, drops>>
         /\ \/ WriteCommit(x)
            \/ Finish(x) /\ MayFinish(row, 1, x) /\ Settle(exec[x].outcome)
            \/ UNCHANGED <<rows, counter>> /\ (UNCHANGED row \/ Claim(x))
<1>1. CASE WriteCommit(x)
  BY <1>1, WriteCommitDoes
<1>2. CASE Finish(x)
  BY <1>2, FinishDoes
<1>3. CASE Claim(x)
  BY <1>3, ClaimDoes DEF Still
<1>4. CASE WriteStage(x) \/ WriteRefused(x) \/ WritePublish(x) \/ WriteFails(x) \/ AnswerLost(x)
  BY <1>4 DEF WriteStage, WriteRefused, WritePublish, WriteFails, AnswerLost
<1>5. CASE Emit(x) \/ GraphEnds(x) \/ Buffer(x) \/ Crash(x)
  BY <1>5 DEF Emit, GraphEnds, Buffer, WorkerFlush, WorkerEnds, Close, Crash
<1>6. CASE FencedOut(x) \/ Shutdown(x)
  BY <1>6 DEF FencedOut, Shutdown, Interrupted
<1>. QED
  BY <1>1, <1>2, <1>3, <1>4, <1>5, <1>6 DEF OwnAct, Write

\* How it treats the transactions.
LEMMA OwnTx ==
  ASSUME TypeOK, Numbers, NEW x \in Owners, OwnAct(x)
  PROVE  WriteStage(x) \/ \A w \in Writers : tx'[w].stage = "open" => tx'[w] = tx[w]
<1>1. CASE WriteCommit(x) \/ WriteFails(x) \/ AnswerLost(x) \/ WritePublish(x) \/ Crash(x)
  <2>1. \E stage, new : stage # "open" /\ TxTo(x, stage, new)
    BY <1>1, WriteCommitDoes, WriteFailsDoes, AnswerLostDoes, WritePublishDoes, CrashDoes
  <2>. QED
    BY <2>1 DEF TxTo
<1>2. CASE Claim(x) \/ WriteRefused(x) \/ Emit(x) \/ GraphEnds(x) \/ Buffer(x) \/ Finish(x)
  BY <1>2 DEF Claim, WriteRefused, Emit, GraphEnds, Buffer, WorkerFlush, WorkerEnds, Close, Finish
<1>3. CASE FencedOut(x) \/ Shutdown(x)
  <2>1. UNCHANGED tx \/ TxTo(x, "none", NoTx.new)
    BY <1>3, InterruptedDoes DEF FencedOut, Shutdown
  <2>. QED
    BY <2>1 DEF TxTo
<1>. QED
  BY <1>1, <1>2, <1>3 DEF OwnAct, Write

LEMMA OwnNumbers ==
  ASSUME TypeOK, Numbers, NEW x \in Owners, OwnAct(x)
  PROVE  Numbers'
<1>1. CASE WriteStage(x)
  <2>. DEFINE new == [s \in Scopes |-> Numbered(s, Contents(x)[s])]
  <2>1. /\ ~RowLocked /\ OwnsExecution(row, 1, x)
        /\ \A s \in Scopes : Contents(x)[s] # <<>> => CounterFree(x, s)
        /\ TxTo(x, "open", new)
        /\ UNCHANGED <<row, rows, counter>>
    BY <1>1, WriteStageDoes DEF Still
  <2>2. ASSUME NEW s \in Scopes
        PROVE  /\ new[s] = <<>> <=> Contents(x)[s] = <<>>
               /\ \A i \in DOMAIN new[s] : new[s][i].seq = counter[s] + i
    <3>1. PICK c \in Seq(Content) : c = Contents(x)[s]
      BY ContentsType
    <3>2. /\ Numbered(s, c) = <<>> <=> c = <<>>
          /\ DOMAIN Numbered(s, c) = DOMAIN c
          /\ \A i \in DOMAIN c : Numbered(s, c)[i].seq = counter[s] + i
      BY NumberedIs
    <3>. QED
      BY <3>1, <3>2
  <2>. HIDE DEF new
  <2>3. x \in Writers
    BY FieldTypes
  <2>. QED
    BY <2>1, <2>2, <2>3, NumbersStaged
<1>2. CASE \A w \in Writers : tx'[w].stage = "open" => tx'[w] = tx[w]
  <2>1. CASE WriteCommit(x)
    <3>1. /\ tx[x].stage = "open" /\ Adds(tx[x].new) /\ TxTo(x, "done", tx[x].new)
          /\ UNCHANGED row
      BY <2>1, WriteCommitDoes
    <3>2. \A w \in Writers : tx'[w].stage = "open" => w # x
      BY <3>1 DEF TxTo
    <3>3. x \in Writers /\ \A y \in Owners : y \in Writers
      BY FieldTypes
    <3>4. ASSUME NEW w \in Writers, tx'[w].stage = "open", NEW s \in Scopes, tx[x].new[s] # <<>>
          PROVE  tx[w].new[s] = <<>>
      <4>1. tx[w].stage = "open" /\ w # x
        BY <3>2, <3>4, <1>2
      <4>. QED
        BY <4>1, <3>1, <3>3, <3>4 DEF Numbers, Holds
    <3>5. \A y \in Owners : tx'[y].stage = "open" => OwnsExecution(row', 1, y)
      BY <1>2, <3>1, <3>3 DEF Numbers
    <3>. QED
      BY <1>2, <3>1, <3>4, <3>5, NumbersKept
  <2>2. CASE Settle(exec[x].outcome)
    <3>1. ~RowLocked /\ \A s \in Scopes, w \in Writers : ~Holds(w, s)
      BY <2>2, SettleDoes
    <3>2. PICK new : Adds(new)
      BY <2>2, SettleDoes
    <3>3. \A w \in Writers : tx'[w].stage = "open" => \A s \in Scopes : tx[w].new[s] = <<>>
      BY <1>2, <3>1 DEF Holds
    <3>4. \A y \in Owners : tx'[y].stage # "open"
      BY <1>2, <3>1, FieldTypes DEF RowLocked
    <3>. QED
      BY <1>2, <3>2, <3>3, <3>4, NumbersKept
  <2>3. CASE UNCHANGED <<rows, counter>> /\ (UNCHANGED row \/ Claim(x))
    <3>1. Adds(Nothing) /\ \A s \in Scopes : Nothing[s] = <<>>
      BY <2>3, StillAdds, NothingIs
    <3>2. ASSUME NEW y \in Owners, tx'[y].stage = "open" PROVE OwnsExecution(row', 1, y)
      <4>1. tx[y].stage = "open"
        BY <1>2, <3>2, FieldTypes
      <4>2. UNCHANGED row
        BY <4>1, <2>3, ClaimDoes DEF RowLocked
      <4>. QED
        BY <4>1, <4>2 DEF Numbers
    <3>. QED
      BY <1>2, <3>1, <3>2, NumbersKept
  <2>. QED
    BY <2>1, <2>2, <2>3, OwnRows
<1>. QED
  BY <1>1, <1>2, OwnTx

ReaderAct == Connect \/ Load \/ Check \/ Reconnect

LEMMA NextCases ==
  ASSUME Next
  PROVE  \/ \E x \in Owners : OwnAct(x)
         \/ CancelRun \/ LeaseLapses \/ StartedStage \/ StartedCommit \/ ReaderAct
BY DEF Next, OwnAct, ReaderAct, Read

LEMMA ReaderStill ==
  ASSUME ReaderAct
  PROVE  UNCHANGED <<row, rows, counter, tx, exec, buf, cut, faults>>
BY DEF ReaderAct, Connect, Load, Check, Reconnect, SetReader

LEMMA NumbersStep ==
  ASSUME TypeOK, Numbers, [Next]_vars
  PROVE  Numbers'
<1>0. \A y \in Owners : y \in Writers
  BY FieldTypes
<1>1. ASSUME NEW x \in Owners, OwnAct(x) PROVE Numbers'
  BY <1>1, OwnNumbers
<1>2. CASE CancelRun
  <2>1. Settle("interrupted") /\ UNCHANGED tx
    BY <1>2 DEF CancelRun
  <2>2. PICK new : Adds(new)
    BY <2>1, SettleDoes
  <2>3. \A w \in Writers : tx[w].stage = "open" => \A s \in Scopes : tx[w].new[s] = <<>>
    BY <2>1, SettleDoes DEF Holds
  <2>4. \A y \in Owners : tx[y].stage # "open"
    BY <2>1, SettleDoes DEF RowLocked
  <2>. QED
    BY <2>1, <2>2, <2>3, <2>4, NumbersKept
<1>3. CASE LeaseLapses
  <2>1. ~RowLocked /\ UNCHANGED <<rows, counter, tx>>
    BY <1>3 DEF LeaseLapses
  <2>2. Adds(Nothing) /\ \A s \in Scopes : Nothing[s] = <<>>
    BY <2>1, StillAdds, NothingIs
  <2>. QED
    BY <2>1, <2>2, NumbersKept DEF RowLocked
<1>4. CASE StartedStage
  <2>1. PICK new : /\ TxTo(Api, "open", new)
                   /\ new["run"] = <<>>
                   /\ DOMAIN new["thread"] = {1}
                   /\ new["thread"][1].seq = counter["thread"] + 1
    BY <1>4, StartedStageDoes
  <2>2. CounterFree(Api, "thread") /\ UNCHANGED <<row, rows, counter>>
    BY <1>4, StartedStageDoes DEF Still
  <2>3. \A s \in Scopes : new[s] # <<>> => CounterFree(Api, s)
    BY <2>1, <2>2, FieldTypes
  <2>4. \A s \in Scopes : \A i \in DOMAIN new[s] : new[s][i].seq = counter[s] + i
    BY <2>1, FieldTypes
  <2>. QED
    BY <2>1, <2>2, <2>3, <2>4, FieldTypes, NumbersStaged
<1>5. CASE StartedCommit
  <2>1. /\ tx[Api].stage = "open" /\ Adds(tx[Api].new) /\ TxTo(Api, "none", NoTx.new)
        /\ UNCHANGED row
    BY <1>5, StartedCommitDoes
  <2>2. \A w \in Writers : tx'[w].stage = "open" => w # Api /\ tx'[w] = tx[w]
    BY <2>1 DEF TxTo
  <2>3. ASSUME NEW w \in Writers, tx'[w].stage = "open", NEW s \in Scopes, tx[Api].new[s] # <<>>
        PROVE  tx[w].new[s] = <<>>
    BY <2>1, <2>2, <2>3, FieldTypes DEF Numbers, Holds
  <2>4. \A y \in Owners : tx'[y].stage = "open" => OwnsExecution(row', 1, y)
    BY <1>0, <2>1, <2>2 DEF Numbers
  <2>. QED
    BY <2>1, <2>2, <2>3, <2>4, NumbersKept
<1>6. CASE ReaderAct \/ UNCHANGED vars
  <2>1. UNCHANGED <<row, rows, counter, tx>>
    BY <1>6, ReaderStill DEF vars
  <2>2. Adds(Nothing) /\ \A s \in Scopes : Nothing[s] = <<>>
    BY <2>1, StillAdds, NothingIs
  <2>3. \A y \in Owners : tx'[y].stage = "open" => OwnsExecution(row', 1, y)
    BY <2>1 DEF Numbers
  <2>. QED
    BY <2>1, <2>2, <2>3, NumbersKept
<1>. QED
  BY <1>1, <1>2, <1>3, <1>4, <1>5, <1>6, NextCases

-----------------------------------------------------------------------------
(* Records in the order of their numbers.                                  *)

\* Records that have each number after c up to m, once.
Gapless(S, c, m) ==
  /\ \A r \in S : r.seq \in c + 1 .. m
  /\ \A a, b \in S : a.seq = b.seq => a = b
  /\ \A k \in c + 1 .. m : \E r \in S : r.seq = k

\* There are as many as numbers.
LEMMA Numbering ==
  ASSUME NEW S \in SUBSET Record, NEW c \in Nat, NEW m \in Nat, c <= m,
         Gapless(S, c, m)
  PROVE  IsFiniteSet(S) /\ Cardinality(S) = m - c
<1>. DEFINE I == c + 1 .. m
            f == [k \in I |-> CHOOSE r \in S : r.seq = k]
<1>1. \A k \in I : f[k] \in S /\ f[k].seq = k
  BY DEF Gapless
<1>2. f \in [I -> S]
  BY <1>1
<1>3. \A j, k \in I : f[j] = f[k] => j = k
  BY <1>1
<1>4. \A r \in S : r.seq \in I /\ f[r.seq] = r
  BY <1>1 DEF Gapless
<1>. HIDE DEF f, I
<1>5. f \in Bijection(I, S)
  BY <1>2, <1>3, <1>4 DEF Bijection, Injection, Surjection, IsInjective
<1>6. ExistsBijection(I, S)
  BY <1>5 DEF ExistsBijection
<1>7. IsFiniteSet(I) /\ Cardinality(I) = m - c
  <2>1. c + 1 \in Int /\ m \in Int
    OBVIOUS
  <2>2. IsFiniteSet(I) /\ Cardinality(I) = IF c + 1 > m THEN 0 ELSE m - (c + 1) + 1
    BY <2>1, FS_Interval DEF I
  <2>. QED
    BY <2>2
<1>. QED
  BY <1>6, <1>7, FS_Bijection

\* Sorted, they are the sequence of those numbers.
LEMMA InOrderIs ==
  ASSUME NEW S \in SUBSET Record, NEW c \in Nat, NEW m \in Nat, c <= m,
         Gapless(S, c, m)
  PROVE  /\ InOrder(S) \in Seq(Record)
         /\ Len(InOrder(S)) = m - c
         /\ \A i \in 1 .. m - c : InOrder(S)[i] \in S /\ InOrder(S)[i].seq = c + i
<1>1. IsFiniteSet(S) /\ Cardinality(S) = m - c
  BY Numbering
<1>2. ASSUME NEW r \in S
      PROVE  Cardinality({t \in S : t.seq < r.seq}) = r.seq - c - 1
  <2>. DEFINE T == {t \in S : t.seq < r.seq}
              k == r.seq - 1
  <2>1. r.seq \in c + 1 .. m
    BY DEF Gapless
  <2>2. k \in Nat /\ c <= k
    BY <2>1
  <2>3. T \in SUBSET Record
    OBVIOUS
  <2>4. \A t \in T : t.seq \in c + 1 .. k
    BY <2>1 DEF Gapless
  <2>5. \A a, b \in T : a.seq = b.seq => a = b
    BY DEF Gapless
  <2>6. ASSUME NEW j \in c + 1 .. k PROVE \E t \in T : t.seq = j
    <3>1. j \in c + 1 .. m /\ j < r.seq
      BY <2>1
    <3>2. PICK t \in S : t.seq = j
      BY <3>1 DEF Gapless
    <3>. QED
      BY <3>1, <3>2
  <2>. HIDE DEF T, k
  <2>7. Cardinality(T) = k - c
    <3>1. Gapless(T, c, k)
      BY <2>4, <2>5, <2>6 DEF Gapless
    <3>. QED
      BY <2>2, <2>3, <3>1, Numbering
  <2>. QED
    BY <2>1, <2>7 DEF T, k
<1>3. m - c \in Nat
  OBVIOUS
<1>4. ASSUME NEW i \in 1 .. m - c
      PROVE  InOrder(S)[i] \in S /\ InOrder(S)[i].seq = c + i
  <2>. DEFINE P(r) == Cardinality({t \in S : t.seq < r.seq}) = i - 1
  <2>1. c + i \in c + 1 .. m
    BY <1>3
  <2>2. PICK q \in S : q.seq = c + i
    BY <2>1 DEF Gapless
  <2>3. q.seq - c - 1 = i - 1
    BY <2>2
  <2>4. P(q)
    BY <1>2, <2>3
  <2>5. InOrder(S)[i] = CHOOSE r \in S : P(r)
    BY <1>1 DEF InOrder
  <2>6. InOrder(S)[i] \in S /\ P(InOrder(S)[i])
    BY <2>4, <2>5
  <2>7. PICK r \in S : r = InOrder(S)[i]
    BY <2>6
  <2>8. r.seq - c - 1 = i - 1 /\ r.seq \in c + 1 .. m
    BY <1>2, <2>6, <2>7 DEF Gapless
  <2>9. r.seq = c + i
    BY <2>8
  <2>. QED
    BY <2>7, <2>9
<1>. DEFINE v(i) == CHOOSE r \in S : Cardinality({t \in S : t.seq < r.seq}) = i - 1
<1>5. InOrder(S) = [i \in 1 .. m - c |-> v(i)]
  BY <1>1 DEF InOrder
<1>. HIDE DEF v
<1>6. \A i \in 1 .. m - c : InOrder(S)[i] \in Record
  BY <1>4
<1>7. DOMAIN InOrder(S) = 1 .. m - c
  BY <1>1 DEF InOrder
<1>8. InOrder(S) \in [1 .. m - c -> Record]
  BY <1>5, <1>6
<1>9. InOrder(S) \in Seq(Record) /\ Len(InOrder(S)) = m - c
  BY <1>3, <1>7, <1>8
<1>. QED
  BY <1>4, <1>9

-----------------------------------------------------------------------------
(* The reader.                                                             *)

ReaderRec == [pc : {"new", "load", "check", "over"}, scope : Scopes,
              idle : 0 .. Polls, from : Nat, got : Seq(Record)]

\* The fields of the reader after one of its steps.
ReaderTo(p, s, i, f, g) ==
  /\ rd' \in ReaderRec
  /\ rd'.pc = p
  /\ rd'.scope = s
  /\ rd'.idle = i
  /\ rd'.from = f
  /\ rd'.got = g

LEMMA ReaderType ==
  ASSUME TypeOK
  PROVE  /\ rd \in ReaderRec
         /\ rd.pc \in {"new", "load", "check", "over"}
         /\ rd.scope \in Scopes
         /\ rd.idle \in 0 .. Polls
         /\ rd.from \in Nat
         /\ rd.got \in Seq(Record)
         /\ Len(rd.got) \in Nat
         /\ DOMAIN rd.got = 1 .. Len(rd.got)
BY DEF TypeOK, ReaderRec

LEMMA SetReaderIs ==
  ASSUME NEW new \in ReaderRec, SetReader(new)
  PROVE  ReaderTo(new.pc, new.scope, new.idle, new.from, new.got)
BY DEF ReaderTo, SetReader

\* Without a cursor, a reader begins after what is there, but not after the end.
LEMMA SkipIs ==
  ASSUME TypeOK, Numbers, Ended
  PROVE  LET from == Max({0} \cup Seqs({r \in rows["run"] : r.what # Ending})) IN
         /\ from \in Nat /\ from <= counter["run"]
         /\ \A r \in rows["run"] : r.what = Ending => r.seq > from
<1>. DEFINE R == {r \in rows["run"] : r.what # Ending}
            S == {0} \cup Seqs(R)
            c == counter["run"]
<1>1. /\ c \in Nat
      /\ \A r \in rows["run"] : r.seq \in 1 .. c
      /\ \A a, b \in rows["run"] : a.seq = b.seq => a = b
      /\ \A k \in 1 .. c : \E r \in rows["run"] : r.seq = k
  BY RowTypes, FieldTypes DEF Numbers
<1>2. \A y \in S : y = 0 \/ \E r \in R : y = r.seq
  BY DEF Seqs
<1>3. 0 \in S /\ \A r \in R : r.seq \in S
  BY DEF Seqs
<1>. HIDE DEF c, S
<1>4. S \in SUBSET Nat
  BY <1>1, <1>2
<1>5. CASE \A r \in rows["run"] : r.what # Ending
  <2>1. c \in S
    <3>1. CASE c = 0
      BY <3>1, <1>3
    <3>2. CASE c # 0
      <4>1. c \in 1 .. c
        BY <3>2, <1>1
      <4>. QED
        BY <4>1, <1>1, <1>3, <1>5
    <3>. QED
      BY <3>1, <3>2
  <2>2. \A y \in S : c >= y
    BY <1>1, <1>2
  <2>3. Max(S) = c
    BY <1>4, <2>1, <2>2, MaxIs
  <2>. QED
    BY <2>3, <1>1, <1>5 DEF S, c
<1>6. ASSUME NEW e \in rows["run"], e.what = Ending
      PROVE  /\ Max(S) \in Nat /\ Max(S) <= c
             /\ \A r \in rows["run"] : r.what = Ending => r.seq > Max(S)
  <2>1. c \in 1 .. c /\ e.seq \in 1 .. c
    BY <1>1
  <2>2. PICK t \in rows["run"] : t.seq = c
    BY <1>1, <2>1
  <2>3. t.seq <= e.seq
    BY <1>6 DEF Ended
  <2>4. e.seq = c
    BY <2>1, <2>2, <2>3
  <2>5. \A r \in rows["run"] : r.what = Ending => r.seq = c
    <3> SUFFICES ASSUME NEW r \in rows["run"], r.what = Ending PROVE r.seq = c
      OBVIOUS
    <3>1. e.seq <= r.seq /\ r.seq \in 1 .. c
      BY <1>1 DEF Ended
    <3>. QED
      BY <3>1, <2>4, <1>1
  <2>6. \A r \in R : r.seq \in 1 .. c /\ r.seq # c
    BY <1>1, <1>6, <2>4
  <2>7. PICK m \in Nat : m = c - 1
    BY <1>1, <2>1
  <2>8. \A y \in S : m >= y
    BY <1>1, <1>2, <2>1, <2>6, <2>7
  <2>9. m \in S
    <3>1. CASE m = 0
      BY <3>1, <1>3
    <3>2. CASE m # 0
      <4>1. m \in 1 .. c
        BY <3>2, <1>1, <2>7
      <4>2. PICK r \in rows["run"] : r.seq = m
        BY <4>1, <1>1
      <4>3. r.what # Ending
        BY <4>2, <2>5, <2>7, <1>1
      <4>. QED
        BY <4>2, <4>3, <1>3
    <3>. QED
      BY <3>1, <3>2
  <2>10. Max(S) = m
    BY <1>4, <2>8, <2>9, MaxIs
  <2>. QED
    BY <2>5, <2>7, <2>10, <1>1
<1>. QED
  BY <1>5, <1>6 DEF S, c

LEMMA ConnectDoes ==
  ASSUME TypeOK, Numbers, Ended, Connect
  PROVE  /\ rd.pc = "new" /\ UNCHANGED drops
         /\ \/ \E s \in Scopes : ReaderTo("load", s, rd.idle, rd.from, rd.got)
            \/ \E f \in Nat : /\ f <= counter["run"]
                              /\ \A r \in rows["run"] : r.what = Ending => r.seq > f
                              /\ ReaderTo("load", rd.scope, rd.idle, f, rd.got)
<1>. DEFINE from == Max({0} \cup Seqs({r \in rows["run"] : r.what # Ending}))
<1>0. rd \in ReaderRec /\ rd.pc = "new" /\ UNCHANGED drops
  BY ReaderType DEF Connect
<1>1. ASSUME NEW s \in Scopes, SetReader([rd EXCEPT !.pc = "load", !.scope = s])
      PROVE  ReaderTo("load", s, rd.idle, rd.from, rd.got)
  <2>. DEFINE new == [rd EXCEPT !.pc = "load", !.scope = s]
  <2>1. /\ new \in ReaderRec /\ new.pc = "load" /\ new.scope = s /\ new.idle = rd.idle
        /\ new.from = rd.from /\ new.got = rd.got
    BY <1>0 DEF ReaderRec
  <2>2. SetReader(new)
    BY <1>1
  <2>. HIDE DEF new
  <2>. QED
    BY <2>1, <2>2, SetReaderIs
<1>2. PICK f \in Nat : /\ f = from /\ f <= counter["run"]
                       /\ \A r \in rows["run"] : r.what = Ending => r.seq > f
  BY SkipIs
<1>3. ASSUME SetReader([rd EXCEPT !.pc = "load", !.from = from])
      PROVE  ReaderTo("load", rd.scope, rd.idle, f, rd.got)
  <2>. DEFINE new == [rd EXCEPT !.pc = "load", !.from = f]
  <2>1. SetReader(new)
    BY <1>2, <1>3
  <2>2. /\ new \in ReaderRec /\ new.pc = "load" /\ new.scope = rd.scope /\ new.idle = rd.idle
        /\ new.from = f /\ new.got = rd.got
    <3>. HIDE DEF from
    <3>. QED
      BY <1>0 DEF ReaderRec
  <2>. HIDE DEF new
  <2>. QED
    BY <2>1, <2>2, SetReaderIs
<1>4. \/ \E s \in Scopes : SetReader([rd EXCEPT !.pc = "load", !.scope = s])
      \/ SetReader([rd EXCEPT !.pc = "load", !.from = from])
  BY DEF Connect
<1>. HIDE DEF from
<1>. QED
  BY <1>0, <1>1, <1>2, <1>3, <1>4

\* The cursor is where the reader's part of the stream ends.
LEMMA CursorIs ==
  ASSUME TypeOK, Follows
  PROVE  Cursor = rd.from + Len(rd.got)
<1>0. rd.got \in Seq(Record) /\ rd.from \in Nat /\ Len(rd.got) \in Nat
      /\ DOMAIN rd.got = 1 .. Len(rd.got)
  BY ReaderType
<1>1. CASE rd.got = <<>>
  BY <1>0, <1>1 DEF Cursor
<1>2. CASE rd.got # <<>>
  <2>1. Len(rd.got) \in DOMAIN rd.got
    BY <1>0, <1>2
  <2>2. rd.got[Len(rd.got)].seq = rd.from + Len(rd.got)
    BY <2>1 DEF Follows
  <2>. QED
    BY <2>2, <1>2 DEF Cursor
<1>. QED
  BY <1>1, <1>2

\* Loading finds what follows the cursor, without a gap.
LEMMA LoadDoes ==
  ASSUME TypeOK, Numbers, Follows, Load
  PROVE  \E new \in Seq(Record) :
           /\ rd.pc = "load" /\ UNCHANGED drops
           /\ Len(new) = counter[rd.scope] - (rd.from + Len(rd.got))
           /\ \A i \in 1 .. Len(new) :
                new[i] \in rows[rd.scope] /\ new[i].seq = rd.from + Len(rd.got) + i
           /\ new = <<>> => ReaderTo("check", rd.scope, rd.idle, rd.from, rd.got)
           /\ new # <<>> => ReaderTo("load", rd.scope, 0, rd.from, rd.got \o new)
<1>. DEFINE s == rd.scope
            c == rd.from + Len(rd.got)
            m == counter[s]
            S == {r \in rows[s] : r.seq > Cursor}
<1>0. /\ rd \in ReaderRec /\ s \in Scopes /\ c \in Nat /\ m \in Nat /\ c <= m
      /\ rows[s] \subseteq Record /\ rd.got \in Seq(Record) /\ 0 \in 0 .. Polls
  BY ReaderType, RowTypes, FieldTypes DEF Follows
<1>1. /\ \A r \in rows[s] : r.seq \in 1 .. m
      /\ \A a, b \in rows[s] : a.seq = b.seq => a = b
      /\ \A k \in 1 .. m : \E r \in rows[s] : r.seq = k
  BY <1>0 DEF Numbers
<1>2. \A r \in rows[s] : r \in S <=> r.seq > c
  BY CursorIs
<1>3. S \in SUBSET Record /\ S \subseteq rows[s]
  BY <1>0
<1>4. rd.pc = "load" /\ UNCHANGED drops
      /\ SetReader(IF InOrder(S) = <<>> THEN [rd EXCEPT !.pc = "check"]
                   ELSE [rd EXCEPT !.idle = 0, !.got = @ \o InOrder(S)])
  BY DEF Load
<1>. HIDE DEF S, c, m, s
<1>5. /\ \A r \in S : r.seq \in c + 1 .. m
      /\ \A a, b \in S : a.seq = b.seq => a = b
  BY <1>0, <1>1, <1>2, <1>3
<1>6. ASSUME NEW k \in c + 1 .. m PROVE \E r \in S : r.seq = k
  <2>1. k \in 1 .. m /\ k > c
    BY <1>0
  <2>. QED
    BY <2>1, <1>1, <1>2
<1>7. /\ InOrder(S) \in Seq(Record)
      /\ Len(InOrder(S)) = m - c
      /\ \A i \in 1 .. m - c : InOrder(S)[i] \in S /\ InOrder(S)[i].seq = c + i
  <2>1. Gapless(S, c, m)
    BY <1>5, <1>6 DEF Gapless
  <2>. QED
    BY <1>0, <1>3, <2>1, InOrderIs
<1>8. PICK new \in Seq(Record) : new = InOrder(S)
  BY <1>7
<1>9. CASE new = <<>>
  <2>. DEFINE to == [rd EXCEPT !.pc = "check"]
  <2>1. /\ to \in ReaderRec /\ to.pc = "check" /\ to.scope = rd.scope /\ to.idle = rd.idle
        /\ to.from = rd.from /\ to.got = rd.got
    BY <1>0 DEF ReaderRec
  <2>2. SetReader(to)
    BY <1>4, <1>8, <1>9
  <2>. HIDE DEF to
  <2>3. ReaderTo("check", rd.scope, rd.idle, rd.from, rd.got)
    BY <2>1, <2>2, SetReaderIs
  <2>. QED
    BY <1>3, <1>4, <1>7, <1>8, <1>9, <2>3 DEF c, m, s
<1>10. CASE new # <<>>
  <2>1. PICK z \in 0 .. Polls : z = 0
    BY <1>0
  <2>2. PICK g \in Seq(Record) : g = rd.got \o new
    BY <1>0, ConcatProperties
  <2>. DEFINE to == [rd EXCEPT !.idle = z, !.got = g]
  <2>3. /\ to \in ReaderRec /\ to.pc = rd.pc /\ to.scope = rd.scope /\ to.idle = z
        /\ to.from = rd.from /\ to.got = g
    BY <1>0 DEF ReaderRec
  <2>4. SetReader(to)
    BY <1>4, <1>8, <1>10, <2>1, <2>2
  <2>. HIDE DEF to
  <2>5. ReaderTo("load", rd.scope, 0, rd.from, rd.got \o new)
    BY <1>4, <2>1, <2>2, <2>3, <2>4, SetReaderIs
  <2>. QED
    BY <1>3, <1>4, <1>7, <1>8, <1>10, <2>5 DEF c, m, s
<1>. QED
  BY <1>9, <1>10

LEMMA CheckDoes ==
  ASSUME TypeOK, Follows, Check
  PROVE  /\ rd.pc = "check" /\ UNCHANGED drops
         /\ row.status \notin Terminal =>
              ReaderTo("load", rd.scope, 0, rd.from, rd.got)
         /\ row.status \in Terminal =>
              \E p : /\ rd.idle + 1 \in 0 .. Polls
                     /\ p = IF rd.idle + 1 >= Polls THEN "over" ELSE "load"
                     /\ ReaderTo(p, rd.scope, rd.idle + 1, rd.from, rd.got)
<1>0. /\ rd \in ReaderRec /\ rd.pc = "check" /\ UNCHANGED drops /\ 0 \in 0 .. Polls
  BY ReaderType, FieldTypes DEF Check
<1>1. CASE row.status \notin Terminal
  <2>1. PICK z \in 0 .. Polls : z = 0
    BY <1>0
  <2>. DEFINE to == [rd EXCEPT !.pc = "load", !.idle = z]
  <2>2. /\ to \in ReaderRec /\ to.pc = "load" /\ to.scope = rd.scope /\ to.idle = z
        /\ to.from = rd.from /\ to.got = rd.got
    BY <1>0 DEF ReaderRec
  <2>3. SetReader(to)
    BY <1>1, <2>1 DEF Check
  <2>. HIDE DEF to
  <2>. QED
    BY <1>0, <1>1, <2>1, <2>2, <2>3, SetReaderIs
<1>2. CASE row.status \in Terminal
  <2>1. rd.idle \in 0 .. Polls /\ rd.idle < Polls /\ Polls \in Nat
    BY <1>0, ReaderType, FieldTypes DEF Follows
  <2>2. rd.idle + 1 \in 0 .. Polls
    BY <2>1
  <2>3. PICK i \in 0 .. Polls : i = rd.idle + 1
    BY <2>2
  <2>4. PICK p \in {"over", "load"} : p = IF rd.idle + 1 >= Polls THEN "over" ELSE "load"
    OBVIOUS
  <2>. DEFINE to == [rd EXCEPT !.idle = i, !.pc = p]
  <2>5. /\ to \in ReaderRec /\ to.pc = p /\ to.scope = rd.scope /\ to.idle = i
        /\ to.from = rd.from /\ to.got = rd.got
    BY <1>0 DEF ReaderRec
  <2>6. SetReader(to)
    BY <1>2, <2>3, <2>4 DEF Check
  <2>. HIDE DEF to
  <2>7. ReaderTo(p, rd.scope, rd.idle + 1, rd.from, rd.got)
    BY <2>3, <2>5, <2>6, SetReaderIs
  <2>. QED
    BY <1>0, <1>2, <2>2, <2>4, <2>7
<1>. QED
  BY <1>1, <1>2

LEMMA ReconnectDoes ==
  ASSUME TypeOK, Reconnect
  PROVE  /\ rd.pc \in {"load", "check"} /\ drops' \in 0 .. MaxDrops
         /\ \E k \in 0 .. Len(rd.got) :
              ReaderTo("load", rd.scope, 0, rd.from, SubSeq(rd.got, 1, k))
<1>0. /\ rd \in ReaderRec /\ rd.pc \in {"load", "check"} /\ 0 \in 0 .. Polls
      /\ rd.got \in Seq(Record) /\ Len(rd.got) \in Nat
  BY ReaderType, FieldTypes DEF Reconnect
<1>1. drops' \in 0 .. MaxDrops
  <2>1. drops \in 0 .. MaxDrops /\ MaxDrops \in Nat
    BY FieldTypes DEF TypeOK
  <2>. QED
    BY <2>1 DEF Reconnect
<1>2. PICK k \in 0 .. Len(rd.got) :
        SetReader([rd EXCEPT !.pc = "load", !.idle = 0, !.got = SubSeq(@, 1, k)])
  BY DEF Reconnect
<1>3. PICK z \in 0 .. Polls : z = 0
  BY <1>0
<1>4. SubSeq(rd.got, 1, k) \in Seq(Record)
  BY <1>0, SubSeqProperties
<1>5. PICK g \in Seq(Record) : g = SubSeq(rd.got, 1, k)
  BY <1>4
<1>. DEFINE to == [rd EXCEPT !.pc = "load", !.idle = z, !.got = g]
<1>6. /\ to \in ReaderRec /\ to.pc = "load" /\ to.scope = rd.scope /\ to.idle = z
      /\ to.from = rd.from /\ to.got = g
  BY <1>0 DEF ReaderRec
<1>7. SetReader(to)
  BY <1>2, <1>3, <1>5
<1>. HIDE DEF to
<1>8. ReaderTo("load", rd.scope, 0, rd.from, SubSeq(rd.got, 1, k))
  BY <1>3, <1>5, <1>6, <1>7, SetReaderIs
<1>. QED
  BY <1>0, <1>1, <1>8

-----------------------------------------------------------------------------
(* The ways in which a step extends the streams.                           *)

\* Nothing is added, and the run is over or successful when it was.
Quiet(new) ==
  /\ UNCHANGED <<rows, counter>> /\ new = Nothing
  /\ row'.status \in Terminal <=> row.status \in Terminal
  /\ row'.status = "success" <=> row.status = "success"

\* The run ends.
Ends(new) ==
  /\ row.status \in {"pending", "running"} /\ row'.status \in Terminal
  /\ \A s \in Scopes : DOMAIN new[s] = {1} /\ new[s][1].what = Ending
  /\ row'.status = "success" =>
       \E x \in Owners : Finish(x) /\ exec[x].outcome = "success"

Extends(new) ==
  \/ Quiet(new)
  \/ \E x \in Owners : WriteCommit(x) /\ new = tx[x].new
  \/ StartedCommit /\ new = tx[Api].new
  \/ Ends(new)

LEMMA ClaimedRow ==
  ASSUME TypeOK, NEW x \in Owners, Claimable(row, 1, x, FALSE), row' = Claimed(row, x)
  PROVE  /\ row' \in Row
         /\ row'.status \in Terminal <=> row.status \in Terminal
         /\ row'.status = "success" <=> row.status = "success"
<1>1. row \in Row /\ row.status \in {"pending", "running"}
  BY DEF TypeOK, Claimable
<1>2. row' \in Row /\ row'.status = "running"
  BY <1>1 DEF Row, Claimed, Active
<1>. QED
  BY <1>1, <1>2 DEF Terminal

LEMMA AppliedRow ==
  ASSUME TypeOK, NEW outcome \in Terminal, row' = Applied(row, outcome)
  PROVE  row' \in Row /\ row'.status = outcome
<1>1. row \in Row
  BY DEF TypeOK
<1>. QED
  BY <1>1 DEF Row, Applied

LEMMA LapsedRow ==
  ASSUME TypeOK, LeaseLapses
  PROVE  row' \in Row /\ row'.status = row.status
<1>1. row \in Row /\ row' = [row EXCEPT !.lease = "lapsed"]
  BY DEF TypeOK, LeaseLapses
<1>. QED
  BY <1>1 DEF Row

LEMMA FinishEnds ==
  ASSUME TypeOK, Numbers, Executions, NEW x \in Owners,
         Finish(x), MayFinish(row, 1, x), Settle(exec[x].outcome)
  PROVE  row' \in Row /\ \E new : Adds(new) /\ Extends(new)
<1>1. exec[x].outcome \in {"success", "error"}
  <2>1. exec[x].pc = "finish" /\ Phases(x)
    BY FinishDoes DEF Executions
  <2>2. exec[x].outcome \in {"none", "success", "error"}
    BY PartTypes, PartFields
  <2>. QED
    BY <2>1, <2>2 DEF Phases
<1>2. exec[x].outcome \in Terminal
  BY <1>1 DEF Terminal
<1>3. row' \in Row /\ row'.status = exec[x].outcome
  BY <1>2, AppliedRow, SettleDoes
<1>4. PICK new : Adds(new) /\ \A s \in Scopes : DOMAIN new[s] = {1} /\ new[s][1].what = Ending
  BY SettleDoes
<1>5. row.status \in {"pending", "running"}
  BY DEF MayFinish
<1>6. Ends(new)
  BY <1>2, <1>3, <1>4, <1>5 DEF Ends
<1>. QED
  BY <1>3, <1>4, <1>6 DEF Extends

LEMMA CancelEnds ==
  ASSUME TypeOK, Numbers, CancelRun
  PROVE  row' \in Row /\ \E new : Adds(new) /\ Extends(new)
<1>1. Settle("interrupted") /\ row.status \in {"pending", "running"}
  BY DEF CancelRun, MayCancel
<1>2. "interrupted" \in Terminal /\ "interrupted" # "success"
  BY DEF Terminal
<1>3. row' \in Row /\ row'.status = "interrupted"
  BY <1>1, <1>2, AppliedRow, SettleDoes
<1>4. PICK new : Adds(new) /\ \A s \in Scopes : DOMAIN new[s] = {1} /\ new[s][1].what = Ending
  BY <1>1, SettleDoes
<1>5. Ends(new)
  BY <1>1, <1>2, <1>3, <1>4 DEF Ends
<1>. QED
  BY <1>3, <1>4, <1>5 DEF Extends

\* Every step is one of these.
LEMMA StepExtends ==
  ASSUME TypeOK, Numbers, Executions, [Next]_vars
  PROVE  row' \in Row /\ \E new : Adds(new) /\ Extends(new)
<1>0. row \in Row
  BY DEF TypeOK
<1>1. ASSUME UNCHANGED <<row, rows, counter>>
      PROVE  row' \in Row /\ \E new : Adds(new) /\ Extends(new)
  <2>1. Adds(Nothing)
    BY <1>1, StillAdds
  <2>2. Quiet(Nothing)
    BY <1>1 DEF Quiet
  <2>. QED
    BY <1>0, <1>1, <2>1, <2>2 DEF Extends
<1>2. ASSUME NEW x \in Owners, OwnAct(x)
      PROVE  row' \in Row /\ \E new : Adds(new) /\ Extends(new)
  <2>1. CASE WriteCommit(x)
    <3>1. Adds(tx[x].new) /\ row' = row
      BY <2>1, WriteCommitDoes
    <3>2. Extends(tx[x].new)
      BY <2>1 DEF Extends
    <3>. QED
      BY <1>0, <3>1, <3>2
  <2>2. CASE Finish(x) /\ MayFinish(row, 1, x) /\ Settle(exec[x].outcome)
    BY <2>2, FinishEnds
  <2>3. CASE UNCHANGED <<rows, counter>> /\ Claim(x)
    <3>1. /\ row' \in Row
          /\ row'.status \in Terminal <=> row.status \in Terminal
          /\ row'.status = "success" <=> row.status = "success"
      BY <2>3, ClaimDoes, ClaimedRow
    <3>2. Adds(Nothing)
      BY <2>3, StillAdds
    <3>3. Quiet(Nothing)
      BY <2>3, <3>1 DEF Quiet
    <3>. QED
      BY <3>1, <3>2, <3>3 DEF Extends
  <2>. QED
    BY <1>1, <1>2, <2>1, <2>2, <2>3, OwnRows
<1>3. CASE CancelRun
  BY <1>3, CancelEnds
<1>4. CASE LeaseLapses
  <2>1. UNCHANGED <<rows, counter>>
    BY <1>4 DEF LeaseLapses
  <2>2. Adds(Nothing) /\ row' \in Row /\ row'.status = row.status
    BY <1>4, <2>1, StillAdds, LapsedRow
  <2>3. Quiet(Nothing)
    BY <2>1, <2>2 DEF Quiet
  <2>. QED
    BY <2>2, <2>3 DEF Extends
<1>5. CASE StartedStage
  BY <1>1, <1>5 DEF StartedStage
<1>6. CASE StartedCommit
  <2>1. Adds(tx[Api].new) /\ row' = row
    BY <1>6, StartedCommitDoes
  <2>2. Extends(tx[Api].new)
    BY <1>6 DEF Extends
  <2>. QED
    BY <1>0, <2>1, <2>2
<1>7. CASE ReaderAct
  BY <1>1, <1>7, ReaderStill
<1>8. CASE UNCHANGED vars
  BY <1>1, <1>8 DEF vars
<1>. QED
  BY <1>2, <1>3, <1>4, <1>5, <1>6, <1>7, <1>8, NextCases

\* What an execution's transaction says.
LEMMA CommitSays ==
  ASSUME TypeOK, NEW x \in Owners, Keeps(x), tx[x].stage # "none", NEW s \in Scopes
  PROVE  /\ buf[x].holder = "start" =>
              IF s = "run" THEN DOMAIN tx[x].new[s] = {1} /\ tx[x].new[s][1].what = Starting(x)
              ELSE DOMAIN tx[x].new[s] = {}
         /\ buf[x].holder # "start" =>
              /\ DOMAIN tx[x].new[s] = DOMAIN buf[x].pending
              /\ \A i \in DOMAIN tx[x].new[s] :
                   /\ tx[x].new[s][i].what = Event(x, buf[x].pending[i])
                   /\ buf[x].pending[i] \in 1 .. exec[x].emitted
                   /\ buf[x].pending[i] \in 1 .. NEvents
<1>1. /\ DOMAIN tx[x].new[s] = DOMAIN Contents(x)[s]
      /\ \A i \in DOMAIN tx[x].new[s] : tx[x].new[s][i].what = Contents(x)[s][i]
  BY DEF Keeps, Carries
<1>2. CASE buf[x].holder = "start"
  <2>1. Contents(x)[s] = IF s = "run" THEN <<Starting(x)>> ELSE <<>>
    BY <1>2, ContentsType
  <2>2. CASE s = "run"
    <3>1. PICK c : c = Starting(x)
      OBVIOUS
    <3>2. Contents(x)[s] = <<c>>
      BY <2>1, <2>2, <3>1
    <3>3. DOMAIN <<c>> = {1} /\ <<c>>[1] = c
      OBVIOUS
    <3>. QED
      BY <1>1, <1>2, <2>2, <3>1, <3>2, <3>3
  <2>3. CASE s # "run"
    <3>1. DOMAIN Contents(x)[s] = {}
      BY <2>1, <2>3
    <3>. QED
      BY <1>1, <1>2, <2>3, <3>1
  <2>. QED
    BY <2>2, <2>3
<1>3. CASE buf[x].holder # "start"
  <2>1. /\ DOMAIN Contents(x)[s] = DOMAIN buf[x].pending
        /\ \A i \in DOMAIN buf[x].pending : Contents(x)[s][i] = Event(x, buf[x].pending[i])
    BY <1>3, ContentsType
  <2>2. \A i \in DOMAIN buf[x].pending : buf[x].pending[i] \in 1 .. exec[x].emitted
    BY DEF Keeps, Queued
  <2>3. exec[x].emitted \in 0 .. NEvents /\ NEvents \in Nat
    BY PartTypes, PartFields, FieldTypes
  <2>4. \A k \in 1 .. exec[x].emitted : k \in 1 .. NEvents
    BY <2>3
  <2>. QED
    BY <1>1, <1>3, <2>1, <2>2, <2>4
<1>. QED
  BY <1>2, <1>3

\* No transaction of a writer says the end.
LEMMA CommitNoEnd ==
  ASSUME TypeOK, Executions, Contained, NEW new,
         (\E x \in Owners : WriteCommit(x) /\ new = tx[x].new) \/
           (StartedCommit /\ new = tx[Api].new)
  PROVE  \A s \in Scopes : \A i \in DOMAIN new[s] : new[s][i].what # Ending
<1>1. ASSUME NEW x \in Owners, WriteCommit(x), new = tx[x].new, NEW s \in Scopes,
             NEW i \in DOMAIN new[s]
      PROVE  new[s][i].what # Ending
  <2>1. tx[x].stage # "none" /\ Keeps(x)
    BY <1>1 DEF WriteCommit, Executions, Keeps
  <2>2. CASE buf[x].holder = "start"
    <3>1. s = "run" /\ i = 1 /\ new[s][1].what = Starting(x)
      BY <1>1, <2>1, <2>2, CommitSays
    <3>. QED
      BY <3>1, SaysApart
  <2>3. CASE buf[x].holder # "start"
    <3>1. new[s][i].what = Event(x, buf[x].pending[i])
      BY <1>1, <2>1, <2>3, CommitSays
    <3>. QED
      BY <3>1, SaysApart
  <2>. QED
    BY <2>2, <2>3
<1>2. ASSUME StartedCommit, new = tx[Api].new, NEW s \in Scopes, NEW i \in DOMAIN new[s]
      PROVE  new[s][i].what # Ending
  <2>1. /\ tx[Api].new["run"] = <<>>
        /\ DOMAIN tx[Api].new["thread"] = {1} /\ tx[Api].new["thread"][1].what = Started
    BY <1>2 DEF StartedCommit, Contained
  <2>2. DOMAIN tx[Api].new["run"] = {}
    BY <2>1
  <2>3. s = "thread" /\ i = 1
    BY <1>2, <2>1, <2>2, FieldTypes
  <2>. QED
    BY <1>2, <2>1, <2>3, SaysApart
<1>. QED
  BY <1>1, <1>2
-----------------------------------------------------------------------------
(* The reader follows the stream.                                          *)

\* A run that is over stays over.
LEMMA StaysOver ==
  ASSUME TypeOK, NEW new, Extends(new), row.status \in Terminal
  PROVE  row'.status \in Terminal
<1>1. ASSUME NEW x \in Owners, WriteCommit(x) PROVE row' = row
  BY <1>1 DEF WriteCommit
<1>2. ASSUME StartedCommit PROVE row' = row
  BY <1>2 DEF StartedCommit
<1>. QED
  BY <1>1, <1>2 DEF Extends, Quiet, Ends

LEMMA FollowsStill ==
  ASSUME TypeOK, Numbers, Follows, NEW new, Adds(new), Extends(new), UNCHANGED rd
  PROVE  Follows'
<1>. DEFINE s == rd.scope
<1>0. /\ s \in Scopes /\ rd.from \in Nat /\ Len(rd.got) \in Nat /\ counter[s] \in Nat
      /\ rd' = rd
  BY ReaderType, RowTypes
<1>1. /\ counter'[s] \in Nat /\ counter'[s] >= counter[s] /\ rows[s] \subseteq rows'[s]
      /\ \A r \in rows'[s] : r \in rows[s] \/ \E i \in DOMAIN new[s] : r = new[s][i]
  BY <1>0, AddsRows
<1>2. /\ new[s] \in Seq(Record)
      /\ \A i \in DOMAIN new[s] : new[s][i].seq = counter[s] + i
  BY <1>0 DEF Adds
<1>. HIDE DEF s
<1>3. \A i \in DOMAIN rd.got : rd.got[i] \in rows'[s] /\ rd.got[i].seq = rd.from + i
  BY <1>1 DEF Follows, s
<1>4. rd.from + Len(rd.got) <= counter[s] /\ rd.from + Len(rd.got) <= counter'[s]
  <2>1. rd.from + Len(rd.got) <= counter[s]
    BY DEF Follows, s
  <2>. QED
    BY <2>1, <1>0, <1>1
<1>5. ASSUME NEW r \in rows'[s], r.what = Ending PROVE r.seq > rd.from
  <2>1. CASE r \in rows[s]
    BY <2>1, <1>5 DEF Follows, s
  <2>2. CASE \E i \in DOMAIN new[s] : r = new[s][i]
    <3>1. PICK i \in DOMAIN new[s] : r = new[s][i]
      BY <2>2
    <3>2. i \in Nat /\ i >= 1
      BY <3>1, <1>2
    <3>3. r.seq = counter[s] + i
      BY <3>1, <1>2
    <3>. QED
      BY <3>2, <3>3, <1>0, <1>4
  <2>. QED
    BY <2>1, <2>2, <1>1
<1>6. rd.idle > 0 => row'.status \in Terminal
  BY StaysOver DEF Follows
<1>7. HasEnd' <=> HasEnd
  BY <1>0 DEF HasEnd
<1>8. /\ rd.pc = "new" => rd = NoReader
      /\ rd.pc # "over" => rd.idle < Polls
      /\ rd.pc = "check" /\ rd.idle > 0 => HasEnd'
      /\ rd.pc = "over" => HasEnd'
  BY <1>7 DEF Follows
<1>9. /\ \A i \in DOMAIN rd'.got : rd'.got[i] \in rows'[rd'.scope] /\ rd'.got[i].seq = rd'.from + i
      /\ rd'.from + Len(rd'.got) <= counter'[rd'.scope]
      /\ rd'.pc = "new" => rd' = NoReader
      /\ rd'.pc # "over" => rd'.idle < Polls
      /\ rd'.idle > 0 => row'.status \in Terminal
      /\ rd'.pc = "check" /\ rd'.idle > 0 => HasEnd'
      /\ rd'.pc = "over" => HasEnd'
      /\ \A r \in rows'[rd'.scope] : r.what = Ending => r.seq > rd'.from
  BY <1>0, <1>3, <1>4, <1>5, <1>6, <1>8 DEF s
<1>. QED
  BY <1>9 DEF Follows

\* The fields that matter after a step of the reader.
LEMMA FollowsIf ==
  ASSUME UNCHANGED <<row, rows, counter>>,
         NEW p, NEW s, NEW i, NEW f, NEW g, ReaderTo(p, s, i, f, g),
         \A j \in DOMAIN g : g[j] \in rows[s] /\ g[j].seq = f + j,
         f + Len(g) <= counter[s],
         p # "new",
         p # "over" => i < Polls,
         i > 0 => row.status \in Terminal,
         (p = "check" /\ i > 0) \/ p = "over" => \E j \in DOMAIN g : g[j].what = Ending,
         \A r \in rows[s] : r.what = Ending => r.seq > f
  PROVE  Follows'
<1>1. /\ rd'.pc = p /\ rd'.scope = s /\ rd'.idle = i /\ rd'.from = f /\ rd'.got = g
      /\ row' = row /\ rows' = rows /\ counter' = counter
  BY DEF ReaderTo
<1>2. HasEnd' <=> \E j \in DOMAIN g : g[j].what = Ending
  BY <1>1 DEF HasEnd
<1>3. /\ \A j \in DOMAIN rd'.got : rd'.got[j] \in rows'[rd'.scope] /\ rd'.got[j].seq = rd'.from + j
      /\ rd'.from + Len(rd'.got) <= counter'[rd'.scope]
      /\ rd'.pc = "new" => rd' = NoReader
      /\ rd'.pc # "over" => rd'.idle < Polls
      /\ rd'.idle > 0 => row'.status \in Terminal
      /\ rd'.pc = "check" /\ rd'.idle > 0 => HasEnd'
      /\ rd'.pc = "over" => HasEnd'
      /\ \A r \in rows'[rd'.scope] : r.what = Ending => r.seq > rd'.from
  BY <1>1, <1>2
<1>. QED
  BY <1>3 DEF Follows

LEMMA FollowsConnect ==
  ASSUME TypeOK, Numbers, Ended, Follows, Connect
  PROVE  Follows'
<1>0. UNCHANGED <<row, rows, counter>>
  BY ReaderStill DEF ReaderAct
<1>1. rd.got = <<>> /\ rd.idle = 0 /\ rd.scope = "run" /\ rd.from = 0
  <2>1. rd = NoReader
    BY ConnectDoes DEF Follows
  <2>. QED
    BY <2>1 DEF NoReader
<1>2. /\ \A s \in Scopes : counter[s] \in Nat
      /\ \A s \in Scopes : \A r \in rows[s] : r.seq \in 1 .. counter[s]
      /\ Polls \in Nat /\ Polls >= 2 /\ "run" \in Scopes
  BY RowTypes, FieldTypes DEF Numbers
<1>3. PICK g : g = rd.got /\ DOMAIN g = {} /\ Len(g) = 0
  <2>1. DOMAIN <<>> = {} /\ Len(<<>>) = 0
    OBVIOUS
  <2>. QED
    BY <1>1, <2>1
<1>4. ASSUME NEW s \in Scopes, NEW f \in Nat, ReaderTo("load", s, rd.idle, f, rd.got),
             f <= counter[s], \A r \in rows[s] : r.what = Ending => r.seq > f
      PROVE  Follows'
  <2>1. PICK i : i = rd.idle /\ i = 0
    BY <1>1
  <2>2. ReaderTo("load", s, i, f, g)
    BY <1>3, <1>4, <2>1
  <2>3. f + Len(g) <= counter[s]
    BY <1>2, <1>3, <1>4
  <2>. QED
    BY <1>0, <1>2, <1>3, <1>4, <2>1, <2>2, <2>3, FollowsIf
<1>5. ASSUME NEW s \in Scopes, ReaderTo("load", s, rd.idle, rd.from, rd.got)
      PROVE  Follows'
  <2>1. PICK f \in Nat : f = rd.from /\ f = 0
    BY <1>1
  <2>2. f <= counter[s] /\ \A r \in rows[s] : r.what = Ending => r.seq > f
    BY <1>2, <2>1
  <2>. QED
    BY <1>4, <1>5, <2>1, <2>2
<1>. QED
  BY <1>1, <1>2, <1>4, <1>5, ConnectDoes

LEMMA FollowsLoad ==
  ASSUME TypeOK, Numbers, Ended, Follows, Load
  PROVE  Follows'
<1>0. UNCHANGED <<row, rows, counter>>
  BY ReaderStill DEF ReaderAct
<1>1. PICK new \in Seq(Record) :
           /\ rd.pc = "load"
           /\ Len(new) = counter[rd.scope] - (rd.from + Len(rd.got))
           /\ \A i \in 1 .. Len(new) :
                new[i] \in rows[rd.scope] /\ new[i].seq = rd.from + Len(rd.got) + i
           /\ new = <<>> => ReaderTo("check", rd.scope, rd.idle, rd.from, rd.got)
           /\ new # <<>> => ReaderTo("load", rd.scope, 0, rd.from, rd.got \o new)
  BY LoadDoes
<1>2. PICK s \in Scopes, f \in Nat, g \in Seq(Record), m \in Nat, idle \in Nat :
        s = rd.scope /\ f = rd.from /\ g = rd.got /\ m = counter[s] /\ idle = rd.idle
  BY ReaderType, RowTypes
<1>3. /\ \A j \in DOMAIN g : g[j] \in rows[s] /\ g[j].seq = f + j
      /\ f + Len(g) <= m
      /\ \A r \in rows[s] : r.what = Ending => r.seq > f
      /\ idle < Polls
      /\ idle > 0 => row.status \in Terminal
  BY <1>1, <1>2 DEF Follows
<1>4. Polls \in Nat /\ Polls >= 2 /\ Len(g) \in Nat /\ DOMAIN g = 1 .. Len(g)
  BY FieldTypes
<1>5. CASE new = <<>>
  <2>1. Len(new) = 0
    BY <1>5
  <2>2. f + Len(g) = m
    <3>1. Len(new) = m - (f + Len(g))
      BY <1>1, <1>2
    <3>2. PICK k \in Nat : k = Len(g)
      BY <1>4
    <3>. QED
      BY <2>1, <3>1, <3>2
  <2>3. ASSUME row.status \in Terminal PROVE \E j \in DOMAIN g : g[j].what = Ending
    <3>1. PICK r \in rows[s] : r.what = Ending
      BY <1>2, <2>3 DEF Ended, Told
    <3>2. r.seq \in 1 .. m /\ r.seq > f
      BY <1>2, <1>3, <3>1 DEF Numbers
    <3>3. PICK j \in Nat : j = r.seq - f
      BY <3>2
    <3>4. j \in DOMAIN g
      BY <3>2, <3>3, <2>2, <1>4
    <3>5. g[j] \in rows[s] /\ g[j].seq = r.seq
      BY <3>4, <3>3, <3>2, <1>3
    <3>6. g[j] = r
      BY <3>5, <1>2 DEF Numbers
    <3>. QED
      BY <3>1, <3>4, <3>6
  <2>4. ReaderTo("check", s, idle, f, g)
    BY <1>1, <1>2, <1>5
  <2>5. f + Len(g) <= counter[s]
    BY <1>2, <1>3
  <2>. QED
    BY <1>0, <1>3, <2>3, <2>4, <2>5, FollowsIf
<1>6. CASE new # <<>>
  <2>1. PICK h \in Seq(Record) : h = g \o new
    BY ConcatProperties
  <2>2. /\ Len(h) = Len(g) + Len(new)
        /\ \A j \in 1 .. Len(h) : h[j] = IF j <= Len(g) THEN g[j] ELSE new[j - Len(g)]
    BY <2>1, ConcatProperties
  <2>3. DOMAIN h = 1 .. Len(h) /\ Len(new) \in Nat
    OBVIOUS
  <2>4. ASSUME NEW j \in DOMAIN h PROVE h[j] \in rows[s] /\ h[j].seq = f + j
    <3>1. CASE j <= Len(g)
      <4>1. j \in DOMAIN g /\ h[j] = g[j]
        BY <2>2, <2>3, <3>1, <1>4
      <4>. QED
        BY <4>1, <1>3
    <3>2. CASE ~(j <= Len(g))
      <4>1. PICK i \in 1 .. Len(new) : i = j - Len(g)
        BY <2>2, <2>3, <3>2, <1>4
      <4>2. h[j] = new[i]
        BY <4>1, <2>2, <2>3, <3>2
      <4>3. new[i] \in rows[s] /\ new[i].seq = f + Len(g) + i
        BY <1>1, <1>2
      <4>4. f + Len(g) + i = f + j
        BY <4>1, <1>4, <2>3
      <4>. QED
        BY <4>2, <4>3, <4>4
    <3>. QED
      BY <3>1, <3>2
  <2>5. f + Len(h) <= counter[s]
    <3>1. Len(new) = m - (f + Len(g)) /\ counter[s] = m
      BY <1>1, <1>2
    <3>2. PICK k \in Nat, n \in Nat : k = Len(g) /\ n = Len(new)
      BY <1>4, <2>3
    <3>3. f + (k + n) <= m
      BY <3>1, <3>2
    <3>. QED
      BY <2>2, <3>1, <3>2, <3>3
  <2>6. PICK z \in Nat : z = 0
    OBVIOUS
  <2>7. ReaderTo("load", s, z, f, h)
    BY <1>1, <1>2, <1>6, <2>1, <2>6
  <2>8. z < Polls /\ ~(z > 0)
    BY <2>6, <1>4
  <2>. QED
    BY <1>0, <1>3, <2>4, <2>5, <2>7, <2>8, FollowsIf
<1>. QED
  BY <1>5, <1>6

LEMMA FollowsCheck ==
  ASSUME TypeOK, Numbers, Ended, Follows, Check
  PROVE  Follows'
<1>0. UNCHANGED <<row, rows, counter>>
  BY ReaderStill DEF ReaderAct
<1>1. PICK s \in Scopes, f \in Nat, g \in Seq(Record), idle \in Nat :
        s = rd.scope /\ f = rd.from /\ g = rd.got /\ idle = rd.idle
  BY ReaderType
<1>2. /\ \A j \in DOMAIN g : g[j] \in rows[s] /\ g[j].seq = f + j
      /\ f + Len(g) <= counter[s]
      /\ \A r \in rows[s] : r.what = Ending => r.seq > f
      /\ idle > 0 => \E j \in DOMAIN g : g[j].what = Ending
  BY <1>1, CheckDoes DEF Follows, HasEnd
<1>3. Polls \in Nat /\ Polls >= 2
  BY FieldTypes
<1>4. CASE row.status \notin Terminal
  <2>1. PICK z \in Nat : z = 0
    OBVIOUS
  <2>2. ReaderTo("load", s, z, f, g)
    BY <1>1, <1>4, <2>1, CheckDoes
  <2>3. z < Polls /\ ~(z > 0)
    BY <1>3, <2>1
  <2>. QED
    BY <1>0, <1>2, <2>2, <2>3, FollowsIf
<1>5. CASE row.status \in Terminal
  <2>1. PICK p : /\ rd.idle + 1 \in 0 .. Polls
                 /\ p = IF rd.idle + 1 >= Polls THEN "over" ELSE "load"
                 /\ ReaderTo(p, rd.scope, rd.idle + 1, rd.from, rd.got)
    BY <1>5, CheckDoes
  <2>2. PICK i \in 0 .. Polls : i = rd.idle + 1
    BY <2>1
  <2>3. ReaderTo(p, s, i, f, g)
    BY <1>1, <2>1, <2>2
  <2>4. p # "over" => i < Polls
    BY <2>1, <2>2, <1>3
  <2>5. p = "over" => idle > 0
    BY <2>1, <2>2, <1>1, <1>3
  <2>6. p # "new" /\ p # "check"
    BY <2>1
  <2>. QED
    BY <1>0, <1>2, <1>5, <2>3, <2>4, <2>5, <2>6, FollowsIf
<1>. QED
  BY <1>4, <1>5

LEMMA FollowsReconnect ==
  ASSUME TypeOK, Numbers, Ended, Follows, Reconnect
  PROVE  Follows'
<1>0. UNCHANGED <<row, rows, counter>>
  BY ReaderStill DEF ReaderAct
<1>1. PICK s \in Scopes, f \in Nat, g \in Seq(Record), m \in Nat :
        s = rd.scope /\ f = rd.from /\ g = rd.got /\ m = counter[s]
  BY ReaderType, RowTypes
<1>2. /\ \A j \in DOMAIN g : g[j] \in rows[s] /\ g[j].seq = f + j
      /\ f + Len(g) <= m
      /\ \A r \in rows[s] : r.what = Ending => r.seq > f
  BY <1>1 DEF Follows
<1>3. PICK k \in 0 .. Len(g) : ReaderTo("load", s, 0, f, SubSeq(g, 1, k))
  BY <1>1, ReconnectDoes
<1>4. Len(g) \in Nat /\ DOMAIN g = 1 .. Len(g) /\ Polls \in Nat /\ Polls >= 2
  BY FieldTypes
<1>5. PICK h \in Seq(Record) : h = SubSeq(g, 1, k)
  <2>1. SubSeq(g, 1, k) \in Seq(Record)
    BY <1>4, SubSeqProperties
  <2>. QED
    BY <2>1
<1>6. /\ Len(h) = k
      /\ \A j \in 1 .. k : h[j] = g[j]
  BY <1>4, <1>5
<1>7. /\ DOMAIN h = 1 .. k
      /\ \A j \in 1 .. k : j \in DOMAIN g
  BY <1>4, <1>6
<1>8. \A j \in DOMAIN h : h[j] \in rows[s] /\ h[j].seq = f + j
  BY <1>2, <1>6, <1>7
<1>9. f + Len(h) <= counter[s]
  BY <1>1, <1>2, <1>4, <1>6
<1>10. PICK z \in Nat : z = 0
  OBVIOUS
<1>11. ReaderTo("load", s, z, f, h) /\ z < Polls /\ ~(z > 0)
  BY <1>3, <1>4, <1>5, <1>10
<1>. QED
  BY <1>0, <1>2, <1>8, <1>9, <1>11, FollowsIf

\* A reader's part of the stream has no gap after any step.
LEMMA FollowsStep ==
  ASSUME TypeOK, Numbers, Executions, Ended, Follows, [Next]_vars
  PROVE  Follows'
<1>1. PICK new : Adds(new) /\ Extends(new)
  BY StepExtends
<1>2. CASE UNCHANGED rd
  BY <1>1, <1>2, FollowsStill
<1>3. CASE ReaderAct
  BY <1>3, FollowsConnect, FollowsLoad, FollowsCheck, FollowsReconnect DEF ReaderAct
<1>4. ASSUME NEW x \in Owners, OwnAct(x) PROVE UNCHANGED rd
  BY <1>4, OwnRows
<1>5. CancelRun \/ LeaseLapses \/ StartedStage \/ StartedCommit => UNCHANGED rd
  BY DEF CancelRun, LeaseLapses, StartedStage, StartedCommit
<1>6. UNCHANGED vars => UNCHANGED rd
  BY DEF vars
<1>. QED
  BY <1>2, <1>3, <1>4, <1>5, <1>6, NextCases
-----------------------------------------------------------------------------
(* Executions: all of them.                                                *)

\* An execution's step adds no event of another one.
LEMMA OwnAdds ==
  ASSUME TypeOK, Numbers, NEW x \in Owners, Keeps(x), OwnAct(x), NEW y \in Owners \ {x}
  PROVE  \E new : Adds(new) /\ \A s \in Scopes : \A i \in DOMAIN new[s], n \in 1 .. NEvents :
           new[s][i].what # Event(y, n)
<1>1. CASE WriteCommit(x)
  <2>1. Adds(tx[x].new) /\ tx[x].stage # "none"
    BY <1>1, WriteCommitDoes
  <2>2. ASSUME NEW s \in Scopes, NEW i \in DOMAIN tx[x].new[s], NEW n \in 1 .. NEvents
        PROVE  tx[x].new[s][i].what # Event(y, n)
    <3>1. CASE buf[x].holder = "start"
      <4>1. s = "run" /\ i = 1 /\ tx[x].new[s][1].what = Starting(x)
        BY <2>1, <2>2, <3>1, CommitSays
      <4>. QED
        BY <4>1, SaysApart
    <3>2. CASE buf[x].holder # "start"
      <4>1. tx[x].new[s][i].what = Event(x, buf[x].pending[i])
        BY <2>1, <2>2, <3>2, CommitSays
      <4>. QED
        BY <4>1, SaysApart
    <3>. QED
      BY <3>1, <3>2
  <2>. QED
    BY <2>1, <2>2
<1>2. CASE Finish(x)
  <2>1. PICK new : Adds(new) /\ \A s \in Scopes : \A i \in DOMAIN new[s] : new[s][i].what = Ending
    BY <1>2, FinishAdds
  <2>. QED
    BY <2>1, SaysApart
<1>3. CASE UNCHANGED <<rows, counter>>
  <2>1. Adds(Nothing)
    BY <1>3, StillAdds
  <2>. QED
    BY <2>1, NothingIs
<1>. QED
  BY <1>1, <1>2, <1>3, OwnRows

\* What is no execution's step leaves the executions alone.
LEMMA ElseAdds ==
  ASSUME TypeOK, Numbers, Contained,
         \/ CancelRun \/ LeaseLapses \/ StartedStage \/ StartedCommit \/ ReaderAct
         \/ UNCHANGED vars
  PROVE  /\ UNCHANGED <<exec, buf, cut>>
         /\ \A y \in Owners : Same(y)
         /\ \E new : Adds(new) /\ \A y \in Owners, s \in Scopes :
              \A i \in DOMAIN new[s], n \in 1 .. NEvents : new[s][i].what # Event(y, n)
<1>. DEFINE Other(new) == Adds(new) /\ \A y \in Owners, s \in Scopes :
              \A i \in DOMAIN new[s], n \in 1 .. NEvents : new[s][i].what # Event(y, n)
<1>1. ASSUME UNCHANGED <<rows, counter>> PROVE Other(Nothing)
  <2>1. Adds(Nothing)
    BY <1>1, StillAdds
  <2>. QED
    BY <2>1, NothingIs
<1>2. CASE CancelRun
  <2>1. PICK new : Adds(new) /\ \A s \in Scopes : DOMAIN new[s] = {1} /\ new[s][1].what = Ending
    BY <1>2, SettleDoes DEF CancelRun
  <2>2. ASSUME NEW y \in Owners, NEW s \in Scopes, NEW i \in DOMAIN new[s], NEW n \in 1 .. NEvents
        PROVE  new[s][i].what # Event(y, n)
    <3>1. i = 1 /\ new[s][1].what = Ending
      BY <2>1, <2>2
    <3>. QED
      BY <3>1, SaysApart
  <2>3. Other(new)
    BY <2>1, <2>2
  <2>4. UNCHANGED <<exec, buf, cut, tx>>
    BY <1>2 DEF CancelRun
  <2>. QED
    BY <2>3, <2>4 DEF Same
<1>3. CASE LeaseLapses \/ ReaderAct \/ UNCHANGED vars
  <2>1. UNCHANGED <<rows, counter, exec, buf, cut, tx>>
    BY <1>3, ReaderStill DEF LeaseLapses, vars
  <2>2. Other(Nothing)
    BY <2>1, <1>1
  <2>. QED
    BY <2>1, <2>2 DEF Same
<1>4. CASE StartedStage
  <2>1. UNCHANGED <<rows, counter, exec, buf, cut>> /\ \E new : TxTo(Api, "open", new)
    BY <1>4, StartedStageDoes DEF Still
  <2>2. \A y \in Owners : tx'[y] = tx[y]
    BY <2>1, FieldTypes DEF TxTo
  <2>3. Other(Nothing)
    BY <2>1, <1>1
  <2>. QED
    BY <2>1, <2>2, <2>3 DEF Same
<1>5. CASE StartedCommit
  <2>1. UNCHANGED <<exec, buf, cut>> /\ TxTo(Api, "none", NoTx.new) /\ Adds(tx[Api].new)
        /\ tx[Api].stage = "open"
    BY <1>5, StartedCommitDoes
  <2>2. \A y \in Owners : tx'[y] = tx[y]
    BY <2>1, FieldTypes DEF TxTo
  <2>3. /\ tx[Api].new["run"] = <<>>
        /\ DOMAIN tx[Api].new["thread"] = {1} /\ tx[Api].new["thread"][1].what = Started
    BY <2>1 DEF Contained
  <2>4. DOMAIN tx[Api].new["run"] = {}
    BY <2>3
  <2>5. ASSUME NEW y \in Owners, NEW s \in Scopes, NEW i \in DOMAIN tx[Api].new[s],
               NEW n \in 1 .. NEvents
        PROVE  tx[Api].new[s][i].what # Event(y, n)
    <3>1. s = "thread" /\ i = 1
      BY <2>3, <2>4, <2>5, FieldTypes
    <3>2. tx[Api].new[s][i].what = Started
      BY <2>3, <3>1
    <3>. QED
      BY <3>2, SaysApart
  <2>6. Other(tx[Api].new)
    BY <2>1, <2>5
  <2>. QED
    BY <2>1, <2>2, <2>6 DEF Same
<1>. QED
  BY <1>2, <1>3, <1>4, <1>5

\* Every execution keeps its promises.
LEMMA ExecutionsStep ==
  ASSUME TypeOK, Numbers, Executions, Contained, [Next]_vars
  PROVE  Executions'
<1>0. \A y \in Owners : Keeps(y)
  BY DEF Executions, Keeps
<1>1. ASSUME NEW x \in Owners, OwnAct(x), NEW y \in Owners PROVE Keeps(y)'
  <2>1. CASE y = x
    BY <1>0, <1>1, <2>1, OwnMoves
  <2>2. CASE y # x
    <3>1. PICK new : Adds(new) /\ \A s \in Scopes : \A i \in DOMAIN new[s], n \in 1 .. NEvents :
             new[s][i].what # Event(y, n)
      BY <1>0, <1>1, <2>2, OwnAdds
    <3>2. Alone(x)
      BY <1>0, <1>1, OwnMoves
    <3>3. Same(y)
      BY <2>2, <3>2 DEF Alone
    <3>. QED
      BY <1>0, <3>1, <3>3, OthersKeep
  <2>. QED
    BY <2>1, <2>2
<1>2. ASSUME \/ CancelRun \/ LeaseLapses \/ StartedStage \/ StartedCommit \/ ReaderAct
             \/ UNCHANGED vars, NEW y \in Owners
      PROVE  Keeps(y)'
  <2>1. PICK new : Adds(new) /\ \A z \in Owners, s \in Scopes :
              \A i \in DOMAIN new[s], n \in 1 .. NEvents : new[s][i].what # Event(z, n)
    BY <1>2, ElseAdds
  <2>2. Same(y)
    BY <1>2, ElseAdds
  <2>3. \A s \in Scopes : \A i \in DOMAIN new[s], n \in 1 .. NEvents : new[s][i].what # Event(y, n)
    BY <2>1
  <2>. QED
    BY <1>0, <2>1, <2>2, <2>3, OthersKeep
<1>3. \A y \in Owners : Keeps(y)'
  BY <1>1, <1>2, NextCases
<1>. QED
  BY <1>3 DEF Executions, Keeps
-----------------------------------------------------------------------------
(* What the streams say after a step.                                      *)

LEMMA AllAdvance ==
  ASSUME TypeOK, Numbers, Executions, Contained, [Next]_vars
  PROVE  \A x \in Owners : Advances(x)
<1>0. \A y \in Owners : Keeps(y)
  BY DEF Executions, Keeps
<1>1. ASSUME NEW y \in Owners, Same(y) PROVE Advances(y)
  <2>1. exec[y].emitted >= exec[y].emitted
    BY Unmoved
  <2>. QED
    BY <1>1, <2>1 DEF Same, Advances
<1>2. ASSUME NEW x \in Owners, OwnAct(x), NEW y \in Owners PROVE Advances(y)
  <2>1. Advances(x) /\ Alone(x)
    BY <1>0, <1>2, OwnMoves
  <2>. QED
    BY <2>1, <1>1 DEF Alone
<1>3. ASSUME \/ CancelRun \/ LeaseLapses \/ StartedStage \/ StartedCommit \/ ReaderAct
             \/ UNCHANGED vars, NEW y \in Owners
      PROVE  Advances(y)
  BY <1>1, <1>3, ElseAdds
<1>. QED
  BY <1>2, <1>3, NextCases

LEMMA PartsStep ==
  ASSUME TypeOK, Numbers, Executions, Contained, [Next]_vars
  PROVE  PartsTyped
<1>0. /\ \A y \in Owners : Keeps(y)
      /\ exec \in [Owners -> ExecRec] /\ buf \in [Owners -> BufRec]
      /\ tx \in [Writers -> TxRec] /\ cut \in [Owners -> BOOLEAN]
      /\ faults \in 0 .. MaxFaults /\ MaxFaults \in Nat
  BY PartTypes, FieldTypes DEF Executions, Keeps, TypeOK
<1>1. ASSUME NEW x \in Owners, OwnAct(x) PROVE PartsTyped
  BY <1>0, <1>1, OwnMoves
<1>2. ASSUME \/ CancelRun \/ LeaseLapses \/ StartedStage \/ StartedCommit \/ ReaderAct
             \/ UNCHANGED vars
      PROVE  PartsTyped
  <2>1. UNCHANGED <<exec, buf, cut>>
    BY <1>2, ElseAdds
  <2>2. tx' \in [Writers -> TxRec]
    <3>1. CASE StartedStage
      BY <3>1, StartedStageDoes DEF TxTo
    <3>2. CASE StartedCommit
      BY <3>2, StartedCommitDoes DEF TxTo
    <3>3. CASE CancelRun \/ LeaseLapses \/ ReaderAct \/ UNCHANGED vars
      BY <1>0, <3>3, ReaderStill DEF CancelRun, LeaseLapses, vars
    <3>. QED
      BY <1>2, <3>1, <3>2, <3>3
  <2>3. faults' \in 0 .. MaxFaults
    <3>1. CASE UNCHANGED faults
      BY <1>0, <3>1
    <3>2. CASE Fault
      BY <1>0, <3>2 DEF Fault
    <3>. QED
      BY <1>2, <3>1, <3>2, ReaderStill
         DEF CancelRun, LeaseLapses, StartedStage, StartedCommit, vars
  <2>. QED
    BY <1>0, <2>1, <2>2, <2>3 DEF PartsTyped
<1>. QED
  BY <1>1, <1>2, NextCases

\* Only the request writes to its transaction.
LEMMA ApiTx ==
  ASSUME TypeOK, Numbers, Executions, Contained, [Next]_vars
  PROVE  tx'[Api] = tx[Api] \/ StartedStage \/ StartedCommit
<1>0. \A y \in Owners : Keeps(y)
  BY DEF Executions, Keeps
<1>1. ASSUME NEW x \in Owners, OwnAct(x) PROVE tx'[Api] = tx[Api]
  BY <1>0, <1>1, OwnMoves DEF Alone
<1>2. CancelRun \/ LeaseLapses \/ ReaderAct \/ UNCHANGED vars => UNCHANGED tx
  BY ReaderStill DEF CancelRun, LeaseLapses, vars
<1>. QED
  BY <1>1, <1>2, NextCases

\* A record that is added is the start or an event of the execution that commits, "started",
\* or the end.
LEMMA NewSays ==
  ASSUME TypeOK, Numbers, Executions, Contained, NEW new, Extends(new),
         NEW s \in Scopes, NEW i \in DOMAIN new[s]
  PROVE  \/ \E x \in Owners :
              /\ WriteCommit(x) /\ new = tx[x].new /\ tx[x].stage = "open"
              /\ \/ /\ s = "run" /\ i = 1 /\ buf[x].holder = "start"
                    /\ DOMAIN new[s] = {1} /\ new[s][i].what = Starting(x)
                 \/ /\ buf[x].holder # "start" /\ DOMAIN new[s] = DOMAIN buf[x].pending
                    /\ \A j \in DOMAIN new[s] :
                         /\ buf[x].pending[j] \in 1 .. NEvents
                         /\ buf[x].pending[j] \in 1 .. exec[x].emitted
                         /\ new[s][j].what = Event(x, buf[x].pending[j])
         \/ /\ StartedCommit /\ s = "thread"
            /\ DOMAIN new[s] = {1} /\ i = 1 /\ new[s][i].what = Started
         \/ Ends(new) /\ DOMAIN new[s] = {1} /\ i = 1 /\ new[s][i].what = Ending
<1>1. CASE Quiet(new)
  <2>1. DOMAIN new[s] = {}
    BY <1>1, NothingIs DEF Quiet
  <2>. QED
    BY <2>1
<1>2. ASSUME NEW x \in Owners, WriteCommit(x), new = tx[x].new
      PROVE  \/ /\ s = "run" /\ i = 1 /\ buf[x].holder = "start"
                /\ DOMAIN new[s] = {1} /\ new[s][i].what = Starting(x)
             \/ /\ buf[x].holder # "start" /\ DOMAIN new[s] = DOMAIN buf[x].pending
                /\ \A j \in DOMAIN new[s] :
                     /\ buf[x].pending[j] \in 1 .. NEvents
                     /\ buf[x].pending[j] \in 1 .. exec[x].emitted
                     /\ new[s][j].what = Event(x, buf[x].pending[j])
  <2>1. tx[x].stage # "none" /\ Keeps(x)
    BY <1>2 DEF WriteCommit, Executions, Keeps
  <2>2. CASE buf[x].holder = "start"
    <3>1. s = "run" /\ DOMAIN new[s] = {1} /\ i = 1 /\ new[s][1].what = Starting(x)
      BY <1>2, <2>1, <2>2, CommitSays
    <3>. QED
      BY <2>2, <3>1
  <2>3. CASE buf[x].holder # "start"
    BY <1>2, <2>1, <2>3, CommitSays
  <2>. QED
    BY <2>2, <2>3
<1>3. CASE StartedCommit /\ new = tx[Api].new
  <2>1. /\ tx[Api].new["run"] = <<>>
        /\ DOMAIN tx[Api].new["thread"] = {1} /\ tx[Api].new["thread"][1].what = Started
    BY <1>3 DEF StartedCommit, Contained
  <2>2. DOMAIN tx[Api].new["run"] = {}
    BY <2>1
  <2>3. s = "thread" /\ i = 1
    BY <1>3, <2>1, <2>2, FieldTypes
  <2>. QED
    BY <1>3, <2>1, <2>3
<1>4. CASE Ends(new)
  BY <1>4 DEF Ends
<1>5. \A x \in Owners : WriteCommit(x) => tx[x].stage = "open"
  BY DEF WriteCommit
<1>. QED
  BY <1>1, <1>2, <1>3, <1>4, <1>5 DEF Extends

\* The streams say no more than what was emitted and began.
LEMMA ContainedStep ==
  ASSUME TypeOK, Numbers, Executions, Contained, [Next]_vars
  PROVE  Contained'
<1>0. PICK new : Adds(new) /\ Extends(new)
  BY StepExtends
<1>1. \A x \in Owners : Advances(x) /\ Keeps(x)
  BY AllAdvance DEF Executions, Keeps
<1>2. ASSUME NEW s \in Scopes, NEW i \in DOMAIN new[s] PROVE new[s][i].what \in Says(s)
  BY NewSays, <1>0, <1>2, FieldTypes DEF Says
<1>3. ASSUME NEW s \in Scopes, NEW r \in rows'[s] PROVE r.what \in Says(s)
  <2>1. CASE r \in rows[s]
    BY <2>1 DEF Contained
  <2>2. CASE \E i \in DOMAIN new[s] : r = new[s][i]
    BY <2>2, <1>2
  <2>. QED
    BY <1>0, <2>1, <2>2, AddsRows
<1>4. ASSUME NEW x \in Owners, NEW s \in Scopes, NEW n \in 1 .. NEvents, Told(s, Event(x, n))'
      PROVE  n <= exec'[x].emitted
  <2>1. exec[x].emitted \in Nat /\ exec'[x].emitted >= exec[x].emitted
        /\ exec'[x].emitted \in Nat
    <3>1. exec[x].emitted \in 0 .. NEvents /\ exec'[x].emitted \in 0 .. NEvents
      BY PartTypes, PartsStep, PartFields DEF PartsTyped
    <3>. QED
      BY <1>1, <3>1, FieldTypes DEF Advances
  <2>2. n <= exec[x].emitted
    <3>1. CASE Told(s, Event(x, n))
      BY <3>1 DEF Contained
    <3>2. ASSUME NEW i \in DOMAIN new[s], new[s][i].what = Event(x, n)
          PROVE  n <= exec[x].emitted
      BY <1>0, <2>1, <3>2, NewSays, SaysApart
    <3>. QED
      BY <1>0, <1>4, <3>1, <3>2, ToldGrows
  <2>. QED
    BY <2>1, <2>2
<1>5. ASSUME NEW x \in Owners, Told("run", Starting(x))'
      PROVE  exec'[x].pc # "new" /\ (exec'[x].pc = "start" => tx'[x].stage = "done")
  <2>0. "run" \in Scopes
    BY FieldTypes
  <2>1. CASE Told("run", Starting(x))
    <3>1. exec[x].pc # "new" /\ (exec[x].pc = "start" => tx[x].stage = "done")
      BY <2>1 DEF Contained
    <3>. QED
      BY <1>1, <3>1 DEF Advances
  <2>2. ASSUME NEW i \in DOMAIN new["run"], new["run"][i].what = Starting(x)
        PROVE  exec'[x].pc # "new" /\ (exec'[x].pc = "start" => tx'[x].stage = "done")
    <3>1. WriteCommit(x) /\ buf[x].holder = "start"
      BY <1>0, <2>0, <2>2, NewSays, SaysApart
    <3>2. UNCHANGED exec /\ tx'[x].stage = "done" /\ exec[x].pc = "start"
      BY <1>1, <3>1, WriteCommitDoes DEF TxTo, Keeps, Phases
    <3>. QED
      BY <3>2
  <2>. QED
    BY <1>0, <1>5, <2>0, <2>1, <2>2, ToldGrows
<1>6. /\ tx'[Api].stage # "done"
      /\ tx'[Api].stage = "open" =>
           /\ ~Told("thread", Started)'
           /\ tx'[Api].new["run"] = <<>>
           /\ DOMAIN tx'[Api].new["thread"] = {1} /\ tx'[Api].new["thread"][1].what = Started
  <2>1. CASE StartedCommit
    <3>1. tx'[Api].stage = "none"
      BY <2>1, StartedCommitDoes DEF TxTo
    <3>. QED
      BY <3>1
  <2>2. CASE StartedStage
    <3>1. PICK n : /\ TxTo(Api, "open", n)
                   /\ n["run"] = <<>>
                   /\ DOMAIN n["thread"] = {1} /\ n["thread"][1].what = Started
      BY <2>2, StartedStageDoes
    <3>2. ~Told("thread", Started) /\ UNCHANGED rows
      BY <2>2, StartedStageDoes DEF Still
    <3>3. ~Told("thread", Started)'
      BY <3>2, ToldStill
    <3>. QED
      BY <3>1, <3>3 DEF TxTo
  <2>3. CASE tx'[Api] = tx[Api] /\ ~StartedCommit
    <3>1. /\ tx[Api].stage # "done"
          /\ tx[Api].stage = "open" =>
               /\ ~Told("thread", Started)
               /\ tx[Api].new["run"] = <<>>
               /\ DOMAIN tx[Api].new["thread"] = {1} /\ tx[Api].new["thread"][1].what = Started
      BY DEF Contained
    <3>2. \A i \in DOMAIN new["thread"] : new["thread"][i].what # Started
      BY <1>0, <2>3, NewSays, SaysApart, FieldTypes
    <3>3. Told("thread", Started)' => Told("thread", Started)
      BY <1>0, <3>2, ToldGrows, FieldTypes
    <3>. QED
      BY <2>3, <3>1, <3>3
  <2>. QED
    BY <2>1, <2>2, <2>3, ApiTx
<1>. QED
  BY <1>3, <1>4, <1>5, <1>6 DEF Contained

\* What is said twice was said by an execution that did not learn of a commit.
LEMMA RepeatsStep ==
  ASSUME TypeOK, Numbers, Executions, Contained, Ended, Repeats, [Next]_vars
  PROVE  Repeats'
<1>0. PICK new : Adds(new) /\ Extends(new)
  BY StepExtends
<1>1. \A x \in Owners : Advances(x) /\ Keeps(x)
  BY AllAdvance DEF Executions, Keeps
<1>2. ASSUME NEW s \in Scopes, NEW a \in rows[s], NEW b \in rows[s], a.what = b.what, a.seq # b.seq
      PROVE  a.what.by \in Owners /\ cut'[a.what.by]
  BY <1>1, <1>2 DEF Repeats, Advances
<1>3. ASSUME NEW s \in Scopes, NEW a \in rows'[s], NEW i \in DOMAIN new[s],
             a.what = new[s][i].what, a.seq # new[s][i].seq
      PROVE  a.what.by \in Owners /\ cut'[a.what.by]
  <2>1. a \in rows[s] \/ \E j \in DOMAIN new[s] : a = new[s][j] /\ j # i
    BY <1>0, <1>3, AddsRows
  <2>2. CASE Ends(new) /\ DOMAIN new[s] = {1} /\ new[s][i].what = Ending
    <3>1. a \in rows[s]
      BY <2>1, <2>2, <1>3
    <3>2. Told(s, Ending)
      BY <3>1, <2>2, <1>3 DEF Told
    <3>3. row.status \in Terminal /\ row.status \in {"pending", "running"}
      BY <3>2, <2>2 DEF Ended, Ends
    <3>. QED
      BY <3>3 DEF Terminal
  <2>3. CASE StartedCommit /\ s = "thread" /\ DOMAIN new[s] = {1} /\ new[s][i].what = Started
    <3>1. a \in rows[s]
      BY <2>1, <2>3, <1>3
    <3>2. Told("thread", Started) /\ tx[Api].stage = "open"
      BY <3>1, <2>3, <1>3 DEF Told, StartedCommit
    <3>. QED
      BY <3>2 DEF Contained
  <2>4. ASSUME NEW x \in Owners, WriteCommit(x), tx[x].stage = "open", s = "run",
               buf[x].holder = "start", DOMAIN new[s] = {1}, new[s][i].what = Starting(x)
        PROVE  FALSE
    <3>1. a \in rows[s]
      BY <2>1, <2>4, <1>3
    <3>2. Told("run", Starting(x))
      BY <3>1, <2>4, <1>3 DEF Told
    <3>3. exec[x].pc = "start"
      BY <1>1, <2>4 DEF Keeps, Phases
    <3>. QED
      BY <3>2, <3>3, <2>4 DEF Contained
  <2>5. ASSUME NEW x \in Owners, WriteCommit(x), tx[x].stage = "open", buf[x].holder # "start",
               DOMAIN new[s] = DOMAIN buf[x].pending,
               \A j \in DOMAIN new[s] : /\ buf[x].pending[j] \in 1 .. NEvents
                                        /\ buf[x].pending[j] \in 1 .. exec[x].emitted
                                        /\ new[s][j].what = Event(x, buf[x].pending[j])
        PROVE  a.what.by \in Owners /\ cut'[a.what.by]
    <3>1. PICK n \in 1 .. exec[x].emitted : n = buf[x].pending[i]
      BY <2>5
    <3>2. new[s][i].what = Event(x, n) /\ a.what.by = x
      BY <2>5, <3>1, <1>3, SaysApart
    <3>3. a \in rows[s]
      <4>1. ASSUME NEW j \in DOMAIN new[s], a = new[s][j], j # i PROVE FALSE
        <5>1. buf[x].pending[j] = n
          BY <2>5, <3>2, <4>1, <1>3, SaysApart
        <5>. QED
          BY <1>1, <2>5, <3>1, <4>1, <5>1 DEF Keeps, Queued
      <4>. QED
        BY <2>1, <4>1
    <3>4. Told(s, Event(x, n))
      BY <3>2, <3>3, <1>3 DEF Told
    <3>5. Waits(x, n)
      BY <2>5, <3>1 DEF Waits
    <3>6. exec[x].pc # "gone"
      BY <1>1, <2>5 DEF Keeps, Phases
    <3>7. cut[x]
      BY <1>1, <2>5, <3>1, <3>4, <3>5, <3>6 DEF Keeps, Once
    <3>. QED
      BY <1>1, <3>2, <3>7 DEF Advances
  <2>. QED
    BY <1>0, <2>2, <2>3, <2>4, <2>5, NewSays
<1>4. ASSUME NEW s \in Scopes, NEW a \in rows'[s], NEW b \in rows'[s], a.what = b.what, a.seq # b.seq
      PROVE  a.what.by \in Owners /\ cut'[a.what.by]
  <2>1. CASE a \in rows[s] /\ b \in rows[s]
    BY <1>2, <1>4, <2>1
  <2>2. CASE \E i \in DOMAIN new[s] : b = new[s][i]
    BY <1>3, <1>4, <2>2
  <2>3. CASE \E i \in DOMAIN new[s] : a = new[s][i]
    <3>1. b.what.by \in Owners /\ cut'[b.what.by]
      BY <1>3, <1>4, <2>3
    <3>. QED
      BY <1>4, <3>1
  <2>. QED
    BY <1>0, <2>1, <2>2, <2>3, AddsRows
<1>. QED
  BY <1>4 DEF Repeats
-----------------------------------------------------------------------------
(* The end.                                                                *)

\* An execution that comes to finish_run with success has every event of its graph stored.
LEMMA SuccessTold ==
  ASSUME TypeOK, Numbers, NEW x \in Owners, Keeps(x), Finish(x), exec[x].outcome = "success"
  PROVE  \A n \in 1 .. exec[x].emitted, s \in Scopes : Told(s, Event(x, n))
<1>1. exec[x].pc = "finish"
  BY FinishDoes
<1>2. buf[x].pending = <<>> /\ ~exec[x].cancelled /\ buf[x].holder = "none"
  BY <1>1 DEF Keeps, Phases
<1>3. buf[x].carry = 0
  BY <1>1, <1>2 DEF Keeps, Phases
<1>4. DOMAIN buf[x].pending = {}
  BY <1>2
<1>5. exec[x].emitted \in Nat
  BY Unmoved
<1>6. \A n \in 1 .. exec[x].emitted : ~Waits(x, n)
  BY <1>3, <1>4, <1>5 DEF Waits
<1>. QED
  BY <1>2, <1>6 DEF Keeps, Kept

\* The run's end is told once it is stored, in both streams, and nothing follows it in the run's.
LEMMA EndedStep ==
  ASSUME TypeOK, Numbers, Executions, Contained, Ended, [Next]_vars
  PROVE  Ended'
<1>0. PICK new : Adds(new) /\ Extends(new)
  BY StepExtends
<1>1. \A x \in Owners : Advances(x) /\ Keeps(x)
  BY AllAdvance DEF Executions, Keeps
<1>2. \A x \in Owners, n \in Nat, s \in Scopes : Told(s, Event(x, n)) => Told(s, Event(x, n))'
  BY <1>0, ToldGrows
<1>3. ASSUME row.status = "success"
      PROVE  \E x \in Owners : exec'[x].pc = "gone" /\ \A n \in 1 .. exec'[x].emitted, s \in Scopes :
               Told(s, Event(x, n))'
  <2>1. PICK x \in Owners : exec[x].pc = "gone" /\ \A n \in 1 .. exec[x].emitted, s \in Scopes :
               Told(s, Event(x, n))
    BY <1>3 DEF Ended
  <2>2. exec'[x].pc = "gone" /\ exec'[x].emitted = exec[x].emitted /\ exec[x].emitted \in Nat
    BY <1>1, <2>1, Unmoved DEF Advances
  <2>. QED
    BY <1>2, <2>1, <2>2
<1>4. CASE Ends(new)
  <2>1. row.status \notin Terminal /\ row.status # "success"
    BY <1>4 DEF Ends, Terminal
  <2>2. \A s \in Scopes : ~Told(s, Ending)
    BY <2>1 DEF Ended
  <2>3. \A s \in Scopes : Told(s, Ending)'
    BY <1>0, <1>4, ToldGrows DEF Ends
  <2>4. \A r, t \in rows'["run"] : r.what = Ending => t.seq <= r.seq
    <3>0. "run" \in Scopes /\ counter["run"] \in Nat
      BY RowTypes, FieldTypes
    <3>1. ASSUME NEW r \in rows'["run"], r.what = Ending
          PROVE  r = new["run"][1] /\ r.seq = counter["run"] + 1
      <4>1. r \notin rows["run"]
        BY <2>2, <3>0, <3>1 DEF Told
      <4>. QED
        BY <1>0, <1>4, <3>0, <4>1, AddsRows DEF Ends, Adds
    <3>2. ASSUME NEW t \in rows'["run"] PROVE t.seq \in Nat /\ t.seq <= counter["run"] + 1
      <4>1. CASE t \in rows["run"]
        <5>1. t.seq \in 1 .. counter["run"]
          BY <3>0, <4>1 DEF Numbers
        <5>. QED
          BY <3>0, <5>1
      <4>2. CASE t = new["run"][1]
        <5>1. t.seq = counter["run"] + 1
          BY <1>0, <1>4, <3>0, <4>2 DEF Ends, Adds
        <5>. QED
          BY <3>0, <5>1
      <4>. QED
        BY <1>0, <1>4, <3>0, <4>1, <4>2, AddsRows DEF Ends
    <3>. QED
      BY <3>1, <3>2
  <2>5. ASSUME row'.status = "success"
        PROVE  \E x \in Owners : exec'[x].pc = "gone" /\ \A n \in 1 .. exec'[x].emitted, s \in Scopes :
                 Told(s, Event(x, n))'
    <3>1. PICK x \in Owners : Finish(x) /\ exec[x].outcome = "success"
      BY <1>4, <2>5 DEF Ends
    <3>2. \A n \in 1 .. exec[x].emitted, s \in Scopes : Told(s, Event(x, n))
      BY <1>1, <3>1, SuccessTold
    <3>3. exec'[x].pc = "gone" /\ exec'[x].emitted = exec[x].emitted /\ exec[x].emitted \in Nat
      BY <3>1, FinishDoes, Unmoved DEF Becomes, ExecTo
    <3>. QED
      BY <1>2, <3>2, <3>3
  <2>6. row'.status \in Terminal
    BY <1>4 DEF Ends
  <2>. QED
    BY <2>3, <2>4, <2>5, <2>6 DEF Ended
<1>5. CASE Quiet(new)
  <2>1. \A s \in Scopes : Told(s, Ending)' <=> Told(s, Ending)
    BY <1>5, ToldStill DEF Quiet
  <2>2. rows' = rows /\ (row'.status \in Terminal <=> row.status \in Terminal)
        /\ (row'.status = "success" <=> row.status = "success")
    BY <1>5 DEF Quiet
  <2>3. \A s \in Scopes : Told(s, Ending)' <=> row'.status \in Terminal
    BY <2>1, <2>2 DEF Ended
  <2>4. \A r, t \in rows'["run"] : r.what = Ending => t.seq <= r.seq
    BY <2>2 DEF Ended
  <2>. QED
    BY <1>3, <2>2, <2>3, <2>4 DEF Ended
<1>6. CASE (\E x \in Owners : WriteCommit(x) /\ new = tx[x].new) \/
           (StartedCommit /\ new = tx[Api].new)
  <2>1. row' = row
    BY <1>6 DEF WriteCommit, StartedCommit
  <2>2. \A s \in Scopes : \A i \in DOMAIN new[s] : new[s][i].what # Ending
    BY <1>6, CommitNoEnd
  <2>3. \A s \in Scopes : Told(s, Ending)' <=> Told(s, Ending)
    BY <1>0, <2>2, ToldGrows
  <2>4. \A s \in Scopes : Told(s, Ending)' <=> row'.status \in Terminal
    BY <2>1, <2>3 DEF Ended
  <2>5. ASSUME NEW r \in rows'["run"], NEW t \in rows'["run"], r.what = Ending
        PROVE  t.seq <= r.seq
    <3>0. "run" \in Scopes
      BY FieldTypes
    <3>1. r \in rows["run"]
      BY <1>0, <2>2, <2>5, <3>0, AddsRows
    <3>2. row.status \in Terminal
      BY <2>5, <3>0, <3>1 DEF Ended, Told
    <3>3. \A x \in Owners : tx[x].stage # "open"
      BY <3>2 DEF Numbers, OwnsExecution, Terminal
    <3>4. StartedCommit /\ new = tx[Api].new
      BY <1>6, <3>3 DEF WriteCommit
    <3>5. new["run"] = <<>>
      BY <3>4 DEF StartedCommit, Contained
    <3>6. DOMAIN new["run"] = {}
      BY <3>5
    <3>7. t \in rows["run"]
      BY <1>0, <3>0, <3>6, AddsRows
    <3>. QED
      BY <2>5, <3>1, <3>7 DEF Ended
  <2>. QED
    BY <1>3, <2>1, <2>4, <2>5 DEF Ended
<1>. QED
  BY <1>0, <1>4, <1>5, <1>6 DEF Extends

-----------------------------------------------------------------------------
(* The pairs.                                                              *)

\* A step that adds no event leaves the pairs alone.
LEMMA PairedStill ==
  ASSUME TypeOK, Paired, NEW new, Adds(new),
         \A s \in Scopes : \A i \in DOMAIN new[s] : new[s][i].what.kind # "event"
  PROVE  Paired'
<1>1. \A s \in Scopes : Events(s)' = Events(s)
  BY AddsRows DEF Events
<1>2. PICK f : Pairing(f)
  BY DEF Paired
<1>3. Events("run")' = Events("run") /\ Events("thread")' = Events("thread")
  BY <1>1, FieldTypes
<1>4. Pairing(f)'
  BY <1>2, <1>3 DEF Pairing
<1>. QED
  BY <1>4 DEF Paired

\* A batch adds as many to both streams, in the same order.
LEMMA PairedBatch ==
  ASSUME TypeOK, Numbers, Paired, NEW new, Adds(new),
         DOMAIN new["run"] = DOMAIN new["thread"],
         \A i \in DOMAIN new["run"] :
           new["run"][i].what = new["thread"][i].what /\ new["run"][i].what.kind = "event"
  PROVE  Paired'
<1>. DEFINE c == counter["run"]
            d == counter["thread"]
            a == new["run"]
            b == new["thread"]
<1>0. /\ c \in Nat /\ d \in Nat /\ a \in Seq(Record) /\ b \in Seq(Record)
      /\ "run" \in Scopes /\ "thread" \in Scopes
      /\ \A r \in rows["run"] : r.seq \in 1 .. c
      /\ \A r \in rows["thread"] : r.seq \in 1 .. d
      /\ \A i \in DOMAIN a : a[i].seq = c + i
      /\ \A i \in DOMAIN b : b[i].seq = d + i
  BY RowTypes, FieldTypes DEF Numbers, Adds
<1>1. /\ DOMAIN a = DOMAIN b
      /\ \A i \in DOMAIN a : i \in Nat /\ i >= 1 /\ a[i].what = b[i].what /\ a[i].what.kind = "event"
                             /\ b[i].what.kind = "event"
  BY <1>0
<1>2. PICK f : Pairing(f)
  BY DEF Paired
<1>3. PICK R, T, Rn, Tn : /\ R = Events("run") /\ T = Events("thread")
                          /\ Rn = Events("run")' /\ Tn = Events("thread")'
  OBVIOUS
<1>4. /\ f \in [R -> T]
      /\ \A t \in T : \E r \in R : f[r] = t
      /\ \A r \in R : f[r].what = r.what
      /\ \A p, q \in R : p.seq < q.seq => f[p].seq < f[q].seq
  BY <1>2, <1>3 DEF Pairing
<1>5. /\ \A r : r \in Rn <=> r \in R \/ \E i \in DOMAIN a : r = a[i]
      /\ \A t : t \in Tn <=> t \in T \/ \E i \in DOMAIN b : t = b[i]
  <2>1. ASSUME NEW s \in Scopes PROVE \A r : r \in rows'[s] <=> r \in rows[s] \/ \E i \in DOMAIN new[s] : r = new[s][i]
    BY AddsRows
  <2>. QED
    BY <1>0, <1>1, <1>3, <2>1 DEF Events
<1>6. /\ \A r \in R : r.seq \in 1 .. c
      /\ \A t \in T : t.seq \in 1 .. d
  BY <1>0, <1>3 DEF Events
<1>. HIDE DEF a, b, c, d
<1>7. \A i \in DOMAIN a : a[i] \notin R /\ a[i].seq - c = i
  BY <1>0, <1>1, <1>6
<1>. DEFINE g == [r \in Rn |-> IF r \in R THEN f[r] ELSE b[r.seq - c]]
<1>8. /\ \A r \in R : r \in Rn /\ g[r] = f[r]
      /\ \A i \in DOMAIN a : a[i] \in Rn /\ g[a[i]] = b[i]
  BY <1>5, <1>7
<1>9. DOMAIN g = Rn /\ g = [r \in Rn |-> g[r]]
  OBVIOUS
<1>. HIDE DEF g
<1>10. ASSUME NEW r \in Rn PROVE g[r] \in Tn /\ g[r].what = r.what
  <2>1. CASE r \in R
    BY <2>1, <1>4, <1>5, <1>8
  <2>2. ASSUME NEW i \in DOMAIN a, r = a[i] PROVE g[r] \in Tn /\ g[r].what = r.what
    BY <2>2, <1>1, <1>5, <1>8
  <2>. QED
    BY <2>1, <2>2, <1>5
<1>11. ASSUME NEW t \in Tn PROVE \E r \in Rn : g[r] = t
  BY <1>1, <1>4, <1>5, <1>8
<1>12. ASSUME NEW p \in Rn, NEW q \in Rn, p.seq < q.seq PROVE g[p].seq < g[q].seq
  <2>1. CASE p \in R /\ q \in R
    BY <2>1, <1>4, <1>8, <1>12
  <2>2. ASSUME p \in R, NEW j \in DOMAIN a, q = a[j] PROVE g[p].seq < g[q].seq
    <3>1. g[p] \in T /\ g[q] = b[j]
      BY <2>2, <1>4, <1>8
    <3>2. g[p].seq \in 1 .. d /\ g[q].seq = d + j /\ j \in Nat /\ j >= 1
      BY <3>1, <1>0, <1>1, <1>6, <2>2
    <3>. QED
      BY <3>2, <1>0
  <2>3. ASSUME NEW i \in DOMAIN a, p = a[i], q \in R PROVE FALSE
    <3>1. p.seq = c + i /\ q.seq \in 1 .. c /\ i \in Nat
      BY <2>3, <1>0, <1>1, <1>6
    <3>. QED
      BY <3>1, <1>0, <1>12
  <2>4. ASSUME NEW i \in DOMAIN a, p = a[i], NEW j \in DOMAIN a, q = a[j]
        PROVE  g[p].seq < g[q].seq
    <3>1. i \in Nat /\ j \in Nat /\ p.seq = c + i /\ q.seq = c + j
      BY <2>4, <1>0, <1>1
    <3>2. i < j
      BY <3>1, <1>0, <1>12
    <3>3. g[p].seq = d + i /\ g[q].seq = d + j
      BY <2>4, <1>0, <1>1, <1>8
    <3>. QED
      BY <3>1, <3>2, <3>3, <1>0
  <2>. QED
    BY <2>1, <2>2, <2>3, <2>4, <1>5
<1>13. g \in [Rn -> Tn]
  BY <1>9, <1>10
<1>14. PICK h : h = g
  OBVIOUS
<1>15. /\ h \in [Rn -> Tn]
       /\ \A t \in Tn : \E r \in Rn : h[r] = t
       /\ \A r \in Rn : h[r].what = r.what
       /\ \A p, q \in Rn : p.seq < q.seq => h[p].seq < h[q].seq
  BY <1>10, <1>11, <1>12, <1>13, <1>14
<1>16. Pairing(h)'
  BY <1>3, <1>15 DEF Pairing
<1>. QED
  BY <1>16 DEF Paired

LEMMA PairedStep ==
  ASSUME TypeOK, Numbers, Executions, Contained, Paired, [Next]_vars
  PROVE  Paired'
<1>0. PICK new : Adds(new) /\ Extends(new)
  BY StepExtends
<1>1. \A x \in Owners : Keeps(x)
  BY DEF Executions, Keeps
<1>2. CASE \E x \in Owners : WriteCommit(x) /\ new = tx[x].new /\ buf[x].holder # "start"
  <2>1. PICK x \in Owners : WriteCommit(x) /\ new = tx[x].new /\ buf[x].holder # "start"
    BY <1>2
  <2>2. tx[x].stage # "none"
    BY <2>1 DEF WriteCommit
  <2>3. \A s \in Scopes : /\ DOMAIN new[s] = DOMAIN buf[x].pending
                          /\ \A i \in DOMAIN new[s] : new[s][i].what = Event(x, buf[x].pending[i])
    BY <1>1, <2>1, <2>2, CommitSays
  <2>4. /\ DOMAIN new["run"] = DOMAIN new["thread"]
        /\ \A i \in DOMAIN new["run"] :
             new["run"][i].what = new["thread"][i].what /\ new["run"][i].what.kind = "event"
    BY <2>3, FieldTypes, SaysApart
  <2>. QED
    BY <1>0, <2>4, PairedBatch
<1>3. CASE ~\E x \in Owners : WriteCommit(x) /\ new = tx[x].new /\ buf[x].holder # "start"
  <2>1. ASSUME NEW s \in Scopes, NEW i \in DOMAIN new[s] PROVE new[s][i].what.kind # "event"
    BY <1>0, <1>3, <2>1, NewSays, SaysApart
  <2>. QED
    BY <1>0, <2>1, PairedStill
<1>. QED
  BY <1>2, <1>3
-----------------------------------------------------------------------------
(* Types, and the invariant as a whole.                                    *)

\* The reader moves in its own steps only, and keeps its type.
LEMMA ReaderMoves ==
  ASSUME TypeOK, Numbers, Ended, Follows, [Next]_vars
  PROVE  rd' \in ReaderRec /\ drops' \in 0 .. MaxDrops
<1>0. rd \in ReaderRec /\ drops \in 0 .. MaxDrops
  BY ReaderType DEF TypeOK
<1>1. CASE ReaderAct
  <2>1. CASE Connect
    BY <1>0, <2>1, ConnectDoes DEF ReaderTo
  <2>2. CASE Load
    BY <1>0, <2>2, LoadDoes DEF ReaderTo
  <2>3. CASE Check
    BY <1>0, <2>3, CheckDoes DEF ReaderTo
  <2>4. CASE Reconnect
    BY <2>4, ReconnectDoes DEF ReaderTo
  <2>. QED
    BY <1>1, <2>1, <2>2, <2>3, <2>4 DEF ReaderAct
<1>2. ASSUME NEW x \in Owners, OwnAct(x) PROVE UNCHANGED <<rd, drops>>
  BY <1>2, OwnRows
<1>3. CancelRun \/ LeaseLapses \/ StartedStage \/ StartedCommit \/ UNCHANGED vars
      => UNCHANGED <<rd, drops>>
  BY DEF CancelRun, LeaseLapses, StartedStage, StartedCommit, vars
<1>. QED
  BY <1>0, <1>1, <1>2, <1>3, NextCases

LEMMA TypeStep ==
  ASSUME TypeOK, Numbers, Executions, Contained, Ended, Follows, [Next]_vars
  PROVE  TypeOK'
<1>1. row' \in Row /\ \E new : Adds(new)
  BY StepExtends
<1>2. \A s \in Scopes : rows'[s] \subseteq Record /\ counter'[s] \in Nat
  BY <1>1, AddsRows
<1>3. /\ exec' \in [Owners -> ExecRec] /\ buf' \in [Owners -> BufRec]
      /\ tx' \in [Writers -> TxRec] /\ cut' \in [Owners -> BOOLEAN]
      /\ faults' \in 0 .. MaxFaults
  BY PartsStep DEF PartsTyped
<1>4. rd' \in ReaderRec /\ drops' \in 0 .. MaxDrops
  BY ReaderMoves
<1>. QED
  BY <1>1, <1>2, <1>3, <1>4 DEF TypeOK, ExecRec, BufRec, TxRec, ReaderRec

LEMMA TypeInit ==
  ASSUME Init
  PROVE  TypeOK
<1>1. row \in Row
  BY OneGeneration DEF Init, NewGeneration, NoRow, Row, Active
<1>2. \A s \in Scopes : rows[s] = {} /\ counter[s] = 0
  BY DEF Init
<1>3. tx \in [Writers -> TxRec]
  BY NoTxIs DEF Init
<1>4. NewExec \in ExecRec
  BY FieldTypes DEF NewExec, ExecRec
<1>5. NewBuffer \in BufRec
  <2>0. <<>> \in Seq(1 .. NEvents) /\ 0 \in 0 .. NEvents
    BY FieldTypes
  <2>1. PICK q \in Seq(1 .. NEvents), z \in 0 .. NEvents : q = <<>> /\ z = 0
    BY <2>0
  <2>2. NewBuffer = [pending |-> q, carry |-> z, holder |-> "none",
                     closed |-> FALSE, worker |-> "alive"]
    BY <2>1 DEF NewBuffer
  <2>. QED
    BY <2>2 DEF BufRec
<1>6. NoReader \in ReaderRec
  <2>0. <<>> \in Seq(Record) /\ 0 \in 0 .. Polls /\ 0 \in Nat
    BY FieldTypes
  <2>1. PICK g \in Seq(Record), z \in 0 .. Polls, f \in Nat : g = <<>> /\ z = 0 /\ f = 0
    BY <2>0
  <2>2. NoReader = [pc |-> "new", scope |-> "run", idle |-> z, from |-> f, got |-> g]
    BY <2>1 DEF NoReader
  <2>. QED
    BY <2>2, FieldTypes DEF ReaderRec
<1>7. faults \in 0 .. MaxFaults /\ drops \in 0 .. MaxDrops
  BY FieldTypes DEF Init
<1>8. /\ exec \in [Owners -> ExecRec] /\ buf \in [Owners -> BufRec]
      /\ cut \in [Owners -> BOOLEAN] /\ rd \in ReaderRec
  BY <1>4, <1>5, <1>6 DEF Init
<1>. QED
  BY <1>1, <1>2, <1>3, <1>7, <1>8 DEF TypeOK, ExecRec, BufRec, TxRec, ReaderRec

LEMMA ExecutionsInit ==
  ASSUME Init, NEW x \in Owners
  PROVE  Phases(x) /\ Queued(x) /\ Carries(x) /\ Kept(x) /\ Once(x)
<1>1. /\ exec[x].pc = "new" /\ exec[x].emitted = 0 /\ exec[x].outcome = "none"
      /\ exec[x].cancelled = FALSE
      /\ buf[x].pending = <<>> /\ buf[x].carry = 0 /\ buf[x].holder = "none"
  BY DEF Init, NewExec, NewBuffer
<1>2. tx[x].stage = "none"
  BY FieldTypes, NoTxIs DEF Init
<1>3. DOMAIN buf[x].pending = {}
  BY <1>1
<1>4. 1 .. exec[x].emitted = {} /\ buf[x].carry <= exec[x].emitted
  BY <1>1
<1>5. Phases(x)
  BY <1>1, <1>2 DEF Phases
<1>6. Queued(x)
  BY <1>3, <1>4 DEF Queued
<1>. QED
  BY <1>2, <1>4, <1>5, <1>6 DEF Carries, Kept, Once

LEMMA InvInit ==
  ASSUME Init
  PROVE  StreamsInv
<1>1. \A s \in Scopes : rows[s] = {} /\ counter[s] = 0
  BY DEF Init
<1>2. \A w \in Writers : tx[w].stage = "none"
  BY NoTxIs DEF Init
<1>3. row.status = "pending"
  BY DEF Init, NewGeneration
<1>4. Numbers
  <2>1. \A s \in Scopes : 1 .. counter[s] = {}
    BY <1>1
  <2>. QED
    BY <1>1, <1>2, <2>1, FieldTypes DEF Numbers, Holds
<1>5. Executions
  BY ExecutionsInit DEF Executions
<1>6. \A s \in Scopes : \A c : ~Told(s, c)
  BY <1>1 DEF Told
<1>7. Contained
  BY <1>1, <1>2, <1>6, FieldTypes DEF Contained
<1>8. Repeats
  BY <1>1 DEF Repeats
<1>9. Ended
  BY <1>1, <1>3, <1>6, FieldTypes DEF Ended, Terminal
<1>10. Follows
  <2>1. rd = NoReader
    BY DEF Init
  <2>2. /\ rd.pc = "new" /\ rd.scope = "run" /\ rd.idle = 0 /\ rd.from = 0 /\ rd.got = <<>>
    BY <2>1 DEF NoReader
  <2>3. DOMAIN rd.got = {} /\ Len(rd.got) = 0
    BY <2>2
  <2>4. rows[rd.scope] = {} /\ counter[rd.scope] = 0 /\ Polls \in Nat /\ Polls >= 2
    BY <1>1, <2>2, FieldTypes
  <2>5. rd.from + Len(rd.got) <= counter[rd.scope] /\ rd.idle < Polls /\ ~(rd.idle > 0)
    BY <2>2, <2>3, <2>4
  <2>. QED
    BY <2>1, <2>2, <2>3, <2>4, <2>5 DEF Follows
<1>11. Paired
  <2>1. Events("run") = {} /\ Events("thread") = {}
    BY <1>1, FieldTypes DEF Events
  <2>2. PICK f : f = [r \in {} |-> r]
    OBVIOUS
  <2>3. f \in [{} -> {}]
    BY <2>2
  <2>4. Pairing(f)
    BY <2>1, <2>3 DEF Pairing
  <2>. QED
    BY <2>4 DEF Paired
<1>. QED
  BY TypeInit, <1>4, <1>5, <1>7, <1>8, <1>9, <1>10, <1>11 DEF StreamsInv

LEMMA InvStep ==
  ASSUME StreamsInv, [Next]_vars
  PROVE  StreamsInv'
<1>1. TypeOK /\ Numbers /\ Executions /\ Contained /\ Repeats /\ Ended /\ Follows /\ Paired
  BY DEF StreamsInv
<1>2. TypeOK' /\ Numbers' /\ Executions' /\ Contained'
  BY <1>1, TypeStep, NumbersStep, ExecutionsStep, ContainedStep
<1>3. Repeats' /\ Ended' /\ Follows' /\ Paired'
  BY <1>1, RepeatsStep, EndedStep, FollowsStep, PairedStep
<1>. QED
  BY <1>2, <1>3 DEF StreamsInv
-----------------------------------------------------------------------------
(* The same pairs in the same order.                                       *)

\* The records of lower number.
Below(S, r) == {t \in S : t.seq < r.seq}

\* Sorted records are theirs, one for each rank.
LEMMA Ranks ==
  ASSUME NEW S, IsFiniteSet(S), \A r \in S : r.seq \in Nat,
         \A a, b \in S : a.seq = b.seq => a = b
  PROVE  /\ Cardinality(S) \in Nat
         /\ DOMAIN InOrder(S) = 1 .. Cardinality(S)
         /\ \A a, b \in S : Cardinality(Below(S, a)) = Cardinality(Below(S, b)) => a = b
         /\ \A i \in 1 .. Cardinality(S) :
              InOrder(S)[i] \in S /\ Cardinality(Below(S, InOrder(S)[i])) = i - 1
<1>1. Cardinality(S) \in Nat
  BY FS_CardinalityType
<1>2. \A r \in S : IsFiniteSet(Below(S, r)) /\ Cardinality(Below(S, r)) \in Nat
  <2> SUFFICES ASSUME NEW r \in S
               PROVE  IsFiniteSet(Below(S, r)) /\ Cardinality(Below(S, r)) \in Nat
    OBVIOUS
  <2>1. Below(S, r) \in SUBSET S
    BY DEF Below
  <2>2. IsFiniteSet(Below(S, r))
    BY <2>1, FS_Subset
  <2>. QED
    BY <2>2, FS_CardinalityType
<1>3. ASSUME NEW a \in S, NEW b \in S, a.seq < b.seq
      PROVE  Cardinality(Below(S, a)) < Cardinality(Below(S, b))
  <2>1. Below(S, a) \in SUBSET Below(S, b)
    BY <1>3 DEF Below
  <2>2. a \in Below(S, b) /\ a \notin Below(S, a)
    BY <1>3 DEF Below
  <2>3. Cardinality(Below(S, a)) <= Cardinality(Below(S, b))
        /\ Cardinality(Below(S, a)) # Cardinality(Below(S, b))
    BY <1>2, <2>1, <2>2, FS_Subset
  <2>. QED
    BY <1>2, <2>3
<1>4. ASSUME NEW a \in S PROVE Cardinality(Below(S, a)) \in 0 .. Cardinality(S) - 1
  <2>1. Below(S, a) \in SUBSET S /\ a \notin Below(S, a)
    BY DEF Below
  <2>2. Cardinality(Below(S, a)) <= Cardinality(S) /\ Cardinality(Below(S, a)) # Cardinality(S)
    BY <2>1, FS_Subset
  <2>. QED
    BY <1>1, <1>2, <2>2
<1>5. \A a, b \in S : Cardinality(Below(S, a)) = Cardinality(Below(S, b)) => a = b
  <2> SUFFICES ASSUME NEW a \in S, NEW b \in S, Cardinality(Below(S, a)) = Cardinality(Below(S, b)),
                      a # b
               PROVE  FALSE
    OBVIOUS
  <2>1. a.seq < b.seq \/ b.seq < a.seq
    OBVIOUS
  <2>. QED
    BY <2>1, <1>2, <1>3
<1>. DEFINE n == Cardinality(S)
            T == 0 .. n - 1
            rank == [r \in S |-> Cardinality(Below(S, r))]
<1>6. rank \in Injection(S, T)
  BY <1>4, <1>5 DEF Injection, IsInjective
<1>7. IsFiniteSet(T) /\ Cardinality(T) = n
  <2>1. 0 \in Int /\ n - 1 \in Int
    BY <1>1
  <2>2. IsFiniteSet(T) /\ Cardinality(T) = IF 0 > n - 1 THEN 0 ELSE (n - 1) - 0 + 1
    BY <2>1, FS_Interval
  <2>. QED
    BY <1>1, <2>2
<1>8. \A r \in S : rank[r] = Cardinality(Below(S, r))
  OBVIOUS
<1>. HIDE DEF rank, T
<1>9. rank \in Surjection(S, T)
  BY <1>6, <1>7, FS_Injection
<1>10. ASSUME NEW i \in 1 .. n
       PROVE  InOrder(S)[i] \in S /\ Cardinality(Below(S, InOrder(S)[i])) = i - 1
  <2>. DEFINE P(r) == Cardinality({t \in S : t.seq < r.seq}) = i - 1
  <2>1. i - 1 \in T
    BY <1>1 DEF T
  <2>2. PICK r \in S : rank[r] = i - 1
    BY <1>9, <2>1 DEF Surjection
  <2>3. P(r)
    BY <1>8, <2>2 DEF Below
  <2>4. InOrder(S)[i] = CHOOSE q \in S : P(q)
    BY DEF InOrder
  <2>5. InOrder(S)[i] \in S /\ P(InOrder(S)[i])
    BY <2>3, <2>4
  <2>. QED
    BY <2>5 DEF Below
<1>11. DOMAIN InOrder(S) = 1 .. n
  BY DEF InOrder
<1>. QED
  BY <1>1, <1>5, <1>10, <1>11

\* A stream is finite.
LEMMA EventsFinite ==
  ASSUME TypeOK, Numbers, NEW s \in Scopes
  PROVE  /\ IsFiniteSet(Events(s))
         /\ \A r \in Events(s) : r.seq \in Nat
         /\ \A a, b \in Events(s) : a.seq = b.seq => a = b
<1>1. /\ rows[s] \in SUBSET Record /\ counter[s] \in Nat
      /\ \A r \in rows[s] : r.seq \in 1 .. counter[s]
      /\ \A a, b \in rows[s] : a.seq = b.seq => a = b
      /\ \A k \in 1 .. counter[s] : \E r \in rows[s] : r.seq = k
  BY RowTypes DEF Numbers
<1>2. PICK z \in Nat : z = 0
  OBVIOUS
<1>3. z <= counter[s] /\ z + 1 .. counter[s] = 1 .. counter[s]
  BY <1>1, <1>2
<1>4. Gapless(rows[s], z, counter[s])
  BY <1>1, <1>3 DEF Gapless
<1>5. IsFiniteSet(rows[s])
  BY <1>1, <1>3, <1>4, Numbering
<1>6. Events(s) \in SUBSET rows[s]
  BY DEF Events
<1>7. IsFiniteSet(Events(s))
  BY <1>5, <1>6, FS_Subset
<1>. QED
  BY <1>1, <1>6, <1>7

LEMMA PairsFollow ==
  ASSUME TypeOK, Numbers, Paired
  PROVE  PairsTogether
<1>1. PICK f : Pairing(f)
  BY DEF Paired
<1>2. PICK A, B : A = Events("run") /\ B = Events("thread")
  OBVIOUS
<1>3. /\ IsFiniteSet(A) /\ IsFiniteSet(B)
      /\ \A r \in A : r.seq \in Nat
      /\ \A r \in B : r.seq \in Nat
      /\ \A a, b \in A : a.seq = b.seq => a = b
      /\ \A a, b \in B : a.seq = b.seq => a = b
  BY <1>2, EventsFinite, FieldTypes
<1>4. /\ f \in [A -> B]
      /\ \A t \in B : \E r \in A : f[r] = t
      /\ \A r \in A : f[r].what = r.what
      /\ \A a, b \in A : a.seq < b.seq => f[a].seq < f[b].seq
  BY <1>1, <1>2 DEF Pairing
<1>5. \A a, b \in A : f[a].seq < f[b].seq => a.seq < b.seq
  <2> SUFFICES ASSUME NEW a \in A, NEW b \in A, f[a].seq < f[b].seq, ~(a.seq < b.seq)
               PROVE  FALSE
    OBVIOUS
  <2>1. a.seq \in Nat /\ b.seq \in Nat /\ f[a].seq \in Nat /\ f[b].seq \in Nat
    BY <1>3, <1>4
  <2>2. b.seq < a.seq \/ a = b
    BY <2>1, <1>3
  <2>. QED
    BY <2>1, <2>2, <1>4
<1>6. \A a, b \in A : f[a] = f[b] => a = b
  <2> SUFFICES ASSUME NEW a \in A, NEW b \in A, f[a] = f[b], a # b PROVE FALSE
    OBVIOUS
  <2>1. a.seq < b.seq \/ b.seq < a.seq
    BY <1>3
  <2>2. f[a].seq \in Nat
    BY <1>3, <1>4
  <2>. QED
    BY <2>1, <2>2, <1>4
<1>7. Cardinality(B) = Cardinality(A)
  <2>1. f \in Bijection(A, B)
    BY <1>4, <1>6 DEF Bijection, Injection, Surjection, IsInjective
  <2>. QED
    BY <2>1, <1>3, FS_Bijection DEF ExistsBijection
<1>8. ASSUME NEW r \in A PROVE Cardinality(Below(B, f[r])) = Cardinality(Below(A, r))
  <2>. DEFINE L == Below(A, r)
              M == Below(B, f[r])
              g == [t \in L |-> f[t]]
  <2>1. L \in SUBSET A /\ \A t \in A : t \in L <=> t.seq < r.seq
    BY DEF Below
  <2>2. \A u : u \in M <=> u \in B /\ u.seq < f[r].seq
    BY DEF Below
  <2>. HIDE DEF L, M
  <2>3. g \in [L -> M]
    BY <2>1, <2>2, <1>4
  <2>4. \A a, b \in L : g[a] = g[b] => a = b
    BY <2>1, <1>6
  <2>5. \A u \in M : \E t \in L : g[t] = u
    <3> SUFFICES ASSUME NEW u \in M PROVE \E t \in L : g[t] = u
      OBVIOUS
    <3>1. u \in B /\ u.seq < f[r].seq
      BY <2>2
    <3>2. PICK t \in A : f[t] = u
      BY <3>1, <1>4
    <3>. QED
      BY <3>1, <3>2, <2>1, <1>5
  <2>6. g \in Bijection(L, M)
    BY <2>3, <2>4, <2>5 DEF Bijection, Injection, Surjection, IsInjective
  <2>7. IsFiniteSet(L)
    BY <2>1, <1>3, FS_Subset
  <2>. QED
    BY <2>6, <2>7, FS_Bijection DEF ExistsBijection, L, M
<1>9. PICK n \in Nat : n = Cardinality(A)
  BY <1>3, FS_CardinalityType
<1>10. PICK p, q : p = InOrder(A) /\ q = InOrder(B)
  OBVIOUS
<1>11. /\ DOMAIN p = 1 .. n /\ DOMAIN q = 1 .. n
       /\ \A i \in 1 .. n : p[i] \in A /\ Cardinality(Below(A, p[i])) = i - 1
       /\ \A i \in 1 .. n : q[i] \in B /\ Cardinality(Below(B, q[i])) = i - 1
       /\ \A a, b \in B : Cardinality(Below(B, a)) = Cardinality(Below(B, b)) => a = b
  <2>1. /\ DOMAIN p = 1 .. n
        /\ \A i \in 1 .. n : p[i] \in A /\ Cardinality(Below(A, p[i])) = i - 1
    BY <1>3, <1>9, <1>10, Ranks
  <2>2. /\ DOMAIN q = 1 .. n
        /\ \A i \in 1 .. n : q[i] \in B /\ Cardinality(Below(B, q[i])) = i - 1
        /\ \A a, b \in B : Cardinality(Below(B, a)) = Cardinality(Below(B, b)) => a = b
    BY <1>3, <1>7, <1>9, <1>10, Ranks
  <2>. QED
    BY <2>1, <2>2
<1>12. ASSUME NEW i \in 1 .. n PROVE q[i].what = p[i].what
  <2>1. f[p[i]] \in B /\ f[p[i]].what = p[i].what
    BY <1>4, <1>11
  <2>2. Cardinality(Below(B, f[p[i]])) = Cardinality(Below(B, q[i]))
    BY <1>8, <1>11
  <2>3. f[p[i]] = q[i]
    BY <2>1, <2>2, <1>11
  <2>. QED
    BY <2>1, <2>3
<1>13. Pairs("run") = [i \in DOMAIN p |-> p[i].what]
  BY <1>2, <1>10 DEF Pairs, Events
<1>14. Pairs("thread") = [i \in DOMAIN q |-> q[i].what]
  BY <1>2, <1>10 DEF Pairs, Events
<1>. QED
  BY <1>11, <1>12, <1>13, <1>14 DEF PairsTogether

-----------------------------------------------------------------------------
(* The theorems.                                                           *)

LEMMA InvTold ==
  ASSUME StreamsInv
  PROVE  TypeOK /\ ReaderTold
<1>1. TypeOK /\ Numbers /\ Repeats /\ Ended /\ Follows /\ Paired
  BY DEF StreamsInv
<1>2. ReaderExact
  BY <1>1 DEF Follows, ReaderExact
<1>3. ReaderSawEnd
  BY <1>1 DEF Follows, HasEnd, ReaderSawEnd
<1>4. TwiceOnlyIfCut
  BY <1>1 DEF Repeats, TwiceOnlyIfCut
<1>5. DrainedBeforeEnd
  BY <1>1 DEF Ended, Told, DrainedBeforeEnd
<1>6. PairsTogether
  BY <1>1, PairsFollow
<1>. QED
  BY <1>1, <1>2, <1>3, <1>4, <1>5, <1>6 DEF ReaderTold

\* Every state of the streams has the inductive invariant: the numbers of a stream have no gap
\* under concurrent transactions, what the buffers hold and what is stored make up what was
\* emitted, and both streams tell the same pairs.
THEOREM StreamsInvariant == Spec => []StreamsInv
<1>1. StreamsInv /\ [Next]_vars => StreamsInv'
  BY InvStep
<1>. QED
  BY InvInit, <1>1, PTL DEF Spec

\* The tables, the counters, the transactions, the buffers and the reader keep their types
\* through every interleaving of executions, cancellations, crashes and lapsed leases.
THEOREM StreamsTyped == Spec => []TypeOK
<1>1. StreamsInv => TypeOK
  BY InvTold
<1>. QED
  BY StreamsInvariant, <1>1, PTL

\* A client of stream_run_events or stream_thread_events receives every record after its
\* starting point, in order, each once, through the end of the run; a record is repeated only
\* when its execution did not learn that it had committed it, since the answer was lost or the
\* graph was cancelled first; a run that succeeded has told every event, and both streams
\* tell the same pairs in the same order.
THEOREM StreamsTold == Spec => []ReaderTold
<1>1. StreamsInv => ReaderTold
  BY InvTold
<1>. QED
  BY StreamsInvariant, <1>1, PTL
=============================================================================
