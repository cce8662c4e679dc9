----------------------------- MODULE GraphStream -----------------------------
(* What one execution of a graph publishes while it streams                  *)
(* (run_executor.execute_run, message_identity, the publishers of            *)
(* thread_protocol).  The graph hands over chunks of the messages its models *)
(* write, whole messages, updates and states, in any order its concurrent    *)
(* calls produce; every item is handled before the next one is asked for, so *)
(* an action appends all the events of an item to the log.  An execution that*)
(* is cut off inside an item leaves a prefix of them: the properties read the*)
(* log entry by entry and ask nothing more of an execution that failed.      *)
EXTENDS Naturals, Sequences, FiniteSets, SequencesExt

CONSTANTS
  Calls,      \* the invocations of models the graph makes
  Tools,      \* the messages its nodes return themselves (tool, human, system)
  Texts,      \* what one chunk of text may say
  Scenes,     \* what the request asks for and how the graph names its messages
  MaxChunks,  \* bound: the chunks of one call
  MaxItems,   \* bound: the items the graph streams
  MaxSteps    \* bound: the super-steps of the graph

ASSUME CallsAssumption == IsFiniteSet(Calls) /\ IsFiniteSet(Tools) /\ Calls \cap Tools = {}
ASSUME BoundsAssumption == MaxChunks \in Nat /\ MaxItems \in Nat /\ MaxSteps \in Nat

None == <<>>

VARIABLES
  scene,      \* the request and the graph, chosen once
  graph,      \* the graph: what its models said, which ended, its state
  stream,     \* what execute_run holds of messages, and the log it published
  interrupt,  \* interrupt_chunk: the interrupts of the last update that had any
  shown,      \* _emitted_values_via_stream
  result,     \* what the final state turned out to be: "unread", "none", "other" or "mapping"
  phase       \* "streaming", "done" or "failed"

vars == <<scene, graph, stream, interrupt, shown, result, phase>>

(***************************************************************************)
(* The messages of a graph                                                 *)
(***************************************************************************)

\* A message as far as clients tell: its text and how many pieces of a tool call it has.
Silent == [text |-> <<>>, tool |-> 0]

Add(a, b) == [text |-> a.text \o b.text, tool |-> a.tool + b.tool]

\* What one chunk may carry.
Pieces ==
  {[text |-> <<t>>, tool |-> n] : t \in Texts, n \in {0, 1}} \cup {[text |-> <<>>, tool |-> 1]}

\* The blocks of a message in the protocol, numbered from 0: the text first.
Blocks(content) ==
  (IF content.text = <<>> THEN <<>> ELSE <<"text">>) \o (IF content.tool = 0 THEN <<>> ELSE <<"tool">>)

\* The id a provider gave the messages of call c, if it does, and whether the callback sees them.
Given(c) == IF scene.source[c] = "given" THEN <<"provider", c>> ELSE None
Observed(c) == scene.source[c] \in {"given", "observed"}

\* A message of call c as it is handed over: the id it carries, what the callback saw of the call
\* before LangGraph stamped it, and the invocation that its event or metadata names.  LangGraph's
\* own handler stamps a fresh id on a message without one, after the callback saw it; a custom
\* graph may name the call in the metadata instead, or name nothing.
Spoken(c, content, whole, observed, run, index) ==
  [of |-> c, role |-> "ai", content |-> content, whole |-> whole, index |-> index, ns |-> scene.ns[c],
   id |-> IF scene.source[c] = "observed" /\ ~scene.events THEN <<"stamp", c, graph.items>> ELSE Given(c),
   observed |-> observed, given |-> Given(c), run |-> run,
   metadata |-> IF scene.source[c] = "adapter" THEN <<"call", c>> ELSE None]

\* As the model streams it: with astream_events every event names its run.
Streamed(c, content, whole) ==
  Spoken(c, content, whole, Observed(c), IF scene.events THEN <<"call", c>> ELSE None, 0)

\* A message a node returned: with an id of its own, with the stamp of LangGraph's handler
\* (when messages are asked for), or without any.
Returned(t, run, index) ==
  [of |-> t, role |-> "tool", content |-> [text |-> <<t>>, tool |-> 0], whole |-> TRUE, index |-> index, ns |-> None,
   id |-> IF scene.named \/ ~scene.events THEN <<"own", t>> ELSE None,
   observed |-> FALSE, given |-> None, run |-> run, metadata |-> None]

(***************************************************************************)
(* Identities                                                              *)
(***************************************************************************)

\* Mutant: the invocation is read off the event and the message, the callback is not asked.
InvocationUnobserved(m) ==
  IF m.run # None THEN m.run
  ELSE IF m.metadata # None THEN m.metadata
  ELSE IF m.id # None THEN <<"id", m.id>>
  ELSE None

\* MessageIdentityTracker.resolve is told the invocation the callback observed, else the one of
\* the event or the update, else the one in the metadata, else the message's own id.
Invocation(m) ==
  IF m.observed THEN <<"call", m.of>>
  ELSE IF m.run # None THEN m.run
  ELSE IF m.metadata # None THEN m.metadata
  ELSE IF m.id # None THEN <<"id", m.id>>
  ELSE None

ProviderId(m) == IF m.observed THEN m.given ELSE m.id

\* An id-less message that no callback, event or metadata ties to an invocation is refused.
Nameless(m) == Invocation(m) = None

Key(m) == <<Invocation(m), m.ns, m.index>>

\* The first message of an invocation, namespace and position decides the id of all.
Resolve(identities, m) ==
  IF Key(m) \in DOMAIN identities THEN identities[Key(m)]
  ELSE IF ProviderId(m) # None THEN ProviderId(m)
  ELSE <<"derived", Key(m)>>

(***************************************************************************)
(* Blocks of the protocol stream.  The state of one open message is        *)
(* [id, of, role, blocks, last]: the indices of its open blocks, the text  *)
(* it published last.  A log entry names its message; on the wire only     *)
(* message-start does, and blocks are told apart by namespace.             *)
(***************************************************************************)

Entry(event, o) == [event |-> event, id |-> o.id, of |-> o.of]

Finished(o) == Entry("message-finish", o)

BlockEntry(event, o, i) == [event |-> event, id |-> o.id, of |-> o.of, index |-> i]

\* The writer of one message's blocks: the message and what it appends to the log.
Wrote(w, entry) == [w EXCEPT !.log = Append(@, entry)]

\* Mutant: a finished block stays among the open ones.
FinishBlockKept(w, i) == [w EXCEPT !.log = Append(@, BlockEntry("block-finish", w.open, i))]

FinishBlock(w, i) ==
  [open |-> [w.open EXCEPT !.blocks = @ \ {i}],
   log  |-> Append(w.log, BlockEntry("block-finish", w.open, i))]

\* afinish_blocks closes the open blocks below an index, in order.
FinishBefore(w, i) ==
  LET Below[j \in 0..i] ==
        IF j = 0 THEN w
        ELSE IF j - 1 \in Below[j - 1].open.blocks THEN FinishBlock(Below[j - 1], j - 1)
        ELSE Below[j - 1]
  IN  Below[i]

StartBlock(w, i) ==
  IF i \in w.open.blocks THEN w
  ELSE [open |-> [w.open EXCEPT !.blocks = @ \cup {i}],
        log  |-> Append(w.log, BlockEntry("block-start", w.open, i))]

\* apublish_text_block: what follows the text published last, all of it if it goes on
\* differently, nothing if it is the same.
TextBlock(w, i, text) ==
  IF text = w.open.last THEN StartBlock(w, i)
  ELSE LET started == StartBlock(w, i) IN
       [open |-> [started.open EXCEPT !.last = text],
        log  |-> Append(started.log, BlockEntry("block-delta", w.open, i))]

\* apublish_nontext_block: the first piece opens the block, later ones are deltas; a final
\* piece closes it.
NontextBlock(w, i, final) ==
  LET told == IF i \in w.open.blocks THEN Wrote(w, BlockEntry("block-delta", w.open, i)) ELSE StartBlock(w, i)
  IN  IF final THEN FinishBlock(told, i) ELSE told

\* The blocks of a message, the text before the tool call, each after the open ones below it
\* are finished.
PublishBlocks(w, content, final) ==
  LET told == IF content.text = <<>> THEN w ELSE TextBlock(w, 0, content.text)
      tool == Len(Blocks(content)) - 1
  IN  IF content.tool = 0 THEN told ELSE NontextBlock(FinishBefore(told, tool), tool, final)

\* What execute_run holds, with more events in the log, or with other open messages and another log.
Tell(s, events) == [s EXCEPT !.log = @ \o events]
Put(s, open, log) == [s EXCEPT !.open = open, !.log = log]

\* Where a list that holds a message once has it, or 0.
Position(list, id) ==
  IF \E i \in DOMAIN list : list[i].id = id THEN CHOOSE i \in DOMAIN list : list[i].id = id ELSE 0

\* apublish_blocks: the first piece of a message opens it.
Open(s, m, id) ==
  LET at    == Position(s.open, id)
      fresh == [id |-> id, of |-> m.of, role |-> m.role, blocks |-> {}, last |-> <<>>]
      w     == IF at # 0 THEN PublishBlocks([open |-> s.open[at], log |-> s.log], m.content, FALSE)
               ELSE PublishBlocks([open |-> fresh, log |-> Append(s.log, Entry("message-start", fresh))],
                                  m.content, FALSE)
  IN  Put(s, IF at # 0 THEN [s.open EXCEPT ![at] = w.open] ELSE Append(s.open, w.open), w.log)

(***************************************************************************)
(* The messages of the SDK's stream                                        *)
(***************************************************************************)

Sdk(event, id, m, content) == [event |-> event, id |-> id, of |-> m.of, content |-> content, whole |-> m.whole]

\* Mutant: a whole message is added to its own chunks.
AccumulateWhole(parts, at, m) == IF at = 0 THEN m.content ELSE Add(parts[at].content, m.content)

\* A whole message replaces what was accumulated, a chunk is added to it.
Accumulate(parts, at, m) == IF at = 0 \/ m.whole THEN m.content ELSE Add(parts[at].content, m.content)

\* The events of a piece of a model's message: a tuple with the piece, a partial with all so far.
Partial(s, m, id) ==
  LET at    == Position(s.parts, id)
      part  == [id |-> id, of |-> m.of, content |-> Accumulate(s.parts, at, m)]
      tuple == IF scene.tuples THEN <<Sdk("tuple", id, m, m.content)>> ELSE <<>>
  IN  Tell([s EXCEPT !.parts = IF at = 0 THEN Append(@, part) ELSE [@ EXCEPT ![at] = part]],
           tuple \o <<Sdk("partial", id, m, part.content)>>)

\* A message of a node is complete when it is seen first, and told no second time.
Complete(s, m, id, first) ==
  IF ~first THEN s
  ELSE Tell(s, <<Sdk("complete", id, m, m.content)>>
               \o (IF scene.tuples THEN <<Sdk("tuple", id, m, m.content)>> ELSE <<>>))

\* Metadata goes before everything else of a message, once.
Metadata(s, m, id) ==
  IF id \in s.seen THEN s
  ELSE Tell([s EXCEPT !.seen = @ \cup {id}], <<Sdk("metadata", id, m, Silent)>>)

\* _handle_live_message.
Handle(s, m) ==
  LET id  == Resolve(s.identities, m)
      key == Key(m)
      s1  == [s EXCEPT !.identities = [k \in DOMAIN @ \cup {key} |-> IF k = key THEN id ELSE @[k]]]
      s2  == Metadata(Open(s1, m, id), m, id)
  IN  IF m.role = "ai" THEN Partial(s2, m, id) ELSE Complete(s2, m, id, id \notin s.seen)

\* The messages of a list, one after the other.
HandleAll(s, ms) ==
  LET After[n \in 0..Len(ms)] == IF n = 0 THEN s ELSE Handle(After[n - 1], ms[n])
  IN  After[Len(ms)]

(***************************************************************************)
(* The items of the graph                                                  *)
(***************************************************************************)

Init ==
  /\ scene \in Scenes
  /\ graph = [said |-> [c \in Calls |-> Silent], chunks |-> [c \in Calls |-> 0], ended |-> {}, taken |-> {},
              tools |-> {}, updated |-> {}, items |-> 0, step |-> 0, state |-> 0]
  /\ stream = [identities |-> <<>>, open |-> <<>>, parts |-> <<>>, seen |-> {}, log |-> <<>>]
  /\ interrupt = None
  /\ shown = FALSE
  /\ result = "unread"
  /\ phase = "streaming"

\* The graph streams another item.
Item == phase = "streaming" /\ graph.items < MaxItems

\* A message of the messages mode, or of a model's event: handled, or refused for want of a name.
Live(m) ==
  /\ IF Nameless(m) THEN phase' = "failed" /\ UNCHANGED stream
     ELSE stream' = Handle(stream, m) /\ UNCHANGED phase
  /\ UNCHANGED <<scene, interrupt, shown, result>>

\* A model says another piece.
Chunk(c, piece) ==
  /\ Item /\ scene.messages
  /\ c \notin graph.ended /\ graph.chunks[c] < MaxChunks
  /\ graph' = [graph EXCEPT !.said[c] = Add(@, piece), !.chunks[c] = @ + 1, !.items = @ + 1]
  /\ Live(Streamed(c, piece, FALSE))

\* A model's whole message comes in the messages mode: of one that did not stream, or of one
\* whose chunks had no id LangGraph could know it by.
Whole(c, piece) ==
  /\ Item /\ scene.messages /\ ~scene.events
  /\ c \notin graph.ended
  /\ IF graph.chunks[c] = 0 THEN piece # Silent ELSE piece = Silent /\ scene.source[c] # "given"
  /\ LET content == Add(graph.said[c], piece) IN
       /\ graph' = [graph EXCEPT !.said[c] = content, !.ended = @ \cup {c}, !.items = @ + 1]
       /\ Live(Streamed(c, content, TRUE))

\* The output of a node is passed on as an update, which it is not yet, when updates were asked for.
Echoed(s) ==
  IF scene.events /\ scene.updates THEN Tell(s, <<[event |-> "updates", items |-> None]>>) ELSE s

\* With astream_events the output of a node, and of each chain around it, holds the whole
\* messages once more, at their place in a list.  The callback's note of one is used up the
\* first time.
InOutput(c, i) ==
  Spoken(c, graph.said[c], TRUE, Observed(c) /\ c \notin graph.taken, <<"chain", graph.items>>, i - 1)

Output(cs) ==
  /\ Item /\ scene.events
  /\ \A i \in DOMAIN cs : graph.said[cs[i]] # Silent
  /\ stream' = Echoed(HandleAll(stream, [i \in DOMAIN cs |-> InOutput(cs[i], i)]))
  /\ graph' = [graph EXCEPT !.ended = @ \cup Range(cs), !.taken = @ \cup Range(cs), !.items = @ + 1]
  /\ UNCHANGED <<scene, interrupt, shown, result, phase>>

\* A message that a node made itself comes with the messages, before the update that holds it.
NodeMessage(t) ==
  /\ Item /\ scene.messages
  /\ t \notin graph.tools
  /\ graph' = [graph EXCEPT !.tools = @ \cup {t}, !.items = @ + 1]
  /\ stream' = Echoed(Handle(stream, Returned(t, IF scene.events THEN <<"chain", graph.items>> ELSE None, 0)))
  /\ UNCHANGED <<scene, interrupt, shown, result, phase>>

\* Mutant: an update without interrupts makes the executor forget those it was told of.
NotedLast(items) == items

\* The interrupts to announce at the end: those of the last update that had any.
Noted(items) == IF items # None THEN items ELSE interrupt

\* _publish_complete_messages_from_update: the messages nodes made are handled like live ones, under
\* an invocation of this update's own.
InUpdate(t, i) == Returned(t, <<"update", graph.items>>, i - 1)

FromUpdate(s, ts) == HandleAll(s, [i \in DOMAIN ts |-> InUpdate(ts[i], i)])

\* Updates are always requested of the graph.  They are forwarded when the client asked for
\* them, or when they interrupt, as a value then.
Forwarded(items) ==
  IF scene.updates THEN <<[event |-> "updates", items |-> items]>>
  ELSE IF items # None THEN <<[event |-> "interrupted", items |-> items]>>
  ELSE <<>>

\* A super-step ends.  Its update holds messages of nodes and perhaps interrupts.
Update(ts, items) ==
  /\ Item
  /\ graph.step < MaxSteps
  /\ scene.values => graph.state = graph.step
  /\ Range(ts) \cap graph.updated = {}
  /\ scene.messages => Range(ts) \subseteq graph.tools
  /\ stream' = Tell(FromUpdate(stream, ts), Forwarded(items))
  /\ interrupt' = Noted(items)
  /\ graph' = [graph EXCEPT !.updated = @ \cup Range(ts), !.step = @ + 1, !.items = @ + 1]
  /\ UNCHANGED <<scene, shown, result, phase>>

Shown(step) == [event |-> "values", step |-> step]

\* The state after a super-step, when the client asked for values, is the next item.
Values ==
  /\ Item /\ scene.values /\ graph.state < graph.step
  /\ graph' = [graph EXCEPT !.state = @ + 1, !.items = @ + 1]
  /\ stream' = Tell(stream, <<Shown(graph.state + 1)>>)
  /\ shown' = TRUE
  /\ UNCHANGED <<scene, interrupt, result, phase>>

(***************************************************************************)
(* The end of the stream                                                   *)
(***************************************************************************)

\* Every message that was accumulated is told complete, in the order the messages began.
CompleteAll(s) ==
  Tell(s, [i \in DOMAIN s.parts |->
     [event |-> "complete", id |-> s.parts[i].id, of |-> s.parts[i].of, content |-> s.parts[i].content,
      whole |-> TRUE]])

\* A message of the result that was never live, published with all its blocks.
Transcript(log, c, nth) ==
  LET o      == [id |-> <<"transcript", nth>>, of |-> c]
      Block  == <<BlockEntry("block-start", o, 0), BlockEntry("block-finish", o, 0)>>
      Second == <<BlockEntry("block-start", o, 1), BlockEntry("block-finish", o, 1)>>
      blocks == Len(Blocks(graph.said[c]))
  IN  log \o <<Entry("message-start", o)>> \o (IF blocks > 0 THEN Block ELSE <<>>)
          \o (IF blocks > 1 THEN Second ELSE <<>>) \o <<Finished(o)>>

\* How many of the open messages, from the last, pair with the messages of the result, from the
\* last: while they are a model's.
Paired(s, cs) ==
  LET Same(n) == n <= Len(s.open) /\ n <= Len(cs)
                 /\ \A k \in 0..(n - 1) : s.open[Len(s.open) - k].role = "ai"
  IN  CHOOSE n \in 0..Len(cs) : Same(n) /\ \A k \in (n + 1)..Len(cs) : ~Same(k)

\* An open message gets the blocks of the result, as final ones.
Completed(s, at, content) ==
  LET w == PublishBlocks([open |-> s.open[at], log |-> s.log], content, TRUE)
  IN  Put(s, [s.open EXCEPT ![at] = w.open], w.log)

\* amerge_final_messages: the paired messages are completed; if none is paired the result is
\* published as messages of their own.
Merge(s, cs) ==
  LET n == Paired(s, cs)
      After[k \in 0..n] ==
        IF k = 0 THEN s
        ELSE Completed(After[k - 1], Len(s.open) - n + k, graph.said[cs[Len(cs) - n + k]])
      Listed[k \in 0..Len(cs)] ==
        IF k = 0 THEN s.log ELSE Transcript(Listed[k - 1], cs[k], Len(s.open) + k - 1)
  IN  IF n > 0 THEN After[n] ELSE Put(s, s.open, Listed[Len(cs)])

Close(log, o) == Append(FinishBefore([open |-> o, log |-> log], 2).log, Finished(o))

AllClosed(s) ==
  LET After[k \in 0..Len(s.open)] == IF k = 0 THEN s.log ELSE Close(After[k - 1], s.open[k])
  IN  After[Len(s.open)]

\* Mutant: the messages are closed without being forgotten.
FinishAllKept(s) == Put(s, s.open, AllClosed(s))

\* afinish_all closes the open messages, the oldest first.
FinishAll(s) == Put(s, <<>>, AllClosed(s))

\* _finalize_stream.  Only a result that is a mapping closes the protocol's messages, and only
\* messages whose type is the name of a class are found in it.
Finalize(s, final, cs) ==
  LET done   == CompleteAll(s)
      closed == FinishAll(Merge(done, cs))
  IN  IF final = "none" THEN s
      ELSE IF final = "other" THEN done
      ELSE Tell(closed, IF shown THEN <<>> ELSE <<Shown(graph.step)>>)

\* The calls whose messages the final state holds as mappings of that kind, in some order.
Named == {cs \in SeqOf(Calls, Cardinality(Calls)) :
            /\ Cardinality(Range(cs)) = Len(cs)
            /\ \A i \in DOMAIN cs : graph.said[cs[i]] # Silent}

Requested(items) == [i \in DOMAIN items |-> [event |-> "input-requested", item |-> items[i]]]

\* The graph ends: the final state is read (it may be missing or no mapping), the stream is
\* closed and the interrupts are announced.  The output is stored after that; if it cannot be, the
\* execution fails though its clients have been told everything.
End(final, cs) ==
  /\ phase = "streaming"
  /\ scene.values => graph.state = graph.step
  /\ shown /\ ~scene.events => final = "mapping"
  /\ cs # <<>> => final = "mapping"
  /\ stream' = Tell(Finalize(stream, final, cs), Requested(interrupt))
  /\ result' = final
  /\ phase' = "done"
  /\ UNCHANGED <<scene, graph, interrupt, shown>>

\* The graph raises, an event cannot be published, or the execution is cancelled.
Break ==
  /\ phase = "streaming"
  /\ phase' = "failed"
  /\ UNCHANGED <<scene, graph, stream, interrupt, shown, result>>

Next ==
  \/ \E c \in Calls, piece \in Pieces : Chunk(c, piece)
  \/ \E c \in Calls, piece \in Pieces \cup {Silent} : Whole(c, piece)
  \/ \E cs \in SeqOf(Calls, Cardinality(Calls)) : cs # <<>> /\ Cardinality(Range(cs)) = Len(cs) /\ Output(cs)
  \/ \E t \in Tools : NodeMessage(t)
  \/ \E ts \in SeqOf(Tools, 2), items \in {<<>>, <<1>>, <<1, 2>>} : Cardinality(Range(ts)) = Len(ts) /\ Update(ts, items)
  \/ Values
  \/ \E final \in {"none", "other", "mapping"} : \E cs \in Named : End(final, cs)
  \/ Break

Spec == Init /\ [][Next]_vars

(***************************************************************************)
(* Properties                                                              *)
(***************************************************************************)

SdkEvents == {"metadata", "tuple", "partial", "complete"}
ProtocolEvents == {"message-start", "block-start", "block-delta", "block-finish", "message-finish"}

\* Where the log tells of one message.
Told(l, id, events) == {n \in DOMAIN l : l[n].event \in events /\ l[n].id = id}

Ids(l, events) == {l[n].id : n \in {k \in DOMAIN l : l[k].event \in events}}

First(n, N) == \A k \in N : n <= k
Final(n, N) == \A k \in N : k <= n

Settled == result # "unread"

\* The types of the state; identities are handed out for messages that were begun, open blocks
\* are those a message can have, and after an end with a mapping none is left open.
TypeOK ==
  /\ scene \in Scenes
  /\ graph.items \in 0..MaxItems /\ graph.step \in 0..MaxSteps /\ graph.state \in 0..graph.step
  /\ \A c \in Calls : graph.chunks[c] \in 0..MaxChunks
  /\ graph.ended \subseteq Calls /\ graph.taken \subseteq graph.ended
  /\ graph.tools \subseteq Tools /\ graph.updated \subseteq Tools
  /\ Range(stream.identities) = stream.seen
  /\ \A i \in DOMAIN stream.open : stream.open[i].id \in stream.seen /\ stream.open[i].blocks \subseteq {0, 1}
  /\ \A i, j \in DOMAIN stream.open : stream.open[i].id = stream.open[j].id => i = j
  /\ {p.id : p \in Range(stream.parts)} \subseteq stream.seen
  /\ result = "mapping" => stream.open = <<>>
  /\ interrupt \in {None, <<1>>, <<1, 2>>}
  /\ shown \in BOOLEAN
  /\ result \in {"unread", "none", "other", "mapping"}
  /\ phase \in {"streaming", "done", "failed"}

\* What a client that reads tuples makes of them: chunks add up, a whole message replaces.
Assembled(l, id) ==
  LET Upto[n \in 0..Len(l)] ==
        IF n = 0 THEN Silent
        ELSE IF ~(l[n].event = "tuple" /\ l[n].id = id) THEN Upto[n - 1]
        ELSE IF l[n].whole THEN l[n].content
        ELSE Add(Upto[n - 1], l[n].content)
  IN  Upto[Len(l)]

\* The wire format of docs/durable-streaming.md:17-24.  Every message the client hears of begins
\* with its metadata; each partial holds all that its call had said so far, so that the
\* last one replaces the others; it is told complete at most once, as it was last partially,
\* with nothing after; the deltas of the tuples add up to the same; and when the execution
\* ends with any final state every message is complete.  (_handle_live_message, _finalize_stream)
SdkMessages ==
  LET log == stream.log IN
  \A id \in Ids(log, SdkEvents) :
    LET told     == Told(log, id, SdkEvents)
        partials == Told(log, id, {"partial"})
        complete == Told(log, id, {"complete"})
    IN  /\ \A n \in told : log[n].event = "metadata" <=> First(n, told)
        /\ \A m, n \in complete : m = n
        /\ \A p \in partials : Final(p, partials) =>
             /\ phase = "streaming" => log[p].content = graph.said[log[p].of]
             /\ scene.tuples => Assembled(log, id) = log[p].content
             /\ \A n \in complete : Final(n, told) /\ log[n].content = log[p].content
        /\ result \in {"other", "mapping"} => complete # {}

\* The id of a message is the source's, or comes of the callback's or metadata's note of its call.
KeepsId(of) ==
  (~scene.events \/ scene.named) /\ (of \in Calls /\ scene.events => scene.source[of] = "given")

\* Message ids are stable within an invocation and distinct between invocations, also of
\* concurrent calls in one node whose messages have no id (CHANGELOG.md:24, docs/durable-streaming.md:25):
\* an id never names two messages, and a message keeps its id from its first chunk through
\* its whole form, updates and outputs, where the source names it or astream is used.
\* (MessageIdentityTracker.resolve, ModelInvocationCallback.take)
OneIdentity ==
  LET log  == stream.log
      live == {n \in DOMAIN log : log[n].event \in SdkEvents \cup {"message-start"} /\ log[n].id[1] # "transcript"}
  IN  \A m, n \in live :
        /\ log[m].id = log[n].id => log[m].of = log[n].of
        /\ log[m].of = log[n].of /\ KeepsId(log[m].of) => log[m].id = log[n].id

\* Block i of a message is open after the first n entries: its last mark is a start.
Mark(l, k, id, i) == l[k].event \in {"block-start", "block-finish"} /\ l[k].id = id /\ l[k].index = i

OpenAt(l, id, i, n) ==
  \E k \in 1..n : /\ Mark(l, k, id, i) /\ l[k].event = "block-start"
                  /\ \A j \in (k + 1)..n : ~Mark(l, j, id, i)

\* The protocol's blocks of one message nest: it starts once, each block starts before its deltas
\* and finishes before it starts anew, all are finished before the message is, after which
\* nothing comes.
Nested(l, id) ==
  LET told == Told(l, id, ProtocolEvents) IN
  \A n \in told :
    /\ l[n].event = "message-start" <=> First(n, told)
    /\ l[n].event = "block-start" => ~OpenAt(l, id, l[n].index, n - 1)
    /\ l[n].event \in {"block-delta", "block-finish"} => OpenAt(l, id, l[n].index, n - 1)
    /\ l[n].event = "message-finish" => Final(n, told) /\ \A i \in {0, 1} : ~OpenAt(l, id, i, n)

\* The blocks of every message nest, and an execution that ends with a mapping leaves no
\* message unfinished.  (_ProtocolMessageStreamState, publish_message_transcript)
BlocksBalanced ==
  \A id \in Ids(stream.log, ProtocolEvents) :
    /\ Nested(stream.log, id)
    /\ result = "mapping" => Told(stream.log, id, {"message-finish"}) # {}

\* The interrupts of the last update that had any.
Paused(l) == {n \in DOMAIN l : l[n].event \in {"updates", "interrupted"} /\ l[n].items # None}

Asked(l) ==
  IF Paused(l) = {} THEN None ELSE l[CHOOSE n \in Paused(l) : Final(n, Paused(l))].items

Answers(l) == {n \in DOMAIN l : l[n].event = "values"}

\* What an execution leaves its client with when it ends: the final state as the last of its
\* values, though the client may not have asked for values, and, whatever it asked for, the
\* request for input of every interrupt of the last update that had any, after all messages.
\* (_handle_stream_mode, _finalize_stream, execute_run)
EndTellsAll ==
  LET log  == stream.log
      asks == Requested(Asked(log))
      rest == Len(log) - Len(asks)
  IN  Settled =>
        /\ result = "mapping" =>
             \E n \in Answers(log) : Final(n, Answers(log)) /\ log[n].step = graph.step
        /\ \A i \in DOMAIN asks : rest + i \in DOMAIN log /\ log[rest + i] = asks[i]
        /\ \A n \in DOMAIN log : log[n].event = "input-requested" => n > rest
=============================================================================
