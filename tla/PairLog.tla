------------------------------ MODULE PairLog ------------------------------
(***************************************************************************)
(* What the service promises about the protocol events of a run: an event  *)
(* that was accepted goes to the run's log, then to the thread's log, once *)
(* to each; and when a log tells the end of a generation, every event that *)
(* generation had accepted is in both logs already.  The run's log goes    *)
(* with the run and does not come back.                                    *)
(***************************************************************************)
EXTENDS Naturals, Sequences

CONSTANTS
  Ops,          (* events, by the operation id they are published under    *)
  End,          (* what stands in a log for the end of a generation        *)
  MaxGen        (* bound: generations of the run                           *)

VARIABLES
  accepted,     (* the generation an event was accepted in, or 0           *)
  logs,         (* what readers of the two logs can see, in order          *)
  gone          (* the run's log was erased                                *)

vars == <<accepted, logs, gone>>

Scopes == {"run", "thread"}

Item == [op : Ops \cup {End}, gen : 1 .. MaxGen]

In(log, op, g) == \E i \in DOMAIN log : log[i] = [op |-> op, gen |-> g]

TypeOK ==
  /\ accepted \in [Ops -> 0 .. MaxGen]
  /\ logs \in [Scopes -> Seq(Item)]
  /\ gone \in BOOLEAN

Init ==
  /\ accepted = [op \in Ops |-> 0]
  /\ logs = [s \in Scopes |-> <<>>]
  /\ gone = FALSE

Accept(op) ==
  /\ accepted[op] = 0
  /\ accepted' \in {[accepted EXCEPT ![op] = g] : g \in 1 .. MaxGen}
  /\ UNCHANGED <<logs, gone>>

Put(op, s) ==
  LET g == accepted[op] IN
  /\ g # 0
  /\ ~gone
  /\ ~In(logs[s], op, g) /\ ~In(logs[s], End, g)
  /\ s = "thread" => In(logs["run"], op, g)
  /\ logs' = [logs EXCEPT ![s] = Append(@, [op |-> op, gen |-> g])]
  /\ UNCHANGED <<accepted, gone>>

Complete(g) ==
  \A op \in Ops : accepted[op] = g => \A s \in Scopes : In(logs[s], op, g)

WithEnd(g, s) ==
  IF In(logs[s], End, g) THEN logs[s] ELSE Append(logs[s], [op |-> End, gen |-> g])

\* To the run's log first; a delivery that fails may leave it at that.
PutEnd(g) ==
  /\ ~gone
  /\ Complete(g)
  /\ logs' \in {[logs EXCEPT !["run"] = WithEnd(g, "run")],
               [s \in Scopes |-> WithEnd(g, s)]}
  /\ UNCHANGED <<accepted, gone>>

Erase ==
  /\ ~gone /\ gone' = TRUE
  /\ logs' = [logs EXCEPT !["run"] = <<>>]
  /\ UNCHANGED accepted

Next ==
  \/ \E op \in Ops : Accept(op) \/ (\E s \in Scopes : Put(op, s))
  \/ \E g \in 1 .. MaxGen : PutEnd(g)
  \/ Erase

Spec == Init /\ [][Next]_vars
=============================================================================
