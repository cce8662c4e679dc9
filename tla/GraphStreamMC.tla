---------------------------- MODULE GraphStreamMC ----------------------------
(* The instance of GraphStream that TLC checks.                              *)
EXTENDS GraphStream

CONSTANTS c1, c2, t1, t2, a

\* A request and a graph: the executor's path, what the client asked for, how the two calls
\* are named and in which namespaces they run.
Case(events, asked, s1, s2, apart, named) ==
  [events |-> events, messages |-> TRUE, tuples |-> "tuples" \in asked, updates |-> "updates" \in asked,
   values |-> "values" \in asked,
   source |-> (c1 :> s1) @@ (c2 :> s2),
   ns |-> (c1 :> 1) @@ (c2 :> IF apart THEN 2 ELSE 1),
   named |-> named]

MCScenes ==
  { Case(FALSE, {"tuples"}, "observed", "observed", FALSE, FALSE),
    Case(FALSE, {"tuples", "values"}, "given", "adapter", FALSE, TRUE),
    Case(FALSE, {"updates"}, "observed", "bare", TRUE, TRUE),
    Case(TRUE, {"tuples"}, "given", "given", FALSE, TRUE),
    Case(TRUE, {"values", "updates"}, "observed", "given", TRUE, FALSE),
    [Case(FALSE, {"values"}, "given", "given", FALSE, TRUE) EXCEPT !.messages = FALSE] }
=============================================================================
