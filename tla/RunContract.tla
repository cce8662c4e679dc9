---------------------------- MODULE RunContract ----------------------------
(***************************************************************************)
(* What the service promises about a run, whatever executes it: a run is   *)
(* open until one outcome is decided for it, a decided outcome is the one  *)
(* that the run's stream announces and that the run settles on, and only   *)
(* an interrupted run may be opened again, as a new generation.  A thread  *)
(* has at most one unsettled run.                                          *)
(***************************************************************************)
EXTENDS Naturals, FiniteSets

CONSTANTS
  Runs, Threads,
  ThreadOf,     (* the thread a run belongs to                             *)
  MaxGen        (* bound: generations of one run                           *)

VARIABLES
  phase,        (* where the run is in its life                            *)
  gen,          (* its generation                                          *)
  outcome,      (* the outcome decided for this generation                 *)
  told          (* the end records readers can see: <<generation, outcome>>*)

vars == <<phase, gen, outcome, told>>

Outcomes == {"success", "error", "interrupted"}

TypeOK ==
  /\ phase \in [Runs -> {"absent", "open", "decided", "settled", "deleted"}]
  /\ gen \in [Runs -> 0 .. MaxGen]
  /\ outcome \in [Runs -> Outcomes \cup {"none"}]
  /\ told \in [Runs -> SUBSET ((1 .. MaxGen) \X Outcomes)]

Init ==
  /\ phase = [r \in Runs |-> "absent"]
  /\ gen = [r \in Runs |-> 0]
  /\ outcome = [r \in Runs |-> "none"]
  /\ told = [r \in Runs |-> {}]

ThreadFree(r) ==
  \A x \in Runs : ThreadOf[x] = ThreadOf[r] => phase[x] \notin {"open", "decided"}

Open(r) ==
  /\ phase[r] = "absent" \/ (phase[r] = "settled" /\ outcome[r] = "interrupted")
  /\ gen[r] < MaxGen
  /\ ThreadFree(r)
  /\ phase' = [phase EXCEPT ![r] = "open"]
  /\ gen' = [gen EXCEPT ![r] = @ + 1]
  /\ outcome' = [outcome EXCEPT ![r] = "none"]
  /\ UNCHANGED told

Decide(r) ==
  /\ phase[r] = "open"
  /\ phase' = [phase EXCEPT ![r] = "decided"]
  /\ outcome' \in {[outcome EXCEPT ![r] = o] : o \in Outcomes}
  /\ UNCHANGED <<gen, told>>

\* The end record may be readable before the run's status is final.
Announce(r) ==
  /\ phase[r] = "decided"
  /\ told' = [told EXCEPT ![r] = @ \cup {<<gen[r], outcome[r]>>}]
  /\ phase' \in {phase, [phase EXCEPT ![r] = "settled"]}
  /\ UNCHANGED <<gen, outcome>>

Delete(r) ==
  /\ phase[r] \notin {"absent", "deleted"}
  /\ phase' = [phase EXCEPT ![r] = "deleted"]
  /\ gen' = [gen EXCEPT ![r] = 0]
  /\ outcome' = [outcome EXCEPT ![r] = "none"]
  /\ UNCHANGED told

\* The stream of a deleted run goes after the run.
Forget(r) ==
  /\ phase[r] = "deleted"
  /\ told' = [told EXCEPT ![r] = {}]
  /\ UNCHANGED <<phase, gen, outcome>>

Next == \E r \in Runs :
  Open(r) \/ Decide(r) \/ Announce(r) \/ Delete(r) \/ Forget(r)

Spec == Init /\ [][Next]_vars
=============================================================================
