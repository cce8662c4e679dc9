---------------------------- MODULE RedisRunsMC ----------------------------
(***************************************************************************)
(* Small instances of RedisRuns for TLC.                                   *)
(***************************************************************************)
EXTENDS RedisRuns, TLC

CONSTANTS t1

\* Every run belongs to the one thread, so runs compete for it.
OneThread == [r \in Runs |-> t1]

Symmetry ==
  Permutations(Requests) \cup Permutations(Workers) \cup Permutations(Slots)
    \cup Permutations(Runs)
=============================================================================
