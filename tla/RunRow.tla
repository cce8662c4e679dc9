------------------------------- MODULE RunRow -------------------------------
(***************************************************************************)
(* One row of the SQL table `runs` and what each transaction of            *)
(* services/run_dispatch.py, services/run_preparation.py and               *)
(* services/terminal_delivery.py does to it.  The module has no variables: *)
(* the Redis and the inline deployment both build their actions from it.   *)
(*                                                                         *)
(* A row's execution_id is a fresh uuid per generation; here a generation  *)
(* is its number.  `cmd` stands for dispatch_payload: the generation whose *)
(* input or resume value the stored payload carries.  `lease` abstracts    *)
(* execution_lease_until to unset, in the future, in the past.             *)
(* dispatch_state is left out: no branch of the code reads it except to    *)
(* overwrite it.                                                           *)
(***************************************************************************)
EXTENDS Naturals

CONSTANTS
  Owners,     (* execution owners: worker or task uuids                    *)
  NoOwner,    (* execution_owner IS NULL                                   *)
  MaxGen      (* bound: generations (submissions and resumes) of one run   *)

ASSUME OwnersAssumption == NoOwner \notin Owners
ASSUME MaxGenAssumption == MaxGen \in Nat \ {0}

Gens == 1 .. MaxGen

Terminal == {"success", "error", "interrupted"}

Active == {"pending", "running", "terminal_pending"}

Row == [status : {"absent", "deleted"} \cup Active \cup Terminal,
        gen    : 0 .. MaxGen,
        cmd    : 0 .. MaxGen,
        owner  : Owners \cup {NoOwner},
        lease  : {"none", "live", "lapsed"},
        result : Terminal \cup {"none"}]

\* What the queue and the dispatch intent carry: RunExecutionJob.
Job(r, g, c) == [run |-> r, gen |-> g, cmd |-> c]

NoRow(status) == [status |-> status, gen |-> 0, cmd |-> 0, owner |-> NoOwner,
                  lease |-> "none", result |-> "none"]

Exists(row) == row.status \notin {"absent", "deleted"}

\* register_dispatch for a new generation, together with the caller's
\* status = "pending".
NewGeneration(row) ==
  [status |-> "pending", gen |-> row.gen + 1, cmd |-> row.gen + 1,
   owner |-> NoOwner, lease |-> "none", result |-> "none"]

\* The same written over a row that was loaded as interrupted and changed since:
\* the flush sets what it changes, and the stored outcome if it had loaded one.
Reopened(row, loaded) ==
  [status |-> "pending", gen |-> row.gen + 1, cmd |-> row.gen + 1,
   owner |-> row.owner, lease |-> row.lease,
   result |-> IF loaded = "none" THEN row.result ELSE "none"]

\* fence_execution_writes, and the predicate of the heartbeat's renewal.
OwnsExecution(row, g, o) ==
  row.status = "running" /\ row.gen = g /\ row.owner = o

\* claim_execution answers "terminal_pending": this generation's outcome is
\* already stored.
OutcomeStored(row, g) ==
  /\ Exists(row)
  /\ row.gen = g
  /\ row.status \notin Terminal
  /\ row.status = "terminal_pending" \/ row.result # "none"

\* Mutant: the claim forgets that a stored outcome closes the generation.
ClaimableAfterOutcome(row, g, o, recovered) ==
  /\ row.gen = g
  /\ row.status \in Active
  /\ row.owner = NoOwner \/ (row.owner # o /\ (recovered \/ row.lease # "live"))

\* claim_execution answers "claimed": the run of this generation has no owner,
\* or another owner that a recovering claimer or a lapsed lease overrides.
\* Every other answer (deleted, stale, terminal, active) leaves the row alone.
Claimable(row, g, o, recovered) ==
  /\ row.gen = g
  /\ row.status \in {"pending", "running"}
  /\ row.result = "none"
  /\ \/ row.owner = NoOwner
     \/ row.owner # o /\ (recovered \/ row.lease # "live")

\* The row after a successful claim.
Claimed(row, o) ==
  [row EXCEPT !.status = "running", !.owner = o, !.lease = "live"]

\* finish_run stages the outcome of (g, o); any other row is left alone.
MayFinish(row, g, o) ==
  row.status \in {"pending", "running"} /\ row.gen = g /\ row.owner = o

\* Mutant: cancellation rewrites an outcome that is already stored.
MayCancelStored(row) == row.status \in Active

\* finish_run(cancel=True) adopts the row's generation and owner, so only the
\* status can refuse it.
MayCancel(row) == row.status \in {"pending", "running"}

\* The row waits for the delivery of generation g's outcome.
AwaitsDelivery(row, g) == row.status = "terminal_pending" /\ row.gen = g

\* Redis: the terminal intent is stored and the lease dropped.
Staged(row, outcome) ==
  [row EXCEPT !.status = "terminal_pending", !.result = outcome,
              !.lease = "none"]

\* _apply_result.
Applied(row, outcome) ==
  [row EXCEPT !.status = outcome, !.owner = NoOwner, !.lease = "none"]

\* Mutant: the run's status is copied to the thread.
ThreadStatusCopied(outcome) == outcome

\* The thread status an outcome leaves.
ThreadStatusOf(outcome) ==
  CASE outcome = "success"     -> "idle"
    [] outcome = "error"       -> "error"
    [] outcome = "interrupted" -> "interrupted"

\* Mutant: the query looks for abandoned executions only.
DueWhenAbandoned(row) == row.status = "running" /\ row.lease # "live"

\* reconcile_dispatches' query: an intent nobody has claimed, or an execution
\* whose lease is not alive.
Due(row) ==
  \/ row.status = "pending"
  \/ row.status = "running" /\ row.lease # "live"
=============================================================================
