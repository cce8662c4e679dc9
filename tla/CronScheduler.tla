--------------------------- MODULE CronScheduler ---------------------------
(***************************************************************************)
(* The cron scheduler (scheduler.py, services/cron_scheduler.py) and its   *)
(* webhooks (services/cron_webhooks.py).  A scheduler process holds a Redis *)
(* lock and repeats rounds: settle ticks whose run has ended and send       *)
(* their webhooks, claim due crons and stale ticks, dispatch each claim as  *)
(* a run, settle again.  Each action is one SQL transaction, one call to    *)
(* the webhook's server or one Redis command; the process may stop between  *)
(* any two.                                                                *)
(*                                                                         *)
(* A cron's next_run_at is abstracted to whether it is due, a tick's       *)
(* updated_at to whether it is stale.  The execution of runs is that of    *)
(* RedisRuns seen from here: a pending run starts some time and ends.      *)
(***************************************************************************)
EXTENDS Naturals, FiniteSets

CONSTANTS
  Crons,
  BoundTo,        (* cron -> its thread, or NoThread if it is stateless    *)
  Deletes,        (* stateless crons with on_run_completed = "delete"      *)
  Hooked,         (* crons with a webhook                                  *)
  MaxTicks,       (* bound: ticks are 1 .. MaxTicks                        *)
  Runs, Threads,  (* bounds: what may ever be created                      *)
  NoRun, NoThread,
  Schedulers, NoScheduler,
  Limit,          (* SCHEDULER_CLAIM_LIMIT                                 *)
  MaxAttempts,    (* max_webhook_attempts                                  *)
  Strict,         (* the database rejects a text longer than its column    *)
  MaxFaults,      (* bound: stops of a process and failed calls            *)
  MaxLosses,      (* bound: lock expiries under a live scheduler           *)
  MaxEdits        (* bound: changes by clients, crons that reach their end *)

ASSUME BindingAssumption == BoundTo \in [Crons -> Threads \cup {NoThread}]
ASSUME KindsAssumption == Deletes \subseteq Crons /\ Hooked \subseteq Crons
ASSUME NullsAssumption ==
  NoRun \notin Runs /\ NoThread \notin Threads /\ NoScheduler \notin Schedulers
ASSUME LimitsAssumption ==
  /\ Strict \in BOOLEAN
  /\ MaxTicks \in Nat /\ Limit \in Nat \ {0} /\ MaxAttempts \in Nat \ {0}
  /\ MaxFaults \in Nat /\ MaxLosses \in Nat /\ MaxEdits \in Nat

Ticks == 1 .. MaxTicks

VARIABLES
  cron,       (* cron_jobs                                                 *)
  tick,       (* cron_ticks                                                *)
  attempts,   (* cron_webhook_attempts: the last attempt number of a tick  *)
  run,        (* runs; long: last_error exceeds cron_ticks.skip_reason     *)
  thread,     (* threads: their status, or that they do not exist          *)
  lock,       (* the scheduler lock                                        *)
  sched,      (* the local state of each scheduler process                 *)
  posts,      (* history: statuses a tick's webhook was called with        *)
  faults, losses, edits

vars == <<cron, tick, attempts, run, thread, lock, sched, posts, faults, losses, edits>>

TerminalRun == {"success", "error", "interrupted"}

TerminalTick == TerminalRun \cup {"skipped"}

Claim == [tick : Ticks, thread : Threads \cup {NoThread}, run : Runs \cup {NoRun}]

Hook == [tick : Ticks, status : TerminalTick]

NoHook == [tick |-> 0, status |-> "none"]

NoClaim == [tick |-> 0, thread |-> NoThread, run |-> NoRun]

Idle(pc) == [pc |-> pc, second |-> FALSE, hooks |-> {}, hook |-> NoHook, n |-> 0,
             ok |-> FALSE, drop |-> {}, claims |-> {}, claim |-> NoClaim]

CronRow == [exists : BOOLEAN, enabled : BOOLEAN, due : BOOLEAN, ended : BOOLEAN]

TickRow == [status : {"free", "started", "queued"} \cup TerminalTick,
            cron   : Crons \cup {"none"},
            thread : Threads \cup {NoThread},
            run    : Runs \cup {NoRun},
            hook   : {"none", "delivering", "delivered", "failed"},
            stale  : BOOLEAN]

RunRow == [status : {"absent", "pending", "running", "deleted"} \cup TerminalRun,
           long : BOOLEAN, thread : Threads \cup {NoThread}, tick : 0 .. MaxTicks]

\* Where a scheduler is: between rounds, at a webhook, at a claim, elsewhere.
HookSteps == {"post", "attempt", "again", "result"}

ClaimSteps == {"create", "check", "prepare", "submit", "skip", "fail", "overlong"}

Steps == {"new", "gone", "rest", "scan", "hooks", "drop", "claim", "next"}
           \cup HookSteps \cup ClaimSteps

Local == [pc : Steps, second : BOOLEAN,
          hooks : SUBSET Hook, hook : Hook \cup {NoHook}, n : 0 .. MaxAttempts + 1, ok : BOOLEAN,
          drop : SUBSET Threads,
          claims : SUBSET Claim, claim : Claim \cup {NoClaim}]

TypeOK ==
  /\ cron \in [Crons -> CronRow]
  /\ tick \in [Ticks -> TickRow]
  /\ attempts \in [Ticks -> 0 .. MaxAttempts]
  /\ run \in [Runs -> RunRow]
  /\ thread \in [Threads -> {"absent", "open", "busy", "deleted"}]
  /\ lock \in Schedulers \cup {NoScheduler}
  /\ sched \in [Schedulers -> Local]
  /\ posts \in [Ticks -> [told : SUBSET TerminalTick, count : Nat]]
  /\ faults \in 0 .. MaxFaults
  /\ losses \in 0 .. MaxLosses
  /\ edits \in 0 .. MaxEdits

Init ==
  /\ cron = [c \in Crons |-> [exists |-> TRUE, enabled |-> TRUE, due |-> FALSE, ended |-> FALSE]]
  /\ tick = [t \in Ticks |-> [status |-> "free", cron |-> "none", thread |-> NoThread,
                              run |-> NoRun, hook |-> "none", stale |-> FALSE]]
  /\ attempts = [t \in Ticks |-> 0]
  /\ run = [r \in Runs |-> [status |-> "absent", long |-> FALSE, thread |-> NoThread,
                             tick |-> 0]]
  /\ thread = [th \in Threads |-> IF \E c \in Crons : BoundTo[c] = th THEN "open" ELSE "absent"]
  /\ lock = NoScheduler
  /\ sched = [s \in Schedulers |-> Idle("new")]
  /\ posts = [t \in Ticks |-> [told |-> {}, count |-> 0]]
  /\ faults = 0
  /\ losses = 0
  /\ edits = 0

-----------------------------------------------------------------------------
(* Building blocks.                                                        *)

\* ORDER BY scheduled_for, id LIMIT n: ticks are numbered in that order.
First(S, n) == {t \in S : Cardinality({u \in S : u < t}) < n}

Free == {t \in Ticks : tick[t].status = "free"}

Alive(t) == tick[t].status # "free" /\ cron[tick[t].cron].exists

Busy(th) == thread[th] = "busy"

\* _active_run_exists_query: a run of the thread is unfinished.
Active(th) == \E r \in Runs : run[r].thread = th /\ run[r].status \in {"pending", "running"}

Exists(th) == thread[th] \in {"open", "busy"}

Fault == faults < MaxFaults /\ faults' = faults + 1

\* Whether the text of an error is too long for the column of its tick.
TooLong == IF Strict THEN BOOLEAN ELSE {FALSE}

Edit == edits < MaxEdits /\ edits' = edits + 1

At(s, pc) == sched[s].pc = pc

Become(s, new) == sched' = [sched EXCEPT ![s] = new]

Goto(s, pc) == [sched[s] EXCEPT !.pc = pc]

\* run_scheduler's finally: the lock is released if it is still held.
Exit(s) ==
  /\ Become(s, Idle("gone"))
  /\ lock' = IF lock = s THEN NoScheduler ELSE lock

rows  == <<cron, tick, attempts, run, thread>>

-----------------------------------------------------------------------------
(* _reconcile_terminal_ticks.                                              *)

\* The ticks of its query whose cron still exists.
Selected ==
  {t \in Ticks :
     /\ Alive(t)
     /\ \/ tick[t].status = "queued"
        \/ /\ tick[t].status \in TerminalTick
           /\ tick[t].hook = "none" \/ (tick[t].hook = "delivering" /\ tick[t].stale)}

\* Mutant: a tick that has ended follows its run as well.
RunEndedAgain(t) ==
  tick[t].run # NoRun /\ run[tick[t].run].status \in TerminalRun

\* A queued tick takes the status of its run once that is terminal.
RunEnded(t) ==
  /\ tick[t].status = "queued"
  /\ tick[t].run # NoRun
  /\ run[tick[t].run].status \in TerminalRun

\* The error of a run is copied into the tick, whose column is shorter.
Unstorable(t) == RunEnded(t) /\ run[tick[t].run].status = "error" /\ run[tick[t].run].long

SettledStatus(t) == IF RunEnded(t) THEN run[tick[t].run].status ELSE tick[t].status

HookDue(t) ==
  /\ tick[t].cron \in Hooked
  /\ SettledStatus(t) \in TerminalTick
  /\ tick[t].hook = "none" \/ (tick[t].hook = "delivering" /\ tick[t].stale)

\* Mutant: the thread of a tick goes although its run is not successful yet.
ThreadDoneEarly(t) ==
  /\ BoundTo[tick[t].cron] = NoThread
  /\ tick[t].cron \in Deletes
  /\ tick[t].thread # NoThread

\* The thread of a successful tick of a stateless cron is deleted.
ThreadDone(t) ==
  /\ BoundTo[tick[t].cron] = NoThread
  /\ tick[t].cron \in Deletes
  /\ tick[t].thread # NoThread
  /\ SettledStatus(t) = "success"

\* One transaction: settle, reserve the webhooks, list the threads to delete.
\* A reservation that is taken again changes no column and so stays stale.
Scan(s) ==
  /\ At(s, "scan")
  /\ \A t \in Selected : ~Unstorable(t)
  /\ tick' = [t \in Ticks |->
       IF t \in Selected
       THEN [tick[t] EXCEPT
               !.status = SettledStatus(t),
               !.hook = IF HookDue(t) THEN "delivering" ELSE @,
               !.stale = @ /\ ~RunEnded(t) /\ ~(HookDue(t) /\ tick[t].hook = "none")]
       ELSE tick[t]]
  /\ Become(s, [sched[s] EXCEPT
       !.pc = "hooks",
       !.hooks = {[tick |-> t, status |-> SettledStatus(t)] : t \in {t \in Selected : HookDue(t)}},
       !.drop = {tick[t].thread : t \in {t \in Selected : ThreadDone(t)}}])
  /\ UNCHANGED <<cron, attempts, run, thread, lock, posts, faults, losses, edits>>

\* The UPDATE of such a tick raises, which ends the scheduler.
ScanFails(s) ==
  /\ At(s, "scan")
  /\ \E t \in Selected : Unstorable(t)
  /\ Exit(s)
  /\ UNCHANGED <<rows, posts, faults, losses, edits>>

\* deliver_webhook_with_retries: the recorded attempts are counted first.
NextHook(s) ==
  /\ At(s, "hooks")
  /\ \/ /\ sched[s].hooks = {}
        /\ Become(s, Goto(s, "drop"))
     \/ \E h \in sched[s].hooks :
          Become(s, [sched[s] EXCEPT
            !.pc = IF attempts[h.tick] < MaxAttempts THEN "post" ELSE "result",
            !.hooks = @ \ {h},
            !.hook = h,
            !.n = attempts[h.tick] + 1])
  /\ UNCHANGED <<rows, lock, posts, faults, losses, edits>>

\* The webhook's server answers 2xx, or something else, or not at all.
Post(s) ==
  /\ At(s, "post")
  /\ LET h == sched[s].hook IN
     posts' = [posts EXCEPT ![h.tick] = [told |-> @.told \cup {h.status}, count |-> @.count + 1]]
  /\ \E ok \in BOOLEAN : Become(s, [sched[s] EXCEPT !.pc = "attempt", !.ok = ok])
  /\ UNCHANGED <<rows, lock, faults, losses, edits>>

\* Mutant: one attempt too many.
AfterAttemptLong(s, ok) ==
  IF ok \/ sched[s].n > MaxAttempts
  THEN [sched[s] EXCEPT !.pc = "result", !.ok = ok]
  ELSE [sched[s] EXCEPT !.pc = "post", !.n = @ + 1, !.ok = FALSE]

\* After an attempt is recorded.
AfterAttempt(s, ok) ==
  IF ok \/ sched[s].n = MaxAttempts
  THEN [sched[s] EXCEPT !.pc = "result", !.ok = ok]
  ELSE [sched[s] EXCEPT !.pc = "post", !.n = @ + 1, !.ok = FALSE]

\* _persist_webhook_attempt.  A number that is taken violates the table's
\* unique constraint; the handler of a failed attempt records it again, as a
\* failure, and its own failure ends the scheduler.
RecordAttempt(s) ==
  /\ sched[s].pc \in {"attempt", "again"}
  /\ LET h == sched[s].hook
         ok == sched[s].ok /\ At(s, "attempt")
     IN \/ /\ attempts[h.tick] < sched[s].n
           /\ attempts' = [attempts EXCEPT ![h.tick] = sched[s].n]
           /\ tick' = [tick EXCEPT ![h.tick].stale = FALSE]
           /\ Become(s, AfterAttempt(s, ok))
           /\ UNCHANGED <<lock, faults>>
        \/ /\ At(s, "attempt")
           /\ Become(s, Goto(s, "again"))
           /\ \/ attempts[h.tick] >= sched[s].n /\ UNCHANGED faults
              \/ attempts[h.tick] < sched[s].n /\ Fault
           /\ UNCHANGED <<attempts, tick, lock>>
        \/ /\ At(s, "again")
           /\ attempts[h.tick] >= sched[s].n
           /\ Exit(s)
           /\ UNCHANGED <<attempts, tick, faults>>
  /\ UNCHANGED <<cron, run, thread, posts, losses, edits>>

\* _persist_webhook_result.
RecordResult(s) ==
  /\ At(s, "result")
  /\ LET t == sched[s].hook.tick IN
     tick' = [tick EXCEPT ![t].hook = IF sched[s].ok THEN "delivered" ELSE "failed",
                          ![t].stale = FALSE]
  /\ Become(s, [sched[s] EXCEPT !.pc = "hooks", !.hook = NoHook, !.n = 0, !.ok = FALSE])
  /\ UNCHANGED <<cron, attempts, run, thread, lock, posts, faults, losses, edits>>

\* _delete_stateless_threads: all of them with their runs, or none; a failure
\* is logged.
Drop(s) ==
  /\ At(s, "drop")
  /\ \/ /\ thread' = [th \in Threads |-> IF th \in sched[s].drop THEN "deleted" ELSE thread[th]]
        /\ run' = [r \in Runs |-> IF run[r].thread \in sched[s].drop
                                  THEN [run[r] EXCEPT !.status = "deleted"] ELSE run[r]]
        /\ UNCHANGED faults
     \/ /\ sched[s].drop # {}
        /\ Fault
        /\ UNCHANGED <<thread, run>>
  /\ Become(s, IF sched[s].second THEN Idle("rest") ELSE [sched[s] EXCEPT !.pc = "claim", !.drop = {}])
  /\ UNCHANGED <<cron, tick, attempts, lock, posts, losses, edits>>

-----------------------------------------------------------------------------
(* claim_due_crons.                                                        *)

StaleTicks(status) == {t \in Ticks : tick[t].status = status /\ tick[t].stale}

\* A stale queued tick whose run is still pending is submitted again, unless
\* the queue holds the run (contains_run, which may say either).
Resubmittable(t) == Alive(t) /\ run[tick[t].run].status = "pending"

\* The cron's next occurrence lies in the future, or there is none.
NextOccurrence(c) == [cron[c] EXCEPT !.due = FALSE]

\* Mutant: only ticks that have a run are claimed again.
ReclaimableLinked(t) == tick[t].status = "started" /\ tick[t].stale /\ tick[t].run # NoRun

\* An interrupted dispatch: the tick was claimed and nothing came of it in time.
Reclaimable(t) == tick[t].status = "started" /\ tick[t].stale

\* The stale started ticks it finds: their cron has ended, or it goes on.
Found == First({t \in Ticks : Reclaimable(t)}, Limit)

Over == {t \in Found : Alive(t) /\ cron[tick[t].cron].ended}

Started == {t \in Found : Alive(t) /\ ~cron[tick[t].cron].ended}

Requeued ==
  {t \in First(StaleTicks("queued"), Limit - Cardinality(Started)) : Resubmittable(t)}

DueCrons ==
  {c \in Crons : cron[c].exists /\ cron[c].enabled /\ cron[c].due /\ ~cron[c].ended}

\* The ticks, when those of "again" are claimed again and new ones are taken for
\* the crons that "of" names.
Taken(again, of) ==
  [t \in Ticks |->
     IF t \in DOMAIN of
     THEN [tick[t] EXCEPT !.status = "started", !.cron = of[t], !.thread = BoundTo[of[t]]]
     ELSE IF t \in Over
     THEN [tick[t] EXCEPT !.status = "skipped", !.stale = FALSE]
     ELSE IF t \in again THEN [tick[t] EXCEPT !.stale = FALSE]
     ELSE tick[t]]

Claims(ticks, taken) ==
  {[tick |-> t, thread |-> taken[t].thread, run |-> taken[t].run] : t \in ticks}

\* The ticks of "again" are claimed again, those of the crons "new" for the first time.
ClaimThese(s, again, new) ==
  /\ \E of \in [First(Free, Cardinality(new)) -> new] :
       /\ {of[t] : t \in DOMAIN of} = new
       /\ tick' = Taken(again, of)
       /\ Become(s, [sched[s] EXCEPT
            !.pc = "next",
            !.claims = Claims(again \cup DOMAIN of, Taken(again, of))])
  /\ \E last \in SUBSET new :
       cron' = [c \in Crons |->
         IF c \in new THEN [NextOccurrence(c) EXCEPT !.enabled = c \notin last] ELSE cron[c]]

\* One transaction: stale started ticks (skipped once their cron has ended),
\* stale queued ticks, and with what is left of the limit the due crons.
ClaimDue(s) ==
  /\ At(s, "claim")
  /\ \E queued \in SUBSET Requeued, picked \in SUBSET DueCrons :
       LET again == Started \cup queued
           left  == Limit - Cardinality(again)
       IN /\ Cardinality(picked) = IF Cardinality(DueCrons) < left
                                   THEN Cardinality(DueCrons) ELSE left
          /\ ClaimThese(s, again, picked \ {tick[t].cron : t \in again})
  /\ UNCHANGED <<attempts, run, thread, lock, posts, faults, losses, edits>>

-----------------------------------------------------------------------------
(* dispatch_claimed_cron, for one claim after the other.                   *)

\* A claim is done.
ClaimDone(s) == [sched[s] EXCEPT !.pc = "next", !.claim = NoClaim]

\* Mutant: a claim's run is ignored and prepared anew.
NextClaimAnew(s) ==
  /\ At(s, "next")
  /\ \/ /\ sched[s].claims = {}
        /\ Become(s, [sched[s] EXCEPT !.pc = "scan", !.second = TRUE])
     \/ \E c \in sched[s].claims :
          Become(s, [sched[s] EXCEPT
            !.pc = IF c.thread = NoThread THEN "create" ELSE "check",
            !.claims = @ \ {c},
            !.claim = c])
  /\ UNCHANGED <<rows, lock, posts, faults, losses, edits>>

NextClaim(s) ==
  /\ At(s, "next")
  /\ \/ /\ sched[s].claims = {}
        /\ Become(s, [sched[s] EXCEPT !.pc = "scan", !.second = TRUE])
     \/ \E c \in sched[s].claims :
          Become(s, [sched[s] EXCEPT
            !.pc = IF c.run # NoRun THEN "submit"
                   ELSE IF c.thread = NoThread THEN "create" ELSE "check",
            !.claims = @ \ {c},
            !.claim = c])
  /\ UNCHANGED <<rows, lock, posts, faults, losses, edits>>

\* create_thread_for_user, for a stateless cron.
CreateThread(s) ==
  /\ At(s, "create")
  /\ \E th \in Threads :
       /\ thread[th] = "absent"
       /\ thread' = [thread EXCEPT ![th] = "open"]
       /\ Become(s, [sched[s] EXCEPT !.pc = "prepare", !.claim.thread = th])
  /\ UNCHANGED <<cron, tick, attempts, run, lock, posts, faults, losses, edits>>

\* _thread_is_busy, for a cron bound to a thread.
CheckThread(s) ==
  /\ At(s, "check")
  /\ Become(s, Goto(s, IF Busy(sched[s].claim.thread) THEN "skip" ELSE "prepare"))
  /\ UNCHANGED <<rows, lock, posts, faults, losses, edits>>

\* Mutant: the run is committed without its tick.
PrepareUnlinked(s) ==
  /\ At(s, "prepare")
  /\ LET c == sched[s].claim IN
     \E r \in Runs :
       /\ Exists(c.thread) /\ ~Active(c.thread)
       /\ run[r].status = "absent"
       /\ run' = [run EXCEPT ![r] = [@ EXCEPT
            !.status = "pending", !.thread = c.thread, !.tick = c.tick]]
       /\ thread' = [thread EXCEPT ![c.thread] = "busy"]
       /\ Become(s, [sched[s] EXCEPT !.pc = "submit", !.claim.run = r])
  /\ UNCHANGED <<cron, tick, attempts, lock, posts, faults, losses, edits>>

\* prepare_run: the run and the tick that names it, in one transaction.
PrepareRun(s) ==
  /\ At(s, "prepare")
  /\ LET c == sched[s].claim IN
     \/ \E r \in Runs :
          /\ Exists(c.thread)
          /\ ~Active(c.thread)
          /\ run[r].status = "absent"
          /\ thread' = [thread EXCEPT ![c.thread] = "busy"]
          /\ run' = [run EXCEPT ![r] = [@ EXCEPT
               !.status = "pending", !.thread = c.thread, !.tick = c.tick]]
          /\ tick' = [tick EXCEPT ![c.tick] = [@ EXCEPT
               !.status = "queued", !.run = r, !.thread = c.thread, !.stale = FALSE]]
          /\ Become(s, [sched[s] EXCEPT !.pc = "submit", !.claim.run = r])
     \/ /\ Exists(c.thread)
        /\ Active(c.thread)
        /\ Become(s, Goto(s, "skip"))
        /\ UNCHANGED <<run, tick, thread>>
     \/ /\ ~Exists(c.thread)
        /\ Become(s, Goto(s, "fail"))
        /\ UNCHANGED <<run, tick, thread>>
  /\ UNCHANGED <<cron, attempts, lock, posts, faults, losses, edits>>

\* A transaction of dispatch_claimed_cron raises, and its handler takes over.
DispatchFails(s) ==
  /\ sched[s].pc \in {"create", "check", "prepare"}
  /\ Fault
  /\ \E long \in TooLong : Become(s, Goto(s, IF long THEN "overlong" ELSE "fail"))
  /\ UNCHANGED <<rows, lock, posts, losses, edits>>

\* submit_existing_run.  A failure leaves the run pending when it is ambiguous
\* and ends it otherwise; both raise.
SubmitRun(s) ==
  /\ At(s, "submit")
  /\ LET r == sched[s].claim.run IN
     \/ /\ run[r].status # "deleted"
        /\ Become(s, ClaimDone(s))
        /\ UNCHANGED <<run, thread, faults>>
     \/ /\ run[r].status = "deleted"
        /\ Become(s, Goto(s, "fail"))
        /\ UNCHANGED <<run, thread, faults>>
     \/ /\ run[r].status # "deleted"
        /\ Fault
        /\ \E long \in TooLong :
             /\ Become(s, Goto(s, IF long THEN "overlong" ELSE "fail"))
             /\ \/ UNCHANGED <<run, thread>>
                \/ /\ run[r].status = "pending"
                   /\ thread' = [thread EXCEPT ![run[r].thread] = "open"]
                   /\ run' = [run EXCEPT ![r].status = "error", ![r].long = long]
  /\ UNCHANGED <<cron, tick, attempts, lock, posts, losses, edits>>

\* _mark_tick_outcome: the thread was busy, or the dispatch raised.
MarkOutcome(s) ==
  /\ sched[s].pc \in {"skip", "fail"}
  /\ LET c == sched[s].claim IN
     tick' = [tick EXCEPT ![c.tick] = [@ EXCEPT
       !.status = IF At(s, "skip") THEN "skipped" ELSE "error",
       !.run = IF At(s, "skip") THEN NoRun ELSE c.run,
       !.thread = IF At(s, "skip") \/ c.thread = NoThread THEN tick[c.tick].thread ELSE c.thread,
       !.stale = FALSE]]
  /\ Become(s, ClaimDone(s))
  /\ UNCHANGED <<cron, attempts, run, thread, lock, posts, faults, losses, edits>>

\* The reason does not fit its column: the UPDATE raises inside the handler of
\* the failed dispatch, which ends the scheduler.
MarkFails(s) ==
  /\ At(s, "overlong")
  /\ Exit(s)
  /\ UNCHANGED <<rows, posts, faults, losses, edits>>

-----------------------------------------------------------------------------
(* Scheduler processes.                                                    *)

Acquire(s) ==
  /\ At(s, "new")
  /\ lock = NoScheduler
  /\ lock' = s
  /\ Become(s, Idle("scan"))
  /\ UNCHANGED <<rows, posts, faults, losses, edits>>

\* The next round; that the lock is lost is seen here only, and only after the
\* heartbeat has found out.
NextRound(s) ==
  /\ At(s, "rest")
  /\ Become(s, Idle("scan"))
  /\ UNCHANGED <<rows, lock, posts, faults, losses, edits>>

LeaseLost(s) ==
  /\ At(s, "rest")
  /\ lock # s
  /\ Exit(s)
  /\ UNCHANGED <<rows, posts, faults, losses, edits>>

\* A transaction outside dispatch_claimed_cron's handlers raises, or the process
\* is told to stop between two rounds.
Raise(s) ==
  /\ sched[s].pc \in {"rest", "scan", "hooks", "again", "result", "claim", "skip", "fail"}
  /\ Fault
  /\ Exit(s)
  /\ UNCHANGED <<rows, posts, losses, edits>>

Crash(s) ==
  /\ sched[s].pc \notin {"new", "gone"}
  /\ Fault
  /\ Become(s, Idle("gone"))
  /\ UNCHANGED <<rows, lock, posts, losses, edits>>

\* A new process under a fresh uuid.
Restart(s) ==
  /\ At(s, "gone")
  /\ lock # s
  /\ Become(s, Idle("new"))
  /\ UNCHANGED <<rows, lock, posts, faults, losses, edits>>

LockExpires ==
  /\ lock # NoScheduler
  /\ \/ At(lock, "gone") /\ UNCHANGED losses
     \/ ~At(lock, "gone") /\ losses < MaxLosses /\ losses' = losses + 1
  /\ lock' = NoScheduler
  /\ UNCHANGED <<rows, sched, posts, faults, edits>>

-----------------------------------------------------------------------------
(* Time, clients and the execution of runs.                                *)

\* next_run_at passes.  Bound: a tick is left for every due cron.
ComesDue(c) ==
  /\ cron[c].exists /\ cron[c].enabled /\ ~cron[c].due
  /\ Cardinality({d \in Crons : cron[d].due}) < Cardinality(Free)
  /\ cron' = [cron EXCEPT ![c].due = TRUE]
  /\ UNCHANGED <<tick, attempts, run, thread, lock, sched, posts, faults, losses, edits>>

\* end_time passes.
Ends(c) ==
  /\ cron[c].exists /\ ~cron[c].ended
  /\ cron' = [cron EXCEPT ![c].ended = TRUE]
  /\ Edit
  /\ UNCHANGED <<tick, attempts, run, thread, lock, sched, posts, faults, losses>>

\* SCHEDULER_STARTED_TICK_STALE_AFTER_SECONDS have passed since the last update.
GoesStale(t) ==
  /\ ~tick[t].stale
  /\ tick[t].status \in {"started", "queued"} \/ tick[t].hook = "delivering"
  /\ tick' = [tick EXCEPT ![t].stale = TRUE]
  /\ UNCHANGED <<cron, attempts, run, thread, lock, sched, posts, faults, losses, edits>>

\* patch_cron: enabling a cron computes its next occurrence anew.
PatchEnabled(c) ==
  /\ cron[c].exists
  /\ cron' = [cron EXCEPT ![c] = IF @.enabled THEN [@ EXCEPT !.enabled = FALSE]
                                 ELSE [NextOccurrence(c) EXCEPT !.enabled = TRUE]]
  /\ Edit
  /\ UNCHANGED <<tick, attempts, run, thread, lock, sched, posts, faults, losses>>

\* delete_cron: its ticks stay.
DeleteCron(c) ==
  /\ cron[c].exists
  /\ cron' = [cron EXCEPT ![c].exists = FALSE, ![c].due = FALSE]
  /\ Edit
  /\ UNCHANGED <<tick, attempts, run, thread, lock, sched, posts, faults, losses>>

\* delete_run; the thread keeps its status.
DeleteRun(r) ==
  /\ run[r].status \notin {"absent", "deleted"}
  /\ run' = [run EXCEPT ![r].status = "deleted"]
  /\ Edit
  /\ UNCHANGED <<cron, tick, attempts, thread, lock, sched, posts, faults, losses>>

\* delete_thread, of a thread a cron is bound to.
DeleteThread(th) ==
  /\ Exists(th)
  /\ \E c \in Crons : BoundTo[c] = th
  /\ thread' = [thread EXCEPT ![th] = "deleted"]
  /\ run' = [r \in Runs |-> IF run[r].thread = th THEN [run[r] EXCEPT !.status = "deleted"]
                            ELSE run[r]]
  /\ Edit
  /\ UNCHANGED <<cron, tick, attempts, lock, sched, posts, faults, losses>>

\* A client starts a run on a thread that is not busy with one, also on the thread of a
\* stateless tick, which the webhook names.  Bound: a run is left for every tick without one.
ClientRuns(th, r) ==
  /\ Exists(th) /\ ~Active(th)
  /\ run[r].status = "absent"
  /\ Cardinality({x \in Runs : run[x].status = "absent"})
       > Cardinality({t \in Ticks : tick[t].status \in {"free", "started"}})
  /\ run' = [run EXCEPT ![r].status = "pending", ![r].thread = th]
  /\ thread' = [thread EXCEPT ![th] = "busy"]
  /\ Edit
  /\ UNCHANGED <<cron, tick, attempts, lock, sched, posts, faults, losses>>

\* A run is claimed by a worker.
RunStarts(r) ==
  /\ run[r].status = "pending"
  /\ run' = [run EXCEPT ![r].status = "running"]
  /\ thread' = [thread EXCEPT ![run[r].thread] = "busy"]
  /\ UNCHANGED <<cron, tick, attempts, lock, sched, posts, faults, losses, edits>>

\* The run ends; before it starts only by a cancellation.
RunEnds(r) ==
  /\ \/ /\ run[r].status = "running"
        /\ \E status \in TerminalRun, long \in TooLong :
             run' = [run EXCEPT ![r].status = status, ![r].long = long /\ status = "error"]
     \/ run[r].status = "pending" /\ run' = [run EXCEPT ![r].status = "error"]
  /\ thread' = [thread EXCEPT ![run[r].thread] = "open"]
  /\ UNCHANGED <<cron, tick, attempts, lock, sched, posts, faults, losses, edits>>

-----------------------------------------------------------------------------

SchedulerStep(s) ==
  \/ Acquire(s) \/ NextRound(s) \/ LeaseLost(s) \/ Restart(s)
  \/ Scan(s) \/ ScanFails(s) \/ NextHook(s) \/ Post(s) \/ RecordAttempt(s) \/ RecordResult(s) \/ Drop(s)
  \/ ClaimDue(s) \/ NextClaim(s) \/ CreateThread(s) \/ CheckThread(s)
  \/ PrepareRun(s) \/ SubmitRun(s) \/ MarkOutcome(s) \/ MarkFails(s)

Next ==
  \/ \E s \in Schedulers : SchedulerStep(s) \/ DispatchFails(s) \/ Raise(s) \/ Crash(s)
  \/ \E c \in Crons : ComesDue(c) \/ Ends(c) \/ PatchEnabled(c) \/ DeleteCron(c)
  \/ \E t \in Ticks : GoesStale(t)
  \/ \E th \in Threads : DeleteThread(th) \/ \E r \in Runs : ClientRuns(th, r)
  \/ \E r \in Runs : DeleteRun(r) \/ RunStarts(r) \/ RunEnds(r)
  \/ LockExpires

Spec == Init /\ [][Next]_vars

(***************************************************************************)
(* Fairness: a scheduler that runs keeps taking steps and one that stopped *)
(* is started again, time passes, runs end.  Nothing is assumed of clients *)
(* and of steps that fail.                                                 *)
(***************************************************************************)
Fairness ==
  /\ \A s \in Schedulers : WF_vars(SchedulerStep(s))
  /\ \A t \in Ticks : WF_vars(GoesStale(t))
  /\ \A r \in Runs : WF_vars(RunStarts(r)) /\ WF_vars(RunEnds(r))
  /\ WF_vars(LockExpires)

FairSpec == Spec /\ Fairness

-----------------------------------------------------------------------------
(* Safety.                                                                 *)

\* "A stale 'started' tick means dispatch never ran (no run was created yet)":
\* what claim_due_crons relies on when it dispatches such a tick anew.
StartedHasNoRun ==
  \A t \in Ticks : tick[t].status = "started" => \A r \in Runs : run[r].tick # t

\* A due occurrence starts one run at most, however often its tick is claimed.
OneRunPerTick ==
  \A r, x \in Runs : run[r].tick # 0 /\ run[r].tick = run[x].tick => r = x

\* A tick that has ended keeps its status and its run.
TickOutcomeStands ==
  [][\A t \in Ticks : tick[t].status \in TerminalTick =>
       tick'[t].status = tick[t].status /\ tick'[t].run = tick[t].run]_vars

\* A webhook hears one status only, the one its tick has.
WebhookTellsOutcome ==
  \A t \in Ticks : posts[t].told \subseteq {tick[t].status}

\* An occurrence runs once and its webhook tells no other outcome than its tick has.
\* (dispatch_claimed_cron, deliver_webhook_with_retries)
TicksRunOnce ==
  /\ OneRunPerTick
  /\ WebhookTellsOutcome

\* A webhook that was recorded as delivered or failed is not called again, and
\* a failed one was tried as often as its cron asks for.
WebhookSettles ==
  [][\A t \in Ticks :
       /\ tick[t].hook \in {"delivered", "failed"} => posts'[t].count = posts[t].count
       /\ tick'[t].hook = "failed" => posts[t].count >= MaxAttempts]_vars

(* What a tick ended with and what its webhook ended with are final. *)
OutcomesFinal == TickOutcomeStands /\ WebhookSettles

\* The scheduler deletes only threads it created, never one that a cron is bound to, and none
\* on which a run it dispatched has yet to end.  It does not look for runs that a client
\* started there: those go with the thread.  (_reconcile_terminal_ticks,
\* delete_threads_cascade)
DropsSpareDispatched ==
  [][\A th \in Threads :
       Exists(th) /\ thread'[th] = "deleted" /\ sched' # sched =>
         /\ \A c \in Crons : BoundTo[c] # th
         /\ \A r \in Runs : run[r].thread = th /\ run[r].tick # 0 =>
              run[r].status \notin {"pending", "running"}]_vars

-----------------------------------------------------------------------------
(* Liveness, under FairSpec.                                               *)

CronDeleted(t) == tick[t].cron # "none" /\ ~cron[tick[t].cron].exists

\* A tick that was claimed ends with its run, unless its cron or run is deleted.
TicksEnd ==
  \A t \in Ticks :
    tick[t].status \in {"started", "queued"} ~>
      \/ tick[t].status \in TerminalTick
      \/ CronDeleted(t)
      \/ tick[t].run # NoRun /\ run[tick[t].run].status = "deleted"

\* The webhook of a tick that has ended is delivered or given up.
WebhooksSettle ==
  \A t \in Ticks :
    tick[t].status \in TerminalTick /\ tick[t].cron \in Hooked ~>
      tick[t].hook \in {"delivered", "failed"} \/ CronDeleted(t)

\* The thread of a successful tick of a deleting cron goes, at the latest in a
\* later round.  A cron with a webhook gets one try only.
ThreadsGo ==
  \A t \in Ticks :
    /\ tick[t].status = "success"
    /\ tick[t].cron \in Deletes \ Hooked
    ~> \/ tick[t].thread # NoThread /\ thread[tick[t].thread] = "deleted"
       \/ CronDeleted(t)

\* A claimed tick is followed up to the last: it ends, its webhook is settled, its ephemeral
\* thread goes.  (_reconcile_terminal_ticks, deliver_webhook_with_retries)
TicksFollowedUp ==
  /\ TicksEnd
  /\ WebhooksSettle
  /\ ThreadsGo
=============================================================================
