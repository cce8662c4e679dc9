------------------------- MODULE CronSchedulerProofs -------------------------
(***************************************************************************)
(* Theorems about CronScheduler, for every set of crons, runs, threads and *)
(* schedulers and every bound.                                             *)
(***************************************************************************)
EXTENDS CronScheduler, TLAPS

-----------------------------------------------------------------------------
(* Type correctness.                                                       *)

\* What a scheduler holds where it needs it: TypeOK alone is not inductive.
LocalSound(x) ==
  /\ x.pc \in HookSteps => x.hook \in Hook
  /\ x.pc \in HookSteps \ {"result"} => x.n <= MaxAttempts
  /\ x.pc \in ClaimSteps => x.claim \in Claim

IInv == TypeOK /\ \A s \in Schedulers : LocalSound(sched[s])

LEMMA Sets ==
  /\ NoHook \notin Hook /\ NoClaim \notin Claim
  /\ \A pc \in Steps \ (HookSteps \cup ClaimSteps) : Idle(pc) \in Local /\ LocalSound(Idle(pc))
<1>1. MaxAttempts \in Nat
  BY LimitsAssumption
<1>2. NoHook \notin Hook /\ NoClaim \notin Claim
  BY DEF NoHook, Hook, NoClaim, Claim, Ticks
<1>3. ASSUME NEW pc \in Steps \ (HookSteps \cup ClaimSteps)
      PROVE  Idle(pc) \in Local /\ LocalSound(Idle(pc))
  BY <1>1 DEF Idle, Local, LocalSound
<1> QED  BY <1>2, <1>3

LEMMA InitTypes == Init => IInv
<1> SUFFICES ASSUME Init PROVE IInv
  OBVIOUS
<1> USE LimitsAssumption DEF Init
<1>1. sched \in [Schedulers -> Local] /\ \A s \in Schedulers : LocalSound(sched[s])
  BY Sets DEF Steps, HookSteps, ClaimSteps
<1>2. run \in [Runs -> RunRow] /\ tick \in [Ticks -> TickRow] /\ cron \in [Crons -> CronRow]
  BY DEF RunRow, TickRow, CronRow
<1>3. /\ attempts \in [Ticks -> 0 .. MaxAttempts]
      /\ posts \in [Ticks -> [told : SUBSET TerminalTick, count : Nat]]
      /\ thread \in [Threads -> {"absent", "open", "busy", "deleted"}]
  OBVIOUS
<1>4. lock = NoScheduler /\ faults \in 0 .. MaxFaults /\ losses \in 0 .. MaxLosses
      /\ edits \in 0 .. MaxEdits
  OBVIOUS
<1> HIDE DEF Init
<1> QED  BY <1>1, <1>2, <1>3, <1>4 DEF IInv, TypeOK

\* A scheduler's locals are replaced by sound ones.
LEMMA BecomeTypes ==
  ASSUME IInv, NEW s \in Schedulers, NEW new \in Local, LocalSound(new), Become(s, new)
  PROVE  sched' \in [Schedulers -> Local] /\ \A q \in Schedulers : LocalSound(sched'[q])
BY DEF IInv, TypeOK, Become

\* A scheduler's program counter moves to where nothing new is needed.
LEMMA GotoTypes ==
  ASSUME IInv, NEW s \in Schedulers, NEW pc \in Steps, Become(s, Goto(s, pc)),
         pc \in HookSteps => sched[s].pc \in HookSteps \ {"result"},
         pc \in ClaimSteps => sched[s].pc \in ClaimSteps
  PROVE  sched' \in [Schedulers -> Local] /\ \A q \in Schedulers : LocalSound(sched'[q])
<1>1. Goto(s, pc) \in Local
  BY DEF Goto, Local, IInv, TypeOK
<1>2. LocalSound(Goto(s, pc))
  BY DEF Goto, Local, IInv, TypeOK, LocalSound
<1> QED  BY <1>1, <1>2, BecomeTypes

LEMMA ExitTypes ==
  ASSUME IInv, NEW s \in Schedulers, Exit(s)
  PROVE  /\ sched' \in [Schedulers -> Local] /\ \A q \in Schedulers : LocalSound(sched'[q])
         /\ lock' \in Schedulers \cup {NoScheduler}
<1>1. Idle("gone") \in Local /\ LocalSound(Idle("gone"))
  BY Sets DEF Steps, HookSteps, ClaimSteps
<1>2. Become(s, Idle("gone"))
  BY DEF Exit
<1>3. lock' \in Schedulers \cup {NoScheduler}
  BY DEF Exit, IInv, TypeOK
<1> QED  BY <1>1, <1>2, <1>3, BecomeTypes

LEMMA BudgetTypes ==
  ASSUME IInv
  PROVE  /\ Fault => faults' \in 0 .. MaxFaults
         /\ Edit => edits' \in 0 .. MaxEdits
BY LimitsAssumption DEF IInv, TypeOK, Fault, Edit

LEMMA SchedTypes ==
  ASSUME IInv, NEW s \in Schedulers
  PROVE  sched[s] \in Local /\ LocalSound(sched[s])
BY DEF IInv, TypeOK

LEMMA SettledTypes ==
  ASSUME IInv, NEW t \in Ticks, t \in Selected
  PROVE  /\ SettledStatus(t) \in {"queued"} \cup TerminalTick
         /\ HookDue(t) => SettledStatus(t) \in TerminalTick
<1>1. CASE RunEnded(t)
  BY <1>1 DEF SettledStatus, RunEnded, TerminalTick, HookDue
<1>2. CASE ~RunEnded(t)
  BY <1>2 DEF SettledStatus, Selected, HookDue
<1> QED  BY <1>1, <1>2

-----------------------------------------------------------------------------
(* What the actions do to a scheduler's locals.                            *)

LEMMA LocalUpdates ==
  ASSUME NEW x \in Local, LocalSound(x)
  PROVE  /\ \A hooks \in SUBSET Hook, drop \in SUBSET Threads :
              LET y == [x EXCEPT !.pc = "hooks", !.hooks = hooks, !.drop = drop]
              IN y \in Local /\ LocalSound(y)
         /\ \A h \in Hook, n \in 0 .. MaxAttempts :
              LET y == [x EXCEPT !.pc = IF n < MaxAttempts THEN "post" ELSE "result",
                                 !.hooks = @ \ {h}, !.hook = h, !.n = n + 1]
              IN y \in Local /\ LocalSound(y)
         /\ LET y == [x EXCEPT !.pc = "hooks", !.hook = NoHook, !.n = 0, !.ok = FALSE]
            IN y \in Local /\ LocalSound(y)
         /\ LET y == [x EXCEPT !.pc = "claim", !.drop = {}] IN y \in Local /\ LocalSound(y)
         /\ \A claims \in SUBSET Claim :
              LET y == [x EXCEPT !.pc = "next", !.claims = claims] IN y \in Local /\ LocalSound(y)
         /\ LET y == [x EXCEPT !.pc = "next", !.claim = NoClaim] IN y \in Local /\ LocalSound(y)
         /\ LET y == [x EXCEPT !.pc = "scan", !.second = TRUE] IN y \in Local /\ LocalSound(y)
         /\ \A c \in Claim, pc \in ClaimSteps :
              LET y == [x EXCEPT !.pc = pc, !.claims = @ \ {c}, !.claim = c]
              IN y \in Local /\ LocalSound(y)
<1> USE DEF Local, LocalSound, Steps, HookSteps, ClaimSteps
<1>1. ASSUME NEW hooks \in SUBSET Hook, NEW drop \in SUBSET Threads
      PROVE  LET y == [x EXCEPT !.pc = "hooks", !.hooks = hooks, !.drop = drop]
             IN y \in Local /\ LocalSound(y)
  OBVIOUS
<1>0. MaxAttempts \in Nat
  BY LimitsAssumption
<1>2. ASSUME NEW h \in Hook, NEW n \in 0 .. MaxAttempts
      PROVE  LET y == [x EXCEPT !.pc = IF n < MaxAttempts THEN "post" ELSE "result",
                                !.hooks = @ \ {h}, !.hook = h, !.n = n + 1]
             IN y \in Local /\ LocalSound(y)
  <2> DEFINE pc == IF n < MaxAttempts THEN "post" ELSE "result"
             y == [x EXCEPT !.pc = pc, !.hooks = @ \ {h}, !.hook = h, !.n = n + 1]
  <2>1. n + 1 \in 0 .. MaxAttempts + 1 /\ (pc = "post" => n + 1 <= MaxAttempts)
    BY <1>0
  <2>2. pc \in {"post", "result"}
    OBVIOUS
  <2> HIDE DEF pc
  <2>3. y \in Local
    BY <2>1, <2>2
  <2>4. LocalSound(y)
    BY <2>1, <2>2
  <2> QED  BY <2>3, <2>4 DEF pc
<1>3. LET y == [x EXCEPT !.pc = "hooks", !.hook = NoHook, !.n = 0, !.ok = FALSE]
      IN y \in Local /\ LocalSound(y)
  <2> DEFINE y == [x EXCEPT !.pc = "hooks", !.hook = NoHook, !.n = 0, !.ok = FALSE]
  <2>1. 0 \in 0 .. MaxAttempts + 1
    BY <1>0
  <2>2. y \in Local
    BY <2>1
  <2>3. LocalSound(y)
    OBVIOUS
  <2> QED  BY <2>2, <2>3
<1>4. LET y == [x EXCEPT !.pc = "claim", !.drop = {}] IN y \in Local /\ LocalSound(y)
  OBVIOUS
<1>5. ASSUME NEW claims \in SUBSET Claim
      PROVE  LET y == [x EXCEPT !.pc = "next", !.claims = claims]
             IN y \in Local /\ LocalSound(y)
  OBVIOUS
<1>6. LET y == [x EXCEPT !.pc = "next", !.claim = NoClaim] IN y \in Local /\ LocalSound(y)
  OBVIOUS
<1>7. LET y == [x EXCEPT !.pc = "scan", !.second = TRUE] IN y \in Local /\ LocalSound(y)
  OBVIOUS
<1>8. ASSUME NEW c \in Claim, NEW pc \in ClaimSteps
      PROVE  LET y == [x EXCEPT !.pc = pc, !.claims = @ \ {c}, !.claim = c]
             IN y \in Local /\ LocalSound(y)
  OBVIOUS
<1> QED  BY <1>1, <1>2, <1>3, <1>4, <1>5, <1>6, <1>7, <1>8, Zenon

\* What the actions do to a tick.
LEMMA TickUpdates ==
  ASSUME NEW x \in TickRow
  PROVE  /\ \A stale \in BOOLEAN : [x EXCEPT !.stale = stale] \in TickRow
         /\ \A hook \in {"delivered", "failed"} :
              [x EXCEPT !.hook = hook, !.stale = FALSE] \in TickRow
         /\ \A r \in Runs, th \in Threads \cup {NoThread} :
              [x EXCEPT !.status = "queued", !.run = r, !.thread = th, !.stale = FALSE] \in TickRow
         /\ \A st \in TerminalTick, r \in Runs \cup {NoRun}, th \in Threads \cup {NoThread} :
              [x EXCEPT !.status = st, !.run = r, !.thread = th, !.stale = FALSE] \in TickRow
BY DEF TickRow

\* One tick changes.
LEMMA SetTickTypes ==
  ASSUME IInv, NEW t \in Ticks, NEW x \in TickRow, tick' = [tick EXCEPT ![t] = x]
  PROVE  tick' \in [Ticks -> TickRow]
BY DEF IInv, TypeOK

\* At a webhook: the attempt was made, recorded, or has to be recorded again.
LEMMA AttemptUpdates ==
  ASSUME NEW x \in Local, LocalSound(x), x.pc \in HookSteps \ {"result"}, NEW ok \in BOOLEAN
  PROVE  /\ LET y == [x EXCEPT !.pc = "attempt", !.ok = ok] IN y \in Local /\ LocalSound(y)
         /\ LET y == [x EXCEPT !.pc = "result", !.ok = ok] IN y \in Local /\ LocalSound(y)
         /\ x.n # MaxAttempts =>
              LET y == [x EXCEPT !.pc = "post", !.n = @ + 1, !.ok = FALSE]
              IN y \in Local /\ LocalSound(y)
         /\ x.hook \in Hook /\ x.n \in 0 .. MaxAttempts
<1> USE LimitsAssumption DEF Local, LocalSound, Steps, HookSteps, ClaimSteps
<1>1. x.hook \in Hook /\ x.n \in 0 .. MaxAttempts
  OBVIOUS
<1>2. LET y == [x EXCEPT !.pc = "attempt", !.ok = ok] IN y \in Local /\ LocalSound(y)
  BY <1>1
<1>3. LET y == [x EXCEPT !.pc = "result", !.ok = ok] IN y \in Local /\ LocalSound(y)
  BY <1>1
<1>4. ASSUME x.n # MaxAttempts
      PROVE  LET y == [x EXCEPT !.pc = "post", !.n = @ + 1, !.ok = FALSE]
             IN y \in Local /\ LocalSound(y)
  <2> DEFINE y == [x EXCEPT !.pc = "post", !.n = @ + 1, !.ok = FALSE]
  <2>1. x.n + 1 \in 0 .. MaxAttempts + 1 /\ x.n + 1 <= MaxAttempts
    BY <1>1, <1>4
  <2>2. y \in Local
    BY <2>1
  <2>3. LocalSound(y)
    BY <1>1, <2>1
  <2> QED  BY <2>2, <2>3
<1> HIDE DEF Local, LocalSound, Steps, HookSteps, ClaimSteps
<1> QED  BY <1>1, <1>2, <1>3, <1>4

\* At a claim: its thread or its run becomes known.
LEMMA ClaimUpdates ==
  ASSUME NEW x \in Local, LocalSound(x), x.pc \in ClaimSteps
  PROVE  /\ \A th \in Threads :
              LET y == [x EXCEPT !.pc = "prepare", !.claim.thread = th]
              IN y \in Local /\ LocalSound(y)
         /\ \A r \in Runs :
              LET y == [x EXCEPT !.pc = "submit", !.claim.run = r]
              IN y \in Local /\ LocalSound(y)
         /\ x.claim \in Claim
<1> USE DEF Local, LocalSound, Steps, HookSteps, ClaimSteps
<1>1. x.claim \in Claim
  OBVIOUS
<1>2. ASSUME NEW th \in Threads
      PROVE  LET y == [x EXCEPT !.pc = "prepare", !.claim.thread = th]
             IN y \in Local /\ LocalSound(y)
  BY <1>1 DEF Claim
<1>3. ASSUME NEW r \in Runs
      PROVE  LET y == [x EXCEPT !.pc = "submit", !.claim.run = r]
             IN y \in Local /\ LocalSound(y)
  BY <1>1 DEF Claim
<1> QED  BY <1>1, <1>2, <1>3

-----------------------------------------------------------------------------
(* One lemma per group of actions.                                         *)

LEMMA ScanTypes ==
  ASSUME IInv, NEW s \in Schedulers, Scan(s)
  PROVE  IInv'
<1> DEFINE new == [sched[s] EXCEPT
       !.pc = "hooks",
       !.hooks = {[tick |-> t, status |-> SettledStatus(t)] : t \in {t \in Selected : HookDue(t)}},
       !.drop = {tick[t].thread : t \in {t \in Selected : ThreadDone(t)}}]
<1>1. Selected \subseteq Ticks
  BY DEF Selected
<1>2. tick' \in [Ticks -> TickRow]
  <2>1. ASSUME NEW t \in Ticks, t \in Selected
        PROVE  [tick[t] EXCEPT
                 !.status = SettledStatus(t),
                 !.hook = IF HookDue(t) THEN "delivering" ELSE @,
                 !.stale = @ /\ ~RunEnded(t) /\ ~(HookDue(t) /\ tick[t].hook = "none")]
                 \in TickRow
    <3>1. SettledStatus(t) \in {"queued"} \cup TerminalTick
      BY <2>1, SettledTypes
    <3>2. tick[t] \in TickRow
      BY DEF IInv, TypeOK
    <3> QED  BY <3>1, <3>2 DEF TickRow
  <2>2. tick \in [Ticks -> TickRow]
    BY DEF IInv, TypeOK
  <2> QED  BY <2>1, <2>2 DEF Scan
<1>3. {[tick |-> t, status |-> SettledStatus(t)] : t \in {t \in Selected : HookDue(t)}}
        \subseteq Hook
  BY <1>1, SettledTypes DEF Hook
<1>4. {tick[t].thread : t \in {t \in Selected : ThreadDone(t)}} \subseteq Threads
  BY <1>1 DEF ThreadDone, IInv, TypeOK, TickRow
<1>5. new \in Local /\ LocalSound(new)
  BY <1>3, <1>4, SchedTypes, LocalUpdates
<1>6. Become(s, new)
  BY DEF Scan
<1> HIDE DEF new
<1>7. sched' \in [Schedulers -> Local] /\ \A q \in Schedulers : LocalSound(sched'[q])
  BY <1>5, <1>6, BecomeTypes
<1>8. UNCHANGED <<cron, attempts, run, thread, lock, posts, faults, losses, edits>>
  BY DEF Scan
<1> QED  BY <1>2, <1>7, <1>8 DEF IInv, TypeOK

LEMMA HookTypes ==
  ASSUME IInv, NEW s \in Schedulers,
         ScanFails(s) \/ NextHook(s) \/ Post(s) \/ RecordAttempt(s) \/ RecordResult(s)
  PROVE  IInv'
<1>1. sched[s] \in Local /\ LocalSound(sched[s])
  BY SchedTypes
<1>2. CASE ScanFails(s)
  <2>1. UNCHANGED <<rows, posts, faults, losses, edits>>
    BY <1>2 DEF ScanFails
  <2>2. Exit(s)
    BY <1>2 DEF ScanFails
  <2> QED  BY <2>1, <2>2, ExitTypes DEF IInv, TypeOK, rows
<1>3. CASE NextHook(s)
  <2>1. UNCHANGED <<rows, lock, posts, faults, losses, edits>>
    BY <1>3 DEF NextHook
  <2>2. CASE Become(s, Goto(s, "drop"))
    <3>1. sched' \in [Schedulers -> Local] /\ \A q \in Schedulers : LocalSound(sched'[q])
      BY <2>2, GotoTypes DEF Steps, HookSteps, ClaimSteps
    <3> QED  BY <2>1, <3>1 DEF IInv, TypeOK, rows
  <2>3. ASSUME NEW h \in sched[s].hooks,
               Become(s, [sched[s] EXCEPT
                 !.pc = IF attempts[h.tick] < MaxAttempts THEN "post" ELSE "result",
                 !.hooks = @ \ {h}, !.hook = h, !.n = attempts[h.tick] + 1])
        PROVE  IInv'
    <3>1. h \in Hook
      BY <1>1 DEF Local
    <3>2. attempts[h.tick] \in 0 .. MaxAttempts
      BY <3>1 DEF Hook, IInv, TypeOK
    <3>3. sched' \in [Schedulers -> Local] /\ \A q \in Schedulers : LocalSound(sched'[q])
      BY <1>1, <2>3, <3>1, <3>2, LocalUpdates, BecomeTypes, Zenon
    <3> QED  BY <2>1, <3>3 DEF IInv, TypeOK, rows
  <2> QED  BY <1>3, <2>2, <2>3 DEF NextHook
<1>4. CASE Post(s)
  <2>1. PICK ok \in BOOLEAN : Become(s, [sched[s] EXCEPT !.pc = "attempt", !.ok = ok])
    BY <1>4 DEF Post
  <2>2. sched[s].pc \in HookSteps \ {"result"}
    BY <1>4 DEF Post, At, HookSteps
  <2>3. sched' \in [Schedulers -> Local] /\ \A q \in Schedulers : LocalSound(sched'[q])
    BY <1>1, <2>1, <2>2, AttemptUpdates, BecomeTypes, Zenon
  <2>4. sched[s].hook \in Hook
    BY <1>1, <2>2, AttemptUpdates, Zenon
  <2>5. posts' \in [Ticks -> [told : SUBSET TerminalTick, count : Nat]]
    <3> DEFINE h == sched[s].hook
    <3>1. posts' = [posts EXCEPT ![h.tick] =
                     [told |-> @.told \cup {h.status}, count |-> @.count + 1]]
      BY <1>4 DEF Post
    <3>2. h.tick \in Ticks /\ h.status \in TerminalTick
      BY <2>4 DEF Hook
    <3>3. posts \in [Ticks -> [told : SUBSET TerminalTick, count : Nat]]
      BY DEF IInv, TypeOK
    <3> HIDE DEF h
    <3> QED  BY <3>1, <3>2, <3>3
  <2>6. UNCHANGED <<rows, lock, faults, losses, edits>>
    BY <1>4 DEF Post
  <2> QED  BY <2>3, <2>5, <2>6 DEF IInv, TypeOK, rows
<1>5. CASE RecordAttempt(s)
  <2> DEFINE h  == sched[s].hook
             ok == sched[s].ok /\ At(s, "attempt")
  <2>1. sched[s].pc \in HookSteps \ {"result"} /\ ok \in BOOLEAN
    BY <1>1, <1>5 DEF RecordAttempt, At, HookSteps
  <2>2. h \in Hook /\ sched[s].n \in 0 .. MaxAttempts
    BY <1>1, <2>1, AttemptUpdates, Zenon
  <2>3. UNCHANGED <<cron, run, thread, posts, losses, edits>>
    BY <1>5 DEF RecordAttempt
  <2>4. CASE /\ attempts' = [attempts EXCEPT ![h.tick] = sched[s].n]
             /\ tick' = [tick EXCEPT ![h.tick].stale = FALSE]
             /\ Become(s, AfterAttempt(s, ok))
             /\ UNCHANGED <<lock, faults>>
    <3>1. AfterAttempt(s, ok) \in Local /\ LocalSound(AfterAttempt(s, ok))
      <4> HIDE DEF ok
      <4>1. CASE ok \/ sched[s].n = MaxAttempts
        BY <1>1, <2>1, <4>1, AttemptUpdates, Zenon DEF AfterAttempt
      <4>2. CASE ~(ok \/ sched[s].n = MaxAttempts)
        BY <1>1, <2>1, <4>2, AttemptUpdates, Zenon DEF AfterAttempt
      <4> QED  BY <4>1, <4>2
    <3>2. sched' \in [Schedulers -> Local] /\ \A q \in Schedulers : LocalSound(sched'[q])
      BY <2>4, <3>1, BecomeTypes
    <3>3. attempts' \in [Ticks -> 0 .. MaxAttempts]
      BY <2>2, <2>4 DEF IInv, TypeOK
    <3>4. tick' \in [Ticks -> TickRow]
      <4>1. tick[h.tick] \in TickRow /\ h.tick \in Ticks
        BY <2>2 DEF IInv, TypeOK, Hook
      <4>2. [tick[h.tick] EXCEPT !.stale = FALSE] \in TickRow
        BY <4>1, TickUpdates, Zenon
      <4>3. tick' = [tick EXCEPT ![h.tick] = [tick[h.tick] EXCEPT !.stale = FALSE]]
        BY <2>4
      <4> HIDE DEF h
      <4> QED  BY <4>1, <4>2, <4>3, SetTickTypes
    <3> QED  BY <2>3, <2>4, <3>2, <3>3, <3>4 DEF IInv, TypeOK
  <2>5. CASE /\ Become(s, Goto(s, "again"))
             /\ UNCHANGED faults \/ Fault
             /\ UNCHANGED <<attempts, tick, lock>>
    <3>1. sched' \in [Schedulers -> Local] /\ \A q \in Schedulers : LocalSound(sched'[q])
      BY <2>1, <2>5, GotoTypes DEF Steps, HookSteps, ClaimSteps
    <3>2. faults' \in 0 .. MaxFaults
      BY <2>5, BudgetTypes DEF IInv, TypeOK
    <3> QED  BY <2>3, <2>5, <3>1, <3>2 DEF IInv, TypeOK
  <2>6. CASE Exit(s) /\ UNCHANGED <<attempts, tick, faults>>
    BY <2>3, <2>6, ExitTypes DEF IInv, TypeOK
  <2>7. \/ /\ attempts' = [attempts EXCEPT ![h.tick] = sched[s].n]
           /\ tick' = [tick EXCEPT ![h.tick].stale = FALSE]
           /\ Become(s, AfterAttempt(s, ok))
           /\ UNCHANGED <<lock, faults>>
        \/ /\ Become(s, Goto(s, "again"))
           /\ UNCHANGED faults \/ Fault
           /\ UNCHANGED <<attempts, tick, lock>>
        \/ Exit(s) /\ UNCHANGED <<attempts, tick, faults>>
    BY <1>5, Zenon DEF RecordAttempt
  <2> QED  BY <2>4, <2>5, <2>6, <2>7
<1>6. CASE RecordResult(s)
  <2>1. tick' \in [Ticks -> TickRow]
    <3> DEFINE t == sched[s].hook.tick
               hook == IF sched[s].ok THEN "delivered" ELSE "failed"
               x == [tick[t] EXCEPT !.hook = hook, !.stale = FALSE]
    <3>1. sched[s].hook \in Hook
      BY <1>1, <1>6 DEF RecordResult, At, LocalSound, HookSteps
    <3>2. t \in Ticks /\ tick[t] \in TickRow
      BY <3>1 DEF Hook, IInv, TypeOK
    <3>3. x \in TickRow
      BY <3>2, TickUpdates, Zenon
    <3>4. tick' = [tick EXCEPT ![t] = x]
      BY <1>6 DEF RecordResult
    <3> HIDE DEF t, x
    <3> QED  BY <3>2, <3>3, <3>4, SetTickTypes
  <2>2. Become(s, [sched[s] EXCEPT !.pc = "hooks", !.hook = NoHook, !.n = 0, !.ok = FALSE])
    BY <1>6 DEF RecordResult
  <2>3. sched' \in [Schedulers -> Local] /\ \A q \in Schedulers : LocalSound(sched'[q])
    BY <1>1, <2>2, LocalUpdates, BecomeTypes, Zenon
  <2>4. UNCHANGED <<cron, attempts, run, thread, lock, posts, faults, losses, edits>>
    BY <1>6 DEF RecordResult
  <2> QED  BY <2>1, <2>3, <2>4 DEF IInv, TypeOK
<1> QED  BY <1>2, <1>3, <1>4, <1>5, <1>6

LEMMA DropTypes ==
  ASSUME IInv, NEW s \in Schedulers, Drop(s)
  PROVE  IInv'
<1>1. sched[s] \in Local /\ LocalSound(sched[s])
  BY SchedTypes
<1>2. sched' \in [Schedulers -> Local] /\ \A q \in Schedulers : LocalSound(sched'[q])
  <2>1. CASE sched[s].second
    <3>1. Idle("rest") \in Local /\ LocalSound(Idle("rest"))
      BY Sets DEF Steps, HookSteps, ClaimSteps
    <3> QED  BY <2>1, <3>1, BecomeTypes DEF Drop
  <2>2. CASE ~sched[s].second
    BY <1>1, <2>2, LocalUpdates, BecomeTypes, Zenon DEF Drop
  <2> QED  BY <2>1, <2>2
<1>3. thread' \in [Threads -> {"absent", "open", "busy", "deleted"}]
  BY DEF Drop, IInv, TypeOK
<1>4. run' \in [Runs -> RunRow]
  <2>1. \A r \in Runs : [run[r] EXCEPT !.status = "deleted"] \in RunRow
    BY DEF IInv, TypeOK, RunRow
  <2>2. run \in [Runs -> RunRow]
    BY DEF IInv, TypeOK
  <2> QED  BY <2>1, <2>2 DEF Drop
<1>5. faults' \in 0 .. MaxFaults
  BY BudgetTypes DEF Drop, IInv, TypeOK
<1>6. UNCHANGED <<cron, tick, attempts, lock, posts, losses, edits>>
  BY DEF Drop
<1> QED  BY <1>2, <1>3, <1>4, <1>5, <1>6 DEF IInv, TypeOK

\* What a claim does to the rows: ticks are taken, crons move to their next
\* occurrence.
LEMMA TakenTypes ==
  ASSUME IInv, NEW again, NEW ticks, NEW of,
         again \subseteq Ticks \ Free, ticks \subseteq Free, of \in [ticks -> Crons]
  PROVE  /\ Taken(again, of) \in [Ticks -> TickRow]
         /\ Claims(again \cup ticks, Taken(again, of)) \subseteq Claim
<1>1. \A t \in Ticks : tick[t] \in TickRow
  BY DEF IInv, TypeOK
<1>2. \A t \in ticks : of[t] \in Crons /\ BoundTo[of[t]] \in Threads \cup {NoThread}
  BY BindingAssumption
<1>4. ASSUME NEW t \in Ticks PROVE Taken(again, of)[t] \in TickRow
  <2>1. CASE t \in ticks
    <3>1. [tick[t] EXCEPT !.status = "started", !.cron = of[t], !.thread = BoundTo[of[t]]]
            \in TickRow
      BY <1>1, <1>2, <2>1 DEF TickRow
    <3> QED  BY <2>1, <3>1 DEF Taken
  <2>2. CASE t \notin ticks
    <3>1. /\ [tick[t] EXCEPT !.status = "skipped", !.stale = FALSE] \in TickRow
          /\ [tick[t] EXCEPT !.stale = FALSE] \in TickRow
      BY <1>1 DEF TickRow, TerminalTick
    <3> QED  BY <1>1, <2>2, <3>1 DEF Taken
  <2> QED  BY <2>1, <2>2
<1>5. Taken(again, of) \in [Ticks -> TickRow]
  BY <1>4, Zenon DEF Taken
<1>6. Claims(again \cup ticks, Taken(again, of)) \subseteq Claim
  <2>1. ASSUME NEW taken \in [Ticks -> TickRow], NEW S \in SUBSET Ticks
        PROVE  Claims(S, taken) \subseteq Claim
    BY DEF Claims, Claim, TickRow
  <2> QED  BY <1>5, <2>1 DEF Free
<1> QED  BY <1>5, <1>6

\* A tick that is not taken for a cron keeps its status or is skipped.
LEMMA TakenStatus ==
  ASSUME IInv, NEW again, NEW of, again \subseteq Ticks \ Free,
         NEW t \in Ticks, t \notin DOMAIN of
  PROVE  IF t \in Free THEN Taken(again, of)[t].status = "free"
         ELSE Taken(again, of)[t].status \in {tick[t].status, "skipped"}
<1>1. tick[t] \in TickRow
  BY DEF IInv, TypeOK
<1>2. Taken(again, of)[t] = IF t \in Over
                            THEN [tick[t] EXCEPT !.status = "skipped", !.stale = FALSE]
                            ELSE IF t \in again THEN [tick[t] EXCEPT !.stale = FALSE]
                            ELSE tick[t]
  BY DEF Taken
<1>3. t \in Free => t \notin Over /\ t \notin again /\ tick[t].status = "free"
  BY DEF Over, Alive, Free
<1> QED  BY <1>1, <1>2, <1>3 DEF TickRow

LEMMA ClaimDueTakes ==
  ASSUME IInv, NEW s \in Schedulers, ClaimDue(s)
  PROVE  \E fresh \in SUBSET Free, claims \in SUBSET Claim :
           /\ tick' \in [Ticks -> TickRow]
           /\ \A t \in Ticks \ fresh :
                IF t \in Free THEN tick'[t].status = "free"
                ELSE tick'[t].status \in {tick[t].status, "skipped"}
           /\ cron' \in [Crons -> CronRow]
           /\ Become(s, [sched[s] EXCEPT !.pc = "next", !.claims = claims])
<1>1. PICK queued \in SUBSET Requeued, picked \in SUBSET DueCrons :
        ClaimThese(s, Started \cup queued,
                   picked \ {tick[t].cron : t \in Started \cup queued})
  BY Zenon DEF ClaimDue
<1> DEFINE again == Started \cup queued
           new   == picked \ {tick[t].cron : t \in again}
           fresh == First(Free, Cardinality(new))
<1>2. PICK of \in [fresh -> new] :
        /\ tick' = Taken(again, of)
        /\ Become(s, [sched[s] EXCEPT
             !.pc = "next", !.claims = Claims(again \cup DOMAIN of, Taken(again, of))])
  BY <1>1 DEF ClaimThese
<1>3. again \subseteq Ticks \ Free
  BY DEF Started, Found, Requeued, StaleTicks, First, Free, Reclaimable
<1>4. fresh \subseteq Free /\ new \subseteq Crons
  BY DEF First, DueCrons
<1>5. cron' \in [Crons -> CronRow]
  <2>1. PICK last \in SUBSET new :
          cron' = [c \in Crons |-> IF c \in new
                                  THEN [NextOccurrence(c) EXCEPT !.enabled = c \notin last]
                                  ELSE cron[c]]
    BY <1>1 DEF ClaimThese
  <2>2. \A c \in Crons : cron[c] \in CronRow
    BY DEF IInv, TypeOK
  <2>3. \A c \in Crons : [NextOccurrence(c) EXCEPT !.enabled = c \notin last] \in CronRow
    BY <2>2 DEF CronRow, NextOccurrence
  <2> QED  BY <2>1, <2>2, <2>3
<1> HIDE DEF again, new, fresh
<1>6. of \in [fresh -> Crons] /\ DOMAIN of = fresh
  BY <1>2, <1>4
<1> DEFINE claims == Claims(again \cup fresh, Taken(again, of))
<1>7. Become(s, [sched[s] EXCEPT !.pc = "next", !.claims = claims])
  BY <1>2
<1>8. tick' \in [Ticks -> TickRow] /\ claims \subseteq Claim
  BY <1>2, <1>3, <1>4, <1>6, TakenTypes
<1>9. ASSUME NEW t \in Ticks \ fresh
      PROVE  IF t \in Free THEN tick'[t].status = "free"
             ELSE tick'[t].status \in {tick[t].status, "skipped"}
  <2>1. IF t \in Free THEN Taken(again, of)[t].status = "free"
        ELSE Taken(again, of)[t].status \in {tick[t].status, "skipped"}
    BY <1>3, <1>6, TakenStatus
  <2> QED  BY <1>2, <2>1
<1> HIDE DEF claims
<1> QED  BY <1>4, <1>5, <1>7, <1>8, <1>9

LEMMA ClaimDueTypes ==
  ASSUME IInv, NEW s \in Schedulers, ClaimDue(s)
  PROVE  IInv'
<1>1. PICK claims \in SUBSET Claim :
        /\ tick' \in [Ticks -> TickRow]
        /\ cron' \in [Crons -> CronRow]
        /\ Become(s, [sched[s] EXCEPT !.pc = "next", !.claims = claims])
  BY ClaimDueTakes
<1>2. sched' \in [Schedulers -> Local] /\ \A q \in Schedulers : LocalSound(sched'[q])
  BY <1>1, SchedTypes, LocalUpdates, BecomeTypes, Zenon
<1>3. UNCHANGED <<attempts, run, thread, lock, posts, faults, losses, edits>>
  BY DEF ClaimDue
<1> QED  BY <1>1, <1>2, <1>3 DEF IInv, TypeOK

LEMMA NextClaimTypes ==
  ASSUME IInv, NEW s \in Schedulers, NextClaim(s) \/ CreateThread(s) \/ CheckThread(s)
  PROVE  IInv'
<1>1. sched[s] \in Local /\ LocalSound(sched[s])
  BY SchedTypes
<1>2. CASE NextClaim(s)
  <2>1. UNCHANGED <<rows, lock, posts, faults, losses, edits>>
    BY <1>2 DEF NextClaim
  <2>2. CASE Become(s, [sched[s] EXCEPT !.pc = "scan", !.second = TRUE])
    <3>1. sched' \in [Schedulers -> Local] /\ \A q \in Schedulers : LocalSound(sched'[q])
      BY <1>1, <2>2, LocalUpdates, BecomeTypes, Zenon
    <3> QED  BY <2>1, <3>1 DEF IInv, TypeOK, rows
  <2>3. ASSUME NEW c \in sched[s].claims, NEW pc \in {"submit", "create", "check"},
               Become(s, [sched[s] EXCEPT !.pc = pc, !.claims = @ \ {c}, !.claim = c])
        PROVE  IInv'
    <3>1. c \in Claim /\ pc \in ClaimSteps
      BY <1>1 DEF Local, ClaimSteps
    <3>2. sched' \in [Schedulers -> Local] /\ \A q \in Schedulers : LocalSound(sched'[q])
      BY <1>1, <2>3, <3>1, LocalUpdates, BecomeTypes, Zenon
    <3> QED  BY <2>1, <3>2 DEF IInv, TypeOK, rows
  <2>4. ASSUME NEW c \in sched[s].claims,
               Become(s, [sched[s] EXCEPT
                 !.pc = IF c.run # NoRun THEN "submit"
                        ELSE IF c.thread = NoThread THEN "create" ELSE "check",
                 !.claims = @ \ {c}, !.claim = c])
        PROVE  IInv'
    <3> DEFINE pc == IF c.run # NoRun THEN "submit"
                     ELSE IF c.thread = NoThread THEN "create" ELSE "check"
    <3>1. pc \in {"submit", "create", "check"}
      OBVIOUS
    <3>2. Become(s, [sched[s] EXCEPT !.pc = pc, !.claims = @ \ {c}, !.claim = c])
      BY <2>4
    <3> HIDE DEF pc
    <3> QED  BY <2>3, <3>1, <3>2, Zenon
  <2> QED  BY <1>2, <2>2, <2>4 DEF NextClaim
<1>3. CASE CreateThread(s)
  <2>1. PICK th \in Threads :
          /\ thread' = [thread EXCEPT ![th] = "open"]
          /\ Become(s, [sched[s] EXCEPT !.pc = "prepare", !.claim.thread = th])
    BY <1>3 DEF CreateThread
  <2>2. sched[s].pc \in ClaimSteps
    BY <1>3 DEF CreateThread, At, ClaimSteps
  <2>3. sched' \in [Schedulers -> Local] /\ \A q \in Schedulers : LocalSound(sched'[q])
    BY <1>1, <2>1, <2>2, ClaimUpdates, BecomeTypes
  <2>4. thread' \in [Threads -> {"absent", "open", "busy", "deleted"}]
    BY <2>1 DEF IInv, TypeOK
  <2>5. UNCHANGED <<cron, tick, attempts, run, lock, posts, faults, losses, edits>>
    BY <1>3 DEF CreateThread
  <2> QED  BY <2>3, <2>4, <2>5 DEF IInv, TypeOK
<1>4. CASE CheckThread(s)
  <2>1. PICK pc \in {"skip", "prepare"} : Become(s, Goto(s, pc))
    BY <1>4 DEF CheckThread
  <2>2. sched[s].pc \in ClaimSteps
    BY <1>4 DEF CheckThread, At, ClaimSteps
  <2>3. sched' \in [Schedulers -> Local] /\ \A q \in Schedulers : LocalSound(sched'[q])
    BY <2>1, <2>2, GotoTypes DEF Steps, HookSteps, ClaimSteps
  <2>4. UNCHANGED <<rows, lock, posts, faults, losses, edits>>
    BY <1>4 DEF CheckThread
  <2> QED  BY <2>3, <2>4 DEF IInv, TypeOK, rows
<1> QED  BY <1>2, <1>3, <1>4

LEMMA PrepareTypes ==
  ASSUME IInv, NEW s \in Schedulers, PrepareRun(s)
  PROVE  IInv'
<1> DEFINE c == sched[s].claim
<1>1. sched[s] \in Local /\ LocalSound(sched[s]) /\ sched[s].pc \in ClaimSteps
  BY SchedTypes, Zenon DEF PrepareRun, At, ClaimSteps
<1>2. c \in Claim
  BY <1>1, ClaimUpdates
<1>3. UNCHANGED <<cron, attempts, lock, posts, faults, losses, edits>>
  BY Zenon DEF PrepareRun
<1>4. ASSUME NEW r \in Runs,
             thread' = [thread EXCEPT ![c.thread] = "busy"],
             run' = [run EXCEPT ![r] = [@ EXCEPT
               !.status = "pending", !.thread = c.thread, !.tick = c.tick]],
             tick' = [tick EXCEPT ![c.tick] = [@ EXCEPT
               !.status = "queued", !.run = r, !.thread = c.thread, !.stale = FALSE]],
             Become(s, [sched[s] EXCEPT !.pc = "submit", !.claim.run = r])
      PROVE  IInv'
  <2>1. c.tick \in Ticks /\ c.thread \in Threads \cup {NoThread}
    BY <1>2 DEF Claim
  <2>2. sched' \in [Schedulers -> Local] /\ \A q \in Schedulers : LocalSound(sched'[q])
    BY <1>1, <1>4, ClaimUpdates, BecomeTypes
  <2>3. thread' \in [Threads -> {"absent", "open", "busy", "deleted"}]
    BY <1>4 DEF IInv, TypeOK
  <2>4. run' \in [Runs -> RunRow]
    <3>1. run[r] \in RunRow /\ run \in [Runs -> RunRow]
      BY DEF IInv, TypeOK
    <3>2. c.tick \in 0 .. MaxTicks
      BY <2>1, LimitsAssumption DEF Ticks
    <3> HIDE DEF c
    <3>3. [run[r] EXCEPT !.status = "pending", !.thread = c.thread, !.tick = c.tick] \in RunRow
      BY <2>1, <3>1, <3>2 DEF RunRow
    <3> QED  BY <1>4, <3>1, <3>3
  <2>5. tick' \in [Ticks -> TickRow]
    <3> DEFINE x == [tick[c.tick] EXCEPT
                       !.status = "queued", !.run = r, !.thread = c.thread, !.stale = FALSE]
    <3>1. tick[c.tick] \in TickRow
      BY <2>1 DEF IInv, TypeOK
    <3>2. tick' = [tick EXCEPT ![c.tick] = x]
      BY <1>4
    <3> HIDE DEF c
    <3>3. x \in TickRow
      BY <2>1, <3>1, TickUpdates, Zenon
    <3> HIDE DEF x
    <3> QED  BY <2>1, <3>2, <3>3, SetTickTypes
  <2> QED  BY <1>3, <2>2, <2>3, <2>4, <2>5 DEF IInv, TypeOK
<1>5. ASSUME NEW pc \in {"skip", "fail"}, Become(s, Goto(s, pc)), UNCHANGED <<run, tick, thread>>
      PROVE  IInv'
  <2>1. sched' \in [Schedulers -> Local] /\ \A q \in Schedulers : LocalSound(sched'[q])
    BY <1>1, <1>5, GotoTypes DEF Steps, HookSteps, ClaimSteps
  <2> QED  BY <1>3, <1>5, <2>1 DEF IInv, TypeOK
<1>6. \/ \E r \in Runs :
           /\ thread' = [thread EXCEPT ![c.thread] = "busy"]
           /\ run' = [run EXCEPT ![r] = [@ EXCEPT
                !.status = "pending", !.thread = c.thread, !.tick = c.tick]]
           /\ tick' = [tick EXCEPT ![c.tick] = [@ EXCEPT
                !.status = "queued", !.run = r, !.thread = c.thread, !.stale = FALSE]]
           /\ Become(s, [sched[s] EXCEPT !.pc = "submit", !.claim.run = r])
      \/ Become(s, Goto(s, "skip")) /\ UNCHANGED <<run, tick, thread>>
      \/ Become(s, Goto(s, "fail")) /\ UNCHANGED <<run, tick, thread>>
  BY Zenon DEF PrepareRun
<1> HIDE DEF c
<1> QED  BY <1>4, <1>5, <1>6, Zenon

LEMMA SubmitTypes ==
  ASSUME IInv, NEW s \in Schedulers, SubmitRun(s) \/ DispatchFails(s)
  PROVE  IInv'
<1>1. sched[s] \in Local /\ LocalSound(sched[s]) /\ sched[s].pc \in ClaimSteps
  <2>1. sched[s].pc = "submit" \/ sched[s].pc \in {"create", "check", "prepare"}
    BY Zenon DEF SubmitRun, DispatchFails, At
  <2> QED  BY <2>1, SchedTypes DEF ClaimSteps
<1>2. TooLong \subseteq BOOLEAN
  BY DEF TooLong
<1>3. ASSUME NEW pc \in {"fail", "overlong"}, Become(s, Goto(s, pc))
      PROVE  sched' \in [Schedulers -> Local] /\ \A q \in Schedulers : LocalSound(sched'[q])
  BY <1>1, <1>3, GotoTypes DEF Steps, HookSteps, ClaimSteps
<1>4. sched' \in [Schedulers -> Local] /\ \A q \in Schedulers : LocalSound(sched'[q])
  <2>1. CASE Become(s, ClaimDone(s))
    BY <1>1, <2>1, LocalUpdates, BecomeTypes, Zenon DEF ClaimDone
  <2>2. CASE \E pc \in {"fail", "overlong"} : Become(s, Goto(s, pc))
    BY <1>3, <2>2
  <2>3. Become(s, ClaimDone(s)) \/ \E pc \in {"fail", "overlong"} : Become(s, Goto(s, pc))
    BY Zenon DEF SubmitRun, DispatchFails
  <2> QED  BY <2>1, <2>2, <2>3
<1>5. thread' \in [Threads -> {"absent", "open", "busy", "deleted"}]
  <2>1. \/ UNCHANGED thread
        \/ thread' = [thread EXCEPT ![run[sched[s].claim.run].thread] = "open"]
    BY Zenon DEF SubmitRun, DispatchFails, rows
  <2> QED  BY <2>1 DEF IInv, TypeOK
<1>6. run' \in [Runs -> RunRow]
  <2>1. run \in [Runs -> RunRow]
    BY DEF IInv, TypeOK
  <2>2. \A r \in Runs, long \in BOOLEAN :
          [run[r] EXCEPT !.status = "error", !.long = long] \in RunRow
    BY <2>1 DEF RunRow, TerminalRun
  <2>3. \/ run' = run
        \/ \E long \in BOOLEAN : run' = [run EXCEPT
             ![sched[s].claim.run].status = "error", ![sched[s].claim.run].long = long]
    BY <1>2, Zenon DEF SubmitRun, DispatchFails, rows
  <2>4. ASSUME NEW r, NEW long \in BOOLEAN,
               run' = [run EXCEPT ![r].status = "error", ![r].long = long]
        PROVE  run' \in [Runs -> RunRow]
    <3>1. run' = [run EXCEPT ![r] = [run[r] EXCEPT !.status = "error", !.long = long]]
      BY <2>4
    <3> QED  BY <2>1, <2>2, <3>1
  <2> QED  BY <2>1, <2>3, <2>4
<1>7. faults' \in 0 .. MaxFaults
  BY BudgetTypes DEF SubmitRun, DispatchFails, IInv, TypeOK
<1>8. UNCHANGED <<cron, tick, attempts, lock, posts, losses, edits>>
  BY SMTT(30) DEF SubmitRun, DispatchFails, rows
<1> QED  BY <1>4, <1>5, <1>6, <1>7, <1>8 DEF IInv, TypeOK

LEMMA OutcomeTypes ==
  ASSUME IInv, NEW s \in Schedulers, MarkOutcome(s) \/ MarkFails(s)
  PROVE  IInv'
<1>1. sched[s] \in Local /\ LocalSound(sched[s])
  BY SchedTypes
<1>2. CASE MarkFails(s)
  BY <1>2, ExitTypes DEF MarkFails, rows, IInv, TypeOK
<1>3. CASE MarkOutcome(s)
  <2> DEFINE c == sched[s].claim
             st == IF At(s, "skip") THEN "skipped" ELSE "error"
             r  == IF At(s, "skip") THEN NoRun ELSE c.run
             th == IF At(s, "skip") \/ c.thread = NoThread THEN tick[c.tick].thread ELSE c.thread
             x  == [tick[c.tick] EXCEPT !.status = st, !.run = r, !.thread = th, !.stale = FALSE]
  <2>1. c \in Claim
    BY <1>1, <1>3 DEF MarkOutcome, ClaimSteps, LocalSound
  <2>2. c.tick \in Ticks /\ tick[c.tick] \in TickRow
    BY <2>1 DEF Claim, IInv, TypeOK
  <2>3. tick' = [tick EXCEPT ![c.tick] = x]
    BY <1>3 DEF MarkOutcome
  <2>4. sched' \in [Schedulers -> Local] /\ \A q \in Schedulers : LocalSound(sched'[q])
    BY <1>1, <1>3, LocalUpdates, BecomeTypes, Zenon DEF MarkOutcome, ClaimDone
  <2>5. UNCHANGED <<cron, attempts, run, thread, lock, posts, faults, losses, edits>>
    BY <1>3 DEF MarkOutcome
  <2> HIDE DEF c
  <2>6. /\ st \in TerminalTick
        /\ r \in Runs \cup {NoRun}
        /\ th \in Threads \cup {NoThread}
    <3>1. st \in TerminalTick
      BY DEF TerminalTick, TerminalRun
    <3>2. r \in Runs \cup {NoRun}
      BY <2>1 DEF Claim
    <3>3. th \in Threads \cup {NoThread}
      BY <2>1, <2>2 DEF Claim, TickRow
    <3> QED  BY <3>1, <3>2, <3>3
  <2> HIDE DEF st, r, th
  <2>7. x \in TickRow
    BY <2>2, <2>6, TickUpdates, Zenon
  <2> HIDE DEF x
  <2>8. tick' \in [Ticks -> TickRow]
    BY <2>2, <2>3, <2>7, SetTickTypes
  <2> QED  BY <2>4, <2>5, <2>8 DEF IInv, TypeOK
<1> QED  BY <1>2, <1>3

LEMMA ProcessTypes ==
  ASSUME IInv, NEW s \in Schedulers,
         \/ Acquire(s) \/ NextRound(s) \/ LeaseLost(s) \/ Raise(s) \/ Crash(s) \/ Restart(s)
  PROVE  IInv'
<1>1. ASSUME NEW pc \in {"scan", "gone", "new"}, Become(s, Idle(pc))
      PROVE  sched' \in [Schedulers -> Local] /\ \A q \in Schedulers : LocalSound(sched'[q])
  <2>1. Idle(pc) \in Local /\ LocalSound(Idle(pc))
    BY Sets DEF Steps, HookSteps, ClaimSteps
  <2> QED  BY <1>1, <2>1, BecomeTypes
<1>2. sched' \in [Schedulers -> Local] /\ \A q \in Schedulers : LocalSound(sched'[q])
  BY <1>1 DEF Acquire, NextRound, LeaseLost, Raise, Crash, Restart, Exit
<1>3. lock' \in Schedulers \cup {NoScheduler}
  BY DEF Acquire, NextRound, LeaseLost, Raise, Crash, Restart, Exit, IInv, TypeOK
<1>4. faults' \in 0 .. MaxFaults
  BY BudgetTypes DEF Acquire, NextRound, LeaseLost, Raise, Crash, Restart, IInv, TypeOK
<1>5. UNCHANGED <<rows, posts, losses, edits>>
  BY DEF Acquire, NextRound, LeaseLost, Raise, Crash, Restart
<1> QED  BY <1>2, <1>3, <1>4, <1>5 DEF IInv, TypeOK, rows

LEMMA CronTypes ==
  ASSUME IInv, NEW c \in Crons, ComesDue(c) \/ Ends(c) \/ PatchEnabled(c) \/ DeleteCron(c)
  PROVE  IInv'
<1>1. cron[c] \in CronRow /\ cron \in [Crons -> CronRow]
  BY DEF IInv, TypeOK
<1>2. ASSUME NEW x \in CronRow, cron' = [cron EXCEPT ![c] = x]
      PROVE  cron' \in [Crons -> CronRow]
  BY <1>1, <1>2
<1>3. cron' \in [Crons -> CronRow]
  <2>1. CASE ComesDue(c)
    <3>1. cron' = [cron EXCEPT ![c] = [cron[c] EXCEPT !.due = TRUE]]
      BY <2>1 DEF ComesDue
    <3>2. [cron[c] EXCEPT !.due = TRUE] \in CronRow
      BY <1>1 DEF CronRow
    <3> QED  BY <1>2, <3>1, <3>2
  <2>2. CASE Ends(c)
    <3>1. cron' = [cron EXCEPT ![c] = [cron[c] EXCEPT !.ended = TRUE]]
      BY <2>2 DEF Ends
    <3>2. [cron[c] EXCEPT !.ended = TRUE] \in CronRow
      BY <1>1 DEF CronRow
    <3> QED  BY <1>2, <3>1, <3>2
  <2>3. CASE PatchEnabled(c)
    <3>1. /\ [cron[c] EXCEPT !.enabled = FALSE] \in CronRow
          /\ [NextOccurrence(c) EXCEPT !.enabled = TRUE] \in CronRow
      BY <1>1 DEF CronRow, NextOccurrence
    <3> QED  BY <1>1, <2>3, <3>1 DEF PatchEnabled
  <2>4. CASE DeleteCron(c)
    <3>1. cron' = [cron EXCEPT ![c] = [cron[c] EXCEPT !.exists = FALSE, !.due = FALSE]]
      BY <2>4 DEF DeleteCron
    <3>2. [cron[c] EXCEPT !.exists = FALSE, !.due = FALSE] \in CronRow
      BY <1>1 DEF CronRow
    <3> QED  BY <1>2, <3>1, <3>2
  <2> QED  BY <2>1, <2>2, <2>3, <2>4
<1>4. edits' \in 0 .. MaxEdits
  BY BudgetTypes DEF ComesDue, Ends, PatchEnabled, DeleteCron, IInv, TypeOK
<1>5. UNCHANGED <<tick, attempts, run, thread, lock, sched, posts, faults, losses>>
  BY DEF ComesDue, Ends, PatchEnabled, DeleteCron
<1> QED  BY <1>3, <1>4, <1>5 DEF IInv, TypeOK

LEMMA StaleTypes ==
  ASSUME IInv, LockExpires \/ \E t \in Ticks : GoesStale(t)
  PROVE  IInv'
<1>1. CASE LockExpires
  <2>1. losses' \in 0 .. MaxLosses /\ lock' \in Schedulers \cup {NoScheduler}
    BY <1>1, LimitsAssumption DEF LockExpires, IInv, TypeOK
  <2>2. UNCHANGED <<rows, sched, posts, faults, edits>>
    BY <1>1 DEF LockExpires
  <2> QED  BY <2>1, <2>2 DEF IInv, TypeOK, rows
<1>2. ASSUME NEW t \in Ticks, GoesStale(t)
      PROVE  IInv'
  <2>1. tick[t] \in TickRow
    BY DEF IInv, TypeOK
  <2>2. tick' = [tick EXCEPT ![t] = [tick[t] EXCEPT !.stale = TRUE]]
    BY <1>2 DEF GoesStale
  <2>3. tick' \in [Ticks -> TickRow]
    BY <2>1, <2>2, TickUpdates, SetTickTypes
  <2>4. UNCHANGED <<cron, attempts, run, thread, lock, sched, posts, faults, losses, edits>>
    BY <1>2 DEF GoesStale
  <2> QED  BY <2>3, <2>4 DEF IInv, TypeOK
<1> QED  BY <1>1, <1>2

LEMMA RunTypes ==
  ASSUME IInv,
         \/ \E th \in Threads : DeleteThread(th) \/ \E r \in Runs : ClientRuns(th, r)
         \/ \E r \in Runs : DeleteRun(r) \/ RunStarts(r) \/ RunEnds(r)
  PROVE  IInv'
<1>1. run \in [Runs -> RunRow]
  BY DEF IInv, TypeOK
<1>2. \A r \in Runs, st \in {"deleted", "running"} \cup TerminalRun, long \in BOOLEAN :
        /\ [run[r] EXCEPT !.status = st] \in RunRow
        /\ [run[r] EXCEPT !.status = st, !.long = long] \in RunRow
  BY <1>1 DEF RunRow
<1>3. ASSUME NEW r \in Runs, NEW x \in RunRow, run' = [run EXCEPT ![r] = x]
      PROVE  run' \in [Runs -> RunRow]
  BY <1>1, <1>3
<1>4. CASE \E th \in Threads : DeleteThread(th)
  <2>1. run' \in [Runs -> RunRow]
    <3>1. \A r \in Runs : [run[r] EXCEPT !.status = "deleted"] \in RunRow
      BY <1>1 DEF RunRow
    <3> QED  BY <1>1, <1>4, <3>1 DEF DeleteThread
  <2>2. thread' \in [Threads -> {"absent", "open", "busy", "deleted"}]
    BY <1>4 DEF DeleteThread, IInv, TypeOK
  <2>3. edits' \in 0 .. MaxEdits
    BY <1>4, BudgetTypes DEF DeleteThread
  <2>4. UNCHANGED <<cron, tick, attempts, lock, sched, posts, faults, losses>>
    BY <1>4 DEF DeleteThread
  <2> QED  BY <2>1, <2>2, <2>3, <2>4 DEF IInv, TypeOK
<1>6. ASSUME NEW th \in Threads, NEW r \in Runs, ClientRuns(th, r)
      PROVE  IInv'
  <2>1. run' \in [Runs -> RunRow]
    <3> DEFINE x == [run[r] EXCEPT !.status = "pending", !.thread = th]
    <3>1. x \in RunRow
      BY <1>1 DEF RunRow
    <3>2. run' = [run EXCEPT ![r] = x]
      BY <1>1, <1>6 DEF ClientRuns
    <3> HIDE DEF x
    <3> QED  BY <1>3, <3>1, <3>2
  <2>2. thread' \in [Threads -> {"absent", "open", "busy", "deleted"}]
    BY <1>6 DEF ClientRuns, IInv, TypeOK
  <2>3. edits' \in 0 .. MaxEdits
    BY <1>6, BudgetTypes DEF ClientRuns
  <2>4. UNCHANGED <<cron, tick, attempts, lock, sched, posts, faults, losses>>
    BY <1>6 DEF ClientRuns
  <2> QED  BY <2>1, <2>2, <2>3, <2>4 DEF IInv, TypeOK
<1>5. ASSUME NEW r \in Runs, DeleteRun(r) \/ RunStarts(r) \/ RunEnds(r)
      PROVE  IInv'
  <2>1. run' \in [Runs -> RunRow]
    <3>1. CASE DeleteRun(r)
      <4>1. run' = [run EXCEPT ![r] = [run[r] EXCEPT !.status = "deleted"]]
        BY <3>1 DEF DeleteRun
      <4> QED  BY <1>2, <1>3, <4>1
    <3>2. CASE RunStarts(r)
      <4>1. run' = [run EXCEPT ![r] = [run[r] EXCEPT !.status = "running"]]
        BY <3>2 DEF RunStarts
      <4> QED  BY <1>2, <1>3, <4>1
    <3>3. CASE RunEnds(r)
      <4>1. CASE run' = [run EXCEPT ![r].status = "error"]
        <5>1. run' = [run EXCEPT ![r] = [run[r] EXCEPT !.status = "error"]]
          BY <4>1
        <5> QED  BY <1>2, <1>3, <5>1 DEF TerminalRun
      <4>2. ASSUME NEW st \in TerminalRun, NEW long \in BOOLEAN,
                   run' = [run EXCEPT ![r].status = st, ![r].long = long]
            PROVE  run' \in [Runs -> RunRow]
        <5>1. run' = [run EXCEPT ![r] = [run[r] EXCEPT !.status = st, !.long = long]]
          BY <4>2
        <5> QED  BY <1>2, <1>3, <5>1
      <4> QED  BY <3>3, <4>1, <4>2 DEF RunEnds
    <3> QED  BY <1>5, <3>1, <3>2, <3>3
  <2>2. thread' \in [Threads -> {"absent", "open", "busy", "deleted"}]
    BY <1>5 DEF DeleteRun, RunStarts, RunEnds, IInv, TypeOK
  <2>3. edits' \in 0 .. MaxEdits
    BY <1>5, BudgetTypes DEF DeleteRun, RunStarts, RunEnds, IInv, TypeOK
  <2>4. UNCHANGED <<cron, tick, attempts, lock, sched, posts, faults, losses>>
    BY <1>5 DEF DeleteRun, RunStarts, RunEnds
  <2> QED  BY <2>1, <2>2, <2>3, <2>4 DEF IInv, TypeOK
<1> QED  BY <1>4, <1>5, <1>6

LEMMA NextTypes == IInv /\ [Next]_vars => IInv'
<1> SUFFICES ASSUME IInv, [Next]_vars PROVE IInv'
  OBVIOUS
<1>1. CASE UNCHANGED vars
  BY <1>1 DEF vars, IInv, TypeOK
<1>2. ASSUME NEW s \in Schedulers, SchedulerStep(s) \/ DispatchFails(s) \/ Raise(s) \/ Crash(s)
      PROVE  IInv'
  BY <1>2, ProcessTypes, ScanTypes, HookTypes, DropTypes, ClaimDueTypes, NextClaimTypes,
     PrepareTypes, SubmitTypes, OutcomeTypes DEF SchedulerStep
<1>3. ASSUME NEW c \in Crons, ComesDue(c) \/ Ends(c) \/ PatchEnabled(c) \/ DeleteCron(c)
      PROVE  IInv'
  BY <1>3, CronTypes
<1> QED  BY <1>1, <1>2, <1>3, StaleTypes, RunTypes DEF Next

\* Every table and every scheduler's locals stay within their types; a webhook is
\* called only with a status that ends a tick, an attempt only up to the limit.
THEOREM CronTypeInvariant == Spec => []TypeOK
<1>1. IInv => TypeOK
  BY DEF IInv
<1> QED  BY InitTypes, NextTypes, <1>1, PTL DEF Spec

-----------------------------------------------------------------------------
(* A tick that waits for its dispatch has no run.                          *)

Prepared(t) == tick[t].status \notin {"free", "started"}

\* The inductive invariant: a run was created for a tick that names one since.
RunsLinked == \A r \in Runs : run[r].tick \in Ticks => Prepared(run[r].tick)

\* claim_due_crons takes free ticks only; nothing else makes a tick "started".
LEMMA TicksStayPrepared ==
  ASSUME IInv, [Next]_vars, NEW t \in Ticks, Prepared(t)
  PROVE  Prepared(t)'
<1>1. tick[t] \in TickRow /\ tick \in [Ticks -> TickRow]
  BY DEF IInv, TypeOK
<1>2. CASE UNCHANGED tick
  BY <1>2 DEF Prepared
<1>3. ASSUME NEW s \in Schedulers, SchedulerStep(s)
      PROVE  Prepared(t)'
  <2>1. CASE Scan(s)
    <3>1. t \in Selected => SettledStatus(t) \notin {"free", "started"}
      BY SettledTypes DEF TerminalTick, TerminalRun
    <3>2. t \in Selected => tick'[t].status = SettledStatus(t)
      BY <1>1, <2>1 DEF Scan, TickRow
    <3>3. t \notin Selected => tick'[t] = tick[t]
      BY <2>1 DEF Scan
    <3> QED  BY <3>1, <3>2, <3>3 DEF Prepared
  <2>2. CASE RecordAttempt(s) \/ RecordResult(s)
    <3>1. tick'[t].status = tick[t].status
      BY <1>1, <2>2, SMTT(30) DEF RecordAttempt, RecordResult, TickRow
    <3> QED  BY <3>1 DEF Prepared
  <2>3. CASE ClaimDue(s)
    <3>1. PICK fresh \in SUBSET Free : \A u \in Ticks \ fresh :
            IF u \in Free THEN tick'[u].status = "free"
            ELSE tick'[u].status \in {tick[u].status, "skipped"}
      BY <2>3, ClaimDueTakes
    <3>2. t \notin Free
      BY DEF Prepared, Free
    <3> QED  BY <3>1, <3>2 DEF Prepared
  <2>4. CASE PrepareRun(s)
    <3> DEFINE c == sched[s].claim
    <3>1. \/ UNCHANGED tick
          \/ \E r \in Runs : tick' = [tick EXCEPT ![c.tick] = [@ EXCEPT
               !.status = "queued", !.run = r, !.thread = c.thread, !.stale = FALSE]]
      BY <2>4, Zenon DEF PrepareRun
    <3> HIDE DEF c
    <3>2. ASSUME NEW r \in Runs, tick' = [tick EXCEPT ![c.tick] = [@ EXCEPT
                   !.status = "queued", !.run = r, !.thread = c.thread, !.stale = FALSE]]
          PROVE  tick'[t].status \in {tick[t].status, "queued"}
      <4>1. CASE t = c.tick
        BY <1>1, <3>2, <4>1 DEF TickRow
      <4>2. CASE t # c.tick
        BY <1>1, <3>2, <4>2
      <4> QED  BY <4>1, <4>2
    <3>3. tick'[t].status \in {tick[t].status, "queued"}
      BY <3>1, <3>2
    <3> QED  BY <3>3 DEF Prepared
  <2>5. CASE MarkOutcome(s)
    <3>1. tick'[t].status \in {tick[t].status, "skipped", "error"}
      BY <1>1, <2>5 DEF MarkOutcome, TickRow
    <3> QED  BY <3>1 DEF Prepared
  <2>6. CASE \/ Acquire(s) \/ NextRound(s) \/ LeaseLost(s) \/ Restart(s)
             \/ ScanFails(s) \/ NextHook(s) \/ Post(s) \/ Drop(s) \/ NextClaim(s)
             \/ CreateThread(s) \/ CheckThread(s) \/ SubmitRun(s) \/ MarkFails(s)
    BY <1>2, <2>6, Zenon DEF Acquire, NextRound, LeaseLost, Restart, ScanFails, NextHook, Post,
       Drop, NextClaim, CreateThread, CheckThread, SubmitRun, MarkFails, rows
  <2> QED  BY <1>3, <2>1, <2>2, <2>3, <2>4, <2>5, <2>6 DEF SchedulerStep
<1>4. ASSUME NEW u \in Ticks, GoesStale(u)
      PROVE  Prepared(t)'
  BY <1>1, <1>4 DEF GoesStale, TickRow, Prepared
<1>5. ASSUME NEW s \in Schedulers, DispatchFails(s) \/ Raise(s) \/ Crash(s)
      PROVE  Prepared(t)'
  BY <1>2, <1>5 DEF DispatchFails, Raise, Crash, rows
<1>6. ASSUME NEW c \in Crons, ComesDue(c) \/ Ends(c) \/ PatchEnabled(c) \/ DeleteCron(c)
      PROVE  Prepared(t)'
  BY <1>2, <1>6 DEF ComesDue, Ends, PatchEnabled, DeleteCron
<1>7. ASSUME NEW th \in Threads, DeleteThread(th)
      PROVE  Prepared(t)'
  BY <1>2, <1>7 DEF DeleteThread
<1>10. ASSUME NEW th \in Threads, NEW r \in Runs, ClientRuns(th, r)
       PROVE  Prepared(t)'
  BY <1>2, <1>10 DEF ClientRuns
<1>8. ASSUME NEW r \in Runs, DeleteRun(r) \/ RunStarts(r) \/ RunEnds(r)
      PROVE  Prepared(t)'
  BY <1>2, <1>8 DEF DeleteRun, RunStarts, RunEnds
<1>9. CASE LockExpires \/ UNCHANGED vars
  BY <1>2, <1>9 DEF LockExpires, rows, vars
<1> QED  BY <1>3, <1>4, <1>5, <1>6, <1>7, <1>8, <1>9, <1>10 DEF Next

\* A run's status and error change, not its tick.
LEMMA RunEdits ==
  ASSUME IInv, NEW r \in Runs,
         \E x, st, long : \/ run' = [run EXCEPT ![x].status = st]
                         \/ run' = [run EXCEPT ![x].status = st, ![x].long = long]
  PROVE  run'[r].tick = run[r].tick
<1>0. PICK x, st, long : \/ run' = [run EXCEPT ![x].status = st]
                         \/ run' = [run EXCEPT ![x].status = st, ![x].long = long]
  OBVIOUS
<1>1. run[r] \in RunRow /\ run \in [Runs -> RunRow]
  BY DEF IInv, TypeOK
<1>2. CASE run' = [run EXCEPT ![x].status = st]
  <2>1. run'[r] = IF r = x THEN [run[r] EXCEPT !.status = st] ELSE run[r]
    BY <1>1, <1>2
  <2> QED  BY <1>1, <2>1 DEF RunRow
<1>3. CASE run' = [run EXCEPT ![x].status = st, ![x].long = long]
  <2>1. run'[r] = IF r = x THEN [run[r] EXCEPT !.status = st, !.long = long] ELSE run[r]
    BY <1>1, <1>3
  <2> QED  BY <1>1, <2>1 DEF RunRow
<1> QED  BY <1>0, <1>2, <1>3

\* No step but prepare_run gives a run its tick.
LEMMA OthersKeepTicks ==
  ASSUME IInv, [Next]_vars, ~\E s \in Schedulers : PrepareRun(s), NEW r \in Runs
  PROVE  run'[r].tick = run[r].tick
<1>1. run[r] \in RunRow /\ run \in [Runs -> RunRow]
  BY DEF IInv, TypeOK
<1>2. ASSUME NEW s \in Schedulers, SchedulerStep(s)
      PROVE  run'[r].tick = run[r].tick
  <2>1. ~PrepareRun(s)
    OBVIOUS
  <2>2. CASE Drop(s)
    BY <1>1, <2>2 DEF Drop, RunRow
  <2>3. CASE SubmitRun(s)
    <3> DEFINE q == sched[s].claim.run
    <3>1. \/ UNCHANGED run
          \/ \E long \in TooLong : run' = [run EXCEPT ![q].status = "error", ![q].long = long]
      BY <2>3, Zenon DEF SubmitRun
    <3> HIDE DEF q
    <3>2. CASE UNCHANGED run
      BY <3>2
    <3>3. ASSUME NEW long \in TooLong,
                 run' = [run EXCEPT ![q].status = "error", ![q].long = long]
          PROVE  run'[r].tick = run[r].tick
      <4>1. \E x, st, lg : \/ run' = [run EXCEPT ![x].status = st]
                           \/ run' = [run EXCEPT ![x].status = st, ![x].long = lg]
        BY <3>3
      <4> QED  BY <4>1, RunEdits
    <3> QED  BY <3>1, <3>2, <3>3
  <2>4. CASE \/ Acquire(s) \/ NextRound(s) \/ LeaseLost(s) \/ Restart(s)
             \/ Scan(s) \/ ScanFails(s) \/ NextHook(s) \/ Post(s) \/ RecordAttempt(s)
             \/ RecordResult(s) \/ ClaimDue(s) \/ NextClaim(s) \/ CreateThread(s)
             \/ CheckThread(s) \/ MarkOutcome(s) \/ MarkFails(s)
    <3>1. UNCHANGED run
      BY <2>4, Zenon DEF Acquire, NextRound, LeaseLost, Restart, Scan, ScanFails, NextHook, Post,
         RecordAttempt, RecordResult, ClaimDue, NextClaim, CreateThread, CheckThread,
         MarkOutcome, MarkFails, rows
    <3> QED  BY <3>1
  <2> QED  BY <1>2, <2>1, <2>2, <2>3, <2>4 DEF SchedulerStep
<1>3. ASSUME NEW s \in Schedulers, DispatchFails(s) \/ Raise(s) \/ Crash(s)
      PROVE  run'[r].tick = run[r].tick
  BY <1>3 DEF DispatchFails, Raise, Crash, rows
<1>4. ASSUME NEW c \in Crons, ComesDue(c) \/ Ends(c) \/ PatchEnabled(c) \/ DeleteCron(c)
      PROVE  run'[r].tick = run[r].tick
  BY <1>4 DEF ComesDue, Ends, PatchEnabled, DeleteCron
<1>5. ASSUME NEW th \in Threads, DeleteThread(th)
      PROVE  run'[r].tick = run[r].tick
  BY <1>1, <1>5 DEF DeleteThread, RunRow
<1>8. ASSUME NEW th \in Threads, NEW x \in Runs, ClientRuns(th, x)
      PROVE  run'[r].tick = run[r].tick
  BY <1>1, <1>8 DEF ClientRuns, RunRow
<1>6. ASSUME NEW x \in Runs, DeleteRun(x) \/ RunStarts(x) \/ RunEnds(x)
      PROVE  run'[r].tick = run[r].tick
  <2>1. PICK st, long : \/ run' = [run EXCEPT ![x].status = st]
                        \/ run' = [run EXCEPT ![x].status = st, ![x].long = long]
    BY <1>6 DEF DeleteRun, RunStarts, RunEnds
  <2> QED  BY <2>1, RunEdits
<1>7. CASE LockExpires \/ UNCHANGED vars \/ \E t \in Ticks : GoesStale(t)
  BY <1>7 DEF LockExpires, rows, vars, GoesStale
<1> QED  BY <1>2, <1>3, <1>4, <1>5, <1>6, <1>7, <1>8 DEF Next

\* prepare_run gives a run its tick in the transaction that queues the tick.
LEMMA RunsKeepTicks ==
  ASSUME IInv, [Next]_vars, NEW r \in Runs
  PROVE  \/ run'[r].tick = run[r].tick
         \/ run'[r].tick \in Ticks /\ Prepared(run[r].tick)'
<1>1. run[r] \in RunRow /\ run \in [Runs -> RunRow]
  BY DEF IInv, TypeOK
<1>2. ASSUME NEW s \in Schedulers, PrepareRun(s)
      PROVE  \/ run'[r].tick = run[r].tick
             \/ run'[r].tick \in Ticks /\ Prepared(run[r].tick)'
  <2> DEFINE c == sched[s].claim
  <2>1. c.tick \in Ticks
    <3>1. sched[s] \in Local /\ LocalSound(sched[s]) /\ sched[s].pc \in ClaimSteps
      BY <1>2, SchedTypes, Zenon DEF PrepareRun, At, ClaimSteps
    <3> QED  BY <3>1, ClaimUpdates DEF Claim
  <2>2. CASE UNCHANGED run
    BY <2>2
  <2>3. ASSUME NEW x \in Runs,
               run' = [run EXCEPT ![x] = [@ EXCEPT
                 !.status = "pending", !.thread = c.thread, !.tick = c.tick]],
               tick' = [tick EXCEPT ![c.tick] = [@ EXCEPT
                 !.status = "queued", !.run = x, !.thread = c.thread, !.stale = FALSE]]
        PROVE  \/ run'[r].tick = run[r].tick
               \/ run'[r].tick \in Ticks /\ Prepared(run[r].tick)'
    <3>1. tick[c.tick] \in TickRow /\ tick \in [Ticks -> TickRow]
      BY <2>1 DEF IInv, TypeOK
    <3> HIDE DEF c
    <3>2. tick'[c.tick].status = "queued"
      BY <2>1, <2>3, <3>1 DEF TickRow
    <3>3. r = x => run'[r].tick = c.tick
      BY <1>1, <2>3 DEF RunRow
    <3>4. r # x => run'[r].tick = run[r].tick
      BY <1>1, <2>3
    <3> QED  BY <2>1, <3>2, <3>3, <3>4 DEF Prepared
  <2>4. \/ UNCHANGED run
        \/ \E x \in Runs :
             /\ run' = [run EXCEPT ![x] = [@ EXCEPT
                  !.status = "pending", !.thread = c.thread, !.tick = c.tick]]
             /\ tick' = [tick EXCEPT ![c.tick] = [@ EXCEPT
                  !.status = "queued", !.run = x, !.thread = c.thread, !.stale = FALSE]]
    BY <1>2, Zenon DEF PrepareRun
  <2> HIDE DEF c
  <2> QED  BY <2>2, <2>3, <2>4, Zenon
<1> QED  BY <1>2, OthersKeepTicks

LEMMA InitLinked == Init => RunsLinked
BY LimitsAssumption DEF Init, RunsLinked, Ticks

LEMMA NextLinked ==
  ASSUME IInv, RunsLinked, [Next]_vars
  PROVE  RunsLinked'
<1> SUFFICES ASSUME NEW r \in Runs, run'[r].tick \in Ticks
             PROVE  Prepared(run[r].tick)'
  BY DEF RunsLinked, Ticks
<1>1. CASE run'[r].tick = run[r].tick
  <2> DEFINE t == run[r].tick
  <2>1. t \in Ticks /\ Prepared(t)
    BY <1>1 DEF RunsLinked
  <2>2. tick'[t].status \notin {"free", "started"}
    BY <2>1, TicksStayPrepared DEF Prepared
  <2> QED  BY <1>1, <2>2 DEF Prepared
<1>2. CASE run'[r].tick # run[r].tick
  BY <1>2, RunsKeepTicks
<1> QED  BY <1>1, <1>2

\* claim_due_crons dispatches a stale "started" tick anew because it has no run:
\* no interleaving, stop, lost lock or client makes it have one.
THEOREM StaleTicksHaveNoRun == Spec => []StartedHasNoRun
<1>1. RunsLinked => StartedHasNoRun
  BY DEF RunsLinked, StartedHasNoRun, Prepared
<1> QED  BY InitTypes, NextTypes, InitLinked, NextLinked, <1>1, PTL DEF Spec

-----------------------------------------------------------------------------
(* An occurrence runs once, and what it ended with is final.  The argument *)
(* is about what a scheduler has in hand: between two of its transactions   *)
(* the rows of its claims and of its webhooks are as it read them.  That is *)
(* so as long as the process that runs is the one that holds the lock.      *)

Live(s) == sched[s].pc \notin {"new", "gone"}

Sole == \A s \in Schedulers : Live(s) => lock = s

\* What a claim says, against the ticks T: no run yet, or the run to submit again.
ClaimHeld(T, c) ==
  IF c.run = NoRun
  THEN T[c.tick].status = "started"
  ELSE T[c.tick].status = "queued" /\ T[c.tick].run = c.run

\* The claims of a scheduler whose locals are x: one for a tick, all of them true.
ClaimsHeld(T, x) ==
  /\ x.pc \notin ClaimSteps \cup {"next"} => x.claims = {}
  /\ \A c, d \in x.claims : c.tick = d.tick => c = d
  /\ \A c \in x.claims : ClaimHeld(T, c)
  /\ x.pc \in ClaimSteps => ClaimHeld(T, x.claim) /\ \A c \in x.claims : c.tick # x.claim.tick
  /\ x.pc \in {"create", "check", "prepare", "skip"} => x.claim.run = NoRun

HookHeld(T, h) == T[h.tick].status = h.status /\ T[h.tick].hook = "delivering"

\* The webhooks of a scheduler whose locals are x are reserved, and the number of the
\* attempt it is at has been called that often, by the history P of the calls.
HooksHeld(T, P, x) ==
  /\ x.pc \notin HookSteps \cup {"hooks"} => x.hooks = {}
  /\ \A h \in x.hooks : HookHeld(T, h)
  /\ x.pc \in HookSteps => HookHeld(T, x.hook) /\ \A h \in x.hooks : h.tick # x.hook.tick
  /\ x.pc = "post" => x.n <= P[x.hook.tick].count + 1
  /\ x.pc \in {"attempt", "again"} => x.n <= P[x.hook.tick].count
  /\ x.pc = "result" /\ ~x.ok => MaxAttempts <= P[x.hook.tick].count

Held(T, P, x) == ClaimsHeld(T, x) /\ HooksHeld(T, P, x)

\* A tick's row, the attempts A recorded for it and its calls agree.
RowHeld(T, A, P, t) ==
  /\ T[t].status \in {"free", "started"} => T[t].run = NoRun
  /\ T[t].status = "queued" => T[t].run # NoRun
  /\ P[t].told # {} => T[t].status \in TerminalTick /\ P[t].told = {T[t].status}
  /\ A[t] <= P[t].count
  /\ T[t].hook = "failed" => MaxAttempts <= P[t].count

OnceInv ==
  /\ Sole
  /\ \A s \in Schedulers : Held(tick, posts, sched[s])
  /\ \A t \in Ticks : RowHeld(tick, attempts, posts, t)

\* What a step does to a tick that has ended, and to a webhook.
TickStands(t) ==
  tick[t].status \in TerminalTick =>
    tick'[t].status = tick[t].status /\ tick'[t].run = tick[t].run

HookSettles(t) ==
  /\ tick[t].hook \in {"delivered", "failed"} => posts'[t].count = posts[t].count
  /\ tick'[t].hook = "failed" => posts[t].count >= MaxAttempts

\* A process at rest has nothing in hand, whatever the tables say.
LEMMA IdleHolds ==
  ASSUME NEW T, NEW P, NEW pc, pc \notin HookSteps \cup ClaimSteps
  PROVE  Held(T, P, Idle(pc))
BY DEF Held, ClaimsHeld, HooksHeld, Idle, HookSteps, ClaimSteps

LEMMA StoppedHolds ==
  ASSUME NEW s \in Schedulers, ~Live(s), Held(tick, posts, sched[s]), NEW T, NEW P
  PROVE  Held(T, P, sched[s])
BY DEF Live, Held, ClaimsHeld, HooksHeld, HookSteps, ClaimSteps

\* The scheduler that runs takes a step: no other one has anything in hand.
LEMMA HolderSteps ==
  ASSUME IInv, OnceInv, NEW s \in Schedulers, NEW new, Live(s), Become(s, new),
         UNCHANGED lock, Held(tick', posts', new),
         \A t \in Ticks : RowHeld(tick', attempts', posts', t)
  PROVE  OnceInv'
<1>1. lock = s
  BY DEF OnceInv, Sole
<1>2. \A q \in Schedulers : sched'[q] = IF q = s THEN new ELSE sched[q]
  BY DEF Become, IInv, TypeOK
<1>3. ASSUME NEW q \in Schedulers, q # s
      PROVE  /\ sched'[q] = sched[q]
             /\ ~Live(q)
             /\ Held(tick', posts', sched'[q])
  <2>1. ~Live(q) /\ sched'[q] = sched[q]
    BY <1>1, <1>2, <1>3 DEF OnceInv, Sole
  <2>2. Held(tick', posts', sched[q])
    BY <2>1, StoppedHolds DEF OnceInv
  <2> QED  BY <2>1, <2>2
<1>4. Sole'
  BY <1>1, <1>3 DEF Sole, Live
<1>5. \A q \in Schedulers : Held(tick', posts', sched'[q])
  BY <1>2, <1>3
<1> QED  BY <1>4, <1>5 DEF OnceInv, Held, ClaimsHeld, ClaimHeld, HooksHeld, HookHeld, RowHeld

\* The same, when it changes nothing but its locals and what ticks do not depend on.
LEMMA HolderMoves ==
  ASSUME IInv, OnceInv, NEW s \in Schedulers, NEW new, Live(s), Become(s, new),
         UNCHANGED <<tick, attempts, posts, lock>>,
         Held(tick, posts, new)
  PROVE  OnceInv'
<1>1. Held(tick', posts', new) /\ \A t \in Ticks : RowHeld(tick', attempts', posts', t)
  BY DEF OnceInv
<1> QED  BY <1>1, HolderSteps

\* A process stops, or starts without the lock.
LEMMA HolderLeaves ==
  ASSUME IInv, OnceInv, NEW s \in Schedulers, NEW pc \in {"gone", "new"}, Become(s, Idle(pc)),
         UNCHANGED <<tick, attempts, posts>>, lock' = lock \/ lock = s
  PROVE  OnceInv'
<1>1. \A q \in Schedulers : sched'[q] = IF q = s THEN Idle(pc) ELSE sched[q]
  BY DEF Become, IInv, TypeOK
<1>2. Held(tick, posts, Idle(pc))
  BY IdleHolds DEF HookSteps, ClaimSteps
<1>3. Sole'
  <2> SUFFICES ASSUME NEW q \in Schedulers, Live(q)' PROVE lock' = q
    BY DEF Sole
  <2>1. q # s
    BY <1>1 DEF Live, Idle
  <2>2. Live(q)
    BY <1>1, <2>1 DEF Live
  <2>3. lock = q
    BY <2>2 DEF OnceInv, Sole
  <2> QED  BY <2>1, <2>3
<1>4. \A q \in Schedulers : Held(tick', posts', sched'[q])
  BY <1>1, <1>2 DEF OnceInv
<1>5. \A t \in Ticks : RowHeld(tick', attempts', posts', t)
  BY DEF OnceInv
<1> QED  BY <1>3, <1>4, <1>5 DEF OnceInv, Held, ClaimsHeld, ClaimHeld, HooksHeld, HookHeld, RowHeld

-----------------------------------------------------------------------------
(* What a scheduler has in hand after each of its steps.                   *)

\* At a claim, the ticks unchanged.
LEMMA ClaimMoves ==
  ASSUME NEW T, NEW P, NEW x \in Local, x.pc \in ClaimSteps, Held(T, P, x)
  PROVE  /\ \A pc \in ClaimSteps :
              (pc \in {"create", "check", "prepare", "skip"} => x.claim.run = NoRun)
              => Held(T, P, [x EXCEPT !.pc = pc])
         /\ \A th \in Threads : x.claim \in Claim /\ x.claim.run = NoRun
              => Held(T, P, [x EXCEPT !.pc = "prepare", !.claim.thread = th])
         /\ Held(T, P, [x EXCEPT !.pc = "next", !.claim = NoClaim])
<1> USE DEF Local, Held, ClaimsHeld, HooksHeld
<1>1. x.hooks = {}
  BY DEF HookSteps, ClaimSteps
<1>2. ASSUME NEW pc \in ClaimSteps,
             pc \in {"create", "check", "prepare", "skip"} => x.claim.run = NoRun
      PROVE  Held(T, P, [x EXCEPT !.pc = pc])
  BY <1>1, <1>2 DEF HookSteps, ClaimSteps
<1>3. ASSUME NEW th \in Threads, x.claim \in Claim, x.claim.run = NoRun
      PROVE  Held(T, P, [x EXCEPT !.pc = "prepare", !.claim.thread = th])
  <2> DEFINE c == [x.claim EXCEPT !.thread = th]
             y == [x EXCEPT !.pc = "prepare", !.claim = c]
  <2>1. c.tick = x.claim.tick /\ c.run = x.claim.run
    BY <1>3 DEF Claim
  <2>2. ClaimHeld(T, c)
    BY <2>1 DEF ClaimHeld, ClaimSteps
  <2> HIDE DEF c
  <2>3. Held(T, P, y)
    BY <1>1, <1>3, <2>1, <2>2 DEF HookSteps, ClaimSteps
  <2> QED  BY <2>3 DEF c
<1>4. Held(T, P, [x EXCEPT !.pc = "next", !.claim = NoClaim])
  BY <1>1 DEF HookSteps, ClaimSteps
<1> QED  BY <1>2, <1>3, <1>4

LEMMA LiveSteps ==
  ASSUME NEW s \in Schedulers, sched[s].pc \in Steps \ {"new", "gone"}
  PROVE  Live(s)
BY DEF Live

\* A process starts or stops, at any point of its round.
LEMMA ProcessOnce ==
  ASSUME IInv, OnceInv, NEW s \in Schedulers,
         \/ Acquire(s) \/ NextRound(s) \/ LeaseLost(s) \/ Raise(s) \/ Crash(s) \/ Restart(s)
         \/ ScanFails(s) \/ MarkFails(s)
  PROVE  OnceInv' /\ UNCHANGED <<tick, posts>>
<1>1. UNCHANGED <<tick, attempts, posts>>
  BY DEF Acquire, NextRound, LeaseLost, Raise, Crash, Restart, ScanFails, MarkFails, rows
<1>2. CASE Acquire(s)
  <2>1. Held(tick, posts, Idle("scan"))
    BY IdleHolds DEF HookSteps, ClaimSteps
  <2>2. \A q \in Schedulers : sched'[q] = IF q = s THEN Idle("scan") ELSE sched[q]
    BY <1>2 DEF Acquire, Become, IInv, TypeOK
  <2>3. Sole'
    <3>1. \A q \in Schedulers : ~Live(q)
      BY <1>2, NullsAssumption DEF Acquire, OnceInv, Sole
    <3> QED  BY <1>2, <2>2, <3>1 DEF Acquire, Sole, Live
  <2>4. \A q \in Schedulers : Held(tick', posts', sched'[q])
    BY <1>1, <2>1, <2>2 DEF OnceInv
  <2>5. \A t \in Ticks : RowHeld(tick', attempts', posts', t)
    BY <1>1 DEF OnceInv
  <2>6. OnceInv'
    BY <2>3, <2>4, <2>5 DEF OnceInv, Held, ClaimsHeld, ClaimHeld, HooksHeld, HookHeld, RowHeld
  <2> QED  BY <1>1, <2>6
<1>3. CASE NextRound(s)
  <2>1. Held(tick, posts, Idle("scan"))
    BY IdleHolds DEF HookSteps, ClaimSteps
  <2>2. Live(s) /\ Become(s, Idle("scan")) /\ UNCHANGED lock
    BY <1>3 DEF NextRound, At, Live
  <2> QED  BY <1>1, <2>1, <2>2, HolderMoves
<1>4. CASE LeaseLost(s) \/ Raise(s) \/ ScanFails(s) \/ MarkFails(s) \/ Crash(s) \/ Restart(s)
  <2>1. PICK pc \in {"gone", "new"} : Become(s, Idle(pc))
    BY <1>4 DEF LeaseLost, Raise, ScanFails, MarkFails, Crash, Restart, Exit
  <2>2. lock' = lock \/ lock = s
    BY <1>4 DEF LeaseLost, Raise, ScanFails, MarkFails, Crash, Restart, Exit, rows
  <2> QED  BY <1>1, <2>1, <2>2, HolderLeaves
<1>5. Acquire(s) \/ NextRound(s)
      \/ (LeaseLost(s) \/ Raise(s) \/ ScanFails(s) \/ MarkFails(s) \/ Crash(s) \/ Restart(s))
  OBVIOUS
<1> QED  BY <1>2, <1>3, <1>4, <1>5

\* The dispatch of a claim, where it leaves the ticks alone.
LEMMA DispatchOnce ==
  ASSUME IInv, OnceInv, NEW s \in Schedulers,
         \/ NextClaim(s) \/ CreateThread(s) \/ CheckThread(s) \/ SubmitRun(s) \/ DispatchFails(s)
         \/ Drop(s)
         \/ PrepareRun(s) /\ UNCHANGED tick
  PROVE  OnceInv' /\ UNCHANGED <<tick, posts>>
<1>1. UNCHANGED <<tick, attempts, posts, lock>>
  <2>1. CASE NextClaim(s) \/ CreateThread(s) \/ CheckThread(s) \/ Drop(s) \/ DispatchFails(s)
    BY <2>1, Zenon DEF NextClaim, CreateThread, CheckThread, Drop, DispatchFails, rows
  <2>2. CASE SubmitRun(s)
    BY <2>2, Zenon DEF SubmitRun
  <2>3. CASE PrepareRun(s) /\ UNCHANGED tick
    BY <2>3, Zenon DEF PrepareRun
  <2> QED  BY <2>1, <2>2, <2>3
<1>2. sched[s] \in Local /\ LocalSound(sched[s]) /\ Held(tick, posts, sched[s])
  BY SchedTypes DEF OnceInv
<1>3. ASSUME NEW pc \in ClaimSteps, sched[s].pc \in ClaimSteps, Become(s, Goto(s, pc)),
             pc \in {"create", "check", "prepare", "skip"} => sched[s].claim.run = NoRun
      PROVE  OnceInv'
  <2>1. Held(tick, posts, Goto(s, pc))
    BY <1>2, <1>3, ClaimMoves DEF Goto
  <2>2. Live(s)
    BY <1>3 DEF Live, ClaimSteps
  <2> QED  BY <1>1, <1>3, <2>1, <2>2, HolderMoves
<1>4. ASSUME sched[s].pc \in {"create", "check", "prepare", "skip"}
      PROVE  sched[s].claim.run = NoRun /\ sched[s].pc \in ClaimSteps
  BY <1>2, <1>4 DEF Held, ClaimsHeld, ClaimSteps
<1>5. CASE NextClaim(s)
  <2>1. sched[s].pc = "next" /\ Live(s)
    BY <1>5 DEF NextClaim, At, Live
  <2>2. CASE /\ sched[s].claims = {}
             /\ Become(s, [sched[s] EXCEPT !.pc = "scan", !.second = TRUE])
    <3>1. Held(tick, posts, [sched[s] EXCEPT !.pc = "scan", !.second = TRUE])
      BY <1>2, <2>1, <2>2 DEF Local, Held, ClaimsHeld, HooksHeld, HookSteps, ClaimSteps
    <3> QED  BY <1>1, <2>1, <2>2, <3>1, HolderMoves
  <2>3. ASSUME NEW c \in sched[s].claims, NEW pc \in {"submit", "create", "check"},
               pc # "submit" => c.run = NoRun,
               Become(s, [sched[s] EXCEPT !.pc = pc, !.claims = @ \ {c}, !.claim = c])
        PROVE  OnceInv'
    <3> DEFINE y == [sched[s] EXCEPT !.pc = pc, !.claims = @ \ {c}, !.claim = c]
    <3>1. /\ y.pc = pc /\ y.claims = sched[s].claims \ {c} /\ y.claim = c
          /\ y.hooks = sched[s].hooks
      BY <1>2 DEF Local
    <3>2. Become(s, y)
      BY <2>3
    <3> HIDE DEF y
    <3>3. Held(tick, posts, y)
      BY <1>2, <2>1, <2>3, <3>1 DEF Held, ClaimsHeld, HooksHeld, HookSteps, ClaimSteps
    <3> QED  BY <1>1, <2>1, <3>2, <3>3, HolderMoves
  <2>4. ASSUME NEW c \in sched[s].claims,
               Become(s, [sched[s] EXCEPT
                 !.pc = IF c.run # NoRun THEN "submit"
                        ELSE IF c.thread = NoThread THEN "create" ELSE "check",
                 !.claims = @ \ {c}, !.claim = c])
        PROVE  OnceInv'
    <3> DEFINE pc == IF c.run # NoRun THEN "submit"
                     ELSE IF c.thread = NoThread THEN "create" ELSE "check"
    <3>1. pc \in {"submit", "create", "check"} /\ (pc # "submit" => c.run = NoRun)
      OBVIOUS
    <3>2. Become(s, [sched[s] EXCEPT !.pc = pc, !.claims = @ \ {c}, !.claim = c])
      BY <2>4
    <3> HIDE DEF pc
    <3> QED  BY <2>3, <3>1, <3>2, Zenon
  <2>5. OnceInv'
    BY <1>5, <2>2, <2>4 DEF NextClaim
  <2> QED  BY <1>1, <2>5
<1>6. CASE CreateThread(s)
  <2>1. PICK th \in Threads :
          Become(s, [sched[s] EXCEPT !.pc = "prepare", !.claim.thread = th])
    BY <1>6 DEF CreateThread
  <2>2. sched[s].pc = "create" /\ sched[s].claim \in Claim
    BY <1>2, <1>6 DEF CreateThread, At, ClaimSteps, LocalSound
  <2>3. Held(tick, posts, [sched[s] EXCEPT !.pc = "prepare", !.claim.thread = th])
    BY <1>2, <1>4, <2>2, ClaimMoves
  <2>4. Live(s)
    BY <2>2 DEF Live
  <2> QED  BY <1>1, <2>1, <2>3, <2>4, HolderMoves
<1>7. CASE CheckThread(s)
  <2>1. PICK pc \in {"skip", "prepare"} : Become(s, Goto(s, pc))
    BY <1>7 DEF CheckThread
  <2>2. sched[s].pc = "check"
    BY <1>7 DEF CheckThread, At
  <2>3. OnceInv'
    BY <1>3, <1>4, <2>1, <2>2 DEF ClaimSteps
  <2> QED  BY <1>1, <2>3
<1>8. CASE SubmitRun(s) \/ DispatchFails(s)
  <2>1. sched[s].pc \in ClaimSteps
    BY <1>8, Zenon DEF SubmitRun, DispatchFails, At, ClaimSteps
  <2>2. Become(s, ClaimDone(s)) \/ \E pc \in {"fail", "overlong"} : Become(s, Goto(s, pc))
    BY <1>8, Zenon DEF SubmitRun, DispatchFails
  <2>3. CASE Become(s, ClaimDone(s))
    <3>1. Held(tick, posts, ClaimDone(s))
      BY <1>2, <2>1, ClaimMoves DEF ClaimDone
    <3>2. Live(s)
      BY <2>1 DEF Live, ClaimSteps
    <3> QED  BY <1>1, <2>3, <3>1, <3>2, HolderMoves
  <2>4. ASSUME NEW pc \in {"fail", "overlong"}, Become(s, Goto(s, pc))
        PROVE  OnceInv'
    BY <1>3, <2>1, <2>4 DEF ClaimSteps
  <2> QED  BY <1>1, <2>2, <2>3, <2>4
<1>9. CASE Drop(s)
  <2>1. sched[s].pc = "drop" /\ Live(s)
    BY <1>9 DEF Drop, At, Live
  <2>2. Held(tick, posts, Idle("rest"))
    BY IdleHolds DEF HookSteps, ClaimSteps
  <2>3. Held(tick, posts, [sched[s] EXCEPT !.pc = "claim", !.drop = {}])
    BY <1>2, <2>1 DEF Local, Held, ClaimsHeld, HooksHeld, HookSteps, ClaimSteps
  <2>4. Become(s, IF sched[s].second THEN Idle("rest")
                  ELSE [sched[s] EXCEPT !.pc = "claim", !.drop = {}])
    BY <1>9 DEF Drop
  <2> QED  BY <1>1, <2>1, <2>2, <2>3, <2>4, HolderMoves
<1>10. CASE PrepareRun(s) /\ UNCHANGED tick
  <2>1. sched[s].pc = "prepare"
    BY <1>10, Zenon DEF PrepareRun, At
  <2>2. \E pc \in {"skip", "fail"} : Become(s, Goto(s, pc))
    <3> DEFINE c == sched[s].claim
    <3>1. c.tick \in Ticks /\ ClaimHeld(tick, c) /\ c.run = NoRun
      BY <1>2, <2>1 DEF LocalSound, ClaimSteps, Claim, Held, ClaimsHeld
    <3>2. tick[c.tick].status = "started"
      BY <3>1 DEF ClaimHeld
    <3>3. tick[c.tick] \in TickRow /\ tick \in [Ticks -> TickRow]
      BY <3>1 DEF IInv, TypeOK
    <3> HIDE DEF c
    <3>4. ASSUME NEW r \in Runs, tick' = [tick EXCEPT ![c.tick] = [@ EXCEPT
                   !.status = "queued", !.run = r, !.thread = c.thread, !.stale = FALSE]]
          PROVE  FALSE
      <4>1. tick'[c.tick].status = "queued"
        BY <3>1, <3>3, <3>4 DEF TickRow
      <4> QED  BY <1>10, <3>2, <4>1
    <3>5. \/ \E r \in Runs : tick' = [tick EXCEPT ![c.tick] = [@ EXCEPT
               !.status = "queued", !.run = r, !.thread = c.thread, !.stale = FALSE]]
          \/ Become(s, Goto(s, "skip")) \/ Become(s, Goto(s, "fail"))
      BY <1>10, Zenon DEF PrepareRun, c
    <3> QED  BY <3>4, <3>5
  <2>3. OnceInv'
    BY <1>3, <1>4, <2>1, <2>2 DEF ClaimSteps
  <2> QED  BY <1>1, <2>3
<1> QED  BY <1>5, <1>6, <1>7, <1>8, <1>9, <1>10

-----------------------------------------------------------------------------
(* The steps that change ticks, webhooks or what was recorded of them.     *)

\* A round settles ticks and takes their webhooks: it has nothing in hand before.
LEMMA ScanOnce ==
  ASSUME IInv, OnceInv, NEW s \in Schedulers, Scan(s)
  PROVE  OnceInv' /\ \A t \in Ticks : TickStands(t) /\ HookSettles(t)
<1> DEFINE hooks == {[tick |-> t, status |-> SettledStatus(t)] : t \in {t \in Selected : HookDue(t)}}
           drop  == {tick[t].thread : t \in {t \in Selected : ThreadDone(t)}}
           new   == [sched[s] EXCEPT !.pc = "hooks", !.hooks = hooks, !.drop = drop]
<1>1. /\ sched[s] \in Local /\ Held(tick, posts, sched[s]) /\ sched[s].pc = "scan" /\ Live(s)
      /\ sched[s].claims = {}
  BY SchedTypes DEF Scan, At, Live, OnceInv, Held, ClaimsHeld, ClaimSteps
<1>2. Become(s, new) /\ UNCHANGED <<attempts, posts, lock>>
  BY DEF Scan
<1>3. ASSUME NEW t \in Ticks
      PROVE  /\ tick'[t].run = tick[t].run
             /\ t \notin Selected => tick'[t] = tick[t]
             /\ t \in Selected => /\ tick'[t].status = SettledStatus(t)
                                  /\ tick'[t].hook = IF HookDue(t) THEN "delivering" ELSE tick[t].hook
  <2>1. tick[t] \in TickRow
    BY DEF IInv, TypeOK
  <2> QED  BY <2>1 DEF Scan, TickRow
<1>4. ASSUME NEW t \in Ticks
      PROVE  /\ RowHeld(tick', attempts', posts', t)
             /\ TickStands(t)
             /\ HookSettles(t)
  <2>1. RowHeld(tick, attempts, posts, t)
    BY DEF OnceInv
  <2>2. CASE t \notin Selected
    <3>1. tick'[t] = tick[t]
      BY <1>3, <2>2
    <3> QED  BY <1>2, <2>1, <3>1, LimitsAssumption DEF RowHeld, TickStands, HookSettles, IInv, TypeOK
  <2>3. CASE t \in Selected
    <3>1. tick'[t].status = IF RunEnded(t) THEN run[tick[t].run].status ELSE tick[t].status
      BY <1>3, <2>3 DEF SettledStatus
    <3>2. SettledStatus(t) \in {"queued"} \cup TerminalTick
      BY <2>3, SettledTypes
    <3>3. RunEnded(t) => tick[t].status = "queued" /\ tick[t].run # NoRun
      BY DEF RunEnded
    <3>4. tick'[t].status = SettledStatus(t) /\ tick'[t].run = tick[t].run
      BY <1>3, <2>3
    <3>5. tick'[t].hook = "failed" => tick[t].hook = "failed"
      BY <1>3, <2>3
    <3>6. TickStands(t)
      BY <3>1, <3>3, <3>4 DEF TickStands, TerminalTick, TerminalRun
    <3>7. HookSettles(t)
      BY <1>2, <2>1, <3>5, LimitsAssumption DEF HookSettles, RowHeld, IInv, TypeOK
    <3>8. tick'[t].status \notin {"free", "started"}
      BY <3>2, <3>4 DEF TerminalTick, TerminalRun
    <3>9. tick'[t].status = "queued" => tick[t].status = "queued"
      BY <3>1, <3>3 DEF RunEnded, TerminalRun
    <3>10. posts[t].told # {} => tick'[t].status = tick[t].status
      BY <2>1, <3>6 DEF RowHeld, TickStands
    <3>11. RowHeld(tick', attempts', posts', t)
      BY <1>2, <2>1, <3>4, <3>5, <3>8, <3>9, <3>10 DEF RowHeld
    <3> QED  BY <3>6, <3>7, <3>11
  <2> QED  BY <2>2, <2>3
<1>5. ASSUME NEW h \in hooks
      PROVE  HookHeld(tick', h)
  <2>1. PICK t \in Selected : HookDue(t) /\ h = [tick |-> t, status |-> SettledStatus(t)]
    BY <1>5
  <2>2. t \in Ticks
    BY <2>1 DEF Selected
  <2> QED  BY <1>3, <2>1, <2>2 DEF HookHeld
<1> HIDE DEF hooks, drop
<1>6. Held(tick', posts', new)
  BY <1>1, <1>5 DEF Local, Held, ClaimsHeld, HooksHeld, HookSteps, ClaimSteps
<1> HIDE DEF new
<1>7. OnceInv'
  BY <1>1, <1>2, <1>4, <1>6, HolderSteps
<1> QED  BY <1>4, <1>7

\* The webhooks in hand are of different ticks.
LEMMA HooksDiffer ==
  ASSUME NEW T, NEW hooks \in SUBSET Hook, \A h \in hooks : HookHeld(T, h),
         NEW h \in hooks, NEW i \in hooks, h.tick = i.tick
  PROVE  h = i
BY DEF HookHeld, Hook

LEMMA NextHookOnce ==
  ASSUME IInv, OnceInv, NEW s \in Schedulers, NextHook(s)
  PROVE  OnceInv' /\ UNCHANGED <<tick, posts>>
<1>1. UNCHANGED <<tick, attempts, posts, lock>>
  BY DEF NextHook, rows
<1>2. /\ sched[s] \in Local /\ Held(tick, posts, sched[s]) /\ sched[s].pc = "hooks" /\ Live(s)
      /\ sched[s].claims = {}
  BY SchedTypes DEF NextHook, At, Live, OnceInv, Held, ClaimsHeld, ClaimSteps
<1>3. CASE sched[s].hooks = {} /\ Become(s, Goto(s, "drop"))
  <2>1. Held(tick, posts, Goto(s, "drop"))
    BY <1>2, <1>3 DEF Goto, Local, Held, ClaimsHeld, HooksHeld, HookSteps, ClaimSteps
  <2> QED  BY <1>1, <1>2, <1>3, <2>1, HolderMoves
<1>4. ASSUME NEW h \in sched[s].hooks,
             Become(s, [sched[s] EXCEPT
               !.pc = IF attempts[h.tick] < MaxAttempts THEN "post" ELSE "result",
               !.hooks = @ \ {h}, !.hook = h, !.n = attempts[h.tick] + 1])
      PROVE  OnceInv'
  <2> DEFINE pc == IF attempts[h.tick] < MaxAttempts THEN "post" ELSE "result"
             n  == attempts[h.tick] + 1
             y  == [sched[s] EXCEPT !.pc = pc, !.hooks = @ \ {h}, !.hook = h, !.n = n]
  <2>1. h \in Hook /\ h.tick \in Ticks /\ sched[s].hooks \in SUBSET Hook
    BY <1>2 DEF Local, Hook
  <2>2. /\ attempts[h.tick] \in Nat /\ posts[h.tick].count \in Nat /\ MaxAttempts \in Nat
        /\ attempts[h.tick] <= posts[h.tick].count
    BY <2>1, LimitsAssumption DEF OnceInv, RowHeld, IInv, TypeOK
  <2>3. /\ pc \in {"post", "result"} /\ n <= posts[h.tick].count + 1
        /\ pc = "result" => MaxAttempts <= posts[h.tick].count
    BY <2>2
  <2>4. \A i \in sched[s].hooks \ {h} : i.tick # h.tick
    BY <1>2, <2>1, HooksDiffer DEF Held, HooksHeld
  <2>5. Become(s, y)
    BY <1>4
  <2> HIDE DEF pc, n
  <2>6. /\ y.pc = pc /\ y.hooks = sched[s].hooks \ {h} /\ y.hook = h /\ y.n = n
        /\ y.claims = {} /\ y.ok = sched[s].ok
    BY <1>2 DEF Local
  <2> HIDE DEF y
  <2>7. Held(tick, posts, y)
    BY <1>2, <2>3, <2>4, <2>6 DEF Held, ClaimsHeld, HooksHeld, HookSteps, ClaimSteps
  <2> QED  BY <1>1, <1>2, <2>5, <2>7, HolderMoves
<1>5. OnceInv'
  BY <1>3, <1>4 DEF NextHook
<1> QED  BY <1>1, <1>5

\* What is in hand at a webhook.
LEMMA AtHook ==
  ASSUME IInv, OnceInv, NEW s \in Schedulers, sched[s].pc \in HookSteps
  PROVE  /\ sched[s] \in Local /\ Live(s) /\ sched[s].claims = {}
         /\ sched[s].hook \in Hook /\ sched[s].hook.tick \in Ticks
         /\ HooksHeld(tick, posts, sched[s])
         /\ HookHeld(tick, sched[s].hook)
         /\ \A h \in sched[s].hooks : h.tick # sched[s].hook.tick /\ h \in Hook
<1>1. sched[s] \in Local /\ LocalSound(sched[s]) /\ Held(tick, posts, sched[s])
  BY SchedTypes DEF OnceInv
<1>2. Live(s) /\ sched[s].pc \notin ClaimSteps \cup {"next"}
  BY DEF Live, HookSteps, ClaimSteps
<1>3. sched[s].hook \in Hook
  BY <1>1 DEF LocalSound
<1> QED  BY <1>1, <1>2, <1>3 DEF Held, ClaimsHeld, HooksHeld, Hook, Local

LEMMA PostOnce ==
  ASSUME IInv, OnceInv, NEW s \in Schedulers, Post(s)
  PROVE  OnceInv' /\ \A t \in Ticks : TickStands(t) /\ HookSettles(t)
<1> DEFINE h == sched[s].hook
<1>1. PICK ok \in BOOLEAN : Become(s, [sched[s] EXCEPT !.pc = "attempt", !.ok = ok])
  BY DEF Post
<1>2. sched[s].pc = "post" /\ sched[s].pc \in HookSteps
  BY DEF Post, At, HookSteps
<1>3. /\ sched[s] \in Local /\ Live(s) /\ sched[s].claims = {}
      /\ h \in Hook /\ h.tick \in Ticks /\ HooksHeld(tick, posts, sched[s]) /\ HookHeld(tick, h)
      /\ \A i \in sched[s].hooks : i.tick # h.tick
  BY <1>2, AtHook
<1>4. UNCHANGED <<tick, attempts, lock>>
  BY DEF Post, rows
<1>5. posts \in [Ticks -> [told : SUBSET TerminalTick, count : Nat]]
      /\ attempts \in [Ticks -> 0 .. MaxAttempts] /\ MaxAttempts \in Nat
  BY LimitsAssumption DEF IInv, TypeOK
<1>6. posts' = [posts EXCEPT ![h.tick] =
                  [told |-> posts[h.tick].told \cup {h.status}, count |-> posts[h.tick].count + 1]]
  BY DEF Post
<1> HIDE DEF h
<1>7. /\ posts'[h.tick].told = posts[h.tick].told \cup {h.status}
      /\ posts'[h.tick].count = posts[h.tick].count + 1
      /\ \A t \in Ticks \ {h.tick} : posts'[t] = posts[t]
  BY <1>3, <1>5, <1>6
<1>8. ASSUME NEW t \in Ticks
      PROVE  /\ RowHeld(tick', attempts', posts', t)
             /\ TickStands(t)
             /\ HookSettles(t)
  <2>1. RowHeld(tick, attempts, posts, t)
    BY DEF OnceInv
  <2>2. CASE t # h.tick
    BY <1>4, <1>5, <1>7, <2>1, <2>2 DEF RowHeld, TickStands, HookSettles
  <2>3. CASE t = h.tick
    <3>1. h.status \in TerminalTick /\ tick[t].status = h.status /\ tick[t].hook = "delivering"
      BY <1>3, <2>3 DEF Hook, HookHeld
    <3>2. posts'[t].told = {tick[t].status}
      BY <1>7, <2>1, <2>3, <3>1 DEF RowHeld
    <3>3. attempts[t] \in Nat /\ posts[t].count \in Nat
      BY <1>5
    <3> QED  BY <1>4, <1>5, <1>7, <2>1, <2>3, <3>1, <3>2, <3>3 DEF RowHeld, TickStands, HookSettles
  <2> QED  BY <2>2, <2>3
<1> DEFINE y == [sched[s] EXCEPT !.pc = "attempt", !.ok = ok]
<1>9. /\ y.pc = "attempt" /\ y.hooks = sched[s].hooks /\ y.hook = h /\ y.n = sched[s].n
      /\ y.claims = {}
  BY <1>3 DEF Local, h
<1> HIDE DEF y
<1>10. sched[s].n <= posts'[h.tick].count
  BY <1>2, <1>3, <1>7 DEF HooksHeld, h
<1>11. Held(tick', posts', y)
  BY <1>3, <1>4, <1>9, <1>10 DEF Held, ClaimsHeld, HooksHeld, HookSteps, ClaimSteps
<1>12. OnceInv'
  BY <1>1, <1>3, <1>4, <1>8, <1>11, HolderSteps DEF y
<1> QED  BY <1>8, <1>12

LEMMA RecordAttemptOnce ==
  ASSUME IInv, OnceInv, NEW s \in Schedulers, RecordAttempt(s)
  PROVE  OnceInv' /\ \A t \in Ticks : TickStands(t) /\ HookSettles(t)
<1> DEFINE h  == sched[s].hook
           n  == sched[s].n
           ok == sched[s].ok /\ At(s, "attempt")
<1>1. sched[s].pc \in {"attempt", "again"} /\ sched[s].pc \in HookSteps
  BY DEF RecordAttempt, HookSteps
<1>2. /\ sched[s] \in Local /\ Live(s) /\ sched[s].claims = {}
      /\ h \in Hook /\ h.tick \in Ticks /\ HooksHeld(tick, posts, sched[s]) /\ HookHeld(tick, h)
      /\ \A i \in sched[s].hooks : i.tick # h.tick /\ i \in Hook
  BY <1>1, AtHook
<1>3. UNCHANGED <<cron, run, thread, posts, losses, edits>>
  BY DEF RecordAttempt
<1>4. posts \in [Ticks -> [told : SUBSET TerminalTick, count : Nat]]
      /\ attempts \in [Ticks -> 0 .. MaxAttempts] /\ MaxAttempts \in Nat
      /\ tick \in [Ticks -> TickRow]
  BY LimitsAssumption DEF IInv, TypeOK
<1>5. n <= posts[h.tick].count
  BY <1>1, <1>2 DEF HooksHeld
<1>6. ASSUME UNCHANGED <<tick, posts>> PROVE \A t \in Ticks : TickStands(t) /\ HookSettles(t)
  <2> SUFFICES ASSUME NEW t \in Ticks PROVE TickStands(t) /\ HookSettles(t)
    OBVIOUS
  <2>1. RowHeld(tick, attempts, posts, t) /\ posts[t].count \in Nat
    BY <1>4 DEF OnceInv
  <2> QED  BY <1>4, <1>6, <2>1 DEF RowHeld, TickStands, HookSettles
<1>7. CASE /\ attempts' = [attempts EXCEPT ![h.tick] = n]
           /\ tick' = [tick EXCEPT ![h.tick].stale = FALSE]
           /\ Become(s, AfterAttempt(s, ok))
           /\ UNCHANGED <<lock, faults>>
  <2>1. ASSUME NEW t \in Ticks
        PROVE  /\ tick'[t].status = tick[t].status /\ tick'[t].run = tick[t].run
               /\ tick'[t].hook = tick[t].hook
    <3>1. tick[t] \in TickRow /\ tick \in [Ticks -> TickRow]
      BY <1>4
    <3> HIDE DEF h
    <3> QED  BY <1>7, <3>1 DEF TickRow
  <2>2. ASSUME NEW t \in Ticks
        PROVE  attempts'[t] <= posts[t].count
    BY <1>2, <1>4, <1>5, <1>7 DEF OnceInv, RowHeld
  <2>3. ASSUME NEW t \in Ticks
        PROVE  /\ RowHeld(tick', attempts', posts', t)
               /\ TickStands(t)
               /\ HookSettles(t)
    <3>1. RowHeld(tick, attempts, posts, t) /\ posts[t].count \in Nat
      BY <1>4 DEF OnceInv
    <3> QED  BY <1>3, <1>4, <2>1, <2>2, <3>1 DEF RowHeld, TickStands, HookSettles
  <2> DEFINE y == AfterAttempt(s, ok)
  <2> HIDE DEF ok
  <2>4. /\ y.hooks = sched[s].hooks /\ y.claims = {} /\ y.hook = h
        /\ IF ok \/ n = MaxAttempts
           THEN y.pc = "result" /\ y.ok = ok
           ELSE y.pc = "post" /\ y.n = n + 1
    BY <1>2 DEF Local, AfterAttempt
  <2> HIDE DEF y
  <2>5. \A i \in sched[s].hooks : HookHeld(tick', i)
    BY <1>2, <2>1 DEF HooksHeld, HookHeld, Hook
  <2>6. HookHeld(tick', h)
    BY <1>2, <2>1 DEF HookHeld
  <2>7. n \in Nat /\ posts[h.tick].count \in Nat
    BY <1>2, <1>4 DEF Local
  <2>8. y.pc = "post" => y.n <= posts'[h.tick].count + 1
    BY <1>3, <1>5, <2>4, <2>7
  <2>9. y.pc = "result" /\ ~y.ok => MaxAttempts <= posts'[h.tick].count
    BY <1>3, <1>5, <2>4
  <2>10. y.pc \in {"post", "result"}
    BY <2>4
  <2>11. HooksHeld(tick', posts', y)
    BY <1>2, <2>4, <2>5, <2>6, <2>8, <2>9, <2>10 DEF HooksHeld, HookSteps
  <2>12. ClaimsHeld(tick', y)
    BY <2>4, <2>10 DEF ClaimsHeld, ClaimSteps
  <2>13. OnceInv'
    BY <1>2, <1>7, <2>3, <2>11, <2>12, HolderSteps DEF y, Held
  <2> QED  BY <2>3, <2>13
<1>8. CASE /\ Become(s, Goto(s, "again"))
           /\ UNCHANGED <<attempts, tick, lock>>
  <2> DEFINE y == Goto(s, "again")
  <2>1. /\ y.pc = "again" /\ y.hooks = sched[s].hooks /\ y.claims = {} /\ y.hook = h /\ y.n = n
    BY <1>2 DEF Local, Goto
  <2> HIDE DEF y
  <2>2. Held(tick, posts, y)
    BY <1>2, <1>5, <2>1 DEF Held, ClaimsHeld, HooksHeld, HookSteps, ClaimSteps
  <2>3. OnceInv'
    BY <1>2, <1>3, <1>8, <2>2, HolderMoves DEF y
  <2> QED  BY <1>3, <1>6, <1>8, <2>3
<1>9. CASE Exit(s) /\ UNCHANGED <<attempts, tick, faults>>
  <2>1. Become(s, Idle("gone")) /\ (lock' = lock \/ lock = s)
    BY <1>9 DEF Exit
  <2>2. OnceInv'
    BY <1>3, <1>9, <2>1, HolderLeaves
  <2> QED  BY <1>3, <1>6, <1>9, <2>2
<1>10. \/ /\ attempts' = [attempts EXCEPT ![h.tick] = n]
          /\ tick' = [tick EXCEPT ![h.tick].stale = FALSE]
          /\ Become(s, AfterAttempt(s, ok))
          /\ UNCHANGED <<lock, faults>>
       \/ /\ Become(s, Goto(s, "again"))
          /\ UNCHANGED <<attempts, tick, lock>>
       \/ Exit(s) /\ UNCHANGED <<attempts, tick, faults>>
  BY Zenon DEF RecordAttempt
<1> HIDE DEF h, n, ok
<1> QED  BY <1>7, <1>8, <1>9, <1>10

LEMMA RecordResultOnce ==
  ASSUME IInv, OnceInv, NEW s \in Schedulers, RecordResult(s)
  PROVE  OnceInv' /\ \A t \in Ticks : TickStands(t) /\ HookSettles(t)
<1> DEFINE h    == sched[s].hook
           hook == IF sched[s].ok THEN "delivered" ELSE "failed"
           y    == [sched[s] EXCEPT !.pc = "hooks", !.hook = NoHook, !.n = 0, !.ok = FALSE]
<1>1. sched[s].pc = "result" /\ sched[s].pc \in HookSteps
  BY DEF RecordResult, At, HookSteps
<1>2. /\ sched[s] \in Local /\ Live(s) /\ sched[s].claims = {}
      /\ h \in Hook /\ h.tick \in Ticks /\ HooksHeld(tick, posts, sched[s]) /\ HookHeld(tick, h)
      /\ \A i \in sched[s].hooks : i.tick # h.tick /\ i \in Hook
  BY <1>1, AtHook
<1>3. tick' = [tick EXCEPT ![h.tick].hook = hook, ![h.tick].stale = FALSE]
      /\ Become(s, y) /\ UNCHANGED <<attempts, lock, posts>>
  BY DEF RecordResult
<1>4. y.pc = "hooks" /\ y.hooks = sched[s].hooks /\ y.claims = {}
  BY <1>2 DEF Local
<1>5. /\ posts \in [Ticks -> [told : SUBSET TerminalTick, count : Nat]]
      /\ MaxAttempts \in Nat /\ tick \in [Ticks -> TickRow]
  BY LimitsAssumption DEF IInv, TypeOK
<1>6. hook = "failed" => MaxAttempts <= posts[h.tick].count
  BY <1>1, <1>2 DEF HooksHeld
<1> HIDE DEF h, hook, y
<1>7. ASSUME NEW t \in Ticks
      PROVE  /\ tick'[t].status = tick[t].status /\ tick'[t].run = tick[t].run
             /\ t # h.tick => tick'[t].hook = tick[t].hook
             /\ t = h.tick => tick'[t].hook = hook
  <2>1. tick[t] \in TickRow
    BY <1>5
  <2> QED  BY <1>2, <1>3, <1>5, <2>1 DEF TickRow
<1>8. ASSUME NEW t \in Ticks
      PROVE  /\ RowHeld(tick', attempts', posts', t)
             /\ TickStands(t)
             /\ HookSettles(t)
  <2>1. RowHeld(tick, attempts, posts, t) /\ posts[t].count \in Nat
    BY <1>5 DEF OnceInv
  <2>2. tick'[t].hook = "failed" => MaxAttempts <= posts[t].count
    BY <1>6, <1>7, <2>1 DEF RowHeld
  <2> QED  BY <1>3, <1>5, <1>7, <2>1, <2>2 DEF RowHeld, TickStands, HookSettles
<1>9. \A i \in y.hooks : HookHeld(tick', i)
  <2> SUFFICES ASSUME NEW i \in sched[s].hooks PROVE HookHeld(tick', i)
    BY <1>4
  <2>1. i \in Hook /\ i.tick # h.tick /\ HookHeld(tick, i)
    BY <1>2 DEF HooksHeld
  <2> QED  BY <1>7, <2>1 DEF HookHeld, Hook
<1>10. Held(tick', posts', y)
  BY <1>4, <1>9 DEF Held, ClaimsHeld, HooksHeld, HookSteps, ClaimSteps
<1>11. OnceInv'
  BY <1>2, <1>3, <1>8, <1>10, HolderSteps
<1> QED  BY <1>8, <1>11

\* What a claim takes: a free tick starts, an old one is over or claimed as it is.
LEMMA TakenRows ==
  ASSUME IInv, OnceInv, NEW queued \in SUBSET Requeued, NEW fresh \in SUBSET Free,
         NEW of \in [fresh -> Crons], NEW t \in Ticks,
         NEW again, again = Started \cup queued,
         NEW x, x = Taken(again, of)[t]
  PROVE  /\ x.run = tick[t].run /\ x.hook = tick[t].hook
         /\ \/ x.status = tick[t].status
            \/ tick[t].status = "free" /\ x.status = "started"
            \/ tick[t].status = "started" /\ x.status = "skipped"
         /\ t \in again \cup fresh =>
              IF x.run = NoRun THEN x.status = "started" ELSE x.status = "queued"
<1>1. tick[t] \in TickRow
  BY DEF IInv, TypeOK
<1>2. RowHeld(tick, attempts, posts, t)
  BY DEF OnceInv
<1>3. /\ t \in Started => tick[t].status = "started" /\ t \notin Over
      /\ t \in queued => tick[t].status = "queued"
      /\ t \in fresh => tick[t].status = "free"
      /\ t \in Over => tick[t].status = "started"
  BY DEF Started, Over, Found, First, Reclaimable, Requeued, StaleTicks, Free
<1>4. x = IF t \in fresh
          THEN [tick[t] EXCEPT !.status = "started", !.cron = of[t], !.thread = BoundTo[of[t]]]
          ELSE IF t \in Over THEN [tick[t] EXCEPT !.status = "skipped", !.stale = FALSE]
          ELSE IF t \in again THEN [tick[t] EXCEPT !.stale = FALSE]
          ELSE tick[t]
  BY DEF Taken
<1>5. CASE t \in fresh
  BY <1>1, <1>2, <1>3, <1>4, <1>5 DEF TickRow, RowHeld
<1>6. CASE t \notin fresh /\ t \in Over
  BY <1>1, <1>2, <1>3, <1>4, <1>6 DEF TickRow, RowHeld
<1>7. CASE t \notin fresh /\ t \notin Over /\ t \in again
  <2>1. x.run = tick[t].run /\ x.hook = tick[t].hook /\ x.status = tick[t].status
    BY <1>1, <1>4, <1>7 DEF TickRow
  <2>2. tick[t].status = "started" \/ tick[t].status = "queued"
    BY <1>3, <1>7
  <2>3. IF x.run = NoRun THEN x.status = "started" ELSE x.status = "queued"
    BY <1>2, <2>1, <2>2 DEF RowHeld
  <2> QED  BY <2>1, <2>3
<1>8. CASE t \notin fresh /\ t \notin Over /\ t \notin again
  <2>1. x = tick[t]
    BY <1>4, <1>8
  <2> QED  BY <1>8, <2>1
<1> QED  BY <1>5, <1>6, <1>7, <1>8

LEMMA ClaimDueOnce ==
  ASSUME IInv, OnceInv, NEW s \in Schedulers, ClaimDue(s)
  PROVE  OnceInv' /\ \A t \in Ticks : TickStands(t) /\ HookSettles(t)
<1>1. PICK queued \in SUBSET Requeued, picked \in SUBSET DueCrons :
        ClaimThese(s, Started \cup queued,
                   picked \ {tick[t].cron : t \in Started \cup queued})
  BY Zenon DEF ClaimDue
<1> DEFINE again == Started \cup queued
           new   == picked \ {tick[t].cron : t \in again}
           fresh == First(Free, Cardinality(new))
<1>2. PICK of \in [fresh -> new] :
        /\ tick' = Taken(again, of)
        /\ Become(s, [sched[s] EXCEPT
             !.pc = "next", !.claims = Claims(again \cup DOMAIN of, Taken(again, of))])
  BY <1>1 DEF ClaimThese
<1>3. again \subseteq Ticks
  BY DEF Started, Found, Requeued, StaleTicks, First
<1>4. fresh \subseteq Free /\ new \subseteq Crons /\ fresh \subseteq Ticks
  BY DEF First, DueCrons, Free
<1> HIDE DEF new, fresh
<1>5. of \in [fresh -> Crons] /\ DOMAIN of = fresh
  BY <1>2, <1>4
<1>6. ASSUME NEW t \in Ticks
      PROVE  /\ tick'[t].run = tick[t].run /\ tick'[t].hook = tick[t].hook
             /\ \/ tick'[t].status = tick[t].status
                \/ tick[t].status = "free" /\ tick'[t].status = "started"
                \/ tick[t].status = "started" /\ tick'[t].status = "skipped"
             /\ t \in again \cup fresh =>
                  IF tick'[t].run = NoRun THEN tick'[t].status = "started"
                  ELSE tick'[t].status = "queued"
  <2>1. tick'[t] = Taken(again, of)[t] /\ again = Started \cup queued
    BY <1>2
  <2>2. fresh \in SUBSET Free /\ of \in [fresh -> Crons]
    BY <1>4, <1>5
  <2> HIDE DEF again
  <2> QED  BY <2>1, <2>2, TakenRows
<1>7. UNCHANGED <<attempts, posts, lock>>
  BY DEF ClaimDue
<1>8. posts \in [Ticks -> [told : SUBSET TerminalTick, count : Nat]] /\ MaxAttempts \in Nat
  BY LimitsAssumption DEF IInv, TypeOK
<1>9. ASSUME NEW t \in Ticks
      PROVE  /\ RowHeld(tick', attempts', posts', t)
             /\ TickStands(t)
             /\ HookSettles(t)
  <2>1. RowHeld(tick, attempts, posts, t) /\ posts[t].count \in Nat
    BY <1>8 DEF OnceInv
  <2>2. TickStands(t)
    BY <1>6 DEF TickStands, TerminalTick, TerminalRun
  <2>3. HookSettles(t)
    BY <1>6, <1>7, <1>8, <2>1 DEF HookSettles, RowHeld
  <2>4. posts[t].told # {} => tick'[t].status = tick[t].status
    BY <2>1, <2>2 DEF RowHeld, TickStands
  <2>5. RowHeld(tick', attempts', posts', t)
    BY <1>6, <1>7, <2>1, <2>4 DEF RowHeld
  <2> QED  BY <2>2, <2>3, <2>5
<1> DEFINE claims == Claims(again \cup fresh, tick')
           y      == [sched[s] EXCEPT !.pc = "next", !.claims = claims]
<1>10. ASSUME NEW c \in claims
       PROVE  \E t \in again \cup fresh : /\ t \in Ticks /\ c.tick = t /\ c.run = tick'[t].run
                                          /\ c.thread = tick'[t].thread
                                          /\ ClaimHeld(tick', c)
  <2>1. PICK t \in again \cup fresh :
          c = [tick |-> t, thread |-> tick'[t].thread, run |-> tick'[t].run]
    BY <1>10 DEF Claims
  <2>2. t \in Ticks
    BY <1>3, <1>4
  <2>3. ClaimHeld(tick', c)
    BY <1>6, <2>1, <2>2 DEF ClaimHeld
  <2> QED  BY <2>1, <2>2, <2>3
<1>11. \A c, d \in claims : c.tick = d.tick => c = d
  BY DEF Claims
<1>12. \A c \in claims : ClaimHeld(tick', c)
  BY <1>10
<1>13. Become(s, y)
  BY <1>2, <1>5
<1>14. sched[s].pc = "claim" /\ Live(s) /\ sched[s] \in Local /\ Held(tick, posts, sched[s])
  BY SchedTypes DEF ClaimDue, At, Live, OnceInv
<1> HIDE DEF claims
<1>15. y.pc = "next" /\ y.claims = claims /\ y.hooks = {}
  BY <1>14 DEF Local, Held, HooksHeld, HookSteps
<1> HIDE DEF y
<1>16. Held(tick', posts', y)
  BY <1>11, <1>12, <1>15 DEF Held, ClaimsHeld, HooksHeld, HookSteps, ClaimSteps
<1>17. OnceInv'
  BY <1>7, <1>9, <1>13, <1>14, <1>16, HolderSteps
<1> QED  BY <1>9, <1>17

\* What is in hand at a claim.
LEMMA AtClaim ==
  ASSUME IInv, OnceInv, NEW s \in Schedulers, sched[s].pc \in ClaimSteps
  PROVE  /\ sched[s] \in Local /\ Live(s) /\ sched[s].hooks = {}
         /\ sched[s].claim \in Claim /\ sched[s].claim.tick \in Ticks
         /\ ClaimsHeld(tick, sched[s])
         /\ ClaimHeld(tick, sched[s].claim)
         /\ \A c \in sched[s].claims : c.tick # sched[s].claim.tick /\ c \in Claim
<1>1. sched[s] \in Local /\ LocalSound(sched[s]) /\ Held(tick, posts, sched[s])
  BY SchedTypes DEF OnceInv
<1>2. Live(s) /\ sched[s].pc \notin HookSteps \cup {"hooks"}
  BY DEF Live, HookSteps, ClaimSteps
<1> QED  BY <1>1, <1>2 DEF Held, ClaimsHeld, HooksHeld, Claim, Local, LocalSound

\* The row of the tick in hand changes from "started" or "queued" to another status, the
\* others stay: the other claims remain true and what was told of ticks stands.
LEMMA ClaimedRow ==
  ASSUME IInv, OnceInv, NEW s \in Schedulers, sched[s].pc \in ClaimSteps,
         UNCHANGED <<attempts, posts>>,
         NEW st \in {"queued"} \cup TerminalTick, NEW r \in Runs \cup {NoRun},
         st = "queued" => r # NoRun,
         LET u == sched[s].claim.tick
         IN /\ tick'[u].status = st /\ tick'[u].run = r /\ tick'[u].hook = tick[u].hook
            /\ \A t \in Ticks \ {u} : tick'[t] = tick[t]
  PROVE  /\ \A t \in Ticks : RowHeld(tick', attempts', posts', t) /\ TickStands(t) /\ HookSettles(t)
         /\ \A c \in sched[s].claims : ClaimHeld(tick', c)
<1> DEFINE u == sched[s].claim.tick
<1>1. /\ u \in Ticks /\ ClaimsHeld(tick, sched[s]) /\ ClaimHeld(tick, sched[s].claim)
      /\ \A c \in sched[s].claims : c.tick # u /\ c \in Claim
  BY AtClaim
<1>2. tick[u].status \in {"started", "queued"}
  BY <1>1 DEF ClaimHeld
<1> HIDE DEF u
<1>3. posts \in [Ticks -> [told : SUBSET TerminalTick, count : Nat]] /\ MaxAttempts \in Nat
  BY LimitsAssumption DEF IInv, TypeOK
<1>4. ASSUME NEW t \in Ticks
      PROVE  RowHeld(tick', attempts', posts', t) /\ TickStands(t) /\ HookSettles(t)
  <2>1. RowHeld(tick, attempts, posts, t) /\ posts[t].count \in Nat
    BY <1>3 DEF OnceInv
  <2>2. CASE t # u
    BY <1>3, <2>1, <2>2 DEF u, RowHeld, TickStands, HookSettles
  <2>3. CASE t = u
    <3>1. posts[t].told = {} /\ tick[t].status \notin TerminalTick
      BY <1>2, <2>1, <2>3 DEF RowHeld, TerminalTick, TerminalRun
    <3>2. tick'[t].status = st /\ tick'[t].run = r /\ tick'[t].hook = tick[t].hook
      BY <2>3 DEF u
    <3>3. st \notin {"free", "started"}
      BY DEF TerminalTick, TerminalRun
    <3> QED  BY <1>3, <2>1, <3>1, <3>2, <3>3 DEF RowHeld, TickStands, HookSettles
  <2> QED  BY <2>2, <2>3
<1>5. ASSUME NEW c \in sched[s].claims
      PROVE  ClaimHeld(tick', c)
  <2>1. c.tick \in Ticks \ {u} /\ ClaimHeld(tick, c)
    BY <1>1 DEF Claim, ClaimsHeld
  <2>2. tick'[c.tick] = tick[c.tick]
    BY <2>1 DEF u
  <2> QED  BY <2>1, <2>2 DEF ClaimHeld
<1> QED  BY <1>4, <1>5

LEMMA PrepareRunOnce ==
  ASSUME IInv, OnceInv, NEW s \in Schedulers, PrepareRun(s), tick' # tick
  PROVE  OnceInv' /\ \A t \in Ticks : TickStands(t) /\ HookSettles(t)
<1> DEFINE c == sched[s].claim
<1>1. sched[s].pc = "prepare" /\ sched[s].pc \in ClaimSteps
  BY Zenon DEF PrepareRun, At, ClaimSteps
<1>2. /\ sched[s] \in Local /\ Live(s) /\ sched[s].hooks = {}
      /\ c \in Claim /\ c.tick \in Ticks /\ ClaimsHeld(tick, sched[s])
      /\ \A d \in sched[s].claims : d.tick # c.tick /\ d \in Claim
  BY <1>1, AtClaim
<1>3. PICK r \in Runs :
        /\ tick' = [tick EXCEPT ![c.tick] = [@ EXCEPT
             !.status = "queued", !.run = r, !.thread = c.thread, !.stale = FALSE]]
        /\ Become(s, [sched[s] EXCEPT !.pc = "submit", !.claim.run = r])
  BY Zenon DEF PrepareRun
<1>4. UNCHANGED <<attempts, posts, lock>>
  BY Zenon DEF PrepareRun
<1>5. /\ tick'[c.tick].status = "queued" /\ tick'[c.tick].run = r
      /\ tick'[c.tick].hook = tick[c.tick].hook
      /\ \A t \in Ticks \ {c.tick} : tick'[t] = tick[t]
  <2>1. tick[c.tick] \in TickRow /\ tick \in [Ticks -> TickRow]
    BY <1>2 DEF IInv, TypeOK
  <2> HIDE DEF c
  <2> QED  BY <1>2, <1>3, <2>1 DEF TickRow
<1>6. r # NoRun
  BY NullsAssumption
<1>7. /\ \A t \in Ticks : RowHeld(tick', attempts', posts', t) /\ TickStands(t) /\ HookSettles(t)
      /\ \A d \in sched[s].claims : ClaimHeld(tick', d)
  BY <1>1, <1>4, <1>5, <1>6, ClaimedRow
<1> DEFINE e == [c EXCEPT !.run = r]
           y == [sched[s] EXCEPT !.pc = "submit", !.claim = e]
<1>8. e.tick = c.tick /\ e.run = r
  BY <1>2 DEF Claim
<1>9. Become(s, y)
  BY <1>3
<1>10. y.pc = "submit" /\ y.hooks = {} /\ y.claims = sched[s].claims /\ y.claim = e
  BY <1>2 DEF Local
<1> HIDE DEF y, e
<1>11. ClaimHeld(tick', e)
  BY <1>5, <1>6, <1>8 DEF ClaimHeld
<1>12. \A d \in sched[s].claims : d.tick # e.tick
  BY <1>2, <1>8
<1>13. ClaimsHeld(tick', y)
  BY <1>2, <1>7, <1>10, <1>11, <1>12 DEF ClaimsHeld, ClaimSteps
<1>14. HooksHeld(tick', posts', y)
  BY <1>10 DEF HooksHeld, HookSteps
<1>15. OnceInv'
  BY <1>2, <1>4, <1>7, <1>9, <1>13, <1>14, HolderSteps DEF Held
<1> QED  BY <1>7, <1>15

LEMMA MarkOutcomeOnce ==
  ASSUME IInv, OnceInv, NEW s \in Schedulers, MarkOutcome(s)
  PROVE  OnceInv' /\ \A t \in Ticks : TickStands(t) /\ HookSettles(t)
<1> DEFINE c  == sched[s].claim
           st == IF At(s, "skip") THEN "skipped" ELSE "error"
           r  == IF At(s, "skip") THEN NoRun ELSE c.run
           th == IF At(s, "skip") \/ c.thread = NoThread THEN tick[c.tick].thread ELSE c.thread
<1>1. sched[s].pc \in ClaimSteps
  BY DEF MarkOutcome, ClaimSteps
<1>2. /\ sched[s] \in Local /\ Live(s) /\ sched[s].hooks = {}
      /\ c \in Claim /\ c.tick \in Ticks /\ ClaimsHeld(tick, sched[s])
      /\ \A d \in sched[s].claims : d.tick # c.tick /\ d \in Claim
  BY <1>1, AtClaim
<1>3. /\ tick' = [tick EXCEPT ![c.tick] = [@ EXCEPT
           !.status = st, !.run = r, !.thread = th, !.stale = FALSE]]
      /\ Become(s, ClaimDone(s)) /\ UNCHANGED <<attempts, posts, lock>>
  BY DEF MarkOutcome
<1>4. st \in TerminalTick /\ r \in Runs \cup {NoRun}
  BY <1>2 DEF TerminalTick, TerminalRun, Claim
<1> HIDE DEF st, r, th
<1>5. /\ tick'[c.tick].status = st /\ tick'[c.tick].run = r
      /\ tick'[c.tick].hook = tick[c.tick].hook
      /\ \A t \in Ticks \ {c.tick} : tick'[t] = tick[t]
  <2>1. tick[c.tick] \in TickRow /\ tick \in [Ticks -> TickRow]
    BY <1>2 DEF IInv, TypeOK
  <2> HIDE DEF c
  <2> QED  BY <1>2, <1>3, <2>1 DEF TickRow
<1>6. st # "queued"
  BY <1>4 DEF TerminalTick, TerminalRun
<1>7. /\ \A t \in Ticks : RowHeld(tick', attempts', posts', t) /\ TickStands(t) /\ HookSettles(t)
      /\ \A d \in sched[s].claims : ClaimHeld(tick', d)
  BY <1>1, <1>3, <1>4, <1>5, <1>6, ClaimedRow
<1> DEFINE y == ClaimDone(s)
<1>8. y.pc = "next" /\ y.hooks = {} /\ y.claims = sched[s].claims
  BY <1>2 DEF Local, ClaimDone
<1> HIDE DEF y
<1>9. Held(tick', posts', y)
  BY <1>2, <1>7, <1>8 DEF Held, ClaimsHeld, HooksHeld, HookSteps, ClaimSteps
<1>10. OnceInv'
  BY <1>2, <1>3, <1>7, <1>9, HolderSteps DEF y
<1> QED  BY <1>7, <1>10

\* Time, clients and the execution of runs leave what is in hand alone.
LEMMA OthersOnce ==
  ASSUME IInv, OnceInv, MaxLosses = 0,
         \/ \E c \in Crons : ComesDue(c) \/ Ends(c) \/ PatchEnabled(c) \/ DeleteCron(c)
         \/ \E t \in Ticks : GoesStale(t)
         \/ \E th \in Threads : DeleteThread(th) \/ \E r \in Runs : ClientRuns(th, r)
         \/ \E r \in Runs : DeleteRun(r) \/ RunStarts(r) \/ RunEnds(r)
         \/ LockExpires
         \/ UNCHANGED vars
  PROVE  OnceInv' /\ \A t \in Ticks : TickStands(t) /\ HookSettles(t)
<1>1. UNCHANGED <<attempts, posts, sched>>
  BY DEF ComesDue, Ends, PatchEnabled, DeleteCron, GoesStale, DeleteThread, ClientRuns, DeleteRun, RunStarts,
     RunEnds, LockExpires, vars, rows
<1>2. Sole'
  <2>1. CASE UNCHANGED lock
    BY <1>1, <2>1 DEF OnceInv, Sole, Live
  <2>2. CASE LockExpires
    <3>1. lock \in Schedulers /\ ~Live(lock)
      <4>1. ~(losses < MaxLosses)
        BY DEF IInv, TypeOK
      <4>2. At(lock, "gone")
        BY <2>2, <4>1 DEF LockExpires
      <4>3. lock \in Schedulers
        BY <2>2 DEF LockExpires, IInv, TypeOK
      <4> QED  BY <4>2, <4>3 DEF At, Live
    <3>2. \A s \in Schedulers : ~Live(s)
      BY <3>1 DEF OnceInv, Sole
    <3> QED  BY <1>1, <3>2 DEF Sole, Live
  <2>3. UNCHANGED lock \/ LockExpires
    BY DEF ComesDue, Ends, PatchEnabled, DeleteCron, GoesStale, DeleteThread, ClientRuns, DeleteRun, RunStarts,
       RunEnds, vars
  <2> QED  BY <2>1, <2>2, <2>3
<1>3. ASSUME NEW t \in Ticks
      PROVE  /\ tick'[t].status = tick[t].status /\ tick'[t].run = tick[t].run
             /\ tick'[t].hook = tick[t].hook
  <2>1. CASE UNCHANGED tick
    BY <2>1
  <2>2. ASSUME NEW u \in Ticks, GoesStale(u)
        PROVE  /\ tick'[t].status = tick[t].status /\ tick'[t].run = tick[t].run
               /\ tick'[t].hook = tick[t].hook
    <3>1. tick[t] \in TickRow /\ tick \in [Ticks -> TickRow]
      BY DEF IInv, TypeOK
    <3> QED  BY <2>2, <3>1 DEF GoesStale, TickRow
  <2>3. UNCHANGED tick \/ \E u \in Ticks : GoesStale(u)
    BY DEF ComesDue, Ends, PatchEnabled, DeleteCron, DeleteThread, ClientRuns, DeleteRun, RunStarts,
       RunEnds, LockExpires, vars, rows
  <2> QED  BY <2>1, <2>2, <2>3
<1>4. \A t \in Ticks : RowHeld(tick', attempts', posts', t)
  BY <1>1, <1>3 DEF OnceInv, RowHeld
<1>5. ASSUME NEW s \in Schedulers
      PROVE  Held(tick', posts', sched'[s])
  <2>1. sched'[s] = sched[s] /\ posts' = posts
    BY <1>1
  <2>2. sched[s] \in Local /\ LocalSound(sched[s]) /\ Held(tick, posts, sched[s])
    BY SchedTypes DEF OnceInv
  <2>3. \A c \in Claim : ClaimHeld(tick, c) => ClaimHeld(tick', c)
    BY <1>3 DEF ClaimHeld, Claim
  <2>4. \A h \in Hook : HookHeld(tick, h) => HookHeld(tick', h)
    BY <1>3 DEF HookHeld, Hook
  <2>5. ClaimsHeld(tick', sched[s])
    BY <2>2, <2>3 DEF Held, ClaimsHeld, Local, LocalSound
  <2>6. HooksHeld(tick', posts, sched[s])
    BY <2>2, <2>4 DEF Held, HooksHeld, Local, LocalSound
  <2> QED  BY <2>1, <2>5, <2>6 DEF Held
<1>6. OnceInv'
  BY <1>2, <1>4, <1>5 DEF OnceInv, Held, ClaimsHeld, ClaimHeld, HooksHeld, HookHeld, RowHeld
<1>7. ASSUME NEW t \in Ticks
      PROVE  TickStands(t) /\ HookSettles(t)
  <2>1. RowHeld(tick, attempts, posts, t) /\ posts[t].count \in Nat /\ MaxAttempts \in Nat
    BY LimitsAssumption DEF OnceInv, IInv, TypeOK
  <2> QED  BY <1>1, <1>3, <2>1 DEF RowHeld, TickStands, HookSettles
<1> QED  BY <1>6, <1>7

LEMMA InitOnce == Init => OnceInv
<1> SUFFICES ASSUME Init PROVE OnceInv
  OBVIOUS
<1>1. Sole
  BY DEF Init, Sole, Live, Idle
<1>2. \A s \in Schedulers : Held(tick, posts, sched[s])
  <2>1. Held(tick, posts, Idle("new"))
    BY IdleHolds DEF HookSteps, ClaimSteps
  <2> QED  BY <2>1 DEF Init
<1>3. \A t \in Ticks : RowHeld(tick, attempts, posts, t)
  BY DEF Init, RowHeld
<1> QED  BY <1>1, <1>2, <1>3 DEF OnceInv

LEMMA NextOnce ==
  ASSUME MaxLosses = 0, IInv, OnceInv, [Next]_vars
  PROVE  OnceInv' /\ \A t \in Ticks : TickStands(t) /\ HookSettles(t)
<1>1. ASSUME UNCHANGED <<tick, posts>>
      PROVE  \A t \in Ticks : TickStands(t) /\ HookSettles(t)
  <2> SUFFICES ASSUME NEW t \in Ticks PROVE TickStands(t) /\ HookSettles(t)
    OBVIOUS
  <2>1. RowHeld(tick, attempts, posts, t) /\ posts[t].count \in Nat /\ MaxAttempts \in Nat
    BY LimitsAssumption DEF OnceInv, IInv, TypeOK
  <2> QED  BY <1>1, <2>1 DEF RowHeld, TickStands, HookSettles
<1>2. ASSUME NEW s \in Schedulers, SchedulerStep(s) \/ DispatchFails(s) \/ Raise(s) \/ Crash(s)
      PROVE  OnceInv' /\ \A t \in Ticks : TickStands(t) /\ HookSettles(t)
  <2>1. CASE \/ Acquire(s) \/ NextRound(s) \/ LeaseLost(s) \/ Raise(s) \/ Crash(s) \/ Restart(s)
             \/ ScanFails(s) \/ MarkFails(s)
    BY <1>1, <2>1, ProcessOnce
  <2>2. CASE \/ NextClaim(s) \/ CreateThread(s) \/ CheckThread(s) \/ SubmitRun(s)
             \/ DispatchFails(s) \/ Drop(s) \/ (PrepareRun(s) /\ UNCHANGED tick)
    BY <1>1, <2>2, DispatchOnce
  <2>3. CASE Scan(s)
    BY <2>3, ScanOnce
  <2>4. CASE NextHook(s)
    BY <1>1, <2>4, NextHookOnce
  <2>5. CASE Post(s) \/ RecordAttempt(s) \/ RecordResult(s)
    BY <2>5, PostOnce, RecordAttemptOnce, RecordResultOnce
  <2>6. CASE ClaimDue(s) \/ MarkOutcome(s) \/ (PrepareRun(s) /\ tick' # tick)
    BY <2>6, ClaimDueOnce, MarkOutcomeOnce, PrepareRunOnce
  <2> QED  BY <1>2, <2>1, <2>2, <2>3, <2>4, <2>5, <2>6 DEF SchedulerStep
<1>3. CASE \/ \E c \in Crons : ComesDue(c) \/ Ends(c) \/ PatchEnabled(c) \/ DeleteCron(c)
           \/ \E t \in Ticks : GoesStale(t)
           \/ \E th \in Threads : DeleteThread(th) \/ \E r \in Runs : ClientRuns(th, r)
           \/ \E r \in Runs : DeleteRun(r) \/ RunStarts(r) \/ RunEnds(r)
           \/ LockExpires
           \/ UNCHANGED vars
  BY <1>3, OthersOnce
<1> QED  BY <1>2, <1>3 DEF Next

\* prepare_run gives the tick in hand its run: no other run has that tick yet.
LEMMA RunsStayApart ==
  ASSUME IInv, RunsLinked, OnceInv, OneRunPerTick, [Next]_vars
  PROVE  OneRunPerTick'
<1>1. CASE \E s \in Schedulers : PrepareRun(s)
  <2>1. PICK s \in Schedulers : PrepareRun(s)
    BY <1>1
  <2> DEFINE c == sched[s].claim
  <2>2. sched[s].pc = "prepare" /\ sched[s].pc \in ClaimSteps
    BY <2>1, Zenon DEF PrepareRun, At, ClaimSteps
  <2>3. c.tick \in Ticks /\ ClaimHeld(tick, c) /\ c.run = NoRun
    BY <2>2, AtClaim DEF ClaimsHeld
  <2>4. tick[c.tick].status = "started"
    BY <2>3 DEF ClaimHeld
  <2>5. \A x \in Runs : run[x].tick # c.tick
    BY <2>3, <2>4 DEF RunsLinked, Prepared
  <2>6. \/ UNCHANGED run
        \/ \E r \in Runs : run' = [run EXCEPT ![r] = [@ EXCEPT
             !.status = "pending", !.thread = c.thread, !.tick = c.tick]]
    BY <2>1, Zenon DEF PrepareRun
  <2>7. CASE UNCHANGED run
    BY <2>7 DEF OneRunPerTick
  <2>8. ASSUME NEW r \in Runs, run' = [run EXCEPT ![r] = [@ EXCEPT
                 !.status = "pending", !.thread = c.thread, !.tick = c.tick]]
        PROVE  OneRunPerTick'
    <3>1. run \in [Runs -> RunRow]
      BY DEF IInv, TypeOK
    <3> HIDE DEF c
    <3>2. \A x \in Runs : run'[x].tick = IF x = r THEN c.tick ELSE run[x].tick
      BY <2>8, <3>1 DEF RunRow
    <3> QED  BY <2>5, <3>2 DEF OneRunPerTick
  <2> QED  BY <2>6, <2>7, <2>8
<1>2. CASE ~\E s \in Schedulers : PrepareRun(s)
  <2>1. \A r \in Runs : run'[r].tick = run[r].tick
    BY <1>2, OthersKeepTicks
  <2> QED  BY <2>1 DEF OneRunPerTick
<1> QED  BY <1>1, <1>2

\* A due occurrence starts one run, however often its tick is claimed, dispatched again or
\* submitted again, and the webhook of a tick never tells but the status the tick has: for
\* any number of scheduler processes that start, stop and crash, as long as none loses the
\* lock while it runs (scheduler.py asks for the lock once per round only).
THEOREM TicksRunAtMostOnce == MaxLosses = 0 => (Spec => []TicksRunOnce)
<1> SUFFICES ASSUME MaxLosses = 0 PROVE Spec => []TicksRunOnce
  OBVIOUS
<1> DEFINE Inv == IInv /\ RunsLinked /\ OnceInv /\ OneRunPerTick
<1>1. Init => Inv
  BY InitTypes, InitOnce, InitLinked DEF Init, OneRunPerTick
<1>2. Inv /\ [Next]_vars => Inv'
  <2> SUFFICES ASSUME Inv, [Next]_vars PROVE Inv'
    OBVIOUS
  <2>1. IInv' /\ RunsLinked'
    BY NextTypes, NextLinked
  <2>2. OnceInv'
    BY NextOnce
  <2>3. OneRunPerTick'
    BY RunsStayApart
  <2> QED  BY <2>1, <2>2, <2>3
<1>3. Inv => TicksRunOnce
  BY DEF OnceInv, RowHeld, WebhookTellsOutcome, TicksRunOnce
<1> QED  BY <1>1, <1>2, <1>3, PTL DEF Spec

\* A tick that has ended keeps its status and its run; a webhook recorded as delivered or
\* failed is not called again and a failed one was called as often as its cron asks for,
\* under the same assumption.
THEOREM OutcomesStay == MaxLosses = 0 => (Spec => OutcomesFinal)
<1> SUFFICES ASSUME MaxLosses = 0 PROVE Spec => OutcomesFinal
  OBVIOUS
<1> DEFINE Inv == IInv /\ OnceInv
           Stands == \A t \in Ticks : tick[t].status \in TerminalTick =>
                       tick'[t].status = tick[t].status /\ tick'[t].run = tick[t].run
           Settles == \A t \in Ticks :
                        /\ tick[t].hook \in {"delivered", "failed"} => posts'[t].count = posts[t].count
                        /\ tick'[t].hook = "failed" => posts[t].count >= MaxAttempts
<1>1. Init => Inv
  BY InitTypes, InitOnce
<1>2. Inv /\ [Next]_vars => Inv' /\ Stands /\ Settles
  <2> SUFFICES ASSUME Inv, [Next]_vars PROVE Inv' /\ Stands /\ Settles
    OBVIOUS
  <2>1. IInv'
    BY NextTypes
  <2>2. OnceInv' /\ \A t \in Ticks : TickStands(t) /\ HookSettles(t)
    BY NextOnce
  <2> QED  BY <2>1, <2>2 DEF TickStands, HookSettles
<1> HIDE DEF Inv, Stands, Settles
<1>3. Spec => [][Stands]_vars /\ [][Settles]_vars
  BY <1>1, <1>2, PTL DEF Spec
<1> QED  BY <1>3 DEF OutcomesFinal, TickOutcomeStands, WebhookSettles, Stands, Settles

-----------------------------------------------------------------------------
(* The threads a scheduler deletes.  No lock protects this: two schedulers  *)
(* may follow up the same tick.  What does is that a thread the scheduler   *)
(* created carries one dispatched run in its life, the one its creator      *)
(* prepared.                                                                *)

\* A thread no cron is bound to: the scheduler created it.
Ephemeral(th) == th \in Threads /\ \A c \in Crons : BoundTo[c] # th

EndedIn(R, r) == R[r].status \notin {"absent", "pending", "running"}

\* A run that a scheduler dispatched on the thread has ended.
Spent(R, th) == \E r \in Runs : R[r].thread = th /\ R[r].tick # 0 /\ EndedIn(R, r)

\* A thread as a tick of cron k may have it.
Fits(k, th) == th = BoundTo[k] \/ (BoundTo[k] = NoThread /\ Ephemeral(th))

\* An ephemeral thread has one dispatched run at most; clients may add theirs.
RunThreads(R, H) ==
  /\ \A r \in Runs : /\ R[r].status = "absent" => R[r].thread = NoThread /\ R[r].tick = 0
                     /\ R[r].thread \in Threads => H[R[r].thread] # "absent"
  /\ \A r, x \in Runs :
       R[r].thread = R[x].thread /\ Ephemeral(R[r].thread) /\ R[r].tick # 0 /\ R[x].tick # 0
         => r = x

\* No scheduler has dispatched a run on the thread.
Undispatched(R, th) == \A r \in Runs : R[r].thread = th => R[r].tick = 0

BoundExist(H) == \A c \in Crons : BoundTo[c] \in Threads => H[BoundTo[c]] # "absent"

\* A tick that waits for its run or was successful has the thread of that run.
TickFits(T, R, t) ==
  /\ T[t].status # "free" => T[t].cron \in Crons /\ Fits(T[t].cron, T[t].thread)
  /\ T[t].status = "free" => T[t].run = NoRun
  /\ T[t].status = "started" => T[t].run = NoRun /\ T[t].thread = BoundTo[T[t].cron]
  /\ T[t].status = "queued" =>
       /\ T[t].run \in Runs /\ R[T[t].run].thread = T[t].thread
       /\ R[T[t].run].status # "absent" /\ R[T[t].run].tick # 0
  /\ T[t].status = "success" =>
       /\ T[t].run \in Runs /\ R[T[t].run].thread = T[t].thread
       /\ R[T[t].run].tick # 0 /\ EndedIn(R, T[t].run)

RowsFit(T, R, H) ==
  /\ RunThreads(R, H)
  /\ BoundExist(H)
  /\ \A t \in Ticks : TickFits(T, R, t)

ClaimFits(T, c) == T[c.tick].status # "free" /\ Fits(T[c.tick].cron, c.thread)

\* A scheduler that is about to prepare a run on an ephemeral thread created it and no run was
\* dispatched there; the threads it is about to delete are ephemeral and their run has ended.
LocalFits(T, R, H, x) ==
  /\ \A c \in x.claims : ClaimFits(T, c) /\ (c.run = NoRun => c.thread = BoundTo[T[c.tick].cron])
  /\ x.pc \in ClaimSteps => ClaimFits(T, x.claim)
  /\ x.pc = "create" => BoundTo[T[x.claim.tick].cron] = NoThread
  /\ x.pc = "check" => x.claim.thread = BoundTo[T[x.claim.tick].cron]
  /\ x.pc = "prepare" /\ Ephemeral(x.claim.thread) =>
       H[x.claim.thread] # "absent" /\ Undispatched(R, x.claim.thread)
  /\ \A th \in x.drop : Ephemeral(th) /\ Spent(R, th)

\* Two schedulers prepare runs on different ephemeral threads.
Apart ==
  \A s, q \in Schedulers :
    At(s, "prepare") /\ At(q, "prepare") /\ sched[s].claim.thread = sched[q].claim.thread
      /\ Ephemeral(sched[s].claim.thread) => s = q

ThreadInv ==
  /\ RowsFit(tick, run, thread)
  /\ \A s \in Schedulers : LocalFits(tick, run, thread, sched[s])
  /\ Apart

\* What the rows keep: the cron of a tick, a thread that exists, a run that has ended.
TicksKeep(T, T2) ==
  \A t \in Ticks : T[t].status # "free" => T2[t].status # "free" /\ T2[t].cron = T[t].cron

ThreadsKeep(H, H2) == \A th \in Threads : H[th] # "absent" => H2[th] # "absent"

EndsKeep(R, R2) ==
  \A r \in Runs :
    EndedIn(R, r) => EndedIn(R2, r) /\ R2[r].thread = R[r].thread /\ R2[r].tick = R[r].tick

RunsKeep(R, R2) ==
  \A r \in Runs : /\ R2[r].thread = R[r].thread /\ R2[r].tick = R[r].tick
                  /\ R2[r].status = "absent" <=> R[r].status = "absent"
                  /\ EndedIn(R, r) => EndedIn(R2, r)

LEMMA FitsLater ==
  ASSUME NEW T, NEW R, NEW H, NEW T2, NEW R2, NEW H2, NEW x \in Local, LocalSound(x),
         LocalFits(T, R, H, x), TicksKeep(T, T2), ThreadsKeep(H, H2), EndsKeep(R, R2),
         x.pc = "prepare" /\ Ephemeral(x.claim.thread) => Undispatched(R2, x.claim.thread)
  PROVE  LocalFits(T2, R2, H2, x)
<1>1. \A c \in Claim : ClaimFits(T, c) => ClaimFits(T2, c) /\ T2[c.tick].cron = T[c.tick].cron
  BY DEF ClaimFits, TicksKeep, Claim
<1>2. x.claims \subseteq Claim /\ (x.pc \in ClaimSteps => x.claim \in Claim)
  BY DEF Local, LocalSound
<1>3. \A th : Spent(R, th) => Spent(R2, th)
  BY DEF Spent, EndsKeep
<1>4. {"create", "check", "prepare"} \subseteq ClaimSteps
  BY DEF ClaimSteps
<1>5. \A c \in x.claims : ClaimFits(T2, c) /\ (c.run = NoRun => c.thread = BoundTo[T2[c.tick].cron])
  BY <1>1, <1>2 DEF LocalFits
<1>6. x.pc \in ClaimSteps => ClaimFits(T2, x.claim)
  BY <1>1, <1>2 DEF LocalFits
<1>7. /\ x.pc = "create" => BoundTo[T2[x.claim.tick].cron] = NoThread
      /\ x.pc = "check" => x.claim.thread = BoundTo[T2[x.claim.tick].cron]
  BY <1>1, <1>2, <1>4 DEF LocalFits
<1>8. x.pc = "prepare" /\ Ephemeral(x.claim.thread) =>
        H2[x.claim.thread] # "absent" /\ Undispatched(R2, x.claim.thread)
  BY DEF LocalFits, ThreadsKeep, Ephemeral
<1>9. \A th \in x.drop : Ephemeral(th) /\ Spent(R2, th)
  BY <1>3 DEF LocalFits
<1> QED  BY <1>5, <1>6, <1>7, <1>8, <1>9 DEF LocalFits

\* Runs go on, threads change: the ticks fit as before.
LEMMA RunsMove ==
  ASSUME NEW T, NEW R, NEW H, NEW R2, NEW H2,
         RowsFit(T, R, H), RunsKeep(R, R2), ThreadsKeep(H, H2)
  PROVE  RowsFit(T, R2, H2) /\ EndsKeep(R, R2)
<1>1. RunThreads(R2, H2)
  BY DEF RowsFit, RunThreads, RunsKeep, ThreadsKeep
<1>2. BoundExist(H2)
  BY DEF RowsFit, BoundExist, ThreadsKeep
<1>3. \A t \in Ticks : TickFits(T, R2, t)
  BY DEF RowsFit, TickFits, RunsKeep
<1>4. EndsKeep(R, R2)
  BY DEF EndsKeep, RunsKeep
<1> QED  BY <1>1, <1>2, <1>3, <1>4 DEF RowsFit

\* Ticks change where their runs and threads do not show.
LEMMA TicksMove ==
  ASSUME NEW T, NEW R, NEW H, NEW T2, RowsFit(T, R, H),
         \A t \in Ticks : /\ T2[t].status = T[t].status /\ T2[t].cron = T[t].cron
                          /\ T2[t].run = T[t].run /\ T2[t].thread = T[t].thread
  PROVE  RowsFit(T2, R, H) /\ TicksKeep(T, T2)
<1>1. \A t \in Ticks : TickFits(T2, R, t)
  BY DEF RowsFit, TickFits
<1>2. TicksKeep(T, T2)
  BY DEF TicksKeep
<1> QED  BY <1>1, <1>2 DEF RowsFit

\* A scheduler takes a step.
LEMMA FitStep ==
  ASSUME IInv, ThreadInv, NEW s \in Schedulers, NEW new, Become(s, new),
         RowsFit(tick', run', thread'), LocalFits(tick', run', thread', new),
         TicksKeep(tick, tick'), ThreadsKeep(thread, thread'), EndsKeep(run, run'),
         \A q \in Schedulers \ {s} :
           At(q, "prepare") /\ Ephemeral(sched[q].claim.thread) =>
             /\ Undispatched(run', sched[q].claim.thread)
             /\ new.pc = "prepare" => new.claim.thread # sched[q].claim.thread
  PROVE  ThreadInv'
<1>1. \A q \in Schedulers : sched'[q] = IF q = s THEN new ELSE sched[q]
  BY DEF Become, IInv, TypeOK
<1>2. ASSUME NEW q \in Schedulers
      PROVE  LocalFits(tick', run', thread', sched'[q])
  <2>1. CASE q = s
    BY <1>1, <2>1
  <2>2. CASE q # s
    <3>1. sched[q] \in Local /\ LocalSound(sched[q]) /\ LocalFits(tick, run, thread, sched[q])
      BY SchedTypes DEF ThreadInv
    <3>2. sched[q].pc = "prepare" /\ Ephemeral(sched[q].claim.thread) =>
            Undispatched(run', sched[q].claim.thread)
      BY <2>2 DEF At
    <3>3. LocalFits(tick', run', thread', sched[q])
      BY <3>1, <3>2, FitsLater
    <3> QED  BY <1>1, <2>2, <3>3
  <2> QED  BY <2>1, <2>2
<1>3. Apart'
  <2> SUFFICES ASSUME NEW p \in Schedulers, NEW q \in Schedulers,
                      sched'[p].pc = "prepare", sched'[q].pc = "prepare",
                      sched'[p].claim.thread = sched'[q].claim.thread,
                      Ephemeral(sched'[p].claim.thread), p # q
               PROVE  FALSE
    BY DEF Apart, At, Ephemeral
  <2>1. CASE p # s /\ q # s
    BY <1>1, <2>1 DEF ThreadInv, Apart, At
  <2>2. CASE p = s \/ q = s
    BY <1>1, <2>2 DEF At
  <2> QED  BY <2>1, <2>2
<1> QED  BY <1>2, <1>3 DEF ThreadInv, RowsFit, RunThreads, BoundExist, TickFits, LocalFits, ClaimFits,
            Spent, EndedIn, Undispatched, Fits, Ephemeral

\* A scheduler takes a step that gives no run a thread and prepares nothing.
LEMMA FitPlainStep ==
  ASSUME IInv, ThreadInv, NEW s \in Schedulers, NEW new, Become(s, new),
         RowsFit(tick', run', thread'), LocalFits(tick', run', thread', new),
         TicksKeep(tick, tick'), ThreadsKeep(thread, thread'), RunsKeep(run, run'),
         new.pc = "prepare" => ~Ephemeral(new.claim.thread)
  PROVE  ThreadInv'
<1>1. EndsKeep(run, run')
  BY DEF EndsKeep, RunsKeep
<1>2. ASSUME NEW q \in Schedulers \ {s}, At(q, "prepare"), Ephemeral(sched[q].claim.thread)
      PROVE  /\ Undispatched(run', sched[q].claim.thread)
             /\ new.pc = "prepare" => new.claim.thread # sched[q].claim.thread
  BY <1>2 DEF At, ThreadInv, LocalFits, RunsKeep, Undispatched
<1> QED  BY <1>1, <1>2, FitStep

LEMMA RowsStay ==
  ASSUME ThreadInv
  PROVE  /\ UNCHANGED tick => TicksKeep(tick, tick')
         /\ UNCHANGED thread => ThreadsKeep(thread, thread')
         /\ UNCHANGED run => RunsKeep(run, run')
         /\ UNCHANGED <<tick, run, thread>> => RowsFit(tick', run', thread')
BY DEF TicksKeep, ThreadsKeep, RunsKeep, ThreadInv

\* Only a scheduler's locals change.
LEMMA FitLocalStep ==
  ASSUME IInv, ThreadInv, NEW s \in Schedulers, NEW new, Become(s, new),
         UNCHANGED <<tick, run, thread>>, LocalFits(tick, run, thread, new),
         new.pc = "prepare" => ~Ephemeral(new.claim.thread)
  PROVE  ThreadInv'
<1>1. /\ TicksKeep(tick, tick') /\ ThreadsKeep(thread, thread') /\ RunsKeep(run, run')
      /\ RowsFit(tick', run', thread')
  BY RowsStay
<1>2. LocalFits(tick', run', thread', new)
  OBVIOUS
<1> QED  BY <1>1, <1>2, FitPlainStep

\* Nothing in hand fits whatever the rows are.
LEMMA IdleFits ==
  ASSUME NEW T, NEW R, NEW H, NEW pc, pc \notin ClaimSteps
  PROVE  LocalFits(T, R, H, Idle(pc))
BY DEF LocalFits, Idle, ClaimSteps

\* Away from claims only the claims and threads in hand matter.
LEMMA FarFits ==
  ASSUME NEW T, NEW R, NEW H, NEW x, LocalFits(T, R, H, x),
         NEW y, y.pc \notin ClaimSteps, y.claims = x.claims, y.drop = x.drop
  PROVE  LocalFits(T, R, H, y)
BY DEF LocalFits, ClaimSteps

LEMMA ProcessFits ==
  ASSUME IInv, ThreadInv, NEW s \in Schedulers,
         \/ Acquire(s) \/ NextRound(s) \/ LeaseLost(s) \/ Raise(s) \/ Crash(s) \/ Restart(s)
         \/ ScanFails(s) \/ MarkFails(s) \/ NextHook(s) \/ Post(s)
  PROVE  ThreadInv'
<1>1. UNCHANGED <<tick, run, thread>>
  BY Zenon DEF Acquire, NextRound, LeaseLost, Raise, Crash, Restart, ScanFails, MarkFails,
     NextHook, Post, rows
<1>2. sched[s] \in Local /\ LocalFits(tick, run, thread, sched[s])
  BY SchedTypes DEF ThreadInv
<1>3. CASE \/ Acquire(s) \/ NextRound(s) \/ LeaseLost(s) \/ Raise(s) \/ Crash(s) \/ Restart(s)
           \/ ScanFails(s) \/ MarkFails(s)
  <2>1. PICK pc \in {"scan", "gone", "new"} : Become(s, Idle(pc))
    BY <1>3 DEF Acquire, NextRound, LeaseLost, Raise, Crash, Restart, ScanFails, MarkFails, Exit
  <2>2. LocalFits(tick, run, thread, Idle(pc)) /\ Idle(pc).pc # "prepare"
    BY IdleFits DEF ClaimSteps, Idle
  <2> QED  BY <1>1, <2>1, <2>2, FitLocalStep
<1>4. ASSUME NEW y, Become(s, y), y.pc \in {"drop", "post", "result", "attempt"},
             y.claims = sched[s].claims, y.drop = sched[s].drop
      PROVE  ThreadInv'
  <2>1. LocalFits(tick, run, thread, y)
    BY <1>2, <1>4, FarFits DEF ClaimSteps
  <2> QED  BY <1>1, <1>4, <2>1, FitLocalStep
<1>5. CASE NextHook(s)
  <2>1. CASE Become(s, Goto(s, "drop"))
    BY <1>2, <1>4, <2>1 DEF Goto, Local
  <2>2. ASSUME NEW h \in sched[s].hooks, NEW pc \in {"post", "result"}, NEW n,
               Become(s, [sched[s] EXCEPT !.pc = pc, !.hooks = @ \ {h}, !.hook = h, !.n = n])
        PROVE  ThreadInv'
    <3> DEFINE y == [sched[s] EXCEPT !.pc = pc, !.hooks = @ \ {h}, !.hook = h, !.n = n]
    <3>1. y.pc = pc /\ y.claims = sched[s].claims /\ y.drop = sched[s].drop
      BY <1>2 DEF Local
    <3> HIDE DEF y
    <3> QED  BY <1>4, <2>2, <3>1 DEF y
  <2>3. ASSUME NEW h \in sched[s].hooks,
               Become(s, [sched[s] EXCEPT
                 !.pc = IF attempts[h.tick] < MaxAttempts THEN "post" ELSE "result",
                 !.hooks = @ \ {h}, !.hook = h, !.n = attempts[h.tick] + 1])
        PROVE  ThreadInv'
    <3> DEFINE pc == IF attempts[h.tick] < MaxAttempts THEN "post" ELSE "result"
               n  == attempts[h.tick] + 1
    <3>1. pc \in {"post", "result"}
      OBVIOUS
    <3>2. Become(s, [sched[s] EXCEPT !.pc = pc, !.hooks = @ \ {h}, !.hook = h, !.n = n])
      BY <2>3
    <3> HIDE DEF pc, n
    <3> QED  BY <2>2, <3>1, <3>2, Zenon
  <2> QED  BY <1>5, <2>1, <2>3 DEF NextHook
<1>6. CASE Post(s)
  <2>1. PICK ok \in BOOLEAN : Become(s, [sched[s] EXCEPT !.pc = "attempt", !.ok = ok])
    BY <1>6 DEF Post
  <2> QED  BY <1>2, <1>4, <2>1 DEF Local
<1> QED  BY <1>3, <1>5, <1>6

LEMMA RecordFits ==
  ASSUME IInv, ThreadInv, NEW s \in Schedulers, RecordAttempt(s) \/ RecordResult(s)
  PROVE  ThreadInv'
<1>1. UNCHANGED <<run, thread>>
  BY Zenon DEF RecordAttempt, RecordResult
<1>2. sched[s] \in Local /\ LocalSound(sched[s]) /\ LocalFits(tick, run, thread, sched[s])
  BY SchedTypes DEF ThreadInv
<1>3. ASSUME NEW t \in Ticks
      PROVE  /\ tick'[t].status = tick[t].status /\ tick'[t].cron = tick[t].cron
             /\ tick'[t].run = tick[t].run /\ tick'[t].thread = tick[t].thread
  <2>1. tick[t] \in TickRow /\ tick \in [Ticks -> TickRow]
    BY DEF IInv, TypeOK
  <2>2. CASE RecordResult(s)
    <3> DEFINE u    == sched[s].hook.tick
               hook == IF sched[s].ok THEN "delivered" ELSE "failed"
    <3>1. tick' = [tick EXCEPT ![u].hook = hook, ![u].stale = FALSE]
      BY <2>2 DEF RecordResult
    <3> HIDE DEF u, hook
    <3> QED  BY <2>1, <3>1 DEF TickRow
  <2>3. CASE RecordAttempt(s)
    <3> DEFINE u == sched[s].hook.tick
    <3>1. tick' = tick \/ tick' = [tick EXCEPT ![u].stale = FALSE]
      BY <2>3, Zenon DEF RecordAttempt
    <3> HIDE DEF u
    <3> QED  BY <2>1, <3>1 DEF TickRow
  <2> QED  BY <2>2, <2>3
<1>4. /\ TicksKeep(tick, tick') /\ ThreadsKeep(thread, thread') /\ RunsKeep(run, run')
      /\ RowsFit(tick', run', thread')
  <2>1. RowsFit(tick', run, thread) /\ TicksKeep(tick, tick')
    BY <1>3, TicksMove DEF ThreadInv
  <2> QED  BY <1>1, <2>1, RowsStay
<1>5. sched[s].pc \in HookSteps
  BY Zenon DEF RecordAttempt, RecordResult, At, HookSteps
<1>6. LocalFits(tick', run', thread', sched[s])
  <2>1. EndsKeep(run, run') /\ sched[s].pc # "prepare"
    BY <1>1, <1>5 DEF EndsKeep, HookSteps
  <2> QED  BY <1>2, <1>4, <2>1, FitsLater
<1>7. ASSUME NEW y, Become(s, y), y.pc \in {"post", "result", "again", "hooks"},
             y.claims = sched[s].claims, y.drop = sched[s].drop
      PROVE  ThreadInv'
  <2>1. LocalFits(tick', run', thread', y) /\ y.pc # "prepare"
    BY <1>6, <1>7, FarFits DEF ClaimSteps
  <2> QED  BY <1>4, <1>7, <2>1, FitPlainStep
<1>8. CASE RecordResult(s)
  BY <1>2, <1>7, <1>8 DEF RecordResult, Local
<1>9. CASE RecordAttempt(s)
  <2> DEFINE ok == sched[s].ok /\ At(s, "attempt")
  <2>1. Become(s, AfterAttempt(s, ok)) \/ Become(s, Goto(s, "again")) \/ Exit(s)
    BY <1>9, Zenon DEF RecordAttempt
  <2> HIDE DEF ok
  <2>2. CASE Become(s, AfterAttempt(s, ok))
    <3>1. /\ AfterAttempt(s, ok).pc \in {"post", "result"}
          /\ AfterAttempt(s, ok).claims = sched[s].claims
          /\ AfterAttempt(s, ok).drop = sched[s].drop
      BY <1>2 DEF AfterAttempt, Local
    <3> QED  BY <1>7, <2>2, <3>1
  <2>3. CASE Become(s, Goto(s, "again"))
    BY <1>2, <1>7, <2>3 DEF Goto, Local
  <2>4. CASE Exit(s)
    <3>1. LocalFits(tick', run', thread', Idle("gone")) /\ Idle("gone").pc # "prepare"
      BY IdleFits DEF ClaimSteps, Idle
    <3> QED  BY <1>4, <2>4, <3>1, FitPlainStep DEF Exit
  <2> QED  BY <2>1, <2>2, <2>3, <2>4
<1> QED  BY <1>8, <1>9

\* The threads to delete are those of ticks whose run was successful.
LEMMA ScanFits ==
  ASSUME IInv, ThreadInv, NEW s \in Schedulers, Scan(s)
  PROVE  ThreadInv'
<1> DEFINE hooks == {[tick |-> t, status |-> SettledStatus(t)] : t \in {t \in Selected : HookDue(t)}}
           drop  == {tick[t].thread : t \in {t \in Selected : ThreadDone(t)}}
           new   == [sched[s] EXCEPT !.pc = "hooks", !.hooks = hooks, !.drop = drop]
<1>1. sched[s] \in Local /\ LocalFits(tick, run, thread, sched[s])
  BY SchedTypes DEF ThreadInv
<1>2. Become(s, new) /\ UNCHANGED <<run, thread>>
  BY DEF Scan
<1>3. ASSUME NEW t \in Ticks
      PROVE  /\ tick'[t].run = tick[t].run /\ tick'[t].thread = tick[t].thread
             /\ tick'[t].cron = tick[t].cron
             /\ t \notin Selected => tick'[t].status = tick[t].status
             /\ t \in Selected => tick'[t].status = SettledStatus(t)
  <2>1. tick[t] \in TickRow
    BY DEF IInv, TypeOK
  <2> QED  BY <2>1 DEF Scan, TickRow
<1>4. ASSUME NEW t \in Ticks
      PROVE  /\ TickFits(tick', run, t)
             /\ tick[t].status # "free" => tick'[t].status # "free"
  <2>1. TickFits(tick, run, t)
    BY DEF ThreadInv, RowsFit
  <2>2. CASE t \notin Selected \/ ~RunEnded(t)
    <3>1. tick'[t].status = tick[t].status
      BY <1>3, <2>2 DEF SettledStatus
    <3> QED  BY <1>3, <2>1, <3>1 DEF TickFits
  <2>3. CASE t \in Selected /\ RunEnded(t)
    <3>1. /\ tick'[t].status = run[tick[t].run].status /\ tick[t].status = "queued"
          /\ run[tick[t].run].status \in TerminalRun
      BY <1>3, <2>3 DEF SettledStatus, RunEnded
    <3>2. EndedIn(run, tick[t].run) /\ tick'[t].status \notin {"free", "started", "queued"}
      BY <3>1 DEF EndedIn, TerminalRun
    <3> QED  BY <1>3, <2>1, <3>1, <3>2 DEF TickFits
  <2> QED  BY <2>2, <2>3
<1>5. TicksKeep(tick, tick') /\ ThreadsKeep(thread, thread') /\ RunsKeep(run, run')
  BY <1>2, <1>3, <1>4, RowsStay DEF TicksKeep
<1>6. RowsFit(tick', run', thread')
  BY <1>2, <1>4 DEF ThreadInv, RowsFit
<1>7. ASSUME NEW th \in drop
      PROVE  Ephemeral(th) /\ Spent(run, th)
  <2>1. PICK t \in Selected : ThreadDone(t) /\ th = tick[t].thread
    BY <1>7
  <2>2. t \in Ticks
    BY <2>1 DEF Selected
  <2>3. tick'[t].status = "success" /\ tick'[t].thread = th /\ th # NoThread
        /\ BoundTo[tick'[t].cron] = NoThread
    BY <1>3, <2>1, <2>2 DEF ThreadDone
  <2> QED  BY <1>4, <2>2, <2>3 DEF TickFits, Fits, Spent
<1>8. ASSUME NEW c \in sched[s].claims
      PROVE  /\ ClaimFits(tick', c)
             /\ c.run = NoRun => c.thread = BoundTo[tick'[c.tick].cron]
  <2>1. c.tick \in Ticks
    BY <1>1 DEF Local, Claim
  <2> QED  BY <1>1, <1>3, <1>4, <2>1 DEF LocalFits, ClaimFits
<1> HIDE DEF hooks, drop
<1>9. new.pc = "hooks" /\ new.claims = sched[s].claims /\ new.drop = drop
  BY <1>1 DEF Local
<1> HIDE DEF new
<1>10. LocalFits(tick', run', thread', new)
  BY <1>2, <1>7, <1>8, <1>9 DEF LocalFits, ClaimSteps
<1> QED  BY <1>2, <1>5, <1>6, <1>9, <1>10, FitPlainStep

\* A claim takes free ticks for crons and leaves to the others their cron, thread and run.
LEMMA TakenFits ==
  ASSUME IInv, ThreadInv, NEW again \in SUBSET Ticks, again \cap Free = {},
         NEW fresh \in SUBSET Free, NEW of \in [fresh -> Crons], NEW t \in Ticks,
         NEW x, x = Taken(again, of)[t]
  PROVE  /\ x.run = tick[t].run
         /\ t \in fresh => /\ tick[t].status = "free" /\ x.status = "started"
                           /\ x.cron \in Crons /\ x.thread = BoundTo[x.cron]
         /\ t \notin fresh => /\ x.cron = tick[t].cron /\ x.thread = tick[t].thread
                              /\ x.status = tick[t].status \/ x.status = "skipped"
                              /\ tick[t].status = "free" => x.status = "free"
<1>1. tick[t] \in TickRow
  BY DEF IInv, TypeOK
<1>2. x = IF t \in fresh
          THEN [tick[t] EXCEPT !.status = "started", !.cron = of[t], !.thread = BoundTo[of[t]]]
          ELSE IF t \in Over THEN [tick[t] EXCEPT !.status = "skipped", !.stale = FALSE]
          ELSE IF t \in again THEN [tick[t] EXCEPT !.stale = FALSE]
          ELSE tick[t]
  BY DEF Taken
<1>3. CASE t \in fresh
  <2>1. of[t] \in Crons /\ tick[t].status = "free"
    BY <1>3 DEF Free
  <2> QED  BY <1>1, <1>2, <1>3, <2>1 DEF TickRow
<1>4. CASE t \notin fresh /\ t \in Over
  BY <1>1, <1>2, <1>4 DEF TickRow, Over, Alive
<1>5. CASE t \notin fresh /\ t \notin Over
  BY <1>1, <1>2, <1>5 DEF TickRow
<1> QED  BY <1>3, <1>4, <1>5

LEMMA ClaimDueFits ==
  ASSUME IInv, ThreadInv, NEW s \in Schedulers, ClaimDue(s)
  PROVE  ThreadInv'
<1>1. PICK queued \in SUBSET Requeued, picked \in SUBSET DueCrons :
        ClaimThese(s, Started \cup queued,
                   picked \ {tick[t].cron : t \in Started \cup queued})
  BY Zenon DEF ClaimDue
<1> DEFINE again == Started \cup queued
           new   == picked \ {tick[t].cron : t \in again}
           fresh == First(Free, Cardinality(new))
<1>2. PICK of \in [fresh -> new] :
        /\ tick' = Taken(again, of)
        /\ Become(s, [sched[s] EXCEPT
             !.pc = "next", !.claims = Claims(again \cup DOMAIN of, Taken(again, of))])
  BY <1>1 DEF ClaimThese
<1>3. again \subseteq Ticks /\ again \cap Free = {}
      /\ \A t \in again : tick[t].status \in {"started", "queued"}
  BY DEF Started, Found, Requeued, StaleTicks, First, Reclaimable, Free
<1>4. fresh \subseteq Free /\ new \subseteq Crons /\ fresh \subseteq Ticks
  BY DEF First, DueCrons, Free
<1> HIDE DEF new, fresh
<1>5. of \in [fresh -> Crons] /\ DOMAIN of = fresh
  BY <1>2, <1>4
<1>6. UNCHANGED <<run, thread>>
  BY DEF ClaimDue
<1> HIDE DEF again
<1>7. ASSUME NEW t \in Ticks
      PROVE  /\ tick'[t].run = tick[t].run
             /\ t \in fresh => /\ tick[t].status = "free" /\ tick'[t].status = "started"
                               /\ tick'[t].cron \in Crons
                               /\ tick'[t].thread = BoundTo[tick'[t].cron]
             /\ t \notin fresh => /\ tick'[t].cron = tick[t].cron
                                  /\ tick'[t].thread = tick[t].thread
                                  /\ tick'[t].status = tick[t].status \/ tick'[t].status = "skipped"
                                  /\ tick[t].status = "free" => tick'[t].status = "free"
  <2>1. tick'[t] = Taken(again, of)[t]
    BY <1>2
  <2>2. fresh \in SUBSET Free /\ again \in SUBSET Ticks
    BY <1>3, <1>4
  <2> QED  BY <1>3, <1>5, <2>1, <2>2, TakenFits
<1>8. TicksKeep(tick, tick') /\ ThreadsKeep(thread, thread') /\ RunsKeep(run, run')
  <2>1. TicksKeep(tick, tick')
    <3> SUFFICES ASSUME NEW t \in Ticks, tick[t].status # "free"
                 PROVE  tick'[t].status # "free" /\ tick'[t].cron = tick[t].cron
      BY DEF TicksKeep
    <3> QED  BY <1>7
  <2> QED  BY <1>6, <2>1, RowsStay
<1>9. ASSUME NEW t \in Ticks
      PROVE  TickFits(tick', run, t)
  <2>1. TickFits(tick, run, t)
    BY DEF ThreadInv, RowsFit
  <2>2. CASE t \in fresh
    BY <1>7, <2>1, <2>2 DEF TickFits, Fits
  <2>3. CASE t \notin fresh
    BY <1>7, <2>1, <2>3 DEF TickFits
  <2> QED  BY <2>2, <2>3
<1>10. RowsFit(tick', run', thread')
  BY <1>6, <1>9 DEF ThreadInv, RowsFit
<1> DEFINE claims == Claims(again \cup fresh, tick')
           y      == [sched[s] EXCEPT !.pc = "next", !.claims = claims]
<1>11. ASSUME NEW c \in claims
       PROVE  /\ ClaimFits(tick', c)
              /\ c.run = NoRun => c.thread = BoundTo[tick'[c.tick].cron]
  <2>1. PICK t \in again \cup fresh :
          c = [tick |-> t, thread |-> tick'[t].thread, run |-> tick'[t].run]
    BY <1>11 DEF Claims
  <2>2. t \in Ticks
    BY <1>3, <1>4
  <2>3. tick'[t].status # "free"
    <3>1. t \in fresh => tick'[t].status = "started"
      BY <1>7, <2>2
    <3>2. t \notin fresh => tick[t].status \in {"started", "queued"}
      BY <1>3, <2>1
    <3> QED  BY <1>7, <2>2, <3>1, <3>2
  <2>4. tick'[t].run = NoRun => tick'[t].thread = BoundTo[tick'[t].cron]
    <3>1. CASE t \in fresh
      BY <1>7, <2>2, <3>1
    <3>2. CASE t \notin fresh
      <4>1. tick[t].status \in {"started", "queued"} /\ TickFits(tick, run, t)
        BY <1>3, <2>1, <2>2, <3>2 DEF ThreadInv, RowsFit
      <4> QED  BY <1>7, <2>2, <3>2, <4>1, NullsAssumption DEF TickFits
    <3> QED  BY <3>1, <3>2
  <2>5. Fits(tick'[t].cron, tick'[t].thread)
    BY <1>9, <2>2, <2>3 DEF TickFits
  <2> QED  BY <2>1, <2>3, <2>4, <2>5 DEF ClaimFits
<1>12. Become(s, y)
  BY <1>2, <1>5
<1>13. sched[s] \in Local /\ LocalFits(tick, run, thread, sched[s])
  BY SchedTypes DEF ThreadInv
<1> HIDE DEF claims
<1>14. y.pc = "next" /\ y.claims = claims /\ y.drop = sched[s].drop
  BY <1>13 DEF Local
<1> HIDE DEF y
<1>15. LocalFits(tick', run', thread', y)
  BY <1>6, <1>11, <1>13, <1>14 DEF LocalFits, ClaimSteps
<1> QED  BY <1>8, <1>10, <1>12, <1>14, <1>15, FitPlainStep

\* A claim in hand, and its next step.
LEMMA ClaimGoesOn ==
  ASSUME NEW T, NEW R, NEW H, NEW x, LocalFits(T, R, H, x), x.pc \in ClaimSteps,
         NEW y, y.pc \in {"submit", "skip", "fail", "overlong"},
         y.claims = x.claims, y.drop = x.drop, y.claim = x.claim
  PROVE  LocalFits(T, R, H, y)
BY DEF LocalFits, ClaimSteps

LEMMA NextClaimFits ==
  ASSUME IInv, ThreadInv, NEW s \in Schedulers, NextClaim(s)
  PROVE  ThreadInv'
<1>1. UNCHANGED <<tick, run, thread>>
  BY DEF NextClaim, rows
<1>2. sched[s] \in Local /\ LocalFits(tick, run, thread, sched[s])
  BY SchedTypes DEF ThreadInv
<1>3. CASE Become(s, [sched[s] EXCEPT !.pc = "scan", !.second = TRUE])
  <2> DEFINE y == [sched[s] EXCEPT !.pc = "scan", !.second = TRUE]
  <2>1. y.pc = "scan" /\ y.claims = sched[s].claims /\ y.drop = sched[s].drop
    BY <1>2 DEF Local
  <2> HIDE DEF y
  <2>2. LocalFits(tick, run, thread, y)
    BY <1>2, <2>1, FarFits DEF ClaimSteps
  <2> QED  BY <1>1, <1>3, <2>1, <2>2, FitLocalStep DEF y
<1>4. ASSUME NEW c \in sched[s].claims, NEW pc \in {"submit", "create", "check"},
             pc # "submit" => c.run = NoRun, pc = "create" => c.thread = NoThread,
             Become(s, [sched[s] EXCEPT !.pc = pc, !.claims = @ \ {c}, !.claim = c])
      PROVE  ThreadInv'
  <2> DEFINE y == [sched[s] EXCEPT !.pc = pc, !.claims = @ \ {c}, !.claim = c]
  <2>1. /\ y.pc = pc /\ y.claims = sched[s].claims \ {c} /\ y.claim = c
        /\ y.drop = sched[s].drop
    BY <1>2 DEF Local
  <2> HIDE DEF y
  <2>2. LocalFits(tick, run, thread, y)
    BY <1>2, <1>4, <2>1 DEF LocalFits, ClaimSteps
  <2>3. y.pc # "prepare"
    BY <2>1
  <2> QED  BY <1>1, <1>4, <2>2, <2>3, FitLocalStep DEF y
<1>5. ASSUME NEW c \in sched[s].claims,
             Become(s, [sched[s] EXCEPT
               !.pc = IF c.run # NoRun THEN "submit"
                      ELSE IF c.thread = NoThread THEN "create" ELSE "check",
               !.claims = @ \ {c}, !.claim = c])
      PROVE  ThreadInv'
  <2> DEFINE pc == IF c.run # NoRun THEN "submit"
                   ELSE IF c.thread = NoThread THEN "create" ELSE "check"
  <2>1. /\ pc \in {"submit", "create", "check"} /\ (pc # "submit" => c.run = NoRun)
        /\ pc = "create" => c.thread = NoThread
    OBVIOUS
  <2>2. Become(s, [sched[s] EXCEPT !.pc = pc, !.claims = @ \ {c}, !.claim = c])
    BY <1>5
  <2> HIDE DEF pc
  <2> QED  BY <1>4, <2>1, <2>2, Zenon
<1> QED  BY <1>3, <1>5 DEF NextClaim

\* The thread that is created is no cron's and has no run.
LEMMA CreateFits ==
  ASSUME IInv, ThreadInv, NEW s \in Schedulers, CreateThread(s)
  PROVE  ThreadInv'
<1>1. PICK th \in Threads :
        /\ thread[th] = "absent" /\ thread' = [thread EXCEPT ![th] = "open"]
        /\ Become(s, [sched[s] EXCEPT !.pc = "prepare", !.claim.thread = th])
  BY DEF CreateThread
<1>2. sched[s].pc = "create" /\ sched[s].pc \in ClaimSteps /\ UNCHANGED <<tick, run>>
  BY DEF CreateThread, At, ClaimSteps
<1>3. /\ sched[s] \in Local /\ LocalFits(tick, run, thread, sched[s])
      /\ sched[s].claim \in Claim
  BY <1>2, SchedTypes DEF ThreadInv, LocalSound
<1>4. thread \in [Threads -> {"absent", "open", "busy", "deleted"}]
  BY DEF IInv, TypeOK
<1>5. Ephemeral(th) /\ \A r \in Runs : run[r].thread # th
  BY <1>1 DEF ThreadInv, RowsFit, BoundExist, RunThreads, Ephemeral
<1>6. ThreadsKeep(thread, thread') /\ thread'[th] = "open"
  BY <1>1, <1>4 DEF ThreadsKeep
<1>7. TicksKeep(tick, tick') /\ RunsKeep(run, run') /\ RowsFit(tick', run', thread')
      /\ EndsKeep(run, run')
  <2>1. RunsKeep(run, run')
    BY <1>2, RowsStay
  <2>2. RowsFit(tick, run', thread') /\ EndsKeep(run, run')
    BY <1>6, <2>1, RunsMove DEF ThreadInv
  <2> QED  BY <1>2, <2>1, <2>2, RowsStay
<1> DEFINE c == [sched[s].claim EXCEPT !.thread = th]
           y == [sched[s] EXCEPT !.pc = "prepare", !.claim = c]
<1>8. c.tick = sched[s].claim.tick /\ c.thread = th
  BY <1>3 DEF Claim
<1>9. Become(s, y)
  BY <1>1
<1> HIDE DEF c
<1>10. y.pc = "prepare" /\ y.claims = sched[s].claims /\ y.claim = c /\ y.drop = sched[s].drop
  BY <1>3 DEF Local
<1> HIDE DEF y
<1>11. ClaimFits(tick, c)
  BY <1>2, <1>3, <1>5, <1>8 DEF LocalFits, ClaimFits, Fits
<1>12. LocalFits(tick', run', thread', y)
  BY <1>2, <1>3, <1>5, <1>6, <1>8, <1>10, <1>11 DEF LocalFits, Undispatched
<1>13. ASSUME NEW q \in Schedulers \ {s}, At(q, "prepare"), Ephemeral(sched[q].claim.thread)
       PROVE  /\ Undispatched(run', sched[q].claim.thread)
              /\ y.pc = "prepare" => y.claim.thread # sched[q].claim.thread
  BY <1>1, <1>2, <1>8, <1>10, <1>13 DEF ThreadInv, LocalFits, At, Undispatched
<1> QED  BY <1>6, <1>7, <1>9, <1>12, <1>13, FitStep

LEMMA CheckFits ==
  ASSUME IInv, ThreadInv, NEW s \in Schedulers, CheckThread(s)
  PROVE  ThreadInv'
<1>1. PICK pc \in {"skip", "prepare"} : Become(s, Goto(s, pc))
  BY DEF CheckThread
<1>2. sched[s].pc = "check" /\ sched[s].pc \in ClaimSteps /\ UNCHANGED <<tick, run, thread>>
  BY DEF CheckThread, At, ClaimSteps, rows
<1>3. /\ sched[s] \in Local /\ LocalFits(tick, run, thread, sched[s])
      /\ sched[s].claim \in Claim /\ sched[s].claim.tick \in Ticks
  BY <1>2, SchedTypes DEF ThreadInv, LocalSound, Claim
<1>4. ~Ephemeral(sched[s].claim.thread)
  <2> DEFINE k == tick[sched[s].claim.tick].cron
  <2>1. k \in Crons
    BY <1>2, <1>3 DEF ThreadInv, RowsFit, TickFits, LocalFits, ClaimFits
  <2>2. sched[s].claim.thread = BoundTo[k]
    BY <1>2, <1>3 DEF LocalFits
  <2> QED  BY <2>1, <2>2 DEF Ephemeral
<1> DEFINE y == Goto(s, pc)
<1>5. /\ y.pc = pc /\ y.claims = sched[s].claims /\ y.claim = sched[s].claim
      /\ y.drop = sched[s].drop
  BY <1>3 DEF Goto, Local
<1> HIDE DEF y
<1>6. LocalFits(tick, run, thread, y)
  BY <1>2, <1>3, <1>4, <1>5 DEF LocalFits, ClaimSteps
<1> QED  BY <1>1, <1>2, <1>4, <1>5, <1>6, FitLocalStep DEF y

\* prepare_run gives a run its thread: where that is ephemeral, the first it gets.
LEMMA PrepareFits ==
  ASSUME IInv, ThreadInv, NEW s \in Schedulers, PrepareRun(s)
  PROVE  ThreadInv'
<1> DEFINE c == sched[s].claim
<1>1. sched[s].pc = "prepare" /\ sched[s].pc \in ClaimSteps
  BY Zenon DEF PrepareRun, At, ClaimSteps
<1>2. /\ sched[s] \in Local /\ LocalFits(tick, run, thread, sched[s])
      /\ c \in Claim /\ c.tick \in Ticks /\ c.thread \in Threads \cup {NoThread}
  BY <1>1, SchedTypes DEF ThreadInv, LocalSound, Claim
<1>3. /\ tick \in [Ticks -> TickRow] /\ run \in [Runs -> RunRow]
      /\ thread \in [Threads -> {"absent", "open", "busy", "deleted"}]
  BY DEF IInv, TypeOK
<1>4. ASSUME NEW pc \in {"skip", "fail"}, Become(s, Goto(s, pc)), UNCHANGED <<run, tick, thread>>
      PROVE  ThreadInv'
  <2> DEFINE y == Goto(s, pc)
  <2>1. /\ y.pc = pc /\ y.claims = sched[s].claims /\ y.claim = sched[s].claim
        /\ y.drop = sched[s].drop
    BY <1>2 DEF Goto, Local
  <2> HIDE DEF y
  <2>2. LocalFits(tick, run, thread, y)
    BY <1>1, <1>2, <2>1, ClaimGoesOn
  <2> QED  BY <1>4, <2>1, <2>2, FitLocalStep DEF y
<1>5. ASSUME NEW r \in Runs, run[r].status = "absent",
             thread' = [thread EXCEPT ![c.thread] = "busy"],
             run' = [run EXCEPT ![r] = [@ EXCEPT
               !.status = "pending", !.thread = c.thread, !.tick = c.tick]],
             tick' = [tick EXCEPT ![c.tick] = [@ EXCEPT
               !.status = "queued", !.run = r, !.thread = c.thread, !.stale = FALSE]],
             Become(s, [sched[s] EXCEPT !.pc = "submit", !.claim.run = r])
      PROVE  ThreadInv'
  <2> HIDE DEF c
  <2>1. /\ run'[r].status = "pending" /\ run'[r].thread = c.thread /\ run'[r].tick = c.tick
        /\ \A x \in Runs \ {r} : run'[x] = run[x]
    BY <1>2, <1>3, <1>5 DEF RunRow
  <2>2. /\ tick'[c.tick].status = "queued" /\ tick'[c.tick].run = r
        /\ tick'[c.tick].thread = c.thread /\ tick'[c.tick].cron = tick[c.tick].cron
        /\ \A t \in Ticks \ {c.tick} : tick'[t] = tick[t]
    BY <1>2, <1>3, <1>5 DEF TickRow
  <2>3. ThreadsKeep(thread, thread') /\ (c.thread \in Threads => thread'[c.thread] = "busy")
    BY <1>3, <1>5 DEF ThreadsKeep
  <2>4. EndsKeep(run, run')
    BY <1>5, <2>1 DEF EndsKeep, EndedIn
  <2>5. TicksKeep(tick, tick')
    BY <2>2 DEF TicksKeep
  <2>6. ClaimFits(tick, c)
    BY <1>1, <1>2 DEF LocalFits, c
  <2>7. Ephemeral(c.thread) => Undispatched(run, c.thread)
    BY <1>1, <1>2 DEF LocalFits, c
  <2>17. c.tick # 0
    BY <1>2 DEF Ticks
  <2>8. RunThreads(run', thread')
    <3>1. RunThreads(run, thread)
      BY DEF ThreadInv, RowsFit
    <3>2. ASSUME NEW x \in Runs
          PROVE  /\ run'[x].status = "absent" => run'[x].thread = NoThread /\ run'[x].tick = 0
                 /\ run'[x].thread \in Threads => thread'[run'[x].thread] # "absent"
      BY <2>1, <2>3, <3>1 DEF RunThreads, ThreadsKeep
    <3>3. ASSUME NEW x \in Runs, NEW z \in Runs,
                 run'[x].thread = run'[z].thread, Ephemeral(run'[x].thread),
                 run'[x].tick # 0, run'[z].tick # 0
          PROVE  x = z
      BY <2>1, <2>7, <3>1, <3>3 DEF RunThreads, Undispatched
    <3> QED  BY <3>2, <3>3 DEF RunThreads
  <2>9. BoundExist(thread')
    BY <2>3 DEF ThreadInv, RowsFit, BoundExist, ThreadsKeep
  <2>10. ASSUME NEW t \in Ticks
         PROVE  TickFits(tick', run', t)
    <3>1. TickFits(tick, run, t)
      BY DEF ThreadInv, RowsFit
    <3>2. CASE t = c.tick
      <4>1. tick[t].cron \in Crons /\ Fits(tick[t].cron, c.thread)
        BY <2>6, <3>1, <3>2 DEF ClaimFits, TickFits
      <4> QED  BY <2>1, <2>2, <2>17, <3>2, <4>1 DEF TickFits
    <3>3. CASE t # c.tick
      <4>1. tick'[t] = tick[t]
        BY <2>2, <3>3
      <4>2. tick[t].status \in {"queued", "success"} => tick[t].run # r
        BY <1>5, <3>1 DEF TickFits, EndedIn
      <4> QED  BY <2>1, <2>4, <3>1, <4>1, <4>2 DEF TickFits, EndsKeep
    <3> QED  BY <3>2, <3>3
  <2>11. RowsFit(tick', run', thread')
    BY <2>8, <2>9, <2>10 DEF RowsFit
  <2> DEFINE e == [c EXCEPT !.run = r]
             y == [sched[s] EXCEPT !.pc = "submit", !.claim = e]
  <2>12. e.tick = c.tick /\ e.thread = c.thread
    BY <1>2 DEF Claim
  <2>13. Become(s, y)
    BY <1>5 DEF c
  <2> HIDE DEF e
  <2>14. y.pc = "submit" /\ y.claims = sched[s].claims /\ y.claim = e /\ y.drop = sched[s].drop
    BY <1>2 DEF Local
  <2> HIDE DEF y
  <2>15. LocalFits(tick', run', thread', y)
    <3>1. ClaimFits(tick', e)
      BY <1>2, <2>2, <2>6, <2>12 DEF ClaimFits
    <3>2. ASSUME NEW d \in sched[s].claims
          PROVE  /\ ClaimFits(tick', d)
                 /\ d.run = NoRun => d.thread = BoundTo[tick'[d.tick].cron]
      <4>1. d.tick \in Ticks
        BY <1>2 DEF Local, Claim
      <4> QED  BY <1>2, <2>5, <4>1 DEF LocalFits, ClaimFits, TicksKeep
    <3>3. \A th \in sched[s].drop : Ephemeral(th) /\ Spent(run', th)
      BY <1>2, <2>4 DEF LocalFits, Spent, EndsKeep
    <3> QED  BY <2>14, <3>1, <3>2, <3>3 DEF LocalFits
  <2>16. ASSUME NEW q \in Schedulers \ {s}, At(q, "prepare"), Ephemeral(sched[q].claim.thread)
         PROVE  /\ Undispatched(run', sched[q].claim.thread)
                /\ y.pc = "prepare" => y.claim.thread # sched[q].claim.thread
    <3>1. Undispatched(run, sched[q].claim.thread)
      BY <2>16 DEF ThreadInv, LocalFits, At
    <3>2. c.thread # sched[q].claim.thread
      BY <1>1, <2>16 DEF ThreadInv, Apart, At, c
    <3> QED  BY <2>1, <2>14, <3>1, <3>2 DEF Undispatched
  <2> QED  BY <2>3, <2>4, <2>5, <2>11, <2>13, <2>15, <2>16, FitStep
<1>6. \/ \E r \in Runs :
           /\ run[r].status = "absent"
           /\ thread' = [thread EXCEPT ![c.thread] = "busy"]
           /\ run' = [run EXCEPT ![r] = [@ EXCEPT
                !.status = "pending", !.thread = c.thread, !.tick = c.tick]]
           /\ tick' = [tick EXCEPT ![c.tick] = [@ EXCEPT
                !.status = "queued", !.run = r, !.thread = c.thread, !.stale = FALSE]]
           /\ Become(s, [sched[s] EXCEPT !.pc = "submit", !.claim.run = r])
      \/ Become(s, Goto(s, "skip")) /\ UNCHANGED <<run, tick, thread>>
      \/ Become(s, Goto(s, "fail")) /\ UNCHANGED <<run, tick, thread>>
  BY Zenon DEF PrepareRun
<1> HIDE DEF c
<1> QED  BY <1>4, <1>5, <1>6, Zenon

\* A run changes its status: it starts, ends or is deleted.
LEMMA StatusKeeps ==
  ASSUME IInv, NEW x, NEW st, NEW long,
         \/ run' = [run EXCEPT ![x].status = st]
         \/ run' = [run EXCEPT ![x].status = st, ![x].long = long],
         x \in Runs => run[x].status # "absent" /\ st # "absent",
         x \in Runs /\ EndedIn(run, x) => st \notin {"pending", "running"}
  PROVE  RunsKeep(run, run')
<1> SUFFICES ASSUME NEW r \in Runs
             PROVE  /\ run'[r].thread = run[r].thread /\ run'[r].tick = run[r].tick
                    /\ run'[r].status = "absent" <=> run[r].status = "absent"
                    /\ EndedIn(run, r) => EndedIn(run', r)
  BY DEF RunsKeep
<1>1. run[r] \in RunRow /\ run \in [Runs -> RunRow]
  BY DEF IInv, TypeOK
<1>2. CASE run' = [run EXCEPT ![x].status = st]
  <2>1. run'[r] = IF r = x THEN [run[r] EXCEPT !.status = st] ELSE run[r]
    BY <1>1, <1>2
  <2>2. /\ run'[r].thread = run[r].thread /\ run'[r].tick = run[r].tick
        /\ run'[r].status = IF r = x THEN st ELSE run[r].status
    BY <1>1, <2>1 DEF RunRow
  <2> QED  BY <2>2 DEF EndedIn
<1>3. CASE run' = [run EXCEPT ![x].status = st, ![x].long = long]
  <2>1. run'[r] = IF r = x THEN [run[r] EXCEPT !.status = st, !.long = long] ELSE run[r]
    BY <1>1, <1>3
  <2>2. /\ run'[r].thread = run[r].thread /\ run'[r].tick = run[r].tick
        /\ run'[r].status = IF r = x THEN st ELSE run[r].status
    BY <1>1, <2>1 DEF RunRow
  <2> QED  BY <2>2 DEF EndedIn
<1> QED  BY <1>2, <1>3

\* A thread changes its status, and it was there or becomes so.
LEMMA ThreadKeeps ==
  ASSUME IInv, NEW x, NEW st, st # "absent", thread' = [thread EXCEPT ![x] = st]
  PROVE  ThreadsKeep(thread, thread')
BY DEF ThreadsKeep, IInv, TypeOK

LEMMA SubmitFits ==
  ASSUME IInv, ThreadInv, NEW s \in Schedulers, SubmitRun(s) \/ DispatchFails(s)
  PROVE  ThreadInv'
<1>1. sched[s].pc \in ClaimSteps /\ UNCHANGED tick
  <2>1. CASE SubmitRun(s)
    BY <2>1, Zenon DEF SubmitRun, At, ClaimSteps
  <2>2. CASE DispatchFails(s)
    BY <2>2 DEF DispatchFails, ClaimSteps, rows
  <2> QED  BY <2>1, <2>2
<1>2. sched[s] \in Local /\ LocalSound(sched[s]) /\ LocalFits(tick, run, thread, sched[s])
  BY SchedTypes DEF ThreadInv
<1>3. RunsKeep(run, run') /\ ThreadsKeep(thread, thread')
  <2> DEFINE r == sched[s].claim.run
  <2>1. \/ UNCHANGED <<run, thread>>
        \/ /\ run[r].status = "pending"
           /\ thread' = [thread EXCEPT ![run[r].thread] = "open"]
           /\ \E long \in TooLong : run' = [run EXCEPT ![r].status = "error", ![r].long = long]
    BY Zenon DEF SubmitRun, DispatchFails, rows
  <2> HIDE DEF r
  <2>2. CASE UNCHANGED <<run, thread>>
    BY <2>2, RowsStay
  <2>3. ASSUME run[r].status = "pending", thread' = [thread EXCEPT ![run[r].thread] = "open"],
               NEW long \in TooLong, run' = [run EXCEPT ![r].status = "error", ![r].long = long]
        PROVE  RunsKeep(run, run') /\ ThreadsKeep(thread, thread')
    <3>1. RunsKeep(run, run')
      <4>1. r \in Runs => run[r].status # "absent" /\ "error" # "absent"
        BY <2>3
      <4>2. r \in Runs /\ EndedIn(run, r) => "error" \notin {"pending", "running"}
        OBVIOUS
      <4> QED  BY <2>3, <4>1, <4>2, StatusKeeps, Zenon
    <3>2. ThreadsKeep(thread, thread')
      BY <2>3, ThreadKeeps
    <3> QED  BY <3>1, <3>2
  <2> QED  BY <2>1, <2>2, <2>3
<1>4. /\ TicksKeep(tick, tick') /\ RowsFit(tick', run', thread') /\ EndsKeep(run, run')
  <2>1. RowsFit(tick, run', thread') /\ EndsKeep(run, run')
    BY <1>3, RunsMove DEF ThreadInv
  <2> QED  BY <1>1, <2>1, RowsStay
<1>5. ASSUME NEW y, Become(s, y), y.pc \in {"next", "fail", "overlong"},
             y.claims = sched[s].claims, y.drop = sched[s].drop,
             y.pc # "next" => y.claim = sched[s].claim
      PROVE  ThreadInv'
  <2>1. LocalFits(tick, run, thread, y)
    <3>1. CASE y.pc = "next"
      BY <1>2, <1>5, <3>1, FarFits DEF ClaimSteps
    <3>2. CASE y.pc # "next"
      BY <1>1, <1>2, <1>5, <3>2, ClaimGoesOn
    <3> QED  BY <3>1, <3>2
  <2>2. LocalFits(tick', run', thread', y)
    <3>1. ClaimSteps \cap {"create", "check", "prepare"} # {} /\ y.pc \notin {"create", "check", "prepare"}
      BY <1>5 DEF ClaimSteps
    <3>2. \A th : Spent(run, th) => Spent(run', th)
      BY <1>4 DEF Spent, EndsKeep
    <3> QED  BY <1>1, <2>1, <3>1, <3>2 DEF LocalFits
  <2> QED  BY <1>3, <1>4, <1>5, <2>2, FitPlainStep
<1>6. Become(s, ClaimDone(s)) \/ \E pc \in {"fail", "overlong"} : Become(s, Goto(s, pc))
  BY Zenon DEF SubmitRun, DispatchFails
<1>7. CASE Become(s, ClaimDone(s))
  BY <1>2, <1>5, <1>7 DEF ClaimDone, Local
<1>8. ASSUME NEW pc \in {"fail", "overlong"}, Become(s, Goto(s, pc))
      PROVE  ThreadInv'
  BY <1>2, <1>5, <1>8 DEF Goto, Local
<1> QED  BY <1>6, <1>7, <1>8

LEMMA OutcomeFits ==
  ASSUME IInv, ThreadInv, NEW s \in Schedulers, MarkOutcome(s)
  PROVE  ThreadInv'
<1> DEFINE c  == sched[s].claim
           st == IF At(s, "skip") THEN "skipped" ELSE "error"
           r  == IF At(s, "skip") THEN NoRun ELSE c.run
           th == IF At(s, "skip") \/ c.thread = NoThread THEN tick[c.tick].thread ELSE c.thread
<1>1. sched[s].pc \in ClaimSteps
  BY DEF MarkOutcome, ClaimSteps
<1>2. /\ sched[s] \in Local /\ LocalFits(tick, run, thread, sched[s])
      /\ c \in Claim /\ c.tick \in Ticks
  BY <1>1, SchedTypes DEF ThreadInv, LocalSound, Claim
<1>3. /\ tick' = [tick EXCEPT ![c.tick] = [@ EXCEPT
           !.status = st, !.run = r, !.thread = th, !.stale = FALSE]]
      /\ Become(s, ClaimDone(s)) /\ UNCHANGED <<run, thread>>
  BY DEF MarkOutcome
<1>4. ClaimFits(tick, c)
  BY <1>1, <1>2 DEF LocalFits
<1>5. TickFits(tick, run, c.tick)
  BY <1>2 DEF ThreadInv, RowsFit
<1>6. Fits(tick[c.tick].cron, th) /\ tick[c.tick].cron \in Crons
  BY <1>4, <1>5 DEF ClaimFits, TickFits
<1>7. st \in {"skipped", "error"}
  OBVIOUS
<1> HIDE DEF c, st, r, th
<1>8. /\ tick'[c.tick].status = st /\ tick'[c.tick].thread = th
      /\ tick'[c.tick].cron = tick[c.tick].cron
      /\ \A t \in Ticks \ {c.tick} : tick'[t] = tick[t]
  <2>1. tick[c.tick] \in TickRow /\ tick \in [Ticks -> TickRow]
    BY <1>2 DEF IInv, TypeOK
  <2> QED  BY <1>2, <1>3, <2>1 DEF TickRow
<1>9. TicksKeep(tick, tick')
  BY <1>7, <1>8 DEF TicksKeep
<1>10. ASSUME NEW t \in Ticks
       PROVE  TickFits(tick', run', t)
  <2>1. CASE t = c.tick
    BY <1>6, <1>7, <1>8, <2>1 DEF TickFits
  <2>2. CASE t # c.tick
    BY <1>3, <1>8, <2>2 DEF ThreadInv, RowsFit, TickFits
  <2> QED  BY <2>1, <2>2
<1>11. RowsFit(tick', run', thread') /\ ThreadsKeep(thread, thread') /\ RunsKeep(run, run')
  BY <1>3, <1>10, RowsStay DEF ThreadInv, RowsFit
<1> DEFINE y == ClaimDone(s)
<1>12. y.pc = "next" /\ y.claims = sched[s].claims /\ y.drop = sched[s].drop
  BY <1>2 DEF Local, ClaimDone
<1> HIDE DEF y
<1>13. ASSUME NEW d \in sched[s].claims
       PROVE  /\ ClaimFits(tick', d)
              /\ d.run = NoRun => d.thread = BoundTo[tick'[d.tick].cron]
  <2>1. d.tick \in Ticks
    BY <1>2 DEF Local, Claim
  <2> QED  BY <1>2, <1>9, <2>1 DEF LocalFits, ClaimFits, TicksKeep
<1>14. LocalFits(tick', run', thread', y)
  BY <1>2, <1>3, <1>12, <1>13 DEF LocalFits, ClaimSteps
<1> QED  BY <1>3, <1>9, <1>11, <1>12, <1>14, FitPlainStep DEF y

LEMMA DropFits ==
  ASSUME IInv, ThreadInv, NEW s \in Schedulers, Drop(s)
  PROVE  ThreadInv'
<1>1. sched[s].pc = "drop" /\ UNCHANGED tick
  BY DEF Drop, At
<1>2. sched[s] \in Local /\ LocalFits(tick, run, thread, sched[s]) /\ sched[s].drop \subseteq Threads
  BY SchedTypes DEF ThreadInv, Local
<1>3. RunsKeep(run, run') /\ ThreadsKeep(thread, thread')
  <2>1. CASE UNCHANGED <<thread, run>>
    BY <2>1, RowsStay
  <2>2. CASE /\ thread' = [th \in Threads |-> IF th \in sched[s].drop THEN "deleted" ELSE thread[th]]
             /\ run' = [r \in Runs |-> IF run[r].thread \in sched[s].drop
                                       THEN [run[r] EXCEPT !.status = "deleted"] ELSE run[r]]
    <3>1. ThreadsKeep(thread, thread')
      BY <2>2 DEF ThreadsKeep
    <3>2. ASSUME NEW r \in Runs
          PROVE  /\ run'[r].thread = run[r].thread /\ run'[r].tick = run[r].tick
                 /\ run'[r].status = "absent" <=> run[r].status = "absent"
                 /\ EndedIn(run, r) => EndedIn(run', r)
      <4>1. run[r] \in RunRow
        BY DEF IInv, TypeOK
      <4>2. /\ run'[r].thread = run[r].thread /\ run'[r].tick = run[r].tick
            /\ run'[r].status = IF run[r].thread \in sched[s].drop THEN "deleted" ELSE run[r].status
        BY <2>2, <4>1 DEF RunRow
      <4>3. run[r].thread \in sched[s].drop => run[r].status # "absent"
        BY <1>2, NullsAssumption DEF ThreadInv, RowsFit, RunThreads
      <4> QED  BY <4>2, <4>3 DEF EndedIn
    <3> QED  BY <3>1, <3>2 DEF RunsKeep
  <2> QED  BY <2>1, <2>2 DEF Drop
<1>4. TicksKeep(tick, tick') /\ RowsFit(tick', run', thread')
  <2>1. RowsFit(tick, run', thread')
    BY <1>3, RunsMove DEF ThreadInv
  <2> QED  BY <1>1, <2>1, RowsStay
<1>5. CASE Become(s, Idle("rest"))
  <2>1. LocalFits(tick', run', thread', Idle("rest")) /\ Idle("rest").pc # "prepare"
    BY IdleFits DEF ClaimSteps, Idle
  <2> QED  BY <1>3, <1>4, <1>5, <2>1, FitPlainStep
<1>6. CASE Become(s, [sched[s] EXCEPT !.pc = "claim", !.drop = {}])
  <2> DEFINE y == [sched[s] EXCEPT !.pc = "claim", !.drop = {}]
  <2>1. y.pc = "claim" /\ y.claims = sched[s].claims /\ y.drop = {}
    BY <1>2 DEF Local
  <2> HIDE DEF y
  <2>2. LocalFits(tick', run', thread', y)
    BY <1>1, <1>2, <2>1 DEF LocalFits, ClaimSteps
  <2> QED  BY <1>3, <1>4, <1>6, <2>1, <2>2, FitPlainStep DEF y
<1> QED  BY <1>5, <1>6 DEF Drop

\* A client's run has no tick: what is known of the dispatched ones stays.
LEMMA ClientRunFits ==
  ASSUME IInv, ThreadInv, NEW th \in Threads, NEW r \in Runs, ClientRuns(th, r)
  PROVE  ThreadInv'
<1>1. /\ UNCHANGED <<tick, sched>> /\ run[r].status = "absent" /\ thread[th] # "absent"
      /\ run' = [run EXCEPT ![r].status = "pending", ![r].thread = th]
      /\ thread' = [thread EXCEPT ![th] = "busy"]
  BY DEF ClientRuns, Exists
<1>2. run[r].tick = 0
  BY <1>1 DEF ThreadInv, RowsFit, RunThreads
<1>3. /\ run'[r].status = "pending" /\ run'[r].thread = th /\ run'[r].tick = 0
      /\ \A x \in Runs \ {r} : run'[x] = run[x]
  <2>1. run \in [Runs -> RunRow] /\ run[r] \in RunRow
    BY DEF IInv, TypeOK
  <2> QED  BY <1>1, <1>2, <2>1 DEF RunRow
<1>4. ThreadsKeep(thread, thread') /\ thread'[th] # "absent"
  <2>1. thread \in [Threads -> {"absent", "open", "busy", "deleted"}]
    BY DEF IInv, TypeOK
  <2> QED  BY <1>1, <2>1 DEF ThreadsKeep
<1>5. EndsKeep(run, run') /\ TicksKeep(tick, tick')
  BY <1>1, <1>3 DEF EndsKeep, EndedIn, TicksKeep
<1>6. RowsFit(tick', run', thread')
  <2>1. RunThreads(run', thread')
    BY <1>3, <1>4 DEF ThreadInv, RowsFit, RunThreads, ThreadsKeep
  <2>2. BoundExist(thread')
    BY <1>4 DEF ThreadInv, RowsFit, BoundExist, ThreadsKeep
  <2>3. ASSUME NEW t \in Ticks
        PROVE  TickFits(tick', run', t)
    <3>1. TickFits(tick, run, t)
      BY DEF ThreadInv, RowsFit
    <3>2. tick[t].status \in {"queued", "success"} => tick[t].run # r
      BY <1>2, <3>1 DEF TickFits
    <3>3. tick[t].status = "success" => EndedIn(run', tick[t].run)
      BY <1>5, <3>1 DEF TickFits, EndsKeep
    <3>4. tick[t].status \in {"queued", "success"} => run'[tick[t].run] = run[tick[t].run]
      BY <1>3, <3>1, <3>2 DEF TickFits
    <3>5. TickFits(tick, run', t)
      BY <3>1, <3>3, <3>4 DEF TickFits
    <3> QED  BY <1>1, <3>5
  <2> QED  BY <2>1, <2>2, <2>3 DEF RowsFit
<1>7. ASSUME NEW s \in Schedulers
      PROVE  LocalFits(tick', run', thread', sched'[s])
  <2>1. sched[s] \in Local /\ LocalSound(sched[s]) /\ LocalFits(tick, run, thread, sched[s])
    BY SchedTypes DEF ThreadInv
  <2>2. sched[s].pc = "prepare" /\ Ephemeral(sched[s].claim.thread) =>
          Undispatched(run', sched[s].claim.thread)
    BY <1>3, <2>1 DEF LocalFits, Undispatched
  <2>3. LocalFits(tick', run', thread', sched[s])
    BY <1>4, <1>5, <2>1, <2>2, FitsLater
  <2> QED  BY <1>1, <2>3
<1>8. Apart'
  BY <1>1 DEF ThreadInv, Apart, At, Ephemeral
<1> QED  BY <1>6, <1>7, <1>8 DEF ThreadInv, RowsFit, RunThreads, BoundExist, TickFits,
            LocalFits, ClaimFits, Spent, EndedIn, Undispatched, Fits, Ephemeral

\* Time, clients and the execution of runs.
LEMMA OthersFit ==
  ASSUME IInv, ThreadInv,
         \/ \E c \in Crons : ComesDue(c) \/ Ends(c) \/ PatchEnabled(c) \/ DeleteCron(c)
         \/ \E t \in Ticks : GoesStale(t)
         \/ \E th \in Threads : DeleteThread(th) \/ \E r \in Runs : ClientRuns(th, r)
         \/ \E r \in Runs : DeleteRun(r) \/ RunStarts(r) \/ RunEnds(r)
         \/ LockExpires
         \/ UNCHANGED vars
  PROVE  ThreadInv' /\ UNCHANGED sched
<1>1. UNCHANGED sched
  BY DEF ComesDue, Ends, PatchEnabled, DeleteCron, GoesStale, DeleteThread, ClientRuns, DeleteRun, RunStarts,
     RunEnds, LockExpires, vars
<1>2. ASSUME TicksKeep(tick, tick'), ThreadsKeep(thread, thread'), RunsKeep(run, run'),
             RowsFit(tick', run', thread')
      PROVE  ThreadInv'
  <2>1. EndsKeep(run, run')
    BY <1>2 DEF EndsKeep, RunsKeep
  <2>2. ASSUME NEW s \in Schedulers
        PROVE  LocalFits(tick', run', thread', sched[s])
    <3>1. sched[s] \in Local /\ LocalSound(sched[s]) /\ LocalFits(tick, run, thread, sched[s])
      BY SchedTypes DEF ThreadInv
    <3>2. sched[s].pc = "prepare" /\ Ephemeral(sched[s].claim.thread) =>
            Undispatched(run', sched[s].claim.thread)
      BY <1>2, <3>1 DEF LocalFits, RunsKeep, Undispatched
    <3> QED  BY <1>2, <2>1, <3>1, <3>2, FitsLater
  <2>3. Apart'
    BY <1>1 DEF ThreadInv, Apart, At, Ephemeral
  <2> QED  BY <1>1, <1>2, <2>2, <2>3 DEF ThreadInv, RowsFit, RunThreads, BoundExist, TickFits,
              LocalFits, ClaimFits, Spent, EndedIn, Undispatched, Fits, Ephemeral
<1>3. ASSUME UNCHANGED tick, ThreadsKeep(thread, thread'), RunsKeep(run, run')
      PROVE  ThreadInv'
  <2>1. RowsFit(tick, run', thread')
    BY <1>3, RunsMove DEF ThreadInv
  <2> QED  BY <1>2, <1>3, <2>1, RowsStay
<1>4. CASE \/ \E c \in Crons : ComesDue(c) \/ Ends(c) \/ PatchEnabled(c) \/ DeleteCron(c)
           \/ LockExpires
           \/ UNCHANGED vars
  <2>1. UNCHANGED <<tick, run, thread>>
    BY <1>4 DEF ComesDue, Ends, PatchEnabled, DeleteCron, LockExpires, vars, rows
  <2> QED  BY <1>1, <1>3, <2>1, RowsStay
<1>5. ASSUME NEW t \in Ticks, GoesStale(t)
      PROVE  ThreadInv'
  <2>1. UNCHANGED <<run, thread>> /\ tick' = [tick EXCEPT ![t].stale = TRUE]
    BY <1>5 DEF GoesStale
  <2>2. ASSUME NEW u \in Ticks
        PROVE  /\ tick'[u].status = tick[u].status /\ tick'[u].cron = tick[u].cron
               /\ tick'[u].run = tick[u].run /\ tick'[u].thread = tick[u].thread
    <3>1. tick[u] \in TickRow /\ tick \in [Ticks -> TickRow]
      BY DEF IInv, TypeOK
    <3> QED  BY <2>1, <3>1 DEF TickRow
  <2>3. RowsFit(tick', run, thread) /\ TicksKeep(tick, tick')
    BY <2>2, TicksMove DEF ThreadInv
  <2> QED  BY <1>2, <2>1, <2>3, RowsStay
<1>6. ASSUME NEW th \in Threads, DeleteThread(th)
      PROVE  ThreadInv'
  <2>1. /\ UNCHANGED tick /\ thread' = [thread EXCEPT ![th] = "deleted"]
        /\ run' = [r \in Runs |-> IF run[r].thread = th THEN [run[r] EXCEPT !.status = "deleted"]
                                  ELSE run[r]]
    BY <1>6 DEF DeleteThread
  <2>2. ThreadsKeep(thread, thread')
    BY <2>1, ThreadKeeps
  <2>3. ASSUME NEW r \in Runs
        PROVE  /\ run'[r].thread = run[r].thread /\ run'[r].tick = run[r].tick
               /\ run'[r].status = "absent" <=> run[r].status = "absent"
               /\ EndedIn(run, r) => EndedIn(run', r)
    <3>1. run[r] \in RunRow
      BY DEF IInv, TypeOK
    <3>2. /\ run'[r].thread = run[r].thread /\ run'[r].tick = run[r].tick
          /\ run'[r].status = IF run[r].thread = th THEN "deleted" ELSE run[r].status
      BY <2>1, <3>1 DEF RunRow
    <3>3. run[r].thread = th => run[r].status # "absent"
      BY NullsAssumption DEF ThreadInv, RowsFit, RunThreads
    <3> QED  BY <3>2, <3>3 DEF EndedIn
  <2>4. RunsKeep(run, run')
    BY <2>3 DEF RunsKeep
  <2> QED  BY <1>3, <2>1, <2>2, <2>4
<1>7. ASSUME NEW r \in Runs, DeleteRun(r) \/ RunStarts(r) \/ RunEnds(r)
      PROVE  ThreadInv'
  <2>1. UNCHANGED tick
    BY <1>7 DEF DeleteRun, RunStarts, RunEnds
  <2>2. ThreadsKeep(thread, thread')
    <3>1. CASE UNCHANGED thread
      BY <3>1, RowsStay
    <3>2. CASE thread' = [thread EXCEPT ![run[r].thread] = "busy"]
      BY <3>2, ThreadKeeps
    <3>3. CASE thread' = [thread EXCEPT ![run[r].thread] = "open"]
      BY <3>3, ThreadKeeps
    <3> QED  BY <1>7, <3>1, <3>2, <3>3 DEF DeleteRun, RunStarts, RunEnds
  <2>3. PICK st \in {"deleted", "running"} \cup TerminalRun, long \in BOOLEAN :
          /\ \/ run' = [run EXCEPT ![r].status = st]
             \/ run' = [run EXCEPT ![r].status = st, ![r].long = long]
          /\ run[r].status # "absent"
          /\ EndedIn(run, r) => st = "deleted"
    <3>1. CASE DeleteRun(r)
      BY <3>1 DEF DeleteRun
    <3>2. CASE RunStarts(r)
      BY <3>2 DEF RunStarts, EndedIn
    <3>3. CASE RunEnds(r)
      BY <3>3 DEF RunEnds, EndedIn, TerminalRun, TooLong
    <3> QED  BY <1>7, <3>1, <3>2, <3>3
  <2>4. /\ r \in Runs => run[r].status # "absent" /\ st # "absent"
        /\ r \in Runs /\ EndedIn(run, r) => st \notin {"pending", "running"}
    BY <2>3 DEF TerminalRun
  <2>5. RunsKeep(run, run')
    BY <2>3, <2>4, StatusKeeps, Zenon
  <2> QED  BY <1>3, <2>1, <2>2, <2>5
<1>8. ASSUME NEW th \in Threads, NEW r \in Runs, ClientRuns(th, r)
      PROVE  ThreadInv'
  BY <1>8, ClientRunFits
<1> QED  BY <1>1, <1>4, <1>5, <1>6, <1>7, <1>8

LEMMA InitFits == Init => ThreadInv
<1> SUFFICES ASSUME Init PROVE ThreadInv
  OBVIOUS
<1>1. RunThreads(run, thread)
  BY NullsAssumption DEF Init, RunThreads, Ephemeral
<1>2. BoundExist(thread)
  BY DEF Init, BoundExist
<1>3. \A t \in Ticks : TickFits(tick, run, t)
  BY DEF Init, TickFits
<1>4. \A s \in Schedulers : LocalFits(tick, run, thread, sched[s])
  BY IdleFits DEF Init, ClaimSteps
<1>5. Apart
  BY DEF Init, Apart, At, Idle
<1> QED  BY <1>1, <1>2, <1>3, <1>4, <1>5 DEF ThreadInv, RowsFit

LEMMA NextFits ==
  ASSUME IInv, ThreadInv, [Next]_vars
  PROVE  ThreadInv'
<1>1. ASSUME NEW s \in Schedulers, SchedulerStep(s) \/ DispatchFails(s) \/ Raise(s) \/ Crash(s)
      PROVE  ThreadInv'
  <2>1. CASE \/ Acquire(s) \/ NextRound(s) \/ LeaseLost(s) \/ Raise(s) \/ Crash(s) \/ Restart(s)
             \/ ScanFails(s) \/ MarkFails(s) \/ NextHook(s) \/ Post(s)
    BY <2>1, ProcessFits
  <2>2. CASE RecordAttempt(s) \/ RecordResult(s) \/ Scan(s)
    BY <2>2, RecordFits, ScanFits
  <2>3. CASE ClaimDue(s) \/ NextClaim(s) \/ CreateThread(s) \/ CheckThread(s)
    BY <2>3, ClaimDueFits, NextClaimFits, CreateFits, CheckFits
  <2>4. CASE \/ PrepareRun(s) \/ SubmitRun(s) \/ DispatchFails(s) \/ MarkOutcome(s) \/ Drop(s)
    BY <2>4, PrepareFits, SubmitFits, OutcomeFits, DropFits
  <2> QED  BY <1>1, <2>1, <2>2, <2>3, <2>4 DEF SchedulerStep
<1>2. CASE \/ \E c \in Crons : ComesDue(c) \/ Ends(c) \/ PatchEnabled(c) \/ DeleteCron(c)
           \/ \E t \in Ticks : GoesStale(t)
           \/ \E th \in Threads : DeleteThread(th) \/ \E r \in Runs : ClientRuns(th, r)
           \/ \E r \in Runs : DeleteRun(r) \/ RunStarts(r) \/ RunEnds(r)
           \/ LockExpires
           \/ UNCHANGED vars
  BY <1>2, OthersFit
<1> QED  BY <1>1, <1>2 DEF Next

\* Of a scheduler's steps only the one that deletes spent threads deletes a thread.
LEMMA DropDeletes ==
  ASSUME IInv, ThreadInv, [Next]_vars, sched' # sched,
         NEW th \in Threads, Exists(th), thread'[th] = "deleted"
  PROVE  Ephemeral(th) /\ \A x \in Runs : run[x].thread = th /\ run[x].tick # 0 => EndedIn(run, x)
<1>1. thread[th] # "deleted" /\ thread \in [Threads -> {"absent", "open", "busy", "deleted"}]
  BY DEF Exists, IInv, TypeOK
<1>2. PICK s \in Schedulers : SchedulerStep(s) \/ DispatchFails(s) \/ Raise(s) \/ Crash(s)
  <2>1. ~(\/ \E c \in Crons : ComesDue(c) \/ Ends(c) \/ PatchEnabled(c) \/ DeleteCron(c)
          \/ \E t \in Ticks : GoesStale(t)
          \/ \E x \in Threads : DeleteThread(x) \/ \E r \in Runs : ClientRuns(x, r)
          \/ \E r \in Runs : DeleteRun(r) \/ RunStarts(r) \/ RunEnds(r)
          \/ LockExpires
          \/ UNCHANGED vars)
    BY OthersFit
  <2> QED  BY <2>1 DEF Next
<1>3. CASE Drop(s)
  <2>1. th \in sched[s].drop
    BY <1>1, <1>3 DEF Drop
  <2>2. Ephemeral(th) /\ Spent(run, th)
    BY <2>1 DEF ThreadInv, LocalFits
  <2>3. PICK r \in Runs : run[r].thread = th /\ run[r].tick # 0 /\ EndedIn(run, r)
    BY <2>2 DEF Spent
  <2>4. \A x \in Runs : run[x].thread = th /\ run[x].tick # 0 => x = r
    BY <2>2, <2>3 DEF ThreadInv, RowsFit, RunThreads
  <2> QED  BY <2>2, <2>3, <2>4
<1>4. CASE ~Drop(s)
  <2>1. \/ UNCHANGED thread
        \/ \E x, st : st \in {"open", "busy"} /\ thread' = [thread EXCEPT ![x] = st]
    <3>1. CASE \/ Acquire(s) \/ NextRound(s) \/ LeaseLost(s) \/ Raise(s) \/ Crash(s) \/ Restart(s)
               \/ ScanFails(s) \/ MarkFails(s) \/ NextHook(s) \/ Post(s)
               \/ RecordAttempt(s) \/ RecordResult(s) \/ Scan(s) \/ ClaimDue(s) \/ NextClaim(s)
               \/ CheckThread(s) \/ DispatchFails(s) \/ MarkOutcome(s)
      BY <3>1, Zenon DEF Acquire, NextRound, LeaseLost, Raise, Crash, Restart, ScanFails, MarkFails,
         NextHook, Post, RecordAttempt, RecordResult, Scan, ClaimDue, NextClaim, CheckThread,
         DispatchFails, MarkOutcome, rows
    <3>2. CASE CreateThread(s)
      BY <3>2, Zenon DEF CreateThread
    <3>3. CASE PrepareRun(s)
      BY <3>3, Zenon DEF PrepareRun
    <3>4. CASE SubmitRun(s)
      BY <3>4, Zenon DEF SubmitRun
    <3> QED  BY <1>2, <1>4, <3>1, <3>2, <3>3, <3>4 DEF SchedulerStep
  <2> QED  BY <1>1, <2>1
<1> QED  BY <1>3, <1>4

\* The scheduler deletes only threads it created, each when the run it dispatched there has
\* ended, with any number of schedulers, also when one loses its lock and both follow up the
\* same ticks.  A run that a client started on the thread goes with it.
THEOREM DispatchedRunsKeepTheirThread == Spec => DropsSpareDispatched
<1> DEFINE Inv == IInv /\ ThreadInv
           Spares == \A th \in Threads :
                       Exists(th) /\ thread'[th] = "deleted" /\ sched' # sched =>
                         /\ \A c \in Crons : BoundTo[c] # th
                         /\ \A r \in Runs : run[r].thread = th /\ run[r].tick # 0 =>
                              run[r].status \notin {"pending", "running"}
<1>1. Init => Inv
  BY InitTypes, InitFits
<1>2. Inv /\ [Next]_vars => Inv'
  BY NextTypes, NextFits
<1>3. Inv /\ [Next]_vars => Spares
  BY DropDeletes DEF Ephemeral, EndedIn
<1> HIDE DEF Inv, Spares
<1>4. Spec => [][Spares]_vars
  BY <1>1, <1>2, <1>3, PTL DEF Spec
<1> QED  BY <1>4 DEF DropsSpareDispatched, Spares
=============================================================================
