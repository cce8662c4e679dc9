--------------------------- MODULE ProcessSupervisor ---------------------------
(***************************************************************************)
(* How the command line runs one foreground child (cli.py _default_runner  *)
(* with process_supervisor.py): a guard owns SIGINT and SIGTERM, a child   *)
(* object owns the process tree - a process group on POSIX, a job object   *)
(* on Windows.  A signal handler is Python code that runs in the main      *)
(* thread between any two of its steps, where it may raise; the processes  *)
(* of the tree fork, exit and ignore signals as they like.                 *)
(***************************************************************************)
EXTENDS Naturals, FiniteSets

CONSTANTS
  Platforms,    \* those to examine, of "posix" and "windows"
  MaxSignals,   \* bound on the signals sent to the supervisor
  MaxForks,     \* bound on the processes the child starts
  MaxFaults     \* bound on the system calls that fail

ASSUME PlatformsAssumption == Platforms \subseteq {"posix", "windows"}
ASSUME BoundsAssumption    == {MaxSignals, MaxForks, MaxFaults} \subseteq Nat

VARIABLES
  platform,
  pc,         \* what _default_runner does next
  guard,      \* the ForwardingSignalGuard
  mask,       \* signals of this process: blocked? held by the mask; tripped:
              \* seen by the C handler, the Python handler has yet to run
  tree,       \* the processes: the leader, the number of others, whether they
              \* were killed; what was sent to them; a signal that went astray
  own,        \* the _PosixChild or _WindowsChild
  call,       \* locals of _clean_and_reap and of the methods around it
  outcome,    \* what _default_runner is about to return or raise
  accepted,   \* history: the first signal the guard took for the child
  left        \* budgets

vars == <<platform, pc, guard, mask, tree, own, call, outcome, accepted, left>>

Managed == {"INT", "TERM"}         \* _MANAGED_SIGNALS
None    == "none"
Posix   == platform = "posix"

(* The methods of the child that clean its tree, all but the first with    *)
(* signals handled without raising.                                        *)
Callers == {"close", "caught", "failing", "ensure"}
Cleaning == {"clean", "scan", "signal", "soft", "kill", "hard", "reap",
             "blocked", "verdict"}
Starting == {"job", "limit", "stdio", "attributes", "create", "tidy", "abort",
             "resume", "closeThread", "rollback"}
Places   == Cleaning \cup Starting \cup
            {"block", "install", "unblock", "start", "bind", "arm", "consume",
             "wait", "return", "caught", "failing", "finally", "ensure",
             "closeChild", "exit", "restore", "unmask", "done"}
Handles  == {"job", "process", "thread", "copies", "nulls", "attributes"}

Guards == [state : {"new", "acquiring", "waiting", "delivering", "cleanup", "closed"},
           child : BOOLEAN, pending : Managed \cup {None},
           installed : SUBSET Managed, failed : BOOLEAN]
Masks  == [original : BOOLEAN, blocked : BOOLEAN,
           held : SUBSET Managed, tripped : SUBSET Managed]
Trees  == [leader : {"none", "suspended", "running", "zombie", "reaped"},
           others : 0..MaxForks, killed : BOOLEAN,
           got : SUBSET (Managed \cup {"KILL"}), astray : BOOLEAN]
Owns   == [observed : BOOLEAN, reaped : BOOLEAN, allowed : BOOLEAN,
           error : BOOLEAN, known : BOOLEAN, limited : BOOLEAN,
           handles : SUBSET Handles, lost : SUBSET Handles]
Calls  == [signum : Managed, members : BOOLEAN, from : Callers,
           failure : BOOLEAN, complete : BOOLEAN, previous : BOOLEAN]
Budgets == [signals : 0..MaxSignals, forks : 0..MaxForks, faults : 0..MaxFaults]

TypeOK ==
  /\ platform \in Platforms
  /\ pc \in Places
  /\ guard \in Guards
  /\ mask \in Masks
  /\ tree \in Trees
  /\ own \in Owns
  /\ call \in Calls
  /\ outcome \in Managed \cup {None, "exit", "error", "escaped"}
  /\ accepted \in [signum : Managed \cup {None}, late : BOOLEAN]
  /\ left \in Budgets

NoCall == [signum |-> "TERM", members |-> FALSE, from |-> "close",
           failure |-> FALSE, complete |-> FALSE, previous |-> FALSE]

Init ==
  /\ platform \in Platforms
  /\ pc = "block"
  /\ guard = [state |-> "new", child |-> FALSE, pending |-> None,
              installed |-> {}, failed |-> FALSE]
  /\ \E b \in {FALSE, platform = "posix"} :
       mask = [original |-> b, blocked |-> b, held |-> {}, tripped |-> {}]
  /\ tree = [leader |-> "none", others |-> 0, killed |-> FALSE,
             got |-> {}, astray |-> FALSE]
  /\ own = [observed |-> FALSE, reaped |-> FALSE, allowed |-> TRUE,
            error |-> FALSE, known |-> FALSE, limited |-> FALSE,
            handles |-> {}, lost |-> {}]
  /\ call = NoCall
  /\ outcome = None /\ accepted = [signum |-> None, late |-> FALSE]
  /\ left = [signals |-> MaxSignals, forks |-> MaxForks, faults |-> MaxFaults]

-----------------------------------------------------------------------------
(* Control.  A step of the runner is taken when no handler is due.         *)

At(p) == pc = p /\ mask.tripped = {}

Fault    == /\ left.faults > 0
            /\ left' = [left EXCEPT !.faults = @ - 1]
NoFault  == UNCHANGED left

(* The guard has its handlers, or restores what was there.                 *)
Unmasked(m) == [m EXCEPT !.blocked = FALSE, !.tripped = m.held, !.held = {}]

JobEmpty  == tree.leader \in {"none", "zombie"} /\ tree.others = 0
Exited    == own.observed \/ tree.leader = "zombie"
TreeEnded == Exited /\ tree.others = 0

-----------------------------------------------------------------------------
(* ForwardingSignalGuard.__enter__: POSIX installs the handlers with the   *)
(* signals blocked, and refuses to start where they were blocked already.  *)

EnterGuard ==
  /\ At("block")
  /\ IF mask.original
       THEN /\ pc' = "done" /\ outcome' = "error"
            /\ guard' = [guard EXCEPT !.state = "cleanup"]
            /\ UNCHANGED mask
       ELSE /\ pc' = "install" /\ UNCHANGED outcome
            /\ guard' = [guard EXCEPT !.state = "acquiring"]
            /\ mask' = [mask EXCEPT !.blocked = Posix]
  /\ UNCHANGED <<platform, tree, own, call, accepted, left>>

InstallHandler(s) ==
  /\ At("install")
  /\ s \notin guard.installed /\ (s = "TERM" => "INT" \in guard.installed)
  /\ guard' = [guard EXCEPT !.installed = @ \cup {s}]
  /\ pc' = IF guard'.installed = Managed THEN "unblock" ELSE "install"
  /\ UNCHANGED <<platform, mask, tree, own, call, outcome, accepted, left>>

(* _restore_after_failed_entry: a handler Python does not know, or one that *)
(* could not be installed.                                                  *)
EntryFails ==
  /\ At("install") /\ Fault
  /\ guard' = [guard EXCEPT !.state = "cleanup", !.installed = {}]
  /\ mask' = [mask EXCEPT !.blocked = FALSE, !.held = {}]
  /\ pc' = "done" /\ outcome' = "error"
  /\ UNCHANGED <<platform, tree, own, call, accepted>>

UnblockEntry ==
  /\ At("unblock")
  /\ mask' = Unmasked(mask)
  /\ pc' = IF Posix THEN "start" ELSE "job"
  /\ UNCHANGED <<platform, guard, tree, own, call, outcome, accepted, left>>

(* A mutant: the pending signal is cleared before it is read.              *)
ForgetPending ==
  /\ At("consume")
  /\ IF guard.pending = None
       THEN pc' = "wait" /\ UNCHANGED <<guard, outcome>>
       ELSE /\ guard' = [guard EXCEPT !.state = "delivering", !.pending = None]
            /\ outcome' = guard'.pending
            /\ pc' = "caught"
  /\ UNCHANGED <<platform, mask, tree, own, call, accepted, left>>

(* attach, in its three assignments: a signal may come between any two.    *)
BindChild ==
  /\ At("bind")
  /\ guard' = [guard EXCEPT !.child = TRUE]
  /\ pc' = "arm"
  /\ UNCHANGED <<platform, mask, tree, own, call, outcome, accepted, left>>

ArmGuard ==
  /\ At("arm")
  /\ guard' = [guard EXCEPT !.state = "waiting"]
  /\ pc' = "consume"
  /\ UNCHANGED <<platform, mask, tree, own, call, outcome, accepted, left>>

ConsumePending ==
  /\ At("consume")
  /\ IF guard.pending = None
       THEN pc' = "wait" /\ UNCHANGED <<guard, outcome>>
       ELSE /\ guard' = [guard EXCEPT !.state = "delivering", !.pending = None]
            /\ outcome' = guard.pending
            /\ pc' = "caught"
  /\ UNCHANGED <<platform, mask, tree, own, call, accepted, left>>

(* __exit__: block, restore the handlers in reverse, restore the mask.     *)
ExitGuard ==
  /\ At("exit")
  /\ guard' = [guard EXCEPT !.state = "cleanup"]
  /\ mask' = [mask EXCEPT !.blocked = Posix]
  /\ pc' = "restore"
  /\ UNCHANGED <<platform, tree, own, call, outcome, accepted, left>>

RestoreHandler(s) ==
  /\ At("restore")
  /\ s \in guard.installed /\ (s = "INT" => "TERM" \notin guard.installed)
  /\ guard' = [guard EXCEPT !.installed = @ \ {s}]
  /\ pc' = IF guard'.installed = {} THEN "unmask" ELSE "restore"
  /\ UNCHANGED <<platform, mask, tree, own, call, outcome, accepted, left>>

(* What the mask still holds goes to the handlers that were there before.  *)
LeaveGuard ==
  /\ At("unmask")
  /\ guard' = [guard EXCEPT !.state = "closed"]
  /\ mask' = [mask EXCEPT !.blocked = mask.original, !.held = {}]
  /\ outcome' = IF guard.failed THEN "error" ELSE outcome
  /\ pc' = "done"
  /\ UNCHANGED <<platform, tree, own, call, accepted, left>>

-----------------------------------------------------------------------------
(* Sending to the tree.                                                    *)

(* _signal_group: by number, hence never once the leader was reaped and    *)
(* its number may belong to others.                                        *)
MaySignalGroup == own.allowed /\ ~own.reaped

GroupSent(s) ==
  IF MaySignalGroup
    THEN [tree EXCEPT !.got = @ \cup {s},
                      !.killed = @ \/ s = "KILL",
                      !.astray = @ \/ (tree.leader = "reaped" /\ tree.others = 0)]
    ELSE tree

SignalGroup(s) == tree' = GroupSent(s)

(* terminate_job fails once the handle is closed.                          *)
TerminateJob(s) ==
  /\ "job" \in own.handles
  /\ tree' = [tree EXCEPT !.killed = TRUE, !.got = @ \cup {s}]

(* send_ctrl_break                                                         *)
CtrlBreak == tree' = [tree EXCEPT !.got = @ \cup {"INT"}]

-----------------------------------------------------------------------------
(* _handle_signal, as the Python handler of the signal s.                  *)

(* A mutant: the last signal wins.                                         *)
KeepLast(s) ==
  /\ guard.state = "acquiring"
  /\ guard' = [guard EXCEPT !.pending = s]
  /\ accepted' = IF guard.pending = None
                    THEN [signum |-> s, late |-> FALSE] ELSE accepted
  /\ UNCHANGED <<pc, tree, call, outcome, left>>

KeepPending(s) ==
  /\ guard.state = "acquiring"
  /\ IF guard.pending = None
       THEN /\ guard' = [guard EXCEPT !.pending = s]
            /\ accepted' = [signum |-> s, late |-> FALSE]
       ELSE UNCHANGED <<guard, accepted>>
  /\ UNCHANGED <<pc, tree, call, outcome, left>>

(* Where the exception _ForwardedSignal(n) takes the runner.  Wrappers of  *)
(* native calls turn it into a failure of that call; so does the Windows   *)
(* child around its whole cleaning.  An except or finally clause that has  *)
(* not called begin_cleanup yet is left at once.                           *)
Unwinds(n) ==
  \/ /\ pc \in {"consume", "wait", "return"} \cup (IF Posix THEN Cleaning ELSE {})
     /\ pc' = "caught" /\ outcome' = n
     /\ UNCHANGED call
  \/ /\ Posix /\ pc \in {"scan", "signal", "soft", "kill", "hard"}
     /\ pc' = CASE pc = "scan"   -> "signal"
                [] pc = "signal" -> "soft"
                [] pc = "kill"   -> "hard"
                [] OTHER         -> pc
     /\ call' = [call EXCEPT !.failure = TRUE]
     /\ UNCHANGED outcome
  \/ /\ ~Posix /\ pc \in Cleaning
     /\ pc' = "failing" /\ outcome' = "error"
     /\ UNCHANGED call
  \/ /\ pc \in {"failing", "finally"}
     /\ pc' = IF pc = "failing" THEN "finally" ELSE "exit"
     /\ outcome' = "escaped"
     /\ UNCHANGED call

Interrupt(s) ==
  /\ guard.state = "waiting"
  /\ LET n == IF guard.pending = None THEN s ELSE guard.pending IN
     /\ Unwinds(n)
     /\ accepted' = IF accepted.signum = None
                      THEN [signum |-> n, late |-> own.reaped] ELSE accepted
  /\ guard' = [guard EXCEPT !.state = "delivering", !.pending = None]
  /\ UNCHANGED <<tree, left>>

(* While cleaning, a signal goes to the child at once and raises nothing.  *)
ForwardNow(s) ==
  /\ guard.state \in {"delivering", "cleanup"}
  /\ \/ /\ ~guard.child /\ NoFault
        /\ UNCHANGED <<guard, tree>>
     \/ /\ guard.child /\ Posix /\ NoFault
        /\ SignalGroup(s)
        /\ UNCHANGED guard
     \/ /\ guard.child /\ ~Posix /\ NoFault
        /\ IF s = "INT" THEN CtrlBreak ELSE TerminateJob(s)
        /\ UNCHANGED guard
     \/ /\ guard.child /\ ~Posix /\ s = "INT" /\ Fault
        /\ TerminateJob(s)
        /\ UNCHANGED guard
     \/ /\ guard.child
        /\ IF Posix THEN MaySignalGroup /\ Fault
           ELSE IF "job" \in own.handles THEN s = "TERM" /\ Fault
           ELSE IF s = "TERM" THEN NoFault ELSE Fault
        /\ guard' = [guard EXCEPT !.failed = TRUE]
        /\ UNCHANGED tree
  /\ UNCHANGED <<pc, call, outcome, accepted>>

(* The interpreter runs handlers in the order of the signal numbers.       *)
Handle(s) ==
  /\ s \in mask.tripped /\ (s = "TERM" => "INT" \notin mask.tripped)
  /\ mask' = [mask EXCEPT !.tripped = @ \ {s}]
  /\ KeepPending(s) \/ Interrupt(s) \/ ForwardNow(s)
  /\ UNCHANGED <<platform, own>>

-----------------------------------------------------------------------------
(* _PosixChild                                                             *)

SpawnPosix ==
  /\ At("start")
  /\ \/ /\ tree' = [tree EXCEPT !.leader = "running"]
        /\ pc' = "bind" /\ NoFault /\ UNCHANGED outcome
     \/ /\ pc' = "exit" /\ outcome' = "error" /\ Fault /\ UNCHANGED tree
  /\ UNCHANGED <<platform, guard, mask, own, call, accepted>>

(* wait: the exit is observed without reaping; a poll on Windows.          *)
WaitChild ==
  /\ At("wait")
  /\ \/ /\ tree.leader = "zombie" /\ NoFault
        /\ own' = [own EXCEPT !.observed = TRUE]
        /\ call' = [NoCall EXCEPT !.members = TRUE]
        /\ pc' = "clean" /\ outcome' = "exit"
     \/ /\ Fault
        /\ pc' = "failing" /\ outcome' = "error"
        /\ UNCHANGED <<own, call>>
  /\ UNCHANGED <<platform, guard, mask, tree, accepted>>

(* How a cleaning method ends: in a return, or in a ProcessSupervisionError. *)
Returned == /\ pc' = CASE call.from = "close"  -> "return"
                       [] call.from = "ensure" -> "closeChild"
                       [] OTHER                -> "finally"
            /\ UNCHANGED outcome

Raised == /\ pc' = CASE call.from = "close"  -> "failing"
                     [] call.from = "ensure" -> "closeChild"
                     [] OTHER                -> "finally"
          /\ outcome' = "error"

(* _clean_and_reap: nothing left to do, or look whether the leader exited. *)
CleanAgain ==
  /\ At("clean") /\ Posix /\ own.reaped
  /\ IF own.error THEN Raised ELSE Returned
  /\ UNCHANGED <<platform, guard, mask, tree, own, call, accepted, left>>

CleanObserve ==
  /\ At("clean") /\ Posix /\ ~own.reaped
  /\ \/ NoFault /\ own' = [own EXCEPT !.observed = Exited] /\ UNCHANGED call
     \/ /\ ~own.observed /\ Fault
        /\ call' = [call EXCEPT !.failure = TRUE] /\ UNCHANGED own
  /\ pc' = IF call.members THEN "scan" ELSE "signal"
  /\ UNCHANGED <<platform, guard, mask, tree, outcome, accepted>>

(* A mutant: an exited leader is taken for an empty group.                 *)
ScanLeader ==
  /\ At("scan") /\ Posix
  /\ NoFault
  /\ pc' = IF own.observed THEN "reap" ELSE "signal"
  /\ call' = [call EXCEPT !.complete = own.observed]
  /\ UNCHANGED <<platform, guard, mask, tree, own, outcome, accepted>>

(* _has_other_group_members                                                *)
ScanGroup ==
  /\ At("scan") /\ Posix
  /\ \/ /\ NoFault
        /\ LET empty == tree.others = 0 /\ own.observed IN
           /\ pc' = IF empty THEN "reap" ELSE "signal"
           /\ call' = [call EXCEPT !.complete = empty]
     \/ /\ Fault
        /\ call' = [call EXCEPT !.failure = TRUE]
        /\ pc' = "signal"
  /\ UNCHANGED <<platform, guard, mask, tree, own, outcome, accepted>>

SendGroup(p, s, q) ==
  /\ At(p) /\ Posix
  /\ \/ SignalGroup(s) /\ NoFault /\ UNCHANGED call
     \/ /\ MaySignalGroup /\ Fault
        /\ call' = [call EXCEPT !.failure = TRUE] /\ UNCHANGED tree
  /\ pc' = q
  /\ UNCHANGED <<platform, guard, mask, own, outcome, accepted>>

SignalTree == SendGroup("signal", call.signum, "soft")
KillTree   == SendGroup("kill", "KILL", "hard")

(* _wait_for_owned_tree_exit: the tree is gone, or the deadline has passed, *)
(* or a look at it fails and the loop goes on.                              *)
AwaitTree(p, q) ==
  /\ At(p) /\ Posix
  /\ \/ /\ TreeEnded /\ NoFault
        /\ call' = [call EXCEPT !.complete = TRUE]
        /\ own' = [own EXCEPT !.observed = TRUE]
        /\ pc' = "reap"
     \/ /\ ~TreeEnded /\ NoFault
        /\ own' = [own EXCEPT !.observed = Exited]
        /\ pc' = q /\ UNCHANGED call
     \/ /\ Fault
        /\ call' = [call EXCEPT !.failure = TRUE]
        /\ pc' \in {p, q} /\ UNCHANGED own
  /\ UNCHANGED <<platform, guard, mask, tree, outcome, accepted>>

(* A mutant: after SIGKILL the wait has no deadline.                       *)
AwaitForever ==
  /\ At("hard") /\ Posix
  /\ TreeEnded /\ NoFault
  /\ call' = [call EXCEPT !.complete = TRUE]
  /\ own' = [own EXCEPT !.observed = TRUE]
  /\ pc' = "reap"
  /\ UNCHANGED <<platform, guard, mask, tree, outcome, accepted>>

AwaitSoftly == AwaitTree("soft", "kill")
AwaitHard   == AwaitTree("hard", "reap")

(* _wait_and_mark_direct_reaped: signals are blocked first.  One that came *)
(* just before is handled in the call that blocks them (CPython checks     *)
(* there), and an exception leaves them blocked.                           *)
BlockForReap ==
  /\ At("reap")
  /\ call' = [call EXCEPT !.previous = mask.blocked]
  /\ \/ mask' = [mask EXCEPT !.blocked = TRUE] /\ UNCHANGED left
     \/ \E s \in Managed :
          /\ ~mask.blocked /\ left.signals > 0
          /\ mask' = [mask EXCEPT !.blocked = TRUE, !.tripped = {s}]
          /\ left' = [left EXCEPT !.signals = @ - 1]
  /\ pc' = "blocked"
  /\ UNCHANGED <<platform, guard, tree, own, outcome, accepted>>

(* A mutant: the group stays open to signals until the verdict is known.   *)
ReapUnmarked ==
  /\ At("blocked")
  /\ IF tree.leader = "zombie"
       THEN tree' = [tree EXCEPT !.leader = "reaped"]
       ELSE UNCHANGED tree
  /\ mask' = IF call.previous THEN mask ELSE Unmasked(mask)
  /\ pc' = "verdict"
  /\ UNCHANGED <<platform, guard, own, call, outcome, accepted, left>>

(* No signal to the group from here on, even if the wait finds no exit. An *)
(* exit that only this wait sees counts as a failure.                      *)
Reap ==
  /\ At("blocked")
  /\ IF tree.leader = "zombie"
       THEN /\ tree' = [tree EXCEPT !.leader = "reaped"]
            /\ own' = [own EXCEPT !.allowed = FALSE, !.reaped = TRUE]
            /\ call' = [call EXCEPT !.failure = @ \/ ~own.observed]
       ELSE /\ own' = [own EXCEPT !.allowed = FALSE]
            /\ UNCHANGED <<tree, call>>
  /\ mask' = IF call.previous THEN mask ELSE Unmasked(mask)
  /\ pc' = "verdict"
  /\ UNCHANGED <<platform, guard, outcome, accepted, left>>

Verdict ==
  /\ At("verdict")
  /\ IF call.failure \/ ~call.complete \/ ~own.reaped
       THEN /\ own' = [own EXCEPT !.error = @ \/ own.reaped]
            /\ Raised
       ELSE Returned /\ UNCHANGED own
  /\ UNCHANGED <<platform, guard, mask, tree, call, accepted, left>>

-----------------------------------------------------------------------------
(* _WindowsChild.start and _WindowsProcessLauncher.create: a suspended      *)
(* process in a job that dies with its handle.                             *)

StartStep(p, q, h) ==
  /\ At(p) /\ NoFault
  /\ own' = [own EXCEPT !.handles = @ \cup h]
  /\ pc' = q

CreateJob ==
  /\ \/ StartStep("job", "limit", {"job"}) /\ UNCHANGED outcome
     \/ At("job") /\ Fault /\ pc' = "rollback" /\ outcome' = "error" /\ UNCHANGED own
  /\ UNCHANGED <<platform, guard, mask, tree, call, accepted>>

SetKillOnClose ==
  /\ At("limit")
  /\ \/ /\ own' = [own EXCEPT !.limited = TRUE]
        /\ pc' = "stdio" /\ NoFault /\ UNCHANGED outcome
     \/ pc' = "rollback" /\ outcome' = "error" /\ Fault /\ UNCHANGED own
  /\ UNCHANGED <<platform, guard, mask, tree, call, accepted>>

(* The standard handles, a null device for a missing one, and inheritable  *)
(* copies: what a failure leaves is tidied like the rest.                  *)
OpenStdio ==
  /\ At("stdio")
  /\ \E h \in SUBSET {"copies", "nulls"} :
       /\ own' = [own EXCEPT !.handles = @ \cup h]
       /\ \/ "copies" \in h /\ NoFault /\ pc' = "attributes" /\ UNCHANGED call
          \/ Fault /\ pc' = "tidy" /\ call' = [call EXCEPT !.failure = TRUE]
  /\ UNCHANGED <<platform, guard, mask, tree, outcome, accepted>>

CreateAttributes ==
  /\ \/ StartStep("attributes", "create", {"attributes"}) /\ UNCHANGED call
     \/ /\ At("attributes") /\ Fault /\ pc' = "tidy" /\ UNCHANGED own
        /\ call' = [call EXCEPT !.failure = TRUE]
  /\ UNCHANGED <<platform, guard, mask, tree, outcome, accepted>>

CreateSuspended ==
  /\ \/ /\ StartStep("create", "tidy", {"process", "thread"})
        /\ tree' = [tree EXCEPT !.leader = "suspended"]
        /\ UNCHANGED call
     \/ /\ At("create") /\ Fault /\ pc' = "tidy" /\ UNCHANGED <<own, tree>>
        /\ call' = [call EXCEPT !.failure = TRUE]
  /\ UNCHANGED <<platform, guard, mask, outcome, accepted>>

(* Some closes may fail: their handles are lost, all others are closed.    *)
CloseAll(h) ==
  \E bad \in SUBSET (h \cap own.handles) :
    /\ Cardinality(bad) <= left.faults
    /\ left' = [left EXCEPT !.faults = @ - Cardinality(bad)]
    /\ own' = [own EXCEPT !.handles = (@ \ h) \cup bad, !.lost = @ \cup bad]

TidyLaunch ==
  /\ At("tidy")
  /\ CloseAll({"copies", "nulls", "attributes"})
  /\ LET failed == call.failure \/ own'.lost # own.lost IN
     /\ pc' = IF ~failed THEN "resume"
              ELSE IF tree.leader = "suspended" THEN "abort" ELSE "rollback"
     /\ outcome' = IF failed THEN "error" ELSE outcome
  /\ UNCHANGED <<platform, guard, mask, tree, call, accepted>>

(* abort_suspended_process: a failure is not reported.                     *)
AbortSuspended ==
  /\ At("abort")
  /\ \/ tree' = [tree EXCEPT !.killed = TRUE] /\ CloseAll({"process", "thread"})
     \/ /\ UNCHANGED tree /\ Fault
        /\ own' = [own EXCEPT !.handles = @ \ {"process", "thread"}]
  /\ pc' = "rollback"
  /\ UNCHANGED <<platform, guard, mask, call, outcome, accepted>>

ResumeThread ==
  /\ At("resume")
  /\ own' = [own EXCEPT !.known = TRUE]
  /\ \/ /\ tree' = [tree EXCEPT !.leader = IF tree.leader = "suspended"
                                           THEN "running" ELSE @]
        /\ pc' = "closeThread" /\ NoFault /\ UNCHANGED outcome
     \/ /\ pc' = "rollback" /\ outcome' = "error" /\ Fault /\ UNCHANGED tree
  /\ UNCHANGED <<platform, guard, mask, call, accepted>>

CloseThread ==
  /\ At("closeThread")
  /\ \/ /\ own' = [own EXCEPT !.handles = @ \ {"thread"}]
        /\ pc' = "bind" /\ NoFault /\ UNCHANGED outcome
     \/ /\ pc' = "rollback" /\ outcome' = "error" /\ Fault /\ UNCHANGED own
  /\ UNCHANGED <<platform, guard, mask, tree, call, accepted>>

(* Closing the job's handle kills what is in the job.                      *)
KilledByClose == "job" \in own.handles \ own'.handles /\ own.limited

RollbackStart ==
  /\ At("rollback")
  /\ CloseAll({"job"} \cup IF own.known THEN {"thread", "process"} ELSE {})
  /\ \E terminated \in {own.known /\ "job" \in own.handles, FALSE} :
       tree' = [tree EXCEPT !.killed = @ \/ terminated \/ KilledByClose]
  /\ pc' = "exit"
  /\ UNCHANGED <<platform, guard, mask, call, outcome, accepted>>

-----------------------------------------------------------------------------
(* _WindowsChild: cleaning the job.                                        *)

(* close_remaining_tree, ensure_closed: nothing to do for an empty job.    *)
CheckJob ==
  /\ At("clean") /\ ~Posix
  /\ \/ /\ NoFault
        /\ IF call.members /\ JobEmpty
             THEN Returned
             ELSE pc' = "signal" /\ UNCHANGED outcome
     \/ call.members /\ Fault /\ Raised
  /\ UNCHANGED <<platform, guard, mask, tree, own, call, accepted>>

(* forward_and_reap, terminate_and_reap: a break can be waited for, and is  *)
(* followed by the end of the job.                                         *)
SignalJob ==
  /\ At("signal") /\ ~Posix
  /\ \/ /\ call.signum = "INT" /\ NoFault
        /\ CtrlBreak
        /\ pc' = "soft" /\ UNCHANGED outcome
     \/ /\ IF call.signum = "INT" THEN Fault ELSE NoFault
        /\ TerminateJob(call.signum)
        /\ pc' = "hard" /\ UNCHANGED outcome
     \/ Fault /\ Raised /\ UNCHANGED tree
  /\ UNCHANGED <<platform, guard, mask, own, call, accepted>>

KillJob ==
  /\ At("kill") /\ ~Posix
  /\ \/ TerminateJob("KILL") /\ NoFault /\ pc' = "hard" /\ UNCHANGED outcome
     \/ Fault /\ Raised /\ UNCHANGED tree
  /\ UNCHANGED <<platform, guard, mask, own, call, accepted>>

(* wait_for_job_empty and _wait_process_until                              *)
AwaitJob ==
  /\ (At("soft") \/ At("hard")) /\ ~Posix
  /\ \/ JobEmpty /\ NoFault /\ Returned
     \/ /\ ~JobEmpty /\ NoFault
        /\ IF pc = "soft" THEN pc' = "kill" /\ UNCHANGED outcome ELSE Raised
     \/ Fault /\ Raised
  /\ UNCHANGED <<platform, guard, mask, tree, own, call, accepted>>

-----------------------------------------------------------------------------
(* _default_runner                                                         *)

ReturnCode ==
  /\ At("return")
  /\ pc' = "finally"
  /\ UNCHANGED <<platform, guard, mask, tree, own, call, outcome, accepted, left>>

(* except _ForwardedSignal, and except BaseException: begin_cleanup, then   *)
(* forward_and_reap or terminate_and_reap.                                 *)
CleanUp(p) ==
  /\ At(p)
  /\ guard' = [guard EXCEPT !.state = "cleanup"]
  /\ call' = [NoCall EXCEPT !.from = p,
                            !.signum = IF p = "caught" THEN outcome ELSE "TERM"]
  /\ pc' = "clean"
  /\ UNCHANGED <<platform, mask, tree, own, outcome, accepted, left>>

BeginFinally ==
  /\ At("finally")
  /\ guard' = [guard EXCEPT !.state = "cleanup"]
  /\ pc' = "ensure"
  /\ UNCHANGED <<platform, mask, tree, own, call, outcome, accepted, left>>

(* ensure_closed: a child that was not seen to exit is terminated.         *)
EnsureClosed ==
  /\ At("ensure")
  /\ call' = [NoCall EXCEPT !.from = "ensure", !.members = own.observed \/ ~Posix]
  /\ pc' = "clean"
  /\ UNCHANGED <<platform, guard, mask, tree, own, outcome, accepted, left>>

(* close: only Windows has handles.                                        *)
CloseChild ==
  /\ At("closeChild")
  /\ CloseAll({"process", "job"})
  /\ tree' = [tree EXCEPT !.killed = @ \/ KilledByClose]
  /\ outcome' = IF own'.lost # own.lost THEN "error" ELSE outcome
  /\ pc' = "exit"
  /\ UNCHANGED <<platform, guard, mask, call, accepted>>

Runner ==
  \/ EnterGuard \/ EntryFails \/ UnblockEntry \/ BindChild \/ ArmGuard
  \/ ConsumePending \/ ExitGuard \/ LeaveGuard
  \/ \E s \in Managed : InstallHandler(s) \/ RestoreHandler(s) \/ Handle(s)
  \/ SpawnPosix \/ WaitChild
  \/ CleanAgain \/ CleanObserve \/ ScanGroup \/ SignalTree \/ AwaitSoftly
  \/ KillTree \/ AwaitHard \/ BlockForReap \/ Reap \/ Verdict
  \/ CreateJob \/ SetKillOnClose \/ OpenStdio \/ CreateAttributes
  \/ CreateSuspended \/ TidyLaunch \/ AbortSuspended \/ ResumeThread
  \/ CloseThread \/ RollbackStart
  \/ CheckJob \/ SignalJob \/ KillJob \/ AwaitJob
  \/ ReturnCode \/ BeginFinally \/ EnsureClosed \/ CloseChild
  \/ \E p \in {"caught", "failing"} : CleanUp(p)

-----------------------------------------------------------------------------
(* The world: signals from the terminal or the service manager, and the    *)
(* processes of the tree.                                                  *)

Arrive(s) ==
  /\ left.signals > 0
  /\ left' = [left EXCEPT !.signals = @ - 1]
  /\ pc # "done"
  /\ IF mask.blocked
       THEN ~mask.original /\ mask' = [mask EXCEPT !.held = @ \cup {s}]
       ELSE s \in guard.installed /\ mask' = [mask EXCEPT !.tripped = @ \cup {s}]
  /\ UNCHANGED <<platform, pc, guard, tree, own, call, outcome, accepted>>

Fork ==
  /\ tree.leader = "running" \/ tree.others > 0
  /\ ~tree.killed /\ left.forks > 0
  /\ left' = [left EXCEPT !.forks = @ - 1]
  /\ tree' = [tree EXCEPT !.others = @ + 1]
  /\ UNCHANGED <<platform, pc, guard, mask, own, call, outcome, accepted>>

LeaderExits ==
  /\ tree.leader = "running" \/ (tree.leader = "suspended" /\ tree.killed)
  /\ tree' = [tree EXCEPT !.leader = "zombie"]
  /\ UNCHANGED <<platform, pc, guard, mask, own, call, outcome, accepted, left>>

OtherExits ==
  /\ tree.others > 0
  /\ tree' = [tree EXCEPT !.others = @ - 1]
  /\ UNCHANGED <<platform, pc, guard, mask, own, call, outcome, accepted, left>>

Next ==
  \/ Runner
  \/ \E s \in Managed : Arrive(s)
  \/ Fork \/ LeaderExits \/ OtherExits

Spec     == Init /\ [][Next]_vars
FairSpec == Spec /\ WF_vars(Runner)

-----------------------------------------------------------------------------
(* Properties.                                                             *)

(* Whatever _default_runner returns but an error, no process of the child's *)
(* tree is left and the child was waited for, however signals, forks and   *)
(* exits fell between the observation, the scan and the reaping of         *)
(* _clean_and_reap.  But a signal held back during the reaping is raised    *)
(* before the verdict, which is then never given (accepted.late).          *)
TreeGone ==
  pc = "done" /\ outcome # "error" /\ ~accepted.late =>
    /\ tree.others = 0
    /\ tree.leader = IF Posix THEN "reaped" ELSE "zombie"

(* A process group is signalled by number; the number is free as soon as   *)
(* its leader is reaped and may then belong to a stranger.  No signal of    *)
(* _signal_group goes there, also none that a handler forwards in the      *)
(* middle of reaping or a cleanup that is tried again.                     *)
NeverAstray == ~tree.astray

(* The first signal decides: it is neither lost in the gap between handler  *)
(* and child nor displaced by a later one; the exit code names it, and the *)
(* child got it unless its tree was closed before.  An exit code of the     *)
(* child's own means that no signal had been taken.                        *)
FirstSignalDecides ==
  pc = "done" =>
    /\ outcome = "exit" => accepted.signum = None
    /\ outcome \in Managed =>
         /\ accepted.signum = outcome
         /\ outcome \in tree.got \/ accepted.late

(* The parent never waits for its child with a signal blocked or handled   *)
(* by someone else, and leaves handlers and mask as it found them.         *)
GuardKept ==
  /\ pc = "wait" => ~mask.blocked /\ guard.installed = Managed
  /\ pc = "done" => /\ mask.blocked = mask.original /\ mask.tripped = {}
                    /\ guard.installed = {}

(* A signal that comes between the return statement and begin_cleanup      *)
(* leaves the finally clause at once.                                      *)
LeftEarly == guard.child /\ call.from = "close"

(* Windows: every handle is closed at the end, after a failed start too,   *)
(* but those whose close failed; and nothing of the job runs on, suspended *)
(* or not, unless the job's own handle could not be closed.                *)
NoHandleLeaks ==
  pc = "done" /\ ~LeftEarly =>
    /\ own.handles \subseteq own.lost
    /\ ~Posix /\ "job" \notin own.lost =>
         tree.killed \/ JobEmpty

(* When the command line returns it leaves neither a process of the       *)
(* child's tree, nor a handle, nor a handler or a mask changed.             *)
NothingLeft ==
  /\ TreeGone
  /\ NoHandleLeaks
  /\ GuardKept

(* Once a signal was taken or the child has exited, the command line comes *)
(* back within its deadlines, also if the tree survives every signal.      *)
Returns == (accepted.signum # None \/ tree.leader = "zombie") ~> pc = "done"

=============================================================================
