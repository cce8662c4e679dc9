------------------------ MODULE ProcessSupervisorProofs ------------------------
(***************************************************************************)
(* Proofs about ProcessSupervisor, for any number of signals, forks and    *)
(* failing system calls: TypeOK, NeverAstray, FirstSignalDecides and       *)
(* NothingLeft are invariants.  The inductive invariant says, for every    *)
(* place of the runner, what the guard, the mask and the leader are        *)
(* (Phases), what became of the first signal and of the tree (Story), and  *)
(* which handles of Windows are open (Handed).  Each action has a lemma    *)
(* <Action>Keeps with one step for each of these parts.                    *)
(***************************************************************************)
EXTENDS ProcessSupervisor, FiniteSetTheorems, TLAPS

-----------------------------------------------------------------------------
(* The inductive invariant.                                                *)

(* The places in the order in which the runner comes to them.              *)
Entry     == {"block", "install", "unblock"}
Launch    == {"start", "bind"} \cup Starting
Owning    == Cleaning \cup {"arm", "consume", "wait", "return", "caught", "failing",
                            "finally", "ensure", "closeChild"}
Leaving   == {"restore", "unmask", "done"}

(* The state of the guard where the runner is: only where it is "waiting"  *)
(* may a signal raise, and then none was taken before.                     *)
GuardPhase ==
  /\ pc = "block" => guard.state = "new"
  /\ pc \in {"install", "unblock", "arm"} \cup Launch => guard.state = "acquiring"
  /\ pc \in {"consume", "wait"} => guard.state = "waiting"
  /\ pc \in Cleaning => IF call.from = "close" THEN guard.state \in {"waiting", "delivering"}
                        ELSE guard.state = "cleanup"
  /\ pc = "caught" => guard.state = "delivering"
  /\ pc \in {"return", "failing"} => guard.state \in {"waiting", "delivering"}
  /\ pc = "finally" => guard.state \in {"waiting", "delivering", "cleanup"}
  /\ pc \in {"ensure", "closeChild", "restore", "unmask"} => guard.state = "cleanup"
  /\ pc = "exit" => guard.state \in {"acquiring", "delivering", "cleanup"}
  /\ pc = "done" => guard.state \in {"cleanup", "closed"}
  /\ pc \in Entry \cup Launch => ~guard.child
  /\ pc \in Owning => guard.child

(* The handlers and the mask are this process's own in between.            *)
MaskPhase ==
  /\ pc \notin {"block", "done"} => ~mask.original
  /\ pc \in {"block", "done"} => mask.blocked = mask.original
  /\ pc \in {"start", "bind", "arm", "consume", "wait"} \cup Starting => ~mask.blocked
  /\ pc = "done" => mask.tripped = {}
  /\ pc \in {"block", "unmask", "done"} => guard.installed = {}
  /\ pc \in {"unblock", "exit"} \cup Launch \cup Owning => guard.installed = Managed

PlatformPhase ==
  /\ Posix => pc \notin Starting /\ own.handles = {}
  /\ ~Posix => pc \notin {"start", "scan", "reap", "blocked", "verdict"} /\ ~own.reaped

(* The leader, and what is known of it.                                    *)
LeaderPhase ==
  /\ pc \in Entry \cup {"start", "job", "limit", "stdio", "attributes", "create"} =>
       tree.leader = "none" /\ tree.others = 0
  /\ pc \in {"bind", "closeThread"} \cup Owning => tree.leader \in {"running", "zombie", "reaped"}
  /\ tree.leader = "reaped" <=> own.reaped
  /\ own.reaped => ~own.allowed
  /\ own.observed => tree.leader \in {"zombie", "reaped"}
  /\ guard.state \notin {"cleanup", "closed"} => own.allowed \/ own.reaped
  /\ pc \in Cleaning /\ call.from = "close" => own.observed
  /\ pc \in {"bind", "arm", "consume", "wait"} \cup (Cleaning \ {"clean", "verdict"}) => ~own.reaped
  /\ pc = "clean" /\ call.from = "close" => ~own.reaped

(* The signal that was taken first.                                        *)
SignalTaken ==
  /\ guard.state \in {"new", "acquiring", "waiting"} =>
       accepted.signum = guard.pending /\ ~accepted.late
  /\ guard.state = "waiting" /\ pc # "consume" => guard.pending = None
  /\ guard.state \in {"new", "acquiring"} => outcome \in {None, "error"}
  /\ pc = "caught" => outcome \in Managed
  /\ outcome \in Managed => accepted.signum = outcome
  /\ outcome = "exit" => 
       \/ accepted.signum = None
       \/ Posix /\ pc \in Cleaning \ {"clean"} /\ call.from = "close" /\ call.failure

SignalSent ==
  outcome \in Managed =>
    \/ outcome \in tree.got \/ accepted.late
    \/ pc = "caught" /\ (Posix => MaySignalGroup)
    \/ /\ pc \in {"clean", "signal"} /\ call.from = "caught" /\ ~call.members
       /\ call.signum = outcome /\ (Posix => MaySignalGroup)
    \/ Posix /\ pc \in Cleaning \ {"clean"} /\ call.from = "caught" /\ call.failure

(* The tree is gone: what a cleaning method promises that returns.         *)
TreeIsGone == tree.others = 0 /\ tree.leader = IF Posix THEN "reaped" ELSE "zombie"

TreeCleaned ==
  /\ call.complete => tree.others = 0 /\ tree.leader \in {"zombie", "reaped"}
  /\ own.reaped => own.error \/ accepted.late \/ tree.others = 0 \/ pc = "verdict"
  /\ pc = "return" \/ (pc = "finally" /\ guard.state = "waiting") =>
       TreeIsGone /\ call.from = "close"
  /\ pc \in {"abort", "rollback", "closeChild", "exit"} \cup Leaving =>
       outcome = "error" \/ accepted.late \/ TreeIsGone

(* The handles that may be open where the runner is.                       *)
Opened ==
  CASE pc = "limit" \/ pc = "stdio" -> {"job"}
    [] pc = "attributes" -> {"job", "copies", "nulls"}
    [] pc = "create"     -> {"job", "copies", "nulls", "attributes"}
    [] pc = "tidy"       -> {"job", "copies", "nulls", "attributes"} \cup
                            IF tree.leader = "suspended" THEN {"process", "thread"} ELSE {}
    [] pc \in {"abort", "resume", "closeThread"} -> {"job", "process", "thread"}
    [] pc = "rollback"   -> {"job"} \cup IF own.known THEN {"process", "thread"} ELSE {}
    [] pc = "bind" \/ pc \in Owning -> {"job", "process"}
    [] OTHER             -> {}

HandlesKept ==
  /\ pc \in {"exit"} \cup Leaving => LeftEarly \/ own.handles \subseteq own.lost
  /\ pc \notin {"exit"} \cup Leaving => own.handles \subseteq Opened \cup own.lost

JobKept == ~Posix =>
  /\ pc = "limit" => "job" \in own.handles
  /\ pc \in {"stdio", "attributes", "create", "bind"} \cup Owning =>
       "job" \in own.handles /\ own.limited
  /\ pc \in {"tidy", "abort", "resume", "closeThread", "rollback"} =>
       \/ tree.leader = "none" /\ tree.others = 0
       \/ "job" \in own.handles /\ own.limited
  /\ pc \in {"exit"} \cup Leaving =>
       LeftEarly \/ "job" \in own.lost \/ tree.killed \/ JobEmpty
  /\ pc \in Entry \cup (Starting \ {"closeThread", "abort", "rollback"}) => ~tree.killed
  /\ pc = "tidy" => tree.leader = "suspended" \/ (tree.leader = "none" /\ call.failure)
  /\ pc = "resume" => tree.leader = "suspended"
  /\ pc = "closeThread" => own.known

(* A process more is a fork less.                                          *)
ForksBounded == tree.others + left.forks <= MaxForks

(* TypeOK also needs that forks are paid for.                              *)
Typed  == TypeOK /\ ForksBounded
Phases == GuardPhase /\ MaskPhase /\ PlatformPhase /\ LeaderPhase /\ NeverAstray
Story  == SignalTaken /\ SignalSent /\ TreeCleaned
Handed == HandlesKept /\ JobKept
IInv   == Typed /\ Phases /\ Story /\ Handed

USE DEF At, Entry, Launch, Owning, Leaving, Cleaning, Starting, Managed, None, Posix

-----------------------------------------------------------------------------
(* What is sent to the tree, and what is closed.                           *)

LEMMA Terminates ==
  ASSUME tree \in Trees, NEW s \in Managed \cup {"KILL"}, TerminateJob(s)
  PROVE  /\ tree' \in Trees /\ tree'.leader = tree.leader /\ tree'.others = tree.others
         /\ tree'.killed /\ tree'.astray = tree.astray
         /\ tree.got \subseteq tree'.got /\ s \in tree'.got
BY DEF TerminateJob, Trees

LEMMA Breaks ==
  ASSUME tree \in Trees, CtrlBreak
  PROVE  /\ tree' \in Trees /\ tree'.leader = tree.leader /\ tree'.others = tree.others
         /\ tree'.killed = tree.killed /\ tree'.astray = tree.astray
         /\ tree.got \subseteq tree'.got /\ "INT" \in tree'.got
BY DEF CtrlBreak, Trees

LEMMA SignalsGroup ==
  ASSUME tree \in Trees, own \in Owns, NEW s \in Managed \cup {"KILL"}, SignalGroup(s),
         tree.leader = "reaped" <=> own.reaped
  PROVE  /\ tree' \in Trees /\ tree'.leader = tree.leader /\ tree'.others = tree.others
         /\ tree.killed => tree'.killed
         /\ tree'.killed => tree.killed \/ s = "KILL"
         /\ tree'.astray = tree.astray
         /\ tree.got \subseteq tree'.got /\ (MaySignalGroup => s \in tree'.got)
<1>1. CASE ~MaySignalGroup
  BY <1>1 DEF SignalGroup, GroupSent
<1>2. CASE MaySignalGroup
  <2>1. tree.leader # "reaped" /\ tree.astray \in BOOLEAN /\ tree.killed \in BOOLEAN
    BY <1>2 DEF MaySignalGroup, Trees
  <2>2. (tree.astray \/ (tree.leader = "reaped" /\ tree.others = 0)) = tree.astray
    BY <2>1
  <2>3. tree' = [tree EXCEPT !.got = @ \cup {s}, !.killed = @ \/ s = "KILL", !.astray = @]
    BY <1>2, <2>2 DEF SignalGroup, GroupSent
  <2>4. (tree.killed \/ s = "KILL") \in BOOLEAN
    OBVIOUS
  <2>. QED  BY <2>1, <2>3, <2>4 DEF Trees
<1>. QED  BY <1>1, <1>2

LEMMA ClosesHandles ==
  ASSUME own \in Owns, left \in Budgets, NEW h, CloseAll(h)
  PROVE  /\ own' \in Owns /\ left' \in Budgets /\ left'.forks = left.forks
         /\ own.lost \subseteq own'.lost
         /\ own.handles \ h \subseteq own'.handles
         /\ own'.handles \subseteq (own.handles \ h) \cup (own'.lost \cap own.handles)
         /\ own'.observed = own.observed /\ own'.reaped = own.reaped
         /\ own'.allowed = own.allowed /\ own'.error = own.error
         /\ own'.known = own.known /\ own'.limited = own.limited
<1>1. PICK bad \in SUBSET (h \cap own.handles) :
        /\ Cardinality(bad) <= left.faults
        /\ left' = [left EXCEPT !.faults = @ - Cardinality(bad)]
        /\ own' = [own EXCEPT !.handles = (@ \ h) \cup bad, !.lost = @ \cup bad]
  BY DEF CloseAll
<1>2. own.handles \subseteq Handles /\ own.lost \subseteq Handles
  BY DEF Owns
<1>3. Cardinality(bad) \in Nat
  <2>1. IsFiniteSet(Handles)
    <3>1. Handles = {"job"} \cup {"process"} \cup {"thread"} \cup {"copies"}
                            \cup {"nulls"} \cup {"attributes"}
      BY DEF Handles
    <3>. QED  BY <3>1, FS_Singleton, FS_Union
  <2>. QED  BY <1>2, <2>1, FS_Subset, FS_CardinalityType
<1>4. left' \in Budgets /\ left'.forks = left.forks
  BY <1>1, <1>3, BoundsAssumption DEF Budgets
<1>5. own' \in Owns
  BY <1>1, <1>2 DEF Owns
<1>. QED  BY <1>1, <1>4, <1>5 DEF Owns

-----------------------------------------------------------------------------
(* The guard: entering, attaching the child, leaving.                      *)

LEMMA EnterGuardKeeps ==
  ASSUME IInv, EnterGuard
  PROVE  IInv'
<1>1. Typed'
  <2>1. pc' \in Places
    BY DEF IInv, Typed, TypeOK, Places, EnterGuard
  <2>2. guard' \in Guards
    BY DEF IInv, Typed, TypeOK, Guards, EnterGuard
  <2>3. mask' \in Masks
    BY DEF IInv, Typed, TypeOK, Masks, EnterGuard
  <2>4. outcome' \in Managed \cup {None, "exit", "error", "escaped"}
    BY DEF IInv, Typed, TypeOK, Story, SignalTaken, Guards, EnterGuard
  <2>5. ForksBounded'
    BY DEF IInv, Typed, TypeOK, ForksBounded, Trees, Budgets, EnterGuard
  <2>. QED
    BY <2>1, <2>2, <2>3, <2>4, <2>5 DEF IInv, Typed, TypeOK, EnterGuard
<1>2. Phases'
  BY DEF IInv, Typed, Phases, TypeOK, Guards, Masks, GuardPhase, MaskPhase,
     PlatformPhase, LeaderPhase, NeverAstray, EnterGuard
<1>3. Story'
  BY DEF IInv, Typed, Story, Phases, TypeOK, Guards, Masks, SignalTaken,
     SignalSent, TreeCleaned, GuardPhase, LeaderPhase, PlatformPhase,
     MaySignalGroup, TreeIsGone, EnterGuard
<1>4. Handed'
  BY DEF IInv, Typed, Handed, Phases, TypeOK, Guards, Masks, HandlesKept,
     JobKept, GuardPhase, PlatformPhase, Opened, LeftEarly, LeaderPhase,
     JobEmpty, EnterGuard
<1>. QED  BY <1>1, <1>2, <1>3, <1>4 DEF IInv

LEMMA InstallHandlerKeeps ==
  ASSUME IInv, NEW s \in Managed, InstallHandler(s)
  PROVE  IInv'
<1>1. Typed'
  BY DEF IInv, Typed, Phases, TypeOK, ForksBounded, Guards, Places,
     InstallHandler
<1>2. Phases'
  BY DEF IInv, Typed, Phases, TypeOK, Guards, GuardPhase, MaskPhase,
     PlatformPhase, LeaderPhase, NeverAstray, InstallHandler
<1>3. Story'
  BY DEF IInv, Typed, Story, Phases, TypeOK, Guards, SignalTaken, SignalSent,
     TreeCleaned, GuardPhase, LeaderPhase, PlatformPhase, MaySignalGroup,
     TreeIsGone, InstallHandler
<1>4. Handed'
  BY DEF IInv, Typed, Handed, Phases, TypeOK, Guards, HandlesKept, JobKept,
     GuardPhase, PlatformPhase, Opened, LeftEarly, LeaderPhase, JobEmpty,
     InstallHandler
<1>. QED  BY <1>1, <1>2, <1>3, <1>4 DEF IInv

LEMMA EntryFailsKeeps ==
  ASSUME IInv, EntryFails
  PROVE  IInv'
<1>1. Typed'
  <2>1. pc' \in Places
    BY DEF IInv, Typed, TypeOK, Places, EntryFails, Fault
  <2>2. guard' \in Guards
    BY DEF IInv, Typed, TypeOK, Guards, EntryFails, Fault
  <2>3. mask' \in Masks
    BY DEF IInv, Typed, TypeOK, Masks, EntryFails, Fault
  <2>4. outcome' \in Managed \cup {None, "exit", "error", "escaped"}
    BY DEF IInv, Typed, TypeOK, Story, SignalTaken, Guards, EntryFails,
       Fault
  <2>5. left' \in Budgets
    BY BoundsAssumption DEF IInv, Typed, TypeOK, ForksBounded, Budgets,
       EntryFails, Fault
  <2>6. ForksBounded'
    BY BoundsAssumption DEF IInv, Typed, TypeOK, ForksBounded, Trees,
       Budgets, EntryFails, Fault
  <2>. QED
    BY <2>1, <2>2, <2>3, <2>4, <2>5, <2>6 DEF IInv, Typed, TypeOK,
       EntryFails
<1>2. Phases'
  BY DEF IInv, Typed, Phases, TypeOK, Guards, Masks, Budgets, GuardPhase,
     MaskPhase, PlatformPhase, LeaderPhase, NeverAstray, EntryFails
<1>3. Story'
  BY DEF IInv, Typed, Story, Phases, TypeOK, Guards, Masks, Budgets,
     SignalTaken, SignalSent, TreeCleaned, GuardPhase, LeaderPhase,
     PlatformPhase, MaySignalGroup, TreeIsGone, EntryFails
<1>4. Handed'
  BY DEF IInv, Typed, Handed, Phases, TypeOK, Guards, Masks, Budgets,
     HandlesKept, JobKept, GuardPhase, PlatformPhase, Opened, LeftEarly,
     LeaderPhase, JobEmpty, EntryFails
<1>. QED  BY <1>1, <1>2, <1>3, <1>4 DEF IInv

LEMMA UnblockEntryKeeps ==
  ASSUME IInv, UnblockEntry
  PROVE  IInv'
<1>1. Typed'
  BY DEF IInv, Typed, Phases, TypeOK, ForksBounded, Masks, Places,
     UnblockEntry, Unmasked
<1>2. Phases'
  BY DEF IInv, Typed, Phases, TypeOK, Masks, GuardPhase, MaskPhase,
     PlatformPhase, LeaderPhase, NeverAstray, UnblockEntry, Unmasked
<1>3. Story'
  BY DEF IInv, Typed, Story, Phases, TypeOK, Masks, SignalTaken, SignalSent,
     TreeCleaned, GuardPhase, LeaderPhase, PlatformPhase, MaySignalGroup,
     TreeIsGone, UnblockEntry, Unmasked
<1>4. Handed'
  BY DEF IInv, Typed, Handed, Phases, TypeOK, Masks, HandlesKept, JobKept,
     GuardPhase, PlatformPhase, Opened, LeftEarly, LeaderPhase, JobEmpty,
     UnblockEntry, Unmasked
<1>. QED  BY <1>1, <1>2, <1>3, <1>4 DEF IInv

LEMMA BindChildKeeps ==
  ASSUME IInv, BindChild
  PROVE  IInv'
<1>1. Typed'
  BY DEF IInv, Typed, Phases, TypeOK, ForksBounded, Guards, Places, BindChild
<1>2. Phases'
  BY DEF IInv, Typed, Phases, TypeOK, Guards, GuardPhase, MaskPhase,
     PlatformPhase, LeaderPhase, NeverAstray, BindChild
<1>3. Story'
  BY DEF IInv, Typed, Story, Phases, TypeOK, Guards, SignalTaken, SignalSent,
     TreeCleaned, GuardPhase, LeaderPhase, PlatformPhase, MaySignalGroup,
     TreeIsGone, BindChild
<1>4. Handed'
  BY DEF IInv, Typed, Handed, Phases, TypeOK, Guards, HandlesKept, JobKept,
     GuardPhase, PlatformPhase, Opened, LeftEarly, LeaderPhase, JobEmpty,
     BindChild
<1>. QED  BY <1>1, <1>2, <1>3, <1>4 DEF IInv

LEMMA ArmGuardKeeps ==
  ASSUME IInv, ArmGuard
  PROVE  IInv'
<1>1. Typed'
  BY DEF IInv, Typed, Phases, TypeOK, ForksBounded, Guards, Places, ArmGuard
<1>2. Phases'
  BY DEF IInv, Typed, Phases, TypeOK, Guards, GuardPhase, MaskPhase,
     PlatformPhase, LeaderPhase, NeverAstray, ArmGuard
<1>3. Story'
  BY DEF IInv, Typed, Story, Phases, TypeOK, Guards, SignalTaken, SignalSent,
     TreeCleaned, GuardPhase, LeaderPhase, PlatformPhase, MaySignalGroup,
     TreeIsGone, ArmGuard
<1>4. Handed'
  BY DEF IInv, Typed, Handed, Phases, TypeOK, Guards, HandlesKept, JobKept,
     GuardPhase, PlatformPhase, Opened, LeftEarly, LeaderPhase, JobEmpty,
     ArmGuard
<1>. QED  BY <1>1, <1>2, <1>3, <1>4 DEF IInv

LEMMA ConsumePendingKeeps ==
  ASSUME IInv, ConsumePending
  PROVE  IInv'
<1>1. Typed'
  <2>1. \/ guard' = guard /\ outcome' = outcome
        \/ /\ guard' = [guard EXCEPT !.state = "delivering", !.pending = None]
           /\ outcome' = guard.pending /\ guard.pending # None
    BY DEF ConsumePending
  <2>2. guard \in Guards /\ guard.pending \in Managed \cup {None}
    BY DEF IInv, Typed, TypeOK, Guards
  <2>3. guard' \in Guards
    BY <2>1, <2>2 DEF Guards
  <2>. QED
    BY <2>1, <2>2, <2>3 DEF IInv, Typed, TypeOK, ForksBounded, Places, ConsumePending
<1>2. Phases'
  <2>1. GuardPhase'
    BY DEF IInv, Typed, Phases, TypeOK, Guards, GuardPhase, ConsumePending
  <2>2. MaskPhase'
    BY DEF IInv, Typed, Phases, TypeOK, Guards, MaskPhase, GuardPhase,
       ConsumePending
  <2>3. PlatformPhase'
    BY DEF IInv, Typed, Phases, TypeOK, Guards, PlatformPhase, GuardPhase,
       ConsumePending
  <2>4. LeaderPhase'
    BY DEF IInv, Typed, Phases, TypeOK, Guards, LeaderPhase, GuardPhase,
       PlatformPhase, ConsumePending
  <2>5. NeverAstray'
    BY DEF IInv, Typed, Phases, TypeOK, Guards, NeverAstray, ConsumePending
  <2>. QED
    BY <2>1, <2>2, <2>3, <2>4, <2>5 DEF Phases
<1>3. Story'
  BY DEF IInv, Typed, Story, Phases, TypeOK, Guards, SignalTaken, SignalSent,
     TreeCleaned, GuardPhase, LeaderPhase, PlatformPhase, MaySignalGroup,
     TreeIsGone, ConsumePending
<1>4. Handed'
  BY DEF IInv, Typed, Handed, Phases, TypeOK, Guards, HandlesKept, JobKept,
     GuardPhase, PlatformPhase, Opened, LeftEarly, LeaderPhase, JobEmpty,
     ConsumePending
<1>. QED  BY <1>1, <1>2, <1>3, <1>4 DEF IInv

LEMMA ExitGuardKeeps ==
  ASSUME IInv, ExitGuard
  PROVE  IInv'
<1>1. Typed'
  BY DEF IInv, Typed, Phases, TypeOK, ForksBounded, Guards, Masks, Places,
     ExitGuard
<1>2. Phases'
  BY DEF IInv, Typed, Phases, TypeOK, Guards, Masks, GuardPhase, MaskPhase,
     PlatformPhase, LeaderPhase, NeverAstray, ExitGuard
<1>3. Story'
  BY DEF IInv, Typed, Story, Phases, TypeOK, Guards, Masks, SignalTaken,
     SignalSent, TreeCleaned, GuardPhase, LeaderPhase, PlatformPhase,
     MaySignalGroup, TreeIsGone, ExitGuard
<1>4. Handed'
  BY DEF IInv, Typed, Handed, Phases, TypeOK, Guards, Masks, HandlesKept,
     JobKept, GuardPhase, PlatformPhase, Opened, LeftEarly, LeaderPhase,
     JobEmpty, ExitGuard
<1>. QED  BY <1>1, <1>2, <1>3, <1>4 DEF IInv

LEMMA RestoreHandlerKeeps ==
  ASSUME IInv, NEW s \in Managed, RestoreHandler(s)
  PROVE  IInv'
<1>1. Typed'
  BY DEF IInv, Typed, Phases, TypeOK, ForksBounded, Guards, Places,
     RestoreHandler
<1>2. Phases'
  BY DEF IInv, Typed, Phases, TypeOK, Guards, GuardPhase, MaskPhase,
     PlatformPhase, LeaderPhase, NeverAstray, RestoreHandler
<1>3. Story'
  BY DEF IInv, Typed, Story, Phases, TypeOK, Guards, SignalTaken, SignalSent,
     TreeCleaned, GuardPhase, LeaderPhase, PlatformPhase, MaySignalGroup,
     TreeIsGone, RestoreHandler
<1>4. Handed'
  BY DEF IInv, Typed, Handed, Phases, TypeOK, Guards, HandlesKept, JobKept,
     GuardPhase, PlatformPhase, Opened, LeftEarly, LeaderPhase, JobEmpty,
     RestoreHandler
<1>. QED  BY <1>1, <1>2, <1>3, <1>4 DEF IInv

LEMMA LeaveGuardKeeps ==
  ASSUME IInv, LeaveGuard
  PROVE  IInv'
<1>1. Typed'
  BY DEF IInv, Typed, Phases, TypeOK, ForksBounded, Guards, Masks, Places,
     LeaveGuard
<1>2. Phases'
  BY DEF IInv, Typed, Phases, TypeOK, Guards, Masks, GuardPhase, MaskPhase,
     PlatformPhase, LeaderPhase, NeverAstray, LeaveGuard
<1>3. Story'
  BY DEF IInv, Typed, Story, Phases, TypeOK, Guards, Masks, SignalTaken,
     SignalSent, TreeCleaned, GuardPhase, LeaderPhase, PlatformPhase,
     MaySignalGroup, TreeIsGone, LeaveGuard
<1>4. Handed'
  BY DEF IInv, Typed, Handed, Phases, TypeOK, Guards, Masks, HandlesKept,
     JobKept, GuardPhase, PlatformPhase, Opened, LeftEarly, LeaderPhase,
     JobEmpty, LeaveGuard
<1>. QED  BY <1>1, <1>2, <1>3, <1>4 DEF IInv

-----------------------------------------------------------------------------
(* The child of POSIX: waiting, cleaning and reaping.                      *)

LEMMA SpawnPosixKeeps ==
  ASSUME IInv, SpawnPosix
  PROVE  IInv'
<1>1. Typed'
  BY BoundsAssumption DEF IInv, Typed, Phases, TypeOK, ForksBounded, Trees,
     Budgets, Places, SpawnPosix, NoFault, Fault
<1>2. Phases'
  BY DEF IInv, Typed, Phases, TypeOK, Trees, Budgets, GuardPhase, MaskPhase,
     PlatformPhase, LeaderPhase, NeverAstray, SpawnPosix
<1>3. Story'
  BY DEF IInv, Typed, Story, Phases, TypeOK, Trees, Budgets, SignalTaken,
     SignalSent, TreeCleaned, GuardPhase, LeaderPhase, PlatformPhase,
     MaySignalGroup, TreeIsGone, SpawnPosix
<1>4. Handed'
  BY DEF IInv, Typed, Handed, Phases, TypeOK, Trees, Budgets, HandlesKept,
     JobKept, GuardPhase, PlatformPhase, Opened, LeftEarly, LeaderPhase,
     JobEmpty, SpawnPosix
<1>. QED  BY <1>1, <1>2, <1>3, <1>4 DEF IInv

LEMMA WaitChildKeeps ==
  ASSUME IInv, WaitChild
  PROVE  IInv'
<1>1. Typed'
  <2>1. pc' \in Places
    BY DEF IInv, Typed, TypeOK, Places, WaitChild, NoFault, Fault, NoCall
  <2>2. own' \in Owns
    BY DEF IInv, Typed, TypeOK, Owns, WaitChild, NoFault, Fault, NoCall
  <2>3. call' \in Calls
    BY DEF IInv, Typed, TypeOK, Story, Calls, SignalTaken, Callers,
       WaitChild, NoFault, Fault, NoCall
  <2>4. outcome' \in Managed \cup {None, "exit", "error", "escaped"}
    BY DEF IInv, Typed, TypeOK, Story, SignalTaken, Guards, WaitChild,
       NoFault, Fault, NoCall
  <2>5. left' \in Budgets
    BY BoundsAssumption DEF IInv, Typed, TypeOK, ForksBounded, Budgets,
       WaitChild, NoFault, Fault, NoCall
  <2>6. ForksBounded'
    BY BoundsAssumption DEF IInv, Typed, TypeOK, ForksBounded, Trees,
       Budgets, WaitChild, NoFault, Fault, NoCall
  <2>. QED
    BY <2>1, <2>2, <2>3, <2>4, <2>5, <2>6 DEF IInv, Typed, TypeOK, WaitChild
<1>2. Phases'
  BY DEF IInv, Typed, Phases, TypeOK, Owns, Calls, Budgets, GuardPhase,
     MaskPhase, PlatformPhase, LeaderPhase, NeverAstray, WaitChild, NoCall
<1>3. Story'
  BY DEF IInv, Typed, Story, Phases, TypeOK, Owns, Calls, Budgets,
     SignalTaken, SignalSent, TreeCleaned, GuardPhase, LeaderPhase,
     PlatformPhase, MaySignalGroup, TreeIsGone, WaitChild, NoCall
<1>4. Handed'
  BY DEF IInv, Typed, Handed, Phases, TypeOK, Owns, Calls, Budgets,
     HandlesKept, JobKept, GuardPhase, PlatformPhase, Opened, LeftEarly,
     LeaderPhase, JobEmpty, WaitChild, NoCall
<1>. QED  BY <1>1, <1>2, <1>3, <1>4 DEF IInv

LEMMA CleanAgainKeeps ==
  ASSUME IInv, CleanAgain
  PROVE  IInv'
<1>1. Typed'
  BY DEF IInv, Typed, Phases, TypeOK, ForksBounded, Places, CleanAgain,
     Returned, Raised
<1>2. Phases'
  BY DEF IInv, Typed, Phases, TypeOK, GuardPhase, MaskPhase, PlatformPhase,
     LeaderPhase, NeverAstray, CleanAgain, Returned, Raised
<1>3. Story'
  BY DEF IInv, Typed, Story, Phases, TypeOK, SignalTaken, SignalSent,
     TreeCleaned, GuardPhase, LeaderPhase, PlatformPhase, MaySignalGroup,
     TreeIsGone, CleanAgain, Returned, Raised
<1>4. Handed'
  BY DEF IInv, Typed, Handed, Phases, TypeOK, HandlesKept, JobKept,
     GuardPhase, PlatformPhase, Opened, LeftEarly, LeaderPhase, JobEmpty,
     CleanAgain, Returned, Raised
<1>. QED  BY <1>1, <1>2, <1>3, <1>4 DEF IInv

LEMMA CleanObserveKeeps ==
  ASSUME IInv, CleanObserve
  PROVE  IInv'
<1>1. Typed'
  <2>1. pc' \in Places
    BY DEF IInv, Typed, TypeOK, Places, CleanObserve, NoFault, Fault, Exited
  <2>2. own' \in Owns
    BY DEF IInv, Typed, TypeOK, Owns, CleanObserve, NoFault, Fault, Exited
  <2>3. call' \in Calls
    BY DEF IInv, Typed, TypeOK, Story, Calls, SignalTaken, Callers,
       CleanObserve, NoFault, Fault, Exited
  <2>4. left' \in Budgets
    BY BoundsAssumption DEF IInv, Typed, TypeOK, ForksBounded, Budgets,
       CleanObserve, NoFault, Fault, Exited
  <2>5. ForksBounded'
    BY BoundsAssumption DEF IInv, Typed, TypeOK, ForksBounded, Trees,
       Budgets, CleanObserve, NoFault, Fault, Exited
  <2>. QED
    BY <2>1, <2>2, <2>3, <2>4, <2>5 DEF IInv, Typed, TypeOK, CleanObserve
<1>2. Phases'
  BY DEF IInv, Typed, Phases, TypeOK, Owns, Calls, Budgets, GuardPhase,
     MaskPhase, PlatformPhase, LeaderPhase, NeverAstray, CleanObserve, Exited
<1>3. Story'
  BY DEF IInv, Typed, Story, Phases, TypeOK, Owns, Calls, Budgets,
     SignalTaken, SignalSent, TreeCleaned, GuardPhase, LeaderPhase,
     PlatformPhase, MaySignalGroup, TreeIsGone, CleanObserve, Exited
<1>4. Handed'
  BY DEF IInv, Typed, Handed, Phases, TypeOK, Owns, Calls, Budgets,
     HandlesKept, JobKept, GuardPhase, PlatformPhase, Opened, LeftEarly,
     LeaderPhase, JobEmpty, CleanObserve, Exited
<1>. QED  BY <1>1, <1>2, <1>3, <1>4 DEF IInv

LEMMA ScanGroupKeeps ==
  ASSUME IInv, ScanGroup
  PROVE  IInv'
<1>1. Typed'
  <2>1. pc' \in Places
    BY DEF IInv, Typed, TypeOK, Places, ScanGroup, NoFault, Fault
  <2>2. call' \in Calls
    BY DEF IInv, Typed, TypeOK, Story, Calls, SignalTaken, Callers,
       ScanGroup, NoFault, Fault
  <2>3. left' \in Budgets
    BY BoundsAssumption DEF IInv, Typed, TypeOK, ForksBounded, Budgets,
       ScanGroup, NoFault, Fault
  <2>4. ForksBounded'
    BY BoundsAssumption DEF IInv, Typed, TypeOK, ForksBounded, Trees,
       Budgets, ScanGroup, NoFault, Fault
  <2>. QED
    BY <2>1, <2>2, <2>3, <2>4 DEF IInv, Typed, TypeOK, ScanGroup
<1>2. Phases'
  BY DEF IInv, Typed, Phases, TypeOK, Calls, Budgets, GuardPhase, MaskPhase,
     PlatformPhase, LeaderPhase, NeverAstray, ScanGroup
<1>3. Story'
  BY DEF IInv, Typed, Story, Phases, TypeOK, Calls, Budgets, SignalTaken,
     SignalSent, TreeCleaned, GuardPhase, LeaderPhase, PlatformPhase,
     MaySignalGroup, TreeIsGone, ScanGroup
<1>4. Handed'
  BY DEF IInv, Typed, Handed, Phases, TypeOK, Calls, Budgets, HandlesKept,
     JobKept, GuardPhase, PlatformPhase, Opened, LeftEarly, LeaderPhase,
     JobEmpty, ScanGroup
<1>. QED  BY <1>1, <1>2, <1>3, <1>4 DEF IInv

LEMMA SignalTreeKeeps ==
  ASSUME IInv, SignalTree
  PROVE  IInv'
<1>1. Typed'
  <2>1. pc' \in Places
    BY SignalsGroup DEF IInv, Typed, Phases, TypeOK, Places, SignalTree,
       SendGroup, MaySignalGroup, NoFault, Fault, Trees, Owns, Calls,
       LeaderPhase
  <2>2. tree' \in Trees
    BY SignalsGroup, BoundsAssumption DEF IInv, Typed, Phases, TypeOK,
       ForksBounded, Trees, Budgets, SignalTree, SendGroup, MaySignalGroup,
       NoFault, Fault, Owns, Calls, LeaderPhase
  <2>3. call' \in Calls
    <3>1. call' = call \/ call' = [call EXCEPT !.failure = TRUE]
      BY Zenon DEF SignalTree, SendGroup
    <3>. QED  BY <3>1 DEF IInv, Typed, TypeOK, Calls
  <2>4. left' \in Budgets
    BY SignalsGroup, BoundsAssumption DEF IInv, Typed, Phases, TypeOK,
       ForksBounded, Budgets, SignalTree, SendGroup, MaySignalGroup,
       NoFault, Fault, Trees, Owns, Calls, LeaderPhase
  <2>5. ForksBounded'
    BY SignalsGroup, BoundsAssumption DEF IInv, Typed, Phases, TypeOK,
       ForksBounded, Trees, Budgets, SignalTree, SendGroup, MaySignalGroup,
       NoFault, Fault, Owns, Calls, LeaderPhase
  <2>. QED
    BY <2>1, <2>2, <2>3, <2>4, <2>5 DEF IInv, Typed, TypeOK, SignalTree,
       SendGroup
<1>2. Phases'
  BY SignalsGroup DEF IInv, Typed, Phases, TypeOK, Trees, Calls, Budgets,
     GuardPhase, MaskPhase, PlatformPhase, LeaderPhase, NeverAstray,
     SignalTree, SendGroup, MaySignalGroup, Owns
<1>3. Story'
  BY SignalsGroup DEF IInv, Typed, Story, Phases, TypeOK, Trees, Calls,
     Budgets, SignalTaken, SignalSent, TreeCleaned, GuardPhase, LeaderPhase,
     PlatformPhase, MaySignalGroup, TreeIsGone, SignalTree, SendGroup, Owns
<1>4. Handed'
  BY SignalsGroup DEF IInv, Typed, Handed, Phases, TypeOK, Trees, Calls,
     Budgets, HandlesKept, JobKept, GuardPhase, PlatformPhase, Opened,
     LeftEarly, LeaderPhase, JobEmpty, SignalTree, SendGroup, MaySignalGroup,
     Owns
<1>. QED  BY <1>1, <1>2, <1>3, <1>4 DEF IInv

LEMMA AwaitSoftlyKeeps ==
  ASSUME IInv, AwaitSoftly
  PROVE  IInv'
<1>1. Typed'
  <2>1. pc' \in Places
    BY DEF IInv, Typed, TypeOK, Places, AwaitSoftly, AwaitTree, TreeEnded,
       Exited, NoFault, Fault
  <2>2. own' \in Owns
    BY DEF IInv, Typed, TypeOK, Owns, AwaitSoftly, AwaitTree, TreeEnded,
       Exited, NoFault, Fault
  <2>3. call' \in Calls
    BY DEF IInv, Typed, TypeOK, Story, Calls, SignalTaken, Callers,
       AwaitSoftly, AwaitTree, TreeEnded, Exited, NoFault, Fault
  <2>4. left' \in Budgets
    BY BoundsAssumption DEF IInv, Typed, TypeOK, ForksBounded, Budgets,
       AwaitSoftly, AwaitTree, TreeEnded, Exited, NoFault, Fault
  <2>5. ForksBounded'
    BY BoundsAssumption DEF IInv, Typed, TypeOK, ForksBounded, Trees,
       Budgets, AwaitSoftly, AwaitTree, TreeEnded, Exited, NoFault, Fault
  <2>. QED
    BY <2>1, <2>2, <2>3, <2>4, <2>5 DEF IInv, Typed, TypeOK, AwaitSoftly,
       AwaitTree
<1>2. Phases'
  BY DEF IInv, Typed, Phases, TypeOK, Owns, Calls, Budgets, GuardPhase,
     MaskPhase, PlatformPhase, LeaderPhase, NeverAstray, AwaitSoftly,
     AwaitTree, TreeEnded, Exited
<1>3. Story'
  BY DEF IInv, Typed, Story, Phases, TypeOK, Owns, Calls, Budgets,
     SignalTaken, SignalSent, TreeCleaned, GuardPhase, LeaderPhase,
     PlatformPhase, MaySignalGroup, TreeIsGone, AwaitSoftly, AwaitTree,
     TreeEnded, Exited
<1>4. Handed'
  BY DEF IInv, Typed, Handed, Phases, TypeOK, Owns, Calls, Budgets,
     HandlesKept, JobKept, GuardPhase, PlatformPhase, Opened, LeftEarly,
     LeaderPhase, JobEmpty, AwaitSoftly, AwaitTree, TreeEnded, Exited
<1>. QED  BY <1>1, <1>2, <1>3, <1>4 DEF IInv

LEMMA KillTreeKeeps ==
  ASSUME IInv, KillTree
  PROVE  IInv'
<1>1. Typed'
  <2>1. pc' \in Places
    BY SignalsGroup DEF IInv, Typed, Phases, TypeOK, Places, KillTree,
       SendGroup, MaySignalGroup, NoFault, Fault, Trees, Owns, Calls,
       LeaderPhase
  <2>2. tree' \in Trees
    BY SignalsGroup, BoundsAssumption DEF IInv, Typed, Phases, TypeOK,
       ForksBounded, Trees, Budgets, KillTree, SendGroup, MaySignalGroup,
       NoFault, Fault, Owns, Calls, LeaderPhase
  <2>3. call' \in Calls
    <3>1. call' = call \/ call' = [call EXCEPT !.failure = TRUE]
      BY Zenon DEF KillTree, SendGroup
    <3>. QED  BY <3>1 DEF IInv, Typed, TypeOK, Calls
  <2>4. left' \in Budgets
    BY SignalsGroup, BoundsAssumption DEF IInv, Typed, Phases, TypeOK,
       ForksBounded, Budgets, KillTree, SendGroup, MaySignalGroup, NoFault,
       Fault, Trees, Owns, Calls, LeaderPhase
  <2>5. ForksBounded'
    BY SignalsGroup, BoundsAssumption DEF IInv, Typed, Phases, TypeOK,
       ForksBounded, Trees, Budgets, KillTree, SendGroup, MaySignalGroup,
       NoFault, Fault, Owns, Calls, LeaderPhase
  <2>. QED
    BY <2>1, <2>2, <2>3, <2>4, <2>5 DEF IInv, Typed, TypeOK, KillTree,
       SendGroup
<1>2. Phases'
  BY SignalsGroup DEF IInv, Typed, Phases, TypeOK, Trees, Calls, Budgets,
     GuardPhase, MaskPhase, PlatformPhase, LeaderPhase, NeverAstray, KillTree,
     SendGroup, MaySignalGroup, Owns
<1>3. Story'
  BY SignalsGroup DEF IInv, Typed, Story, Phases, TypeOK, Trees, Calls,
     Budgets, SignalTaken, SignalSent, TreeCleaned, GuardPhase, LeaderPhase,
     PlatformPhase, MaySignalGroup, TreeIsGone, KillTree, SendGroup, Owns
<1>4. Handed'
  BY SignalsGroup DEF IInv, Typed, Handed, Phases, TypeOK, Trees, Calls,
     Budgets, HandlesKept, JobKept, GuardPhase, PlatformPhase, Opened,
     LeftEarly, LeaderPhase, JobEmpty, KillTree, SendGroup, MaySignalGroup,
     Owns
<1>. QED  BY <1>1, <1>2, <1>3, <1>4 DEF IInv

LEMMA AwaitHardKeeps ==
  ASSUME IInv, AwaitHard
  PROVE  IInv'
<1>1. Typed'
  <2>1. pc' \in Places
    BY DEF IInv, Typed, TypeOK, Places, AwaitHard, AwaitTree, TreeEnded,
       Exited, NoFault, Fault
  <2>2. own' \in Owns
    BY DEF IInv, Typed, TypeOK, Owns, AwaitHard, AwaitTree, TreeEnded,
       Exited, NoFault, Fault
  <2>3. call' \in Calls
    BY DEF IInv, Typed, TypeOK, Story, Calls, SignalTaken, Callers,
       AwaitHard, AwaitTree, TreeEnded, Exited, NoFault, Fault
  <2>4. left' \in Budgets
    BY BoundsAssumption DEF IInv, Typed, TypeOK, ForksBounded, Budgets,
       AwaitHard, AwaitTree, TreeEnded, Exited, NoFault, Fault
  <2>5. ForksBounded'
    BY BoundsAssumption DEF IInv, Typed, TypeOK, ForksBounded, Trees,
       Budgets, AwaitHard, AwaitTree, TreeEnded, Exited, NoFault, Fault
  <2>. QED
    BY <2>1, <2>2, <2>3, <2>4, <2>5 DEF IInv, Typed, TypeOK, AwaitHard,
       AwaitTree
<1>2. Phases'
  BY DEF IInv, Typed, Phases, TypeOK, Owns, Calls, Budgets, GuardPhase,
     MaskPhase, PlatformPhase, LeaderPhase, NeverAstray, AwaitHard, AwaitTree,
     TreeEnded, Exited
<1>3. Story'
  BY DEF IInv, Typed, Story, Phases, TypeOK, Owns, Calls, Budgets,
     SignalTaken, SignalSent, TreeCleaned, GuardPhase, LeaderPhase,
     PlatformPhase, MaySignalGroup, TreeIsGone, AwaitHard, AwaitTree,
     TreeEnded, Exited
<1>4. Handed'
  BY DEF IInv, Typed, Handed, Phases, TypeOK, Owns, Calls, Budgets,
     HandlesKept, JobKept, GuardPhase, PlatformPhase, Opened, LeftEarly,
     LeaderPhase, JobEmpty, AwaitHard, AwaitTree, TreeEnded, Exited
<1>. QED  BY <1>1, <1>2, <1>3, <1>4 DEF IInv

LEMMA BlockForReapKeeps ==
  ASSUME IInv, BlockForReap
  PROVE  IInv'
<1>1. Typed'
  <2>1. mask \in Masks /\ call \in Calls /\ mask.blocked \in BOOLEAN
    BY DEF IInv, Typed, TypeOK, Masks
  <2>2. call' \in Calls
    BY <2>1 DEF BlockForReap, Calls
  <2>3. mask' \in Masks
    <3>1. CASE mask' = [mask EXCEPT !.blocked = TRUE]
      BY <2>1, <3>1 DEF Masks
    <3>2. ASSUME NEW s \in Managed, mask' = [mask EXCEPT !.blocked = TRUE, !.tripped = {s}]
          PROVE  mask' \in Masks
      BY <2>1, <3>2 DEF Masks
    <3>. QED  BY <3>1, <3>2 DEF BlockForReap
  <2>4. left' \in Budgets /\ left'.forks = left.forks
    BY BoundsAssumption DEF IInv, Typed, TypeOK, Budgets, BlockForReap
  <2>. QED
    BY <2>2, <2>3, <2>4 DEF IInv, Typed, TypeOK, ForksBounded, Places, BlockForReap
<1>2. Phases'
  BY DEF IInv, Typed, Phases, TypeOK, Masks, Calls, Budgets, GuardPhase,
     MaskPhase, PlatformPhase, LeaderPhase, NeverAstray, BlockForReap
<1>3. Story'
  BY DEF IInv, Typed, Story, Phases, TypeOK, Masks, Calls, Budgets,
     SignalTaken, SignalSent, TreeCleaned, GuardPhase, LeaderPhase,
     PlatformPhase, MaySignalGroup, TreeIsGone, BlockForReap
<1>4. Handed'
  BY DEF IInv, Typed, Handed, Phases, TypeOK, Masks, Calls, Budgets,
     HandlesKept, JobKept, GuardPhase, PlatformPhase, Opened, LeftEarly,
     LeaderPhase, JobEmpty, BlockForReap
<1>. QED  BY <1>1, <1>2, <1>3, <1>4 DEF IInv

\* What Reap does to the leader, and to what is known of it.
LEMMA Reaps ==
  ASSUME IInv, Reap
  PROVE  /\ own' \in Owns /\ call' \in Calls /\ tree' \in Trees
         /\ own'.handles = own.handles /\ own'.lost = own.lost /\ own'.observed = own.observed
         /\ own'.error = own.error /\ own'.known = own.known /\ own'.limited = own.limited
         /\ ~own'.allowed
         /\ tree'.others = tree.others /\ tree'.killed = tree.killed
         /\ tree'.got = tree.got /\ tree'.astray = tree.astray
         /\ call'.from = call.from /\ call'.complete = call.complete
         /\ call.failure => call'.failure
         /\ \/ tree.leader = "zombie" /\ tree'.leader = "reaped" /\ own'.reaped
            \/ /\ tree.leader # "zombie" /\ tree' = tree /\ own'.reaped = own.reaped
               /\ call' = call
<1>1. own \in Owns /\ call \in Calls /\ tree \in Trees
  BY DEF IInv, Typed, TypeOK
<1>2. CASE tree.leader = "zombie"
  <2>1. tree' = [tree EXCEPT !.leader = "reaped"]
    BY <1>2 DEF Reap
  <2>2. own' = [own EXCEPT !.allowed = FALSE, !.reaped = TRUE]
    BY <1>2 DEF Reap
  <2>3. call' = [call EXCEPT !.failure = @ \/ ~own.observed]
    BY <1>2 DEF Reap
  <2>4. (call.failure \/ ~own.observed) \in BOOLEAN
    OBVIOUS
  <2>5. tree' \in Trees /\ tree'.leader = "reaped" /\ tree'.others = tree.others /\ tree'.killed = tree.killed
         /\ tree'.got = tree.got /\ tree'.astray = tree.astray
    BY <1>1, <2>1 DEF Trees
  <2>6. /\ own' \in Owns /\ own'.handles = own.handles /\ own'.lost = own.lost /\ own'.observed = own.observed
         /\ own'.error = own.error /\ own'.known = own.known /\ own'.limited = own.limited
         /\ ~own'.allowed /\ own'.reaped
    BY <1>1, <2>2 DEF Owns
  <2>7. /\ call' \in Calls /\ call'.from = call.from /\ call'.complete = call.complete
        /\ call.failure => call'.failure
    BY <1>1, <2>3, <2>4 DEF Calls
  <2>. QED  BY <1>2, <2>5, <2>6, <2>7
<1>3. CASE tree.leader # "zombie"
  <2>1. tree' = tree /\ call' = call /\ own' = [own EXCEPT !.allowed = FALSE]
    BY <1>3 DEF Reap
  <2>. QED  BY <1>1, <1>3, <2>1 DEF Owns
<1>. QED  BY <1>2, <1>3

LEMMA ReapKeeps ==
  ASSUME IInv, Reap
  PROVE  IInv'
<1>1. Typed'
  <2>1. mask' \in Masks
    BY DEF IInv, Typed, TypeOK, Masks, Reap, Unmasked
  <2>. QED
    BY Reaps, <2>1 DEF IInv, Typed, TypeOK, ForksBounded, Places, Reap
<1>2. Phases'
  <2>1. GuardPhase' /\ MaskPhase'
    BY Reaps DEF IInv, Typed, TypeOK, Masks, Phases, GuardPhase, MaskPhase, Reap, Unmasked
  <2>2. PlatformPhase' /\ NeverAstray'
    BY Reaps DEF IInv, Phases, PlatformPhase, NeverAstray, Reap
  <2>3. LeaderPhase'
    BY Reaps DEF IInv, Typed, TypeOK, Owns, Phases, LeaderPhase, GuardPhase, PlatformPhase, Reap
  <2>. QED  BY <2>1, <2>2, <2>3 DEF Phases
<1>3. Story'
  BY DEF IInv, Typed, Story, Phases, TypeOK, Masks, Trees, Owns, Calls,
     SignalTaken, SignalSent, TreeCleaned, GuardPhase, LeaderPhase,
     PlatformPhase, MaySignalGroup, TreeIsGone, Reap, Unmasked
<1>4. Handed'
  BY Reaps DEF IInv, Handed, Phases, HandlesKept, JobKept, PlatformPhase, Opened, Reap
<1>. QED  BY <1>1, <1>2, <1>3, <1>4 DEF IInv

LEMMA VerdictKeeps ==
  ASSUME IInv, Verdict
  PROVE  IInv'
<1>1. Typed'
  BY DEF IInv, Typed, Phases, TypeOK, ForksBounded, Owns, Places, Verdict,
     Returned, Raised
<1>2. Phases'
  BY DEF IInv, Typed, Phases, TypeOK, Owns, GuardPhase, MaskPhase,
     PlatformPhase, LeaderPhase, NeverAstray, Verdict, Returned, Raised
<1>3. Story'
  BY DEF IInv, Typed, Story, Phases, TypeOK, Owns, SignalTaken, SignalSent,
     TreeCleaned, GuardPhase, LeaderPhase, PlatformPhase, MaySignalGroup,
     TreeIsGone, Verdict, Returned, Raised
<1>4. Handed'
  BY DEF IInv, Typed, Handed, Phases, TypeOK, Owns, HandlesKept, JobKept,
     GuardPhase, PlatformPhase, Opened, LeftEarly, LeaderPhase, JobEmpty,
     Verdict, Returned, Raised
<1>. QED  BY <1>1, <1>2, <1>3, <1>4 DEF IInv

-----------------------------------------------------------------------------
(* The child of Windows: starting in a job, and going back.                *)

LEMMA CreateJobKeeps ==
  ASSUME IInv, CreateJob
  PROVE  IInv'
<1>1. Typed'
  <2>1. pc' \in Places
    BY DEF IInv, Typed, TypeOK, Places, CreateJob, StartStep, NoFault, Fault
  <2>2. own' \in Owns
    BY DEF IInv, Typed, TypeOK, Owns, Handles, CreateJob, StartStep,
       NoFault, Fault
  <2>3. outcome' \in Managed \cup {None, "exit", "error", "escaped"}
    BY DEF IInv, Typed, TypeOK, Story, SignalTaken, Guards, CreateJob,
       StartStep, NoFault, Fault
  <2>4. left' \in Budgets
    BY BoundsAssumption DEF IInv, Typed, TypeOK, ForksBounded, Budgets,
       CreateJob, StartStep, NoFault, Fault
  <2>5. ForksBounded'
    BY BoundsAssumption DEF IInv, Typed, TypeOK, ForksBounded, Trees,
       Budgets, CreateJob, StartStep, NoFault, Fault
  <2>. QED
    BY <2>1, <2>2, <2>3, <2>4, <2>5 DEF IInv, Typed, TypeOK, CreateJob
<1>2. Phases'
  BY DEF IInv, Typed, Phases, TypeOK, Owns, Budgets, GuardPhase, MaskPhase,
     PlatformPhase, LeaderPhase, NeverAstray, CreateJob, StartStep
<1>3. Story'
  BY DEF IInv, Typed, Story, Phases, TypeOK, Owns, Budgets, SignalTaken,
     SignalSent, TreeCleaned, GuardPhase, LeaderPhase, PlatformPhase,
     MaySignalGroup, TreeIsGone, CreateJob, StartStep
<1>4. Handed'
  BY DEF IInv, Typed, Handed, Phases, TypeOK, Owns, Budgets, HandlesKept,
     JobKept, GuardPhase, PlatformPhase, Opened, LeftEarly, LeaderPhase,
     JobEmpty, CreateJob, StartStep
<1>. QED  BY <1>1, <1>2, <1>3, <1>4 DEF IInv

LEMMA SetKillOnCloseKeeps ==
  ASSUME IInv, SetKillOnClose
  PROVE  IInv'
<1>1. Typed'
  <2>1. pc' \in Places
    BY DEF IInv, Typed, TypeOK, Places, SetKillOnClose, NoFault, Fault
  <2>2. own' \in Owns
    BY DEF IInv, Typed, TypeOK, Owns, SetKillOnClose, NoFault, Fault
  <2>3. outcome' \in Managed \cup {None, "exit", "error", "escaped"}
    BY DEF IInv, Typed, TypeOK, Story, SignalTaken, Guards, SetKillOnClose,
       NoFault, Fault
  <2>4. left' \in Budgets
    BY BoundsAssumption DEF IInv, Typed, TypeOK, ForksBounded, Budgets,
       SetKillOnClose, NoFault, Fault
  <2>5. ForksBounded'
    BY BoundsAssumption DEF IInv, Typed, TypeOK, ForksBounded, Trees,
       Budgets, SetKillOnClose, NoFault, Fault
  <2>. QED
    BY <2>1, <2>2, <2>3, <2>4, <2>5 DEF IInv, Typed, TypeOK, SetKillOnClose
<1>2. Phases'
  BY DEF IInv, Typed, Phases, TypeOK, Owns, Budgets, GuardPhase, MaskPhase,
     PlatformPhase, LeaderPhase, NeverAstray, SetKillOnClose
<1>3. Story'
  BY DEF IInv, Typed, Story, Phases, TypeOK, Owns, Budgets, SignalTaken,
     SignalSent, TreeCleaned, GuardPhase, LeaderPhase, PlatformPhase,
     MaySignalGroup, TreeIsGone, SetKillOnClose
<1>4. Handed'
  BY DEF IInv, Typed, Handed, Phases, TypeOK, Owns, Budgets, HandlesKept,
     JobKept, GuardPhase, PlatformPhase, Opened, LeftEarly, LeaderPhase,
     JobEmpty, SetKillOnClose
<1>. QED  BY <1>1, <1>2, <1>3, <1>4 DEF IInv

LEMMA OpenStdioKeeps ==
  ASSUME IInv, OpenStdio
  PROVE  IInv'
<1>1. Typed'
  <2>1. pc' \in Places
    BY DEF IInv, Typed, TypeOK, Places, OpenStdio, NoFault, Fault
  <2>2. own' \in Owns
    BY DEF IInv, Typed, TypeOK, Owns, Handles, OpenStdio, NoFault, Fault
  <2>3. call' \in Calls
    BY DEF IInv, Typed, TypeOK, Story, Calls, SignalTaken, Callers,
       OpenStdio, NoFault, Fault
  <2>4. left' \in Budgets
    BY BoundsAssumption DEF IInv, Typed, TypeOK, ForksBounded, Budgets,
       OpenStdio, NoFault, Fault
  <2>5. ForksBounded'
    BY BoundsAssumption DEF IInv, Typed, TypeOK, ForksBounded, Trees,
       Budgets, OpenStdio, NoFault, Fault
  <2>. QED
    BY <2>1, <2>2, <2>3, <2>4, <2>5 DEF IInv, Typed, TypeOK, OpenStdio
<1>2. Phases'
  BY DEF IInv, Typed, Phases, TypeOK, Owns, Calls, Budgets, GuardPhase,
     MaskPhase, PlatformPhase, LeaderPhase, NeverAstray, OpenStdio
<1>3. Story'
  BY DEF IInv, Typed, Story, Phases, TypeOK, Owns, Calls, Budgets,
     SignalTaken, SignalSent, TreeCleaned, GuardPhase, LeaderPhase,
     PlatformPhase, MaySignalGroup, TreeIsGone, OpenStdio
<1>4. Handed'
  BY DEF IInv, Typed, Handed, Phases, TypeOK, Owns, Calls, Budgets,
     HandlesKept, JobKept, GuardPhase, PlatformPhase, Opened, LeftEarly,
     LeaderPhase, JobEmpty, OpenStdio
<1>. QED  BY <1>1, <1>2, <1>3, <1>4 DEF IInv

LEMMA CreateAttributesKeeps ==
  ASSUME IInv, CreateAttributes
  PROVE  IInv'
<1>1. Typed'
  <2>1. pc' \in Places
    BY DEF IInv, Typed, TypeOK, Places, CreateAttributes, StartStep,
       NoFault, Fault
  <2>2. own' \in Owns
    BY DEF IInv, Typed, TypeOK, Owns, Handles, CreateAttributes, StartStep,
       NoFault, Fault
  <2>3. call' \in Calls
    BY DEF IInv, Typed, TypeOK, Story, Calls, SignalTaken, Callers,
       CreateAttributes, StartStep, NoFault, Fault
  <2>4. left' \in Budgets
    BY BoundsAssumption DEF IInv, Typed, TypeOK, ForksBounded, Budgets,
       CreateAttributes, StartStep, NoFault, Fault
  <2>5. ForksBounded'
    BY BoundsAssumption DEF IInv, Typed, TypeOK, ForksBounded, Trees,
       Budgets, CreateAttributes, StartStep, NoFault, Fault
  <2>. QED
    BY <2>1, <2>2, <2>3, <2>4, <2>5 DEF IInv, Typed, TypeOK,
       CreateAttributes
<1>2. Phases'
  BY DEF IInv, Typed, Phases, TypeOK, Owns, Calls, Budgets, GuardPhase,
     MaskPhase, PlatformPhase, LeaderPhase, NeverAstray, CreateAttributes,
     StartStep
<1>3. Story'
  BY DEF IInv, Typed, Story, Phases, TypeOK, Owns, Calls, Budgets,
     SignalTaken, SignalSent, TreeCleaned, GuardPhase, LeaderPhase,
     PlatformPhase, MaySignalGroup, TreeIsGone, CreateAttributes, StartStep
<1>4. Handed'
  BY DEF IInv, Typed, Handed, Phases, TypeOK, Owns, Calls, Budgets,
     HandlesKept, JobKept, GuardPhase, PlatformPhase, Opened, LeftEarly,
     LeaderPhase, JobEmpty, CreateAttributes, StartStep
<1>. QED  BY <1>1, <1>2, <1>3, <1>4 DEF IInv

LEMMA CreateSuspendedKeeps ==
  ASSUME IInv, CreateSuspended
  PROVE  IInv'
<1>1. Typed'
  <2>1. pc' \in Places
    BY DEF IInv, Typed, TypeOK, Places, CreateSuspended, StartStep, NoFault,
       Fault
  <2>2. tree' \in Trees
    BY BoundsAssumption DEF IInv, Typed, TypeOK, ForksBounded, Trees,
       Budgets, CreateSuspended, StartStep, NoFault, Fault
  <2>3. own' \in Owns
    BY DEF IInv, Typed, TypeOK, Owns, Handles, CreateSuspended, StartStep,
       NoFault, Fault
  <2>4. call' \in Calls
    BY DEF IInv, Typed, TypeOK, Story, Calls, SignalTaken, Callers,
       CreateSuspended, StartStep, NoFault, Fault
  <2>5. left' \in Budgets
    BY BoundsAssumption DEF IInv, Typed, TypeOK, ForksBounded, Budgets,
       CreateSuspended, StartStep, NoFault, Fault
  <2>6. ForksBounded'
    BY BoundsAssumption DEF IInv, Typed, TypeOK, ForksBounded, Trees,
       Budgets, CreateSuspended, StartStep, NoFault, Fault
  <2>. QED
    BY <2>1, <2>2, <2>3, <2>4, <2>5, <2>6 DEF IInv, Typed, TypeOK,
       CreateSuspended
<1>2. Phases'
  BY DEF IInv, Typed, Phases, TypeOK, Trees, Owns, Calls, Budgets, GuardPhase,
     MaskPhase, PlatformPhase, LeaderPhase, NeverAstray, CreateSuspended,
     StartStep
<1>3. Story'
  BY DEF IInv, Typed, Story, Phases, TypeOK, Trees, Owns, Calls, Budgets,
     SignalTaken, SignalSent, TreeCleaned, GuardPhase, LeaderPhase,
     PlatformPhase, MaySignalGroup, TreeIsGone, CreateSuspended, StartStep
<1>4. Handed'
  BY DEF IInv, Typed, Handed, Phases, TypeOK, Trees, Owns, Calls, Budgets,
     HandlesKept, JobKept, GuardPhase, PlatformPhase, Opened, LeftEarly,
     LeaderPhase, JobEmpty, CreateSuspended, StartStep
<1>. QED  BY <1>1, <1>2, <1>3, <1>4 DEF IInv

LEMMA TidyLaunchKeeps ==
  ASSUME IInv, TidyLaunch
  PROVE  IInv'
<1>1. Typed'
  BY ClosesHandles, BoundsAssumption DEF IInv, Typed, Phases, TypeOK,
     ForksBounded, Owns, Budgets, Trees, Places, TidyLaunch
<1>2. Phases'
  BY ClosesHandles DEF IInv, Typed, Phases, TypeOK, Owns, Budgets, GuardPhase,
     MaskPhase, PlatformPhase, LeaderPhase, NeverAstray, TidyLaunch
<1>3. Story'
  BY ClosesHandles DEF IInv, Typed, Story, Phases, TypeOK, Owns, Budgets,
     SignalTaken, SignalSent, TreeCleaned, GuardPhase, LeaderPhase,
     PlatformPhase, MaySignalGroup, TreeIsGone, TidyLaunch
<1>4. Handed'
  <2>1. HandlesKept'
    BY ClosesHandles, SMTT(30) DEF IInv, Typed, Phases, Handed, Story,
       TypeOK, Owns, Budgets, HandlesKept, GuardPhase, PlatformPhase,
       Opened, LeftEarly, LeaderPhase, SignalTaken, JobKept, TreeCleaned,
       JobEmpty, Guards, Trees, TidyLaunch
  <2>2. JobKept'
    BY ClosesHandles, SMTT(30) DEF IInv, Typed, Phases, Handed, Story,
       TypeOK, Owns, Budgets, JobKept, GuardPhase, PlatformPhase,
       LeaderPhase, LeftEarly, JobEmpty, SignalTaken, TreeCleaned, Guards,
       Trees, TidyLaunch
  <2>. QED
    BY <2>1, <2>2 DEF Handed
<1>. QED  BY <1>1, <1>2, <1>3, <1>4 DEF IInv

LEMMA AbortSuspendedKeeps ==
  ASSUME IInv, AbortSuspended
  PROVE  IInv'
<1>1. Typed'
  <2>1. pc' \in Places
    BY ClosesHandles DEF IInv, Typed, TypeOK, Places, AbortSuspended, Fault,
       Owns, Budgets
  <2>2. tree' \in Trees
    BY ClosesHandles, BoundsAssumption DEF IInv, Typed, TypeOK,
       ForksBounded, Trees, Budgets, AbortSuspended, Fault, Owns
  <2>3. own' \in Owns
    BY ClosesHandles DEF IInv, Typed, TypeOK, Owns, AbortSuspended, Fault,
       Budgets
  <2>4. left' \in Budgets
    BY ClosesHandles, BoundsAssumption DEF IInv, Typed, TypeOK,
       ForksBounded, Budgets, AbortSuspended, Fault, Owns
  <2>5. ForksBounded'
    BY ClosesHandles, BoundsAssumption DEF IInv, Typed, TypeOK,
       ForksBounded, Trees, Budgets, AbortSuspended, Fault, Owns
  <2>. QED
    BY <2>1, <2>2, <2>3, <2>4, <2>5 DEF IInv, Typed, TypeOK, AbortSuspended
<1>2. Phases'
  BY ClosesHandles DEF IInv, Typed, Phases, TypeOK, Trees, Owns, Budgets,
     GuardPhase, MaskPhase, PlatformPhase, LeaderPhase, NeverAstray,
     AbortSuspended
<1>3. Story'
  BY ClosesHandles DEF IInv, Typed, Story, Phases, TypeOK, Trees, Owns,
     Budgets, SignalTaken, SignalSent, TreeCleaned, GuardPhase, LeaderPhase,
     PlatformPhase, MaySignalGroup, TreeIsGone, AbortSuspended
<1>4. Handed'
  BY ClosesHandles DEF IInv, Typed, Handed, Phases, TypeOK, Trees, Owns,
     Budgets, HandlesKept, JobKept, GuardPhase, PlatformPhase, Opened,
     LeftEarly, LeaderPhase, JobEmpty, AbortSuspended
<1>. QED  BY <1>1, <1>2, <1>3, <1>4 DEF IInv

LEMMA ResumeThreadKeeps ==
  ASSUME IInv, ResumeThread
  PROVE  IInv'
<1>1. Typed'
  <2>1. pc' \in Places
    BY DEF IInv, Typed, TypeOK, Places, ResumeThread, NoFault, Fault
  <2>2. tree' \in Trees
    BY BoundsAssumption DEF IInv, Typed, TypeOK, ForksBounded, Trees,
       Budgets, ResumeThread, NoFault, Fault
  <2>3. own' \in Owns
    BY DEF IInv, Typed, TypeOK, Owns, ResumeThread, NoFault, Fault
  <2>4. outcome' \in Managed \cup {None, "exit", "error", "escaped"}
    BY DEF IInv, Typed, TypeOK, Story, SignalTaken, Guards, ResumeThread,
       NoFault, Fault
  <2>5. left' \in Budgets
    BY BoundsAssumption DEF IInv, Typed, TypeOK, ForksBounded, Budgets,
       ResumeThread, NoFault, Fault
  <2>6. ForksBounded'
    BY BoundsAssumption DEF IInv, Typed, TypeOK, ForksBounded, Trees,
       Budgets, ResumeThread, NoFault, Fault
  <2>. QED
    BY <2>1, <2>2, <2>3, <2>4, <2>5, <2>6 DEF IInv, Typed, TypeOK,
       ResumeThread
<1>2. Phases'
  <2>1. GuardPhase'
    BY SMTT(30) DEF IInv, Typed, Phases, Handed, Story, TypeOK, Trees, Owns,
       Budgets, GuardPhase, SignalTaken, JobKept, TreeCleaned, JobEmpty,
       LeaderPhase, Guards, ResumeThread
  <2>2. MaskPhase'
    BY SMTT(30) DEF IInv, Typed, Phases, Handed, Story, TypeOK, Trees, Owns,
       Budgets, MaskPhase, GuardPhase, SignalTaken, JobKept, TreeCleaned,
       JobEmpty, LeaderPhase, Guards, ResumeThread
  <2>3. PlatformPhase'
    BY SMTT(30) DEF IInv, Typed, Phases, Handed, Story, TypeOK, Trees, Owns,
       Budgets, PlatformPhase, GuardPhase, SignalTaken, JobKept,
       TreeCleaned, JobEmpty, LeaderPhase, Guards, ResumeThread
  <2>4. LeaderPhase'
    BY SMTT(30) DEF IInv, Typed, Phases, Handed, Story, TypeOK, Trees, Owns,
       Budgets, LeaderPhase, GuardPhase, PlatformPhase, SignalTaken,
       JobKept, TreeCleaned, JobEmpty, Guards, ResumeThread
  <2>5. NeverAstray'
    BY SMTT(30) DEF IInv, Typed, Phases, Handed, Story, TypeOK, Trees, Owns,
       Budgets, NeverAstray, SignalTaken, JobKept, TreeCleaned, JobEmpty,
       LeaderPhase, Guards, ResumeThread
  <2>. QED
    BY <2>1, <2>2, <2>3, <2>4, <2>5 DEF Phases
<1>3. Story'
  BY DEF IInv, Typed, Story, Phases, TypeOK, Trees, Owns, Budgets,
     SignalTaken, SignalSent, TreeCleaned, GuardPhase, LeaderPhase,
     PlatformPhase, MaySignalGroup, TreeIsGone, ResumeThread
<1>4. Handed'
  BY DEF IInv, Typed, Handed, Phases, TypeOK, Trees, Owns, Budgets,
     HandlesKept, JobKept, GuardPhase, PlatformPhase, Opened, LeftEarly,
     LeaderPhase, JobEmpty, ResumeThread
<1>. QED  BY <1>1, <1>2, <1>3, <1>4 DEF IInv

LEMMA CloseThreadKeeps ==
  ASSUME IInv, CloseThread
  PROVE  IInv'
<1>1. Typed'
  BY BoundsAssumption DEF IInv, Typed, Phases, TypeOK, ForksBounded, Owns,
     Budgets, Trees, Places, CloseThread, NoFault, Fault
<1>2. Phases'
  BY DEF IInv, Typed, Phases, TypeOK, Owns, Budgets, GuardPhase, MaskPhase,
     PlatformPhase, LeaderPhase, NeverAstray, CloseThread
<1>3. Story'
  BY DEF IInv, Typed, Story, Phases, TypeOK, Owns, Budgets, SignalTaken,
     SignalSent, TreeCleaned, GuardPhase, LeaderPhase, PlatformPhase,
     MaySignalGroup, TreeIsGone, CloseThread
<1>4. Handed'
  BY DEF IInv, Typed, Handed, Phases, TypeOK, Owns, Budgets, HandlesKept,
     JobKept, GuardPhase, PlatformPhase, Opened, LeftEarly, LeaderPhase,
     JobEmpty, CloseThread
<1>. QED  BY <1>1, <1>2, <1>3, <1>4 DEF IInv

LEMMA RollbackStartKeeps ==
  ASSUME IInv, RollbackStart
  PROVE  IInv'
<1>1. Typed'
  BY ClosesHandles, BoundsAssumption DEF IInv, Typed, Phases, TypeOK,
     ForksBounded, Trees, Owns, Budgets, Places, RollbackStart, KilledByClose
<1>2. Phases'
  BY ClosesHandles DEF IInv, Typed, Phases, TypeOK, Trees, Owns, Budgets,
     GuardPhase, MaskPhase, PlatformPhase, LeaderPhase, NeverAstray,
     RollbackStart, KilledByClose
<1>3. Story'
  <2>1. SignalTaken'
    BY ClosesHandles, SMTT(30) DEF IInv, Typed, Phases, Handed, Story,
       TypeOK, Trees, Owns, Budgets, SignalTaken, GuardPhase, LeaderPhase,
       PlatformPhase, JobKept, TreeCleaned, JobEmpty, Guards, RollbackStart,
       KilledByClose
  <2>2. SignalSent'
    BY ClosesHandles, SMTT(30) DEF IInv, Typed, Phases, Handed, Story,
       TypeOK, Trees, Owns, Budgets, SignalSent, SignalTaken, GuardPhase,
       LeaderPhase, PlatformPhase, MaySignalGroup, JobKept, TreeCleaned,
       JobEmpty, Guards, RollbackStart, KilledByClose
  <2>3. TreeCleaned'
    BY ClosesHandles, SMTT(30) DEF IInv, Typed, Phases, Handed, Story,
       TypeOK, Trees, Owns, Budgets, TreeCleaned, SignalTaken, GuardPhase,
       LeaderPhase, PlatformPhase, TreeIsGone, JobKept, JobEmpty, Guards,
       RollbackStart, KilledByClose
  <2>. QED
    BY <2>1, <2>2, <2>3 DEF Story
<1>4. Handed'
  BY ClosesHandles DEF IInv, Typed, Handed, Phases, TypeOK, Trees, Owns,
     Budgets, HandlesKept, JobKept, GuardPhase, PlatformPhase, Opened,
     LeftEarly, LeaderPhase, JobEmpty, RollbackStart, KilledByClose
<1>. QED  BY <1>1, <1>2, <1>3, <1>4 DEF IInv

-----------------------------------------------------------------------------
(* The child of Windows: cleaning the job.                                 *)

LEMMA CheckJobKeeps ==
  ASSUME IInv, CheckJob
  PROVE  IInv'
<1>1. Typed'
  BY BoundsAssumption DEF IInv, Typed, Phases, TypeOK, ForksBounded, Budgets,
     Trees, Places, CheckJob, NoFault, Fault, Returned, Raised
<1>2. Phases'
  BY DEF IInv, Typed, Phases, TypeOK, Budgets, GuardPhase, MaskPhase,
     PlatformPhase, LeaderPhase, NeverAstray, CheckJob, Returned, Raised
<1>3. Story'
  <2>1. SignalTaken'
    BY SMTT(30) DEF IInv, Typed, Phases, Handed, Story, TypeOK, Budgets,
       SignalTaken, GuardPhase, LeaderPhase, PlatformPhase, JobKept,
       TreeCleaned, JobEmpty, Guards, Trees, Owns, CheckJob, Returned,
       Raised
  <2>2. SignalSent'
    BY SMTT(30) DEF IInv, Typed, Phases, Handed, Story, TypeOK, Budgets,
       SignalSent, SignalTaken, GuardPhase, LeaderPhase, PlatformPhase,
       MaySignalGroup, JobKept, TreeCleaned, JobEmpty, Guards, Trees, Owns,
       CheckJob, Returned, Raised
  <2>3. TreeCleaned'
    BY SMTT(30) DEF IInv, Typed, Phases, Handed, Story, TypeOK, Budgets,
       TreeCleaned, SignalTaken, GuardPhase, LeaderPhase, PlatformPhase,
       TreeIsGone, JobKept, JobEmpty, Guards, Trees, Owns, CheckJob,
       Returned, Raised
  <2>. QED
    BY <2>1, <2>2, <2>3 DEF Story
<1>4. Handed'
  BY DEF IInv, Typed, Handed, Phases, TypeOK, Budgets, HandlesKept, JobKept,
     GuardPhase, PlatformPhase, Opened, LeftEarly, LeaderPhase, JobEmpty,
     CheckJob, Returned, Raised
<1>. QED  BY <1>1, <1>2, <1>3, <1>4 DEF IInv

LEMMA SignalJobKeeps ==
  ASSUME IInv, SignalJob
  PROVE  IInv'
<1>1. Typed'
  BY Terminates, Breaks, BoundsAssumption DEF IInv, Typed, Phases, TypeOK,
     ForksBounded, Trees, Budgets, Places, SignalJob, Raised, NoFault, Fault,
     Owns, Calls, LeaderPhase
<1>2. Phases'
  BY Terminates, Breaks DEF IInv, Typed, Phases, TypeOK, Trees, Budgets,
     GuardPhase, MaskPhase, PlatformPhase, LeaderPhase, NeverAstray,
     SignalJob, Raised, Owns, Calls
<1>3. Story'
  BY Terminates, Breaks DEF IInv, Typed, Story, Phases, TypeOK, Trees,
     Budgets, SignalTaken, SignalSent, TreeCleaned, GuardPhase, LeaderPhase,
     PlatformPhase, MaySignalGroup, TreeIsGone, SignalJob, Raised, Owns, Calls
<1>4. Handed'
  BY Terminates, Breaks DEF IInv, Typed, Handed, Phases, TypeOK, Trees,
     Budgets, HandlesKept, JobKept, GuardPhase, PlatformPhase, Opened,
     LeftEarly, LeaderPhase, JobEmpty, SignalJob, Raised, Owns, Calls
<1>. QED  BY <1>1, <1>2, <1>3, <1>4 DEF IInv

LEMMA KillJobKeeps ==
  ASSUME IInv, KillJob
  PROVE  IInv'
<1>1. Typed'
  BY Terminates, BoundsAssumption DEF IInv, Typed, Phases, TypeOK,
     ForksBounded, Trees, Budgets, Places, KillJob, Raised, NoFault, Fault,
     Owns, Calls, LeaderPhase
<1>2. Phases'
  BY Terminates DEF IInv, Typed, Phases, TypeOK, Trees, Budgets, GuardPhase,
     MaskPhase, PlatformPhase, LeaderPhase, NeverAstray, KillJob, Raised,
     Owns, Calls
<1>3. Story'
  BY Terminates DEF IInv, Typed, Story, Phases, TypeOK, Trees, Budgets,
     SignalTaken, SignalSent, TreeCleaned, GuardPhase, LeaderPhase,
     PlatformPhase, MaySignalGroup, TreeIsGone, KillJob, Raised, Owns, Calls
<1>4. Handed'
  BY Terminates DEF IInv, Typed, Handed, Phases, TypeOK, Trees, Budgets,
     HandlesKept, JobKept, GuardPhase, PlatformPhase, Opened, LeftEarly,
     LeaderPhase, JobEmpty, KillJob, Raised, Owns, Calls
<1>. QED  BY <1>1, <1>2, <1>3, <1>4 DEF IInv

LEMMA AwaitJobKeeps ==
  ASSUME IInv, AwaitJob
  PROVE  IInv'
<1>1. Typed'
  BY BoundsAssumption DEF IInv, Typed, Phases, TypeOK, ForksBounded, Budgets,
     Trees, Places, AwaitJob, NoFault, Fault, Returned, Raised
<1>2. Phases'
  BY DEF IInv, Typed, Phases, TypeOK, Budgets, GuardPhase, MaskPhase,
     PlatformPhase, LeaderPhase, NeverAstray, AwaitJob, Returned, Raised
<1>3. Story'
  <2>1. SignalTaken'
    BY SMTT(30) DEF IInv, Typed, Phases, Handed, Story, TypeOK, Budgets,
       SignalTaken, GuardPhase, LeaderPhase, PlatformPhase, JobKept,
       TreeCleaned, JobEmpty, Guards, Trees, Owns, AwaitJob, Returned,
       Raised
  <2>2. SignalSent'
    BY SMTT(30) DEF IInv, Typed, Phases, Handed, Story, TypeOK, Budgets,
       SignalSent, SignalTaken, GuardPhase, LeaderPhase, PlatformPhase,
       MaySignalGroup, JobKept, TreeCleaned, JobEmpty, Guards, Trees, Owns,
       AwaitJob, Returned, Raised
  <2>3. TreeCleaned'
    BY SMTT(30) DEF IInv, Typed, Phases, Handed, Story, TypeOK, Budgets,
       TreeCleaned, SignalTaken, GuardPhase, LeaderPhase, PlatformPhase,
       TreeIsGone, JobKept, JobEmpty, Guards, Trees, Owns, AwaitJob,
       Returned, Raised
  <2>. QED
    BY <2>1, <2>2, <2>3 DEF Story
<1>4. Handed'
  BY DEF IInv, Typed, Handed, Phases, TypeOK, Budgets, HandlesKept, JobKept,
     GuardPhase, PlatformPhase, Opened, LeftEarly, LeaderPhase, JobEmpty,
     AwaitJob, Returned, Raised
<1>. QED  BY <1>1, <1>2, <1>3, <1>4 DEF IInv

-----------------------------------------------------------------------------
(* The clauses of _default_runner.                                         *)

LEMMA ReturnCodeKeeps ==
  ASSUME IInv, ReturnCode
  PROVE  IInv'
<1>1. Typed'
  BY DEF IInv, Typed, Phases, TypeOK, ForksBounded, Places, ReturnCode
<1>2. Phases'
  BY DEF IInv, Typed, Phases, TypeOK, GuardPhase, MaskPhase, PlatformPhase,
     LeaderPhase, NeverAstray, ReturnCode
<1>3. Story'
  BY DEF IInv, Typed, Story, Phases, TypeOK, SignalTaken, SignalSent,
     TreeCleaned, GuardPhase, LeaderPhase, PlatformPhase, MaySignalGroup,
     TreeIsGone, ReturnCode
<1>4. Handed'
  BY DEF IInv, Typed, Handed, Phases, TypeOK, HandlesKept, JobKept,
     GuardPhase, PlatformPhase, Opened, LeftEarly, LeaderPhase, JobEmpty,
     ReturnCode
<1>. QED  BY <1>1, <1>2, <1>3, <1>4 DEF IInv

LEMMA CleanUpKeeps ==
  ASSUME IInv, NEW p \in {"caught", "failing"}, CleanUp(p)
  PROVE  IInv'
<1>1. Typed'
  <2>1. pc' \in Places
    BY DEF IInv, Typed, TypeOK, Places, CleanUp, NoCall
  <2>2. guard' \in Guards
    BY DEF IInv, Typed, TypeOK, Guards, CleanUp, NoCall
  <2>3. call' \in Calls
    BY DEF IInv, Typed, TypeOK, Story, Calls, SignalTaken, Callers, CleanUp,
       NoCall
  <2>4. ForksBounded'
    BY DEF IInv, Typed, TypeOK, ForksBounded, Trees, Budgets, CleanUp,
       NoCall
  <2>. QED
    BY <2>1, <2>2, <2>3, <2>4 DEF IInv, Typed, TypeOK, CleanUp
<1>2. Phases'
  BY DEF IInv, Typed, Phases, TypeOK, Guards, Calls, GuardPhase, MaskPhase,
     PlatformPhase, LeaderPhase, NeverAstray, CleanUp, NoCall
<1>3. Story'
  BY DEF IInv, Typed, Story, Phases, TypeOK, Guards, Calls, SignalTaken,
     SignalSent, TreeCleaned, GuardPhase, LeaderPhase, PlatformPhase,
     MaySignalGroup, TreeIsGone, CleanUp, NoCall
<1>4. Handed'
  BY DEF IInv, Typed, Handed, Phases, TypeOK, Guards, Calls, HandlesKept,
     JobKept, GuardPhase, PlatformPhase, Opened, LeftEarly, LeaderPhase,
     JobEmpty, CleanUp, NoCall
<1>. QED  BY <1>1, <1>2, <1>3, <1>4 DEF IInv

LEMMA BeginFinallyKeeps ==
  ASSUME IInv, BeginFinally
  PROVE  IInv'
<1>1. Typed'
  BY DEF IInv, Typed, Phases, TypeOK, ForksBounded, Guards, Places,
     BeginFinally
<1>2. Phases'
  BY DEF IInv, Typed, Phases, TypeOK, Guards, GuardPhase, MaskPhase,
     PlatformPhase, LeaderPhase, NeverAstray, BeginFinally
<1>3. Story'
  BY DEF IInv, Typed, Story, Phases, TypeOK, Guards, SignalTaken, SignalSent,
     TreeCleaned, GuardPhase, LeaderPhase, PlatformPhase, MaySignalGroup,
     TreeIsGone, BeginFinally
<1>4. Handed'
  BY DEF IInv, Typed, Handed, Phases, TypeOK, Guards, HandlesKept, JobKept,
     GuardPhase, PlatformPhase, Opened, LeftEarly, LeaderPhase, JobEmpty,
     BeginFinally
<1>. QED  BY <1>1, <1>2, <1>3, <1>4 DEF IInv

LEMMA EnsureClosedKeeps ==
  ASSUME IInv, EnsureClosed
  PROVE  IInv'
<1>1. Typed'
  <2>1. pc' \in Places
    BY DEF IInv, Typed, TypeOK, Places, EnsureClosed, NoCall
  <2>2. call' \in Calls
    BY DEF IInv, Typed, TypeOK, Story, Calls, SignalTaken, Callers,
       EnsureClosed, NoCall
  <2>3. ForksBounded'
    BY DEF IInv, Typed, TypeOK, ForksBounded, Trees, Budgets, EnsureClosed,
       NoCall
  <2>. QED
    BY <2>1, <2>2, <2>3 DEF IInv, Typed, TypeOK, EnsureClosed
<1>2. Phases'
  BY DEF IInv, Typed, Phases, TypeOK, Calls, GuardPhase, MaskPhase,
     PlatformPhase, LeaderPhase, NeverAstray, EnsureClosed, NoCall
<1>3. Story'
  BY DEF IInv, Typed, Story, Phases, TypeOK, Calls, SignalTaken, SignalSent,
     TreeCleaned, GuardPhase, LeaderPhase, PlatformPhase, MaySignalGroup,
     TreeIsGone, EnsureClosed, NoCall
<1>4. Handed'
  BY DEF IInv, Typed, Handed, Phases, TypeOK, Calls, HandlesKept, JobKept,
     GuardPhase, PlatformPhase, Opened, LeftEarly, LeaderPhase, JobEmpty,
     EnsureClosed, NoCall
<1>. QED  BY <1>1, <1>2, <1>3, <1>4 DEF IInv

LEMMA CloseChildKeeps ==
  ASSUME IInv, CloseChild
  PROVE  IInv'
<1>1. Typed'
  BY ClosesHandles, BoundsAssumption DEF IInv, Typed, Phases, TypeOK,
     ForksBounded, Trees, Owns, Budgets, Places, CloseChild, KilledByClose
<1>2. Phases'
  BY ClosesHandles DEF IInv, Typed, Phases, TypeOK, Trees, Owns, Budgets,
     GuardPhase, MaskPhase, PlatformPhase, LeaderPhase, NeverAstray,
     CloseChild, KilledByClose
<1>3. Story'
  BY ClosesHandles DEF IInv, Typed, Story, Phases, TypeOK, Trees, Owns,
     Budgets, SignalTaken, SignalSent, TreeCleaned, GuardPhase, LeaderPhase,
     PlatformPhase, MaySignalGroup, TreeIsGone, CloseChild, KilledByClose
<1>4. Handed'
  BY ClosesHandles DEF IInv, Typed, Handed, Phases, TypeOK, Trees, Owns,
     Budgets, HandlesKept, JobKept, GuardPhase, PlatformPhase, Opened,
     LeftEarly, LeaderPhase, JobEmpty, CloseChild, KilledByClose
<1>. QED  BY <1>1, <1>2, <1>3, <1>4 DEF IInv

-----------------------------------------------------------------------------
(* The world.                                                              *)

LEMMA ArriveKeeps ==
  ASSUME IInv, NEW s \in Managed, Arrive(s)
  PROVE  IInv'
<1>1. Typed'
  BY BoundsAssumption DEF IInv, Typed, Phases, TypeOK, ForksBounded, Masks,
     Budgets, Trees, Arrive
<1>2. Phases'
  BY DEF IInv, Typed, Phases, TypeOK, Masks, Budgets, GuardPhase, MaskPhase,
     PlatformPhase, LeaderPhase, NeverAstray, Arrive
<1>3. Story'
  BY DEF IInv, Typed, Story, Phases, TypeOK, Masks, Budgets, SignalTaken,
     SignalSent, TreeCleaned, GuardPhase, LeaderPhase, PlatformPhase,
     MaySignalGroup, TreeIsGone, Arrive
<1>4. Handed'
  BY DEF IInv, Typed, Handed, Phases, TypeOK, Masks, Budgets, HandlesKept,
     JobKept, GuardPhase, PlatformPhase, Opened, LeftEarly, LeaderPhase,
     JobEmpty, Arrive
<1>. QED  BY <1>1, <1>2, <1>3, <1>4 DEF IInv

LEMMA ForkKeeps ==
  ASSUME IInv, Fork
  PROVE  IInv'
<1>1. Typed'
  BY BoundsAssumption DEF IInv, Typed, Phases, TypeOK, ForksBounded, Trees,
     Budgets, Fork
<1>2. Phases'
  BY DEF IInv, Typed, Phases, TypeOK, Trees, Budgets, GuardPhase, MaskPhase,
     PlatformPhase, LeaderPhase, NeverAstray, Fork
<1>3. Story'
  BY DEF IInv, Typed, Story, Phases, TypeOK, Trees, Budgets, SignalTaken,
     SignalSent, TreeCleaned, GuardPhase, LeaderPhase, PlatformPhase,
     MaySignalGroup, TreeIsGone, Fork
<1>4. Handed'
  BY DEF IInv, Typed, Handed, Phases, TypeOK, Trees, Budgets, HandlesKept,
     JobKept, GuardPhase, PlatformPhase, Opened, LeftEarly, LeaderPhase,
     JobEmpty, Fork
<1>. QED  BY <1>1, <1>2, <1>3, <1>4 DEF IInv

LEMMA LeaderExitsKeeps ==
  ASSUME IInv, LeaderExits
  PROVE  IInv'
<1>1. Typed'
  BY BoundsAssumption DEF IInv, Typed, Phases, TypeOK, ForksBounded, Trees,
     Budgets, LeaderExits
<1>2. Phases'
  BY DEF IInv, Typed, Phases, TypeOK, Trees, GuardPhase, MaskPhase,
     PlatformPhase, LeaderPhase, NeverAstray, LeaderExits
<1>3. Story'
  BY DEF IInv, Typed, Story, Phases, TypeOK, Trees, SignalTaken, SignalSent,
     TreeCleaned, GuardPhase, LeaderPhase, PlatformPhase, MaySignalGroup,
     TreeIsGone, LeaderExits
<1>4. Handed'
  BY DEF IInv, Typed, Handed, Phases, TypeOK, Trees, HandlesKept, JobKept,
     GuardPhase, PlatformPhase, Opened, LeftEarly, LeaderPhase, JobEmpty,
     LeaderExits
<1>. QED  BY <1>1, <1>2, <1>3, <1>4 DEF IInv

LEMMA OtherExitsKeeps ==
  ASSUME IInv, OtherExits
  PROVE  IInv'
<1>1. Typed'
  BY BoundsAssumption DEF IInv, Typed, Phases, TypeOK, ForksBounded, Trees,
     Budgets, OtherExits
<1>2. Phases'
  BY DEF IInv, Typed, Phases, TypeOK, Trees, GuardPhase, MaskPhase,
     PlatformPhase, LeaderPhase, NeverAstray, OtherExits
<1>3. Story'
  BY DEF IInv, Typed, Story, Phases, TypeOK, Trees, SignalTaken, SignalSent,
     TreeCleaned, GuardPhase, LeaderPhase, PlatformPhase, MaySignalGroup,
     TreeIsGone, OtherExits
<1>4. Handed'
  BY DEF IInv, Typed, Handed, Phases, TypeOK, Trees, HandlesKept, JobKept,
     GuardPhase, PlatformPhase, Opened, LeftEarly, LeaderPhase, JobEmpty,
     OtherExits
<1>. QED  BY <1>1, <1>2, <1>3, <1>4 DEF IInv

-----------------------------------------------------------------------------
(* The handler of a signal.                                                *)

LEMMA KeepPendingKeeps ==
  ASSUME IInv, NEW s \in Managed, Handle(s), KeepPending(s)
  PROVE  IInv'
<1>1. Typed'
  <2>1. guard' \in Guards
    BY DEF IInv, Typed, TypeOK, Guards, KeepPending
  <2>2. mask' \in Masks
    BY DEF IInv, Typed, TypeOK, Masks, Handle
  <2>3. accepted' = accepted \/ accepted' = [signum |-> s, late |-> FALSE]
    BY DEF KeepPending
  <2>4. accepted' \in [signum : Managed \cup {None}, late : BOOLEAN]
    <3>1. CASE accepted' = accepted
      BY <3>1 DEF IInv, Typed, TypeOK
    <3>2. CASE accepted' = [signum |-> s, late |-> FALSE]
      BY <3>2
    <3>. QED  BY <2>3, <3>1, <3>2
  <2>. QED
    BY <2>1, <2>2, <2>4 DEF IInv, Typed, TypeOK, ForksBounded, Handle, KeepPending
<1>2. Phases'
  BY DEF IInv, Typed, TypeOK, Guards, Masks, Phases, GuardPhase, MaskPhase,
     PlatformPhase, LeaderPhase, NeverAstray, Handle, KeepPending
<1>3. Story'
  BY DEF IInv, Typed, TypeOK, Guards, Phases, GuardPhase, LeaderPhase, Story,
     SignalTaken, SignalSent, TreeCleaned, MaySignalGroup, TreeIsGone, Handle, KeepPending
<1>4. Handed'
  BY DEF IInv, Typed, TypeOK, Guards, Handed, HandlesKept, JobKept, Opened,
     LeftEarly, JobEmpty, Handle, KeepPending
<1>. QED  BY <1>1, <1>2, <1>3, <1>4 DEF IInv

LEMMA InterruptKeeps ==
  ASSUME IInv, NEW s \in Managed, Handle(s), Interrupt(s)
  PROVE  IInv'
<1>0. PICK n \in Managed : Unwinds(n)
  BY DEF IInv, Typed, TypeOK, Guards, Interrupt
<1>1. Typed'
  <2>1. guard' \in Guards
    BY DEF IInv, Typed, TypeOK, Guards, Interrupt
  <2>2. mask' \in Masks
    BY DEF IInv, Typed, TypeOK, Masks, Handle
  <2>3. own.reaped \in BOOLEAN /\ guard.pending \in Managed \cup {None}
    BY DEF IInv, Typed, TypeOK, Owns, Guards
  <2>4. accepted' \in [signum : Managed \cup {None}, late : BOOLEAN]
    BY <2>3 DEF IInv, Typed, TypeOK, Interrupt
  <2>5. call' \in Calls
    BY <1>0 DEF IInv, Typed, TypeOK, Calls, Unwinds
  <2>6. pc' \in Places
    BY <1>0 DEF IInv, Typed, TypeOK, Places, Unwinds
  <2>7. outcome' \in Managed \cup {None, "exit", "error", "escaped"}
    BY <1>0 DEF IInv, Typed, TypeOK, Unwinds
  <2>. QED
    BY <2>1, <2>2, <2>4, <2>5, <2>6, <2>7
    DEF IInv, Typed, TypeOK, ForksBounded, Handle, Interrupt
<1>2. Phases'
  BY DEF IInv, Typed, TypeOK, Guards, Masks, Calls, Phases, GuardPhase, MaskPhase,
     PlatformPhase, LeaderPhase, NeverAstray, Handle, Interrupt, Unwinds
<1>3. Story'
  <2>1. SignalTaken'
    BY DEF IInv, Typed, TypeOK, Guards, Masks, Calls, Phases, GuardPhase, LeaderPhase,
       PlatformPhase, Story, SignalTaken, Handle, Interrupt, Unwinds
  <2>2. SignalSent'
    BY DEF IInv, Typed, TypeOK, Guards, Masks, Calls, Phases, GuardPhase, LeaderPhase,
       PlatformPhase, Story, SignalTaken, SignalSent, MaySignalGroup, Handle, Interrupt, Unwinds
  <2>3. TreeCleaned'
    BY DEF IInv, Typed, TypeOK, Guards, Masks, Calls, Phases, GuardPhase, LeaderPhase,
       PlatformPhase, Story, SignalTaken, TreeCleaned, TreeIsGone, Handle, Interrupt, Unwinds
  <2>. QED  BY <2>1, <2>2, <2>3 DEF Story
<1>4. Handed'
  BY DEF IInv, Typed, TypeOK, Guards, Calls, Phases, GuardPhase, PlatformPhase, LeaderPhase,
     Story, TreeCleaned, Handed, HandlesKept, JobKept, Opened, LeftEarly, JobEmpty,
     Handle, Interrupt, Unwinds
<1>. QED  BY <1>1, <1>2, <1>3, <1>4 DEF IInv

\* A signal that is forwarded changes the tree and the guard as little as this.
LEMMA Forwards ==
  ASSUME IInv, NEW s \in Managed, ForwardNow(s)
  PROVE  /\ tree' \in Trees /\ tree'.leader = tree.leader /\ tree'.others = tree.others
         /\ tree.killed => tree'.killed
         /\ tree'.astray = tree.astray /\ tree.got \subseteq tree'.got
         /\ guard' \in Guards /\ guard'.state = guard.state /\ guard'.child = guard.child
         /\ guard'.pending = guard.pending /\ guard'.installed = guard.installed
         /\ left' \in Budgets /\ left'.forks = left.forks
<1>1. tree \in Trees /\ own \in Owns /\ guard \in Guards /\ left \in Budgets
  BY DEF IInv, Typed, TypeOK
<1>2. left' \in Budgets /\ left'.forks = left.forks
  BY <1>1, BoundsAssumption DEF ForwardNow, NoFault, Fault, Budgets
<1>3. /\ guard' \in Guards /\ guard'.state = guard.state /\ guard'.child = guard.child
      /\ guard'.pending = guard.pending /\ guard'.installed = guard.installed
  BY <1>1 DEF ForwardNow, Guards
<1>4. \/ UNCHANGED tree \/ SignalGroup(s) \/ CtrlBreak \/ TerminateJob(s)
  BY DEF ForwardNow
<1>. QED
  BY <1>1, <1>2, <1>3, <1>4, SignalsGroup, Breaks, Terminates DEF IInv, Phases, LeaderPhase

LEMMA ForwardNowKeeps ==
  ASSUME IInv, NEW s \in Managed, Handle(s), ForwardNow(s)
  PROVE  IInv'
<1>1. Typed'
  <2>1. mask' \in Masks
    BY DEF IInv, Typed, TypeOK, Masks, Handle
  <2>. QED
    BY <2>1, Forwards DEF IInv, Typed, TypeOK, ForksBounded, Handle, ForwardNow
<1>2. Phases'
  BY Forwards DEF IInv, Typed, TypeOK, Masks, Phases, GuardPhase, MaskPhase,
     PlatformPhase, LeaderPhase, NeverAstray, Handle, ForwardNow
<1>3. Story'
  BY Forwards DEF IInv, Story, SignalTaken, SignalSent, TreeCleaned, MaySignalGroup,
     TreeIsGone, Handle, ForwardNow
<1>4. Handed'
  BY Forwards DEF IInv, Phases, GuardPhase, Handed, HandlesKept, JobKept, Opened,
     LeftEarly, JobEmpty, Handle, ForwardNow
<1>. QED  BY <1>1, <1>2, <1>3, <1>4 DEF IInv

LEMMA HandleKeeps ==
  ASSUME IInv, NEW s \in Managed, Handle(s)
  PROVE  IInv'
BY KeepPendingKeeps, InterruptKeeps, ForwardNowKeeps DEF Handle

-----------------------------------------------------------------------------
(* The invariant, and what follows from it.                                *)

LEMMA InitIInv == Init => IInv
<1>. SUFFICES ASSUME Init PROVE IInv
  OBVIOUS
<1>0. PICK b \in BOOLEAN :
        mask = [original |-> b, blocked |-> b, held |-> {}, tripped |-> {}]
  <2>1. \A b \in {FALSE, platform = "posix"} : b \in BOOLEAN
    OBVIOUS
  <2>. QED  BY <2>1 DEF Init
<1>1. Typed
  <2>1. guard \in Guards /\ own \in Owns /\ call \in Calls
    BY DEF Init, Guards, Owns, Calls, NoCall, Callers, Handles
  <2>2. tree \in Trees /\ left \in Budgets /\ tree.others + left.forks <= MaxForks
    BY BoundsAssumption DEF Init, Trees, Budgets
  <2>3. mask \in Masks
    BY <1>0 DEF Masks
  <2>. QED
    BY <2>1, <2>2, <2>3 DEF Init, Typed, TypeOK, ForksBounded, Places
<1>2. Phases
  BY <1>0 DEF Init, NoCall, Phases, GuardPhase, MaskPhase, PlatformPhase, LeaderPhase, NeverAstray
<1>3. Story
  BY DEF Init, NoCall, Story, SignalTaken, SignalSent, TreeCleaned
<1>4. Handed
  BY DEF Init, NoCall, Handed, HandlesKept, JobKept, Opened, LeftEarly, JobEmpty
<1>. QED  BY <1>1, <1>2, <1>3, <1>4 DEF IInv

LEMMA StutterKeeps == IInv /\ UNCHANGED vars => IInv'
BY DEF vars, IInv, Typed, TypeOK, ForksBounded, Phases, GuardPhase, MaskPhase, PlatformPhase,
   LeaderPhase, NeverAstray, Story, SignalTaken, SignalSent, TreeCleaned, TreeIsGone,
   MaySignalGroup, Handed, HandlesKept, JobKept, Opened, LeftEarly, JobEmpty

LEMMA RunnerKeeps == IInv /\ Runner => IInv'
<1>. SUFFICES ASSUME IInv, Runner PROVE IInv'
  OBVIOUS
<1>1. CASE EnterGuard \/ EntryFails \/ UnblockEntry \/ BindChild \/ ArmGuard \/
          ConsumePending \/ ExitGuard \/ LeaveGuard
  BY <1>1, EnterGuardKeeps, EntryFailsKeeps, UnblockEntryKeeps, BindChildKeeps,
     ArmGuardKeeps, ConsumePendingKeeps, ExitGuardKeeps, LeaveGuardKeeps
<1>2. CASE SpawnPosix \/ WaitChild \/ CleanAgain \/ CleanObserve \/ ScanGroup \/
          SignalTree \/ AwaitSoftly \/ KillTree \/ AwaitHard \/ BlockForReap
          \/ Reap \/ Verdict
  BY <1>2, SpawnPosixKeeps, WaitChildKeeps, CleanAgainKeeps, CleanObserveKeeps,
     ScanGroupKeeps, SignalTreeKeeps, AwaitSoftlyKeeps, KillTreeKeeps,
     AwaitHardKeeps, BlockForReapKeeps, ReapKeeps, VerdictKeeps
<1>3. CASE CreateJob \/ SetKillOnClose \/ OpenStdio \/ CreateAttributes \/
          CreateSuspended \/ TidyLaunch \/ AbortSuspended \/ ResumeThread \/
          CloseThread \/ RollbackStart
  BY <1>3, CreateJobKeeps, SetKillOnCloseKeeps, OpenStdioKeeps,
     CreateAttributesKeeps, CreateSuspendedKeeps, TidyLaunchKeeps,
     AbortSuspendedKeeps, ResumeThreadKeeps, CloseThreadKeeps, RollbackStartKeeps
<1>4. CASE CheckJob \/ SignalJob \/ KillJob \/ AwaitJob
  BY <1>4, CheckJobKeeps, SignalJobKeeps, KillJobKeeps, AwaitJobKeeps
<1>5. CASE ReturnCode \/ BeginFinally \/ EnsureClosed \/ CloseChild
  BY <1>5, ReturnCodeKeeps, BeginFinallyKeeps, EnsureClosedKeeps, CloseChildKeeps
<1>6. CASE \E s \in Managed : InstallHandler(s) \/ RestoreHandler(s) \/ Handle(s)
  BY <1>6, InstallHandlerKeeps, RestoreHandlerKeeps, HandleKeeps
<1>7. CASE \E p \in {"caught", "failing"} : CleanUp(p)
  BY <1>7, CleanUpKeeps
<1>. QED  BY <1>1, <1>2, <1>3, <1>4, <1>5, <1>6, <1>7 DEF Runner

LEMMA NextKeeps == IInv /\ [Next]_vars => IInv'
BY RunnerKeeps, ArriveKeeps, ForkKeeps, LeaderExitsKeeps, OtherExitsKeeps, StutterKeeps
DEF Next

LEMMA Invariance == Spec => []IInv
<1>. QED  BY InitIInv, NextKeeps, PTL DEF Spec

(* Type correctness, with the bound on the processes of the tree.          *)
THEOREM SupervisorTypeInvariant == Spec => []TypeOK
<1>1. IInv => TypeOK
  BY DEF IInv, Typed
<1>. QED  BY <1>1, Invariance, PTL

(* No signal goes to the group of a leader that was reaped, whatever number *)
(* of signals, forks and failing system calls there are: MaySignalGroup is  *)
(* withdrawn in the step that reaps the leader (process_supervisor.py        *)
(* _wait_and_mark_direct_reaped, _signal_group).                            *)
THEOREM NoSignalGoesAstray == Spec => []NeverAstray
<1>1. IInv => NeverAstray
  BY DEF IInv, Phases
<1>. QED  BY <1>1, Invariance, PTL

(* The first signal decides what the command line returns, and the child    *)
(* got that signal or had been reaped before (ForwardingSignalGuard         *)
(* _handle_signal, attach; cli.py _default_runner).                         *)
THEOREM FirstSignalIsKept == Spec => []FirstSignalDecides
<1>1. IInv => FirstSignalDecides
  BY DEF IInv, Story, SignalTaken, SignalSent, FirstSignalDecides
<1>. QED  BY <1>1, Invariance, PTL

(* When the command line returns it leaves no process of the child's tree,  *)
(* no handle, no handler and no changed mask, on either platform (ensure    *)
(* closed and close of the two children, ForwardingSignalGuard __exit__).   *)
THEOREM NothingIsLeft == Spec => []NothingLeft
<1>1. IInv => TreeGone
  BY DEF IInv, Story, TreeCleaned, TreeIsGone, TreeGone
<1>2. IInv => NoHandleLeaks
  BY DEF IInv, Phases, PlatformPhase, Handed, HandlesKept, JobKept, NoHandleLeaks
<1>3. IInv => GuardKept
  BY DEF IInv, Phases, MaskPhase, GuardKept
<1>. QED  BY <1>1, <1>2, <1>3, Invariance, PTL DEF NothingLeft

=============================================================================
