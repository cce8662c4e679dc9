----------------------------- MODULE SecureTemp -----------------------------
(***************************************************************************)
(* The private temporary files and directories of secure_temp.py: commands *)
(* create them in a directory that all of them share, prove that nobody    *)
(* else has access, use them and remove them; sweeps remove what commands  *)
(* left behind.  Every action is one look at, or one change of, the file   *)
(* system; between any two of them another program may exchange, move,     *)
(* remove or open up what a name stands for.                               *)
(*                                                                         *)
(* An object is its identity (st_dev, st_ino).  That an identity is given  *)
(* to another object under the same random name is left out.               *)
(***************************************************************************)
EXTENDS Naturals

CONSTANTS
  Artifacts,    \* commands in private_artifact
  Directories,  \* commands in private_directory
  Makers,       \* commands in create_private_directory
  Sweepers,     \* commands in sweep_expired_artifacts
  Objects,      \* identities, positive numbers
  Together,     \* the commands that may run at the same time
  MaxTrouble    \* bound on failed system calls, killed commands and what
                \* other programs do

Creators == Artifacts \cup Directories \cup Makers
Procs    == Creators \cup Sweepers

ASSUME ConstantsAssumption ==
  /\ Artifacts \cap Directories = {} /\ Creators \cap Sweepers = {}
  /\ (Artifacts \cup Directories) \cap Makers = {}
  /\ Procs \cap {"none", "moved", "other", "environment"} = {}
  /\ Objects \subseteq Nat \ {0}
  /\ Together \subseteq SUBSET Procs /\ MaxTrouble \in Nat

VARIABLES
  system,     \* "posix" or "nt"
  clock,      \* 0, or 1 when what was written at 0 has expired
  objs,       \* the file system
  at,         \* where a command is
  mine,       \* its directory and its file as it made them
  expected,   \* and as it found them when it first looked at them
  fd,         \* its open descriptor
  todo,       \* a sweep: the names that are left, the one at hand, the cutoff
  faulty,     \* commands whose system calls failed or that were killed
  trouble     \* how much there was

files == <<system, clock, objs>>
vars  == <<files, at, mine, expected, fd, todo, faulty, trouble>>

-----------------------------------------------------------------------------
(* Names and objects.  Nobody else knows a random name before it is used;  *)
(* the name of a quarantine is never listed by a sweep.                    *)

Nobody == 0
Root   == 0
Candidate(p)     == [by |-> "none", of |-> p]
Environment      == [by |-> "none", of |-> "environment"]
Quarantine(p, n) == [by |-> p, of |-> n.of]
MovedAway(o)     == [by |-> "moved", of |-> o]

Listed == {Environment} \cup {Candidate(p) : p \in Procs}
Names  == Listed \cup {Quarantine(p, n) : p \in Procs, n \in Listed}
                 \cup {MovedAway(o) : o \in Objects}

Things == [kind : {"none", "file", "dir", "link"}, dir : Objects \cup {Root}, name : Names,
           access : {"own", "inherited", "open"}, owner : {"user", "another"}, mtime : 0..1,
           born : 0..1, by : Procs \cup {"other"}, filled : BOOLEAN, touched : BOOLEAN]

Gone == [kind |-> "none", dir |-> Root, name |-> Environment, access |-> "open", owner |-> "user",
         mtime |-> 0, born |-> 0, by |-> "other", filled |-> FALSE, touched |-> FALSE]

Exists(o) == o # Nobody /\ objs[o].kind # "none"
Held      == UNION {{mine[q].dir, mine[q].file, expected[q].dir, expected[q].file} : q \in Procs}
Unused    == {o \in Objects : objs[o].kind = "none" /\ o \notin Held}
Fresh     == {o \in Unused : \A c \in Unused : o <= c}

\* The object that a name in a directory stands for.
Named(d, n) ==
  IF \E o \in Objects : Exists(o) /\ objs[o].dir = d /\ objs[o].name = n
    THEN CHOOSE o \in Objects : Exists(o) /\ objs[o].dir = d /\ objs[o].name = n
    ELSE Nobody

Inside(d) == {o \in Objects : Exists(o) /\ objs[o].dir = d}

\* The artifact of Windows lies in a private directory of its own.
Nested(p) == p \in Artifacts /\ system = "nt"
FileNamed(p, n) ==
  IF ~Nested(p) THEN Named(Root, n)
  ELSE LET d == Named(Root, Candidate(p))
       IN  IF d # Nobody /\ objs[d].kind = "dir" THEN Named(d, n) ELSE Nobody
FileName(p) == IF Nested(p) THEN Environment ELSE Candidate(p)

\* The mode 0600 or 0700 of the user; on Windows the protected list of the
\* user and the system.
Private(o) == objs[o].access = "own" /\ objs[o].owner = "user"

\* Mutant: the identity is not compared.
IsOfKind(o, kind, which) == o # Nobody /\ objs[o].kind = kind /\ Private(o)

Is(o, kind, which) == o # Nobody /\ o = which /\ objs[o].kind = kind /\ Private(o)

-----------------------------------------------------------------------------
\* The steps of a command, each at a system call.
Making   == {"mkdir", "identity", "dacl", "openDir", "chmodDir", "verifyOpenDir", "verifyDir"}
Filling  == {"open", "fileIdentity", "write", "protect", "verifyOpen", "verifyClosed"}
Removing == {"move", "check", "delete", "moveDir", "checkDir", "checkTree", "deleteDir"}
Deleting == Removing \ {"move", "moveDir"}
Ended    == {"done", "killed"}

Init ==
  /\ system \in {"posix", "nt"} /\ clock = 0
  /\ objs = [o \in Objects |-> Gone]
  /\ \E active \in Together :
       at = [p \in Procs |-> IF p \notin active THEN "done"
                             ELSE IF p \in Sweepers THEN "list"
                             ELSE IF p \in Artifacts /\ system = "posix" THEN "open" ELSE "mkdir"]
  /\ mine = [p \in Procs |-> [dir |-> Nobody, file |-> Nobody]]
  /\ expected = mine /\ fd = [p \in Procs |-> Nobody]
  /\ todo = [p \in Procs |-> [names |-> {}, name |-> Environment, cutoff |-> 0]]
  /\ faulty = {} /\ trouble = 0

Goto(p, place) == at' = [at EXCEPT ![p] = place]
NoFault == UNCHANGED <<faulty, trouble>>
Keep    == UNCHANGED <<mine, expected, fd, todo>> /\ NoFault
Passes(p, place) == Goto(p, place) /\ UNCHANGED files /\ Keep

Change(o, entry) == objs' = [objs EXCEPT ![o] = entry] /\ UNCHANGED <<system, clock>>
\* What is done through a descriptor to a removed object is seen by nobody.
Through(p, entry) == Change(fd[p], IF Exists(fd[p]) THEN entry ELSE Gone)
Find(p, what)     == expected' = [expected EXCEPT ![p] = what]

Close(p, place) == /\ Goto(p, place) /\ fd' = [fd EXCEPT ![p] = Nobody]
                   /\ UNCHANGED <<files, mine, expected, todo>> /\ NoFault

\* Mutant: the descriptor stays open.
UndoOpen(p) == Goto(p, IF expected[p].file # Nobody THEN "move" ELSE "moveDir") /\ UNCHANGED files /\ Keep

\* Where a command goes when the object it made cannot be trusted.
Undo(p) == Close(p, IF expected[p].file # Nobody THEN "move" ELSE "moveDir")

Proves(p, condition, place) == (condition /\ Passes(p, place)) \/ (~condition /\ Undo(p))

-----------------------------------------------------------------------------
(* A private directory.                                                    *)

Mkdir(p) ==
  /\ at[p] = "mkdir" /\ Named(Root, Candidate(p)) = Nobody
  /\ \E o \in Fresh :
       /\ Change(o, [Gone EXCEPT !.kind = "dir", !.name = Candidate(p), !.access = "own",
                                 !.mtime = clock, !.born = clock, !.by = p])
       /\ mine' = [mine EXCEPT ![p].dir = o]
  /\ Goto(p, "identity") /\ UNCHANGED <<expected, fd, todo>> /\ NoFault

\* Its identity is looked up by name: without one the command gives up.
Identity(p) ==
  /\ at[p] = "identity"
  /\ LET o == Named(Root, Candidate(p))
     IN  IF o = Nobody THEN Passes(p, "done")
         ELSE /\ Find(p, [expected[p] EXCEPT !.dir = o])
              /\ Goto(p, IF system = "nt" THEN "dacl"
                         ELSE "openDir")
              /\ UNCHANGED <<files, mine, fd, todo>> /\ NoFault

CheckDacl(p) ==
  /\ at[p] = "dacl"
  /\ LET o == Named(Root, Candidate(p))
     IN  Proves(p, o # Nobody /\ Private(o),
                IF p \in Artifacts THEN "open" ELSE IF p \in Directories THEN "verifyDir" ELSE "done")

OpenDir(p) ==
  /\ at[p] = "openDir"
  /\ LET o == Named(Root, Candidate(p))
     IN  \/ /\ o # Nobody /\ objs[o].kind = "dir"
            /\ fd' = [fd EXCEPT ![p] = o] /\ Goto(p, "chmodDir")
            /\ UNCHANGED <<files, mine, expected, todo>> /\ NoFault
         \/ ~(o # Nobody /\ objs[o].kind = "dir") /\ Undo(p)

ChmodDir(p) ==
  /\ at[p] = "chmodDir"
  /\ \/ /\ objs[fd[p]].owner = "user"
        /\ Through(p, [objs[fd[p]] EXCEPT !.access = "own"])
        /\ Goto(p, "verifyOpenDir") /\ Keep
     \/ objs[fd[p]].owner # "user" /\ Undo(p)

VerifyOpenDir(p) ==
  /\ at[p] = "verifyOpenDir"
  /\ LET proved == fd[p] = expected[p].dir /\ Is(Named(Root, Candidate(p)), "dir", expected[p].dir)
     IN  (proved /\ Close(p, "verifyDir")) \/ (~proved /\ Undo(p))

VerifyDir(p) ==
  /\ at[p] = "verifyDir"
  /\ Proves(p, Is(Named(Root, Candidate(p)), "dir", expected[p].dir),
            IF p \in Makers THEN "done" ELSE "body")

-----------------------------------------------------------------------------
(* A private file; on Windows in the private directory that its name says  *)
(* when the file is created.                                               *)

\* Mutant: the file is created without a mode of its own.
AccessByMask(d) == "open"

Access(d) == IF d = Root THEN "own" ELSE IF Private(d) THEN "inherited" ELSE "open"

OpenFile(p) ==
  /\ at[p] = "open"
  /\ LET d == IF Nested(p) THEN Named(Root, Candidate(p)) ELSE Root
     IN  IF FileNamed(p, FileName(p)) = Nobody /\ (Nested(p) => d # Nobody /\ objs[d].kind = "dir")
           THEN /\ \E o \in Fresh :
                     /\ Change(o, [Gone EXCEPT !.kind = "file", !.dir = d, !.name = FileName(p),
                                     !.access = Access(d),
                                     !.mtime = clock, !.born = clock, !.by = p,
                                     !.touched = d # mine[p].dir \/ (d # Root /\ objs[d].touched)])
                     /\ mine' = [mine EXCEPT ![p].file = o]
                     /\ fd' = [fd EXCEPT ![p] = o]
                /\ Goto(p, "fileIdentity") /\ UNCHANGED <<expected, todo>> /\ NoFault
           ELSE Undo(p)

FileIdentity(p) ==
  /\ at[p] = "fileIdentity"
  /\ Find(p, [expected[p] EXCEPT !.file = fd[p]])
  /\ Goto(p, "write") /\ UNCHANGED <<files, mine, fd, todo>> /\ NoFault

\* Through the descriptor, also when the name stands for another object.
Write(p) ==
  /\ at[p] = "write"
  /\ Through(p, [objs[fd[p]] EXCEPT !.filled = TRUE, !.mtime = clock])
  /\ Goto(p, "protect") /\ Keep

\* Through the descriptor, but on Windows by name.
Protect(p) ==
  /\ at[p] = "protect"
  /\ LET o == IF Nested(p) THEN FileNamed(p, FileName(p)) ELSE fd[p]
     IN  \/ /\ o # Nobody /\ objs[o].owner = "user"
            /\ Change(o, IF Exists(o) THEN [objs[o] EXCEPT !.access = "own"] ELSE Gone)
            /\ Goto(p, "verifyOpen") /\ Keep
         \/ ~(o # Nobody /\ objs[o].owner = "user") /\ Undo(p)

VerifyOpen(p) ==
  /\ at[p] = "verifyOpen"
  /\ \/ Is(FileNamed(p, FileName(p)), "file", fd[p]) /\ Close(p, "verifyClosed")
     \/ ~Is(FileNamed(p, FileName(p)), "file", fd[p]) /\ Undo(p)

VerifyClosed(p) ==
  /\ at[p] = "verifyClosed"
  /\ Proves(p, Is(FileNamed(p, FileName(p)), "file", expected[p].file), "body")

\* The caller of the context manager returns or raises.
Leave(p) == at[p] = "body" /\ Passes(p, IF p \in Artifacts THEN "move" ELSE "moveDir")

-----------------------------------------------------------------------------
(* Removal: to a name that nobody knows, and only then another look.       *)

Target(p)    == IF p \in Sweepers THEN todo[p].name ELSE Candidate(p)
AfterEnd(p)  == IF p \in Sweepers THEN "look" ELSE "done"
FileTarget(p) == IF p \in Sweepers THEN todo[p].name ELSE FileName(p)

MoveFile(p) ==
  /\ at[p] = "move"
  /\ LET o == FileNamed(p, FileTarget(p))
     IN  IF o = Nobody THEN Passes(p, AfterEnd(p))
         ELSE /\ Change(o, [objs[o] EXCEPT !.name = Quarantine(p, FileTarget(p))])
              /\ Goto(p, "check") /\ Keep

CheckFile(p) ==
  /\ at[p] = "check"
  /\ LET o == FileNamed(p, Quarantine(p, FileTarget(p)))
     IN  Passes(p, IF Is(o, "file", expected[p].file) THEN "delete" ELSE AfterEnd(p))

\* Mutant: the private directory of the file is forgotten.
DeleteFileOnly(p) ==
  /\ at[p] = "delete"
  /\ LET o == FileNamed(p, Quarantine(p, FileTarget(p)))
     IN  IF o = Nobody THEN Passes(p, AfterEnd(p))
         ELSE Change(o, Gone) /\ Goto(p, AfterEnd(p)) /\ Keep

DeleteFile(p) ==
  /\ at[p] = "delete"
  /\ LET o == FileNamed(p, Quarantine(p, FileTarget(p)))
     IN  IF o = Nobody THEN Passes(p, AfterEnd(p))
         ELSE /\ Change(o, Gone) /\ Goto(p, IF Nested(p) THEN "moveDir" ELSE AfterEnd(p)) /\ Keep

MoveDir(p) ==
  /\ at[p] = "moveDir"
  /\ LET o == Named(Root, Target(p))
     IN  IF o = Nobody THEN Passes(p, AfterEnd(p))
         ELSE /\ Change(o, [objs[o] EXCEPT !.name = Quarantine(p, Target(p))])
              /\ Goto(p, "checkDir") /\ Keep

CheckDir(p) ==
  /\ at[p] = "checkDir"
  /\ LET o == Named(Root, Quarantine(p, Target(p)))
     IN  Passes(p, IF ~Is(o, "dir", expected[p].dir) THEN AfterEnd(p)
                   ELSE IF p \in Sweepers /\ system = "nt" THEN "checkTree" ELSE "deleteDir")

\* A sweep on Windows also wants what the directory holds to be private.
CheckTree(p) ==
  /\ at[p] = "checkTree"
  /\ LET o == Named(Root, Quarantine(p, Target(p)))
     IN  Passes(p, IF o # Nobody /\ \A c \in Inside(o) : objs[c].kind # "link" /\ objs[c].access # "open"
                     THEN "deleteDir" ELSE AfterEnd(p))

DeleteDir(p) ==
  /\ at[p] = "deleteDir"
  /\ LET o == Named(Root, Quarantine(p, Target(p)))
     IN  IF o = Nobody THEN Passes(p, AfterEnd(p))
         ELSE /\ objs' = [c \in Objects |-> IF c \in Inside(o) \cup {o} THEN Gone ELSE objs[c]]
              /\ UNCHANGED <<system, clock>> /\ Goto(p, AfterEnd(p)) /\ Keep

-----------------------------------------------------------------------------
(* A sweep.                                                                *)

List(p) ==
  /\ at[p] = "list"
  /\ todo' = [todo EXCEPT ![p].cutoff = clock,
                          ![p].names = {objs[o].name : o \in {c \in Inside(Root) : objs[c].name.by = "none"}}]
  /\ Goto(p, "look") /\ UNCHANGED <<files, mine, expected, fd>> /\ NoFault

Expired(p, o) == objs[o].mtime < todo[p].cutoff

Stale(p, o) ==
  /\ o # Nobody /\ objs[o].kind \in {"file", "dir"}
  /\ Expired(p, o)
  /\ system = "posix" => Private(o)

Look(p) ==
  /\ at[p] = "look"
  /\ \/ todo[p].names = {} /\ Passes(p, "done")
     \/ \E n \in todo[p].names :
          LET o == Named(Root, n)
          IN  /\ todo' = [todo EXCEPT ![p].names = @ \ {n}, ![p].name = n]
              /\ IF ~Stale(p, o) THEN UNCHANGED <<at, expected>>
                 ELSE IF objs[o].kind = "dir"
                   THEN Find(p, [dir |-> o, file |-> Nobody]) /\ Goto(p, "moveDir")
                   ELSE Find(p, [dir |-> Nobody, file |-> o]) /\ Goto(p, "move")
              /\ UNCHANGED <<files, mine, fd>> /\ NoFault

-----------------------------------------------------------------------------
(* What else happens.  A failed system call is answered where it occurs; a *)
(* killed command does nothing any more.                                   *)

FaultPlace(p) ==
  CASE at[p] \in {"mkdir", "identity", "fileIdentity", "list"} -> "done"
    [] at[p] = "open" -> IF Nested(p) THEN "moveDir" ELSE "done"
    [] at[p] \in {"dacl", "openDir", "chmodDir", "verifyOpenDir", "verifyDir"} -> "moveDir"
    [] at[p] \in {"write", "protect", "verifyOpen", "verifyClosed"} -> "move"
    [] OTHER -> AfterEnd(p)

Fault(p) ==
  /\ at[p] \notin Ended \cup {"body", "look"} /\ trouble < MaxTrouble
  /\ faulty' = faulty \cup {p} /\ trouble' = trouble + 1
  /\ Goto(p, FaultPlace(p)) /\ fd' = [fd EXCEPT ![p] = Nobody]
  /\ UNCHANGED <<files, mine, expected, todo>>

Kill(p) ==
  /\ at[p] \notin Ended /\ trouble < MaxTrouble
  /\ faulty' = faulty \cup {p} /\ trouble' = trouble + 1
  /\ Goto(p, "killed") /\ fd' = [fd EXCEPT ![p] = Nobody]
  /\ UNCHANGED <<files, mine, expected, todo>>

TimePasses ==
  /\ clock = 0 /\ clock' = 1
  /\ UNCHANGED <<system, objs, at, mine, expected, fd, todo>> /\ NoFault

Others ==
  /\ trouble < MaxTrouble /\ trouble' = trouble + 1
  /\ UNCHANGED <<system, clock, at, mine, expected, fd, todo, faulty>>

\* Doing something to an object touches what it holds and what holds it.
Reached(o) == Inside(o) \cup {o}
Touch(o)   == [c \in Objects |-> IF c \in Reached(o) \cup {objs[o].dir}
                                   THEN [objs[c] EXCEPT !.touched = TRUE] ELSE objs[c]]

OpenUp(o) == Others /\ Exists(o) /\ objs' = [Touch(o) EXCEPT ![o].access = "open"]
Take(o)   == Others /\ Exists(o)
               /\ objs' = [c \in Objects |-> IF c \in Reached(o) THEN Gone ELSE Touch(o)[c]]

Stranger(d, n, kind, access, owner) ==
  [Gone EXCEPT !.kind = kind, !.dir = d, !.name = n, !.access = access, !.owner = owner,
               !.mtime = clock, !.born = clock, !.touched = TRUE]

\* Another object gets the name of one that is moved away.
Exchange(o) ==
  /\ Others /\ Exists(o) /\ objs[o].name.by = "none"
  /\ \E new \in Fresh, kind \in {"file", "dir", "link"}, access \in {"own", "open"},
        owner \in {"user", "another"} :
       /\ access = "open" \/ (kind # "link" /\ owner = "user")
       /\ objs' = [Touch(o) EXCEPT ![o].name = MovedAway(o),
                     ![new] = Stranger(objs[o].dir, objs[o].name, kind, access, owner)]

\* Only what lies at the top is filled: the directories of strangers stay empty.
AddTo(o) ==
  /\ Others /\ Exists(o) /\ objs[o].kind = "dir" /\ objs[o].dir = Root
  /\ \E new \in Fresh, access \in {"own", "open"} :
       objs' = [Touch(o) EXCEPT ![new] = Stranger(o, MovedAway(new), "file", access, "user")]

Command(p) ==
  \/ Mkdir(p) \/ Identity(p) \/ CheckDacl(p) \/ OpenDir(p) \/ ChmodDir(p) \/ VerifyOpenDir(p)
  \/ VerifyDir(p) \/ OpenFile(p) \/ FileIdentity(p) \/ Write(p) \/ Protect(p) \/ VerifyOpen(p)
  \/ VerifyClosed(p) \/ Leave(p) \/ MoveFile(p) \/ CheckFile(p) \/ DeleteFile(p) \/ MoveDir(p)
  \/ CheckDir(p) \/ CheckTree(p) \/ DeleteDir(p) \/ List(p) \/ Look(p)

Next ==
  \/ \E p \in Procs : Command(p) \/ Fault(p) \/ Kill(p)
  \/ \E o \in Objects : OpenUp(o) \/ Take(o) \/ Exchange(o) \/ AddTo(o)
  \/ TimePasses

Spec == Init /\ [][Next]_vars

-----------------------------------------------------------------------------
(* Properties.                                                             *)

TypeOK ==
  /\ system \in {"posix", "nt"} /\ clock \in 0..1
  /\ objs \in [Objects -> Things]
  /\ \A o, c \in Objects : o # c /\ Exists(o) /\ Exists(c) =>
       <<objs[o].dir, objs[o].name>> # <<objs[c].dir, objs[c].name>>
  /\ at \in [Procs -> Making \cup Filling \cup Removing \cup Ended \cup {"body", "list", "look"}]
  /\ mine \in [Procs -> [dir : Objects \cup {Nobody}, file : Objects \cup {Nobody}]]
  /\ expected \in [Procs -> [dir : Objects \cup {Nobody}, file : Objects \cup {Nobody}]]
  /\ fd \in [Procs -> Objects \cup {Nobody}]
  /\ \A p \in Procs : fd[p] # Nobody =>
       at[p] \in {"chmodDir", "verifyOpenDir", "fileIdentity", "write", "protect", "verifyOpen"}
  /\ todo \in [Procs -> [names : SUBSET Listed, name : Listed, cutoff : 0..1]]
  /\ faulty \subseteq Procs /\ trouble \in 0..MaxTrouble

(* Whatever is exchanged between a look and a removal: a command removes   *)
(* nothing but the object it made and what that holds - or a directory     *)
(* that took the place of its own before the first look - and a sweep only *)
(* what is older than its cutoff.                                          *)
Removes(p, o) ==
  LET top == IF objs[o].dir \in {expected[p].dir} \ {Root} THEN objs[o].dir ELSE o
  IN  /\ at[p] \in {"delete", "deleteDir"} /\ at'[p] # at[p]
      /\ top \in {expected[p].dir, expected[p].file}
      /\ IF p \in Sweepers THEN objs[top].born < todo[p].cutoff
         ELSE top \in {mine[p].dir, mine[p].file} \/ objs[top].touched

RemovesOnlyItsOwn ==
  [][\A o \in Objects : Exists(o) /\ ~(Exists(o))' /\ trouble' = trouble =>
       \E p \in Procs : Removes(p, o)]_vars

(* From the first byte on nobody else can read an artifact, unless another *)
(* program opened it up or exchanged the directory it lies in.             *)
ContentsPrivate ==
  \A o \in Objects : Exists(o) /\ objs[o].filled /\ ~objs[o].touched =>
    Private(o) \/ (objs[o].access = "inherited" /\ objs[o].dir # Root /\ Private(objs[o].dir))

(* A command that ends leaves nothing behind, and a sweep leaves nothing at *)
(* the top that had expired, but for what other programs touched and what  *)
(* is in quarantine: that is in the hands of a command that is about to    *)
(* delete it, or of one that was killed or that failed, and then it stays, *)
(* for no sweep lists the name of a quarantine.                            *)
Left(o) == Exists(o) /\ ~objs[o].touched

InHands(q, o) ==
  /\ objs[o].name.by = q
  /\ q \in faulty \/ (o \in {expected[q].dir, expected[q].file} /\ at[q] \in Deleting)

CleansUp ==
  /\ \A p \in Artifacts \cup Directories : at[p] = "done" /\ p \notin faulty =>
       \A o \in {mine[p].dir, mine[p].file} \ {Nobody} : Left(o) =>
         \E s \in Sweepers : InHands(s, o) \/ (objs[o].dir # Root /\ InHands(s, objs[o].dir))
  /\ \A s \in Sweepers : at[s] = "done" /\ s \notin faulty /\ todo[s].cutoff = 1 =>
       \A o \in Objects : Left(o) /\ objs[o].dir = Root /\ objs[o].mtime = 0 =>
         \E q \in Procs : InHands(q, o)

=============================================================================
