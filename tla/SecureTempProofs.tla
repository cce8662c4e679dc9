--------------------------- MODULE SecureTempProofs ---------------------------
(***************************************************************************)
(* SecureTemp proved for all sets of commands, sweeps and objects, whatever *)
(* runs at the same time and however much trouble there is: its types, that *)
(* contents are private, that nothing but a command's own objects is        *)
(* removed, and that commands and sweeps clean up.                          *)
(*                                                                          *)
(* The proofs follow what a step does to each object: it stays, it goes, it *)
(* is new, or it gets another name.  What a command makes, expects and has  *)
(* opened is tied to the objects by the invariants below; what a sweep has  *)
(* listed, and what a command needs to find its own again, by the last two. *)
(***************************************************************************)
EXTENDS SecureTemp, TLAPS

-----------------------------------------------------------------------------
(* The invariant: objects.                                                  *)

Genuine(o) == Exists(o) /\ ~objs[o].touched

GoneIsGone == \A o \in Objects : ~Exists(o) => objs[o] = Gone

UniqueNames == \A o, c \in Objects :
  o # c /\ Exists(o) /\ Exists(c) => objs[o].dir # objs[c].dir \/ objs[o].name # objs[c].name

\* What a directory at the top holds shares its fate with other programs.
NestedIn(o, d) ==
  /\ Exists(d) /\ objs[d].kind = "dir" /\ objs[d].dir = Root
  /\ objs[o].touched = objs[d].touched
  /\ ~objs[o].touched => objs[o].by = objs[d].by
  /\ objs[o].name.by \notin Sweepers
Nesting == \A o \in Objects : Exists(o) /\ objs[o].dir # Root => NestedIn(o, objs[o].dir)

MovedOnce == \A o \in Objects : Exists(o) /\ objs[o].name.by = "moved" => objs[o].name.of = o

\* A quarantine name is given once.
QuarantineOnce == \A o, c \in Objects :
  Exists(o) /\ Exists(c) /\ objs[o].name = objs[c].name /\ objs[o].name.by \in Procs => o = c

Times == \A o \in Objects : Exists(o) => objs[o].born <= objs[o].mtime /\ objs[o].mtime <= clock

Files == GoneIsGone /\ Nesting /\ MovedOnce /\ QuarantineOnce /\ Times

(* The invariant: commands.                                                 *)

Holding == {"fileIdentity", "write", "protect", "verifyOpen"}
Opening == {"chmodDir", "verifyOpenDir"}

Role(p) ==
  /\ p \in Sweepers => at[p] \in {"list", "look"} \cup Removing \cup Ended
  /\ p \in Artifacts => at[p] \in {"mkdir", "identity", "dacl", "body"} \cup Filling
                                  \cup (Removing \ {"checkTree"}) \cup Ended
  /\ p \in Directories \cup Makers =>
       at[p] \in Making \cup {"body", "moveDir", "checkDir", "deleteDir"} \cup Ended
  /\ p \in Artifacts /\ system = "posix" => at[p] \notin Making

\* What a command has made, found and opened at each step.
Possessions(p) ==
  /\ p \in Creators =>
       /\ at[p] \in Making \cup {"open"} => mine[p].file = Nobody
       /\ at[p] \in Making \cup {"open", "fileIdentity"} => expected[p].file = Nobody
       /\ at[p] = "mkdir" => mine[p].dir = Nobody
       /\ at[p] \in {"mkdir", "identity"} => expected[p].dir = Nobody
       /\ expected[p].file \in {Nobody, mine[p].file}
       /\ p \notin Artifacts => mine[p].file = Nobody
       /\ p \in Artifacts /\ system = "posix" => mine[p].dir = Nobody
       /\ p \in Artifacts /\ system = "posix" /\ at[p] \in {"moveDir", "checkDir", "deleteDir"} =>
            mine[p].file = Nobody
       /\ p \in Artifacts /\ at[p] \in {"write", "protect", "verifyOpen", "verifyClosed", "body",
                                        "move", "check", "delete"} =>
            expected[p].file = mine[p].file /\ mine[p].file # Nobody
  /\ p \in Sweepers => mine[p].dir = Nobody /\ mine[p].file = Nobody
  /\ at[p] \in Holding => fd[p] = mine[p].file /\ fd[p] # Nobody
  /\ at[p] \in Opening => fd[p] # Nobody
  /\ at[p] \notin Holding \cup Opening => fd[p] = Nobody

\* What a sweep still has to do.
Errands(p) ==
  /\ todo[p].cutoff <= clock
  /\ p \in Sweepers /\ at[p] \in Removing => todo[p].name \notin todo[p].names
  /\ p \in Sweepers /\ at[p] = "done" /\ p \notin faulty => todo[p].names = {}
  /\ p \in Sweepers /\ at[p] = "list" => todo[p].cutoff = 0

Locals == \A p \in Procs : Role(p) /\ Possessions(p) /\ Errands(p)

(* The invariant: commands and objects.                                     *)

MadeDir(p, o) ==
  /\ objs[o].kind = "dir" /\ objs[o].dir = Root /\ objs[o].by = p /\ objs[o].owner = "user"
MadeFile(p, o) ==
  /\ objs[o].kind = "file" /\ objs[o].by = p /\ objs[o].owner = "user"
  /\ ~Nested(p) => objs[o].dir = Root
Made == \A p \in Procs :
  /\ Exists(mine[p].dir) => MadeDir(p, mine[p].dir)
  /\ Exists(mine[p].file) => MadeFile(p, mine[p].file)

\* Where an object is that nobody else has touched.
InPlace(o, q) ==
  /\ q \in Creators /\ objs[o].name.by \in {"none", q} \cup Sweepers
  /\ \/ o = mine[q].dir /\ objs[o].access = "own" /\ objs[o].name.of = q
     \/ o = mine[q].file /\ ~Nested(q) /\ objs[o].access = "own" /\ objs[o].name.of = q
     \/ /\ o = mine[q].file /\ Nested(q) /\ objs[o].dir = mine[q].dir /\ objs[o].dir # Root
        /\ objs[o].access \in {"own", "inherited"} /\ objs[o].name.of = "environment"
Placed == \A o \in Objects : Genuine(o) => InPlace(o, objs[o].by)

\* The quarantine names that a command may still give.
Unspent(p, n) ==
  IF p \in Sweepers
    THEN \/ at[p] = "list" \/ n \in {m.of : m \in todo[p].names}
         \/ at[p] \in {"move", "moveDir"} /\ n = todo[p].name.of
    ELSE \/ at[p] \notin {"check", "delete", "checkDir", "deleteDir", "moveDir"} \cup Ended
         \/ at[p] \in {"check", "delete"} /\ n # FileName(p).of
         \/ at[p] = "moveDir" /\ n = p
Spent == \A o \in Objects : Exists(o) /\ objs[o].name.by \in Procs =>
           ~Unspent(objs[o].name.by, objs[o].name.of)

\* What is about to be deleted is what was expected.
Found == \A p \in Procs, o \in Objects : Exists(o) =>
  /\ at[p] = "delete" /\ objs[o].name = Quarantine(p, FileTarget(p)) =>
       o = expected[p].file /\ objs[o].kind = "file"
  /\ at[p] \in {"checkTree", "deleteDir"} /\ objs[o].name = Quarantine(p, Target(p)) =>
       o = expected[p].dir

\* And what was expected is a command's own, or was exchanged, or is old.
Expected == \A p \in Procs, o \in Objects : Exists(o) =>
  /\ p \in Creators /\ o = expected[p].dir => o = mine[p].dir \/ objs[o].touched
  /\ p \in Sweepers /\ at[p] \in Removing /\ o \in {expected[p].dir, expected[p].file} =>
       objs[o].born < todo[p].cutoff

Tied == Made /\ Placed /\ Spent /\ Found /\ Expected

IInv == TypeOK /\ Files /\ Locals /\ Tied

(* The invariant: cleaning up.                                              *)

Stray(o) == Genuine(o) /\ objs[o].dir = Root /\ objs[o].name.by = "none" /\ objs[o].mtime = 0

Swept == \A s \in Sweepers :
  s \notin faulty /\ todo[s].cutoff = 1 /\ at[s] \notin {"list", "killed"} =>
    \A o \in Objects : Stray(o) =>
      \/ objs[o].name \in todo[s].names
      \/ at[s] \in {"move", "moveDir"} /\ todo[s].name = objs[o].name

\* A genuine object that no other command has moved.
Free(p, o) == Genuine(o) /\ objs[o].name.by \in {"none", p}

\* Where an artifact has its file.
WithFile(p) == \/ at[p] \in Holding \cup {"verifyClosed", "move", "check", "delete"}
               \/ at[p] = "body" /\ p \in Artifacts

DirKept(p, d) ==
  /\ at[p] \in {"checkDir", "deleteDir"} => objs[d].name.by = p
  /\ at[p] \notin {"mkdir", "identity"} => expected[p].dir = d
  /\ at[p] \in Opening => fd[p] = d
  /\ at[p] # "done"
  /\ WithFile(p) => Genuine(mine[p].file) /\ objs[mine[p].file].dir = d
FileKept(p, f) ==
  /\ at[p] \in {"verifyOpen", "verifyClosed", "body", "move", "check", "delete"} => objs[f].access = "own"
  /\ at[p] \in {"check", "delete"} => objs[f].name.by = p
  /\ at[p] # "done"

\* The object that has to be in its place for the file to be found.
Holder(p) == IF Nested(p) THEN mine[p].dir ELSE mine[p].file

Kept == \A p \in Artifacts \cup Directories : p \notin faulty =>
  /\ Free(p, mine[p].dir) => DirKept(p, mine[p].dir)
  /\ Genuine(mine[p].file) /\ Free(p, Holder(p)) => FileKept(p, mine[p].file)

\* A command has yet to make the object of its name, and no sweep knows it.
Begins(p) == at[p] = "mkdir" \/ (at[p] = "open" /\ ~Nested(p))
Begun == \A p \in Creators : Begins(p) =>
  /\ \A o \in Objects : Exists(o) /\ objs[o].dir = Root => objs[o].name # Candidate(p)
  /\ \A s \in Sweepers : /\ Candidate(p) \notin todo[s].names
                         /\ at[s] \in {"move", "moveDir"} => todo[s].name # Candidate(p)

\* What a sweep is about to move and what anybody is about to delete.
AtTop(o) == Genuine(o) /\ objs[o].dir = Root
Aim(s, o) ==
  \/ at[s] = "move" /\ o = expected[s].file /\ objs[o].kind = "file"
  \/ at[s] = "moveDir" /\ o = expected[s].dir /\ objs[o].kind = "dir"
Grasp(q, o) ==
  \/ /\ at[q] \in {"check", "delete"} /\ o = expected[q].file /\ objs[o].kind = "file"
     /\ objs[o].name = Quarantine(q, FileTarget(q)) /\ ~Nested(q)
  \/ /\ at[q] \in {"checkDir", "checkTree", "deleteDir"} /\ o = expected[q].dir /\ objs[o].kind = "dir"
     /\ objs[o].name = Quarantine(q, Target(q))

Handled == \A q \in Procs : q \notin faulty =>
  /\ q \in Creators /\ at[q] \notin {"mkdir", "identity"} /\ Free(q, mine[q].dir) =>
       expected[q].dir = mine[q].dir
  /\ \A o \in Objects : AtTop(o) =>
       /\ objs[o].name.by = q => Grasp(q, o)
       /\ q \in Sweepers /\ at[q] \in {"move", "moveDir"} /\ objs[o].name = todo[q].name => Aim(q, o)

-----------------------------------------------------------------------------
(* Names.                                                                   *)

LEMMA NobodyIsNone == Nobody \notin Objects
BY ConstantsAssumption DEF Nobody

LEMMA NamedIs ==
  ASSUME NEW d, NEW n, Named(d, n) # Nobody
  PROVE  LET o == Named(d, n) IN
         o \in Objects /\ Exists(o) /\ objs[o].dir = d /\ objs[o].name = n
<1>1. \E o \in Objects : Exists(o) /\ objs[o].dir = d /\ objs[o].name = n
  BY DEF Named
<1> QED  BY <1>1 DEF Named

LEMMA NamedNot ==
  ASSUME NEW d, NEW n, Named(d, n) = Nobody, NEW o \in Objects, Exists(o), objs[o].dir = d
  PROVE  objs[o].name # n
<1>1. SUFFICES ASSUME objs[o].name = n PROVE FALSE
  OBVIOUS
<1>2. Named(d, n) \in Objects
  BY <1>1 DEF Named
<1> QED  BY <1>2, NobodyIsNone

LEMMA NamedOnce ==
  ASSUME UniqueNames, NEW o \in Objects, Exists(o)
  PROVE  Named(objs[o].dir, objs[o].name) = o
<1> DEFINE c == Named(objs[o].dir, objs[o].name)
<1>1. c # Nobody
  BY NamedNot
<1>2. c \in Objects /\ Exists(c) /\ objs[c].dir = objs[o].dir /\ objs[c].name = objs[o].name
  BY <1>1, NamedIs
<1> QED  BY <1>2 DEF UniqueNames

LEMMA FileNamedIs ==
  ASSUME NEW p, NEW n, FileNamed(p, n) # Nobody
  PROVE  LET o == FileNamed(p, n)
             d == IF Nested(p) THEN Named(Root, Candidate(p)) ELSE Root
         IN  /\ o \in Objects /\ Exists(o) /\ objs[o].name = n /\ objs[o].dir = d
             /\ Nested(p) => d \in Objects /\ Exists(d) /\ objs[d].kind = "dir" /\ objs[d].dir = Root
                             /\ objs[d].name = Candidate(p)
<1>1. CASE ~Nested(p)
  BY <1>1, NamedIs DEF FileNamed
<1>2. CASE Nested(p)
  <2>1. Named(Root, Candidate(p)) # Nobody
    BY <1>2 DEF FileNamed
  <2>2. objs[Named(Root, Candidate(p))].kind = "dir" /\ FileNamed(p, n) = Named(Named(Root, Candidate(p)), n)
    BY <1>2, <2>1 DEF FileNamed
  <2> QED  BY <1>2, <2>1, <2>2, NamedIs
<1> QED  BY <1>1, <1>2

LEMMA Parts ==
  /\ \A p : Candidate(p).by = "none" /\ Candidate(p).of = p
  /\ Environment.by = "none" /\ Environment.of = "environment"
  /\ \A p, n : Quarantine(p, n).by = p /\ Quarantine(p, n).of = n.of
  /\ \A o : MovedAway(o).by = "moved" /\ MovedAway(o).of = o
BY DEF Candidate, Environment, Quarantine, MovedAway

LEMMA NameTypes ==
  /\ \A n \in Names : n = [by |-> n.by, of |-> n.of]
  /\ \A n \in Names : n.by = "none" => n \in Listed
  /\ \A n \in Listed : n \in Names /\ n.by = "none"
  /\ \A p \in Procs, n \in Listed : Quarantine(p, n) \in Names
  /\ \A p \in Procs : Candidate(p) \in Listed
  /\ Environment \in Listed
  /\ \A o \in Objects : MovedAway(o) \in Names
<1>1. \A n \in Listed : n \in Names /\ n.by = "none" /\ n = [by |-> n.by, of |-> n.of]
  BY DEF Names, Listed, Candidate, Environment
<1>2. \A p \in Procs, n \in Listed : Quarantine(p, n) \in Names
  BY DEF Names
<1>3. (\A p \in Procs : Candidate(p) \in Listed) /\ Environment \in Listed
  BY DEF Listed
<1>4. \A o \in Objects : MovedAway(o) \in Names
  BY DEF Names
<1>5. ASSUME NEW n \in Names
      PROVE  n = [by |-> n.by, of |-> n.of] /\ (n.by = "none" => n \in Listed)
  <2>1. CASE n \in Listed
    BY <1>1, <2>1
  <2>2. CASE \E p \in Procs, m \in Listed : n = Quarantine(p, m)
    BY <2>2, ConstantsAssumption DEF Quarantine
  <2>3. CASE \E o \in Objects : n = MovedAway(o)
    BY <2>3 DEF MovedAway
  <2> QED  BY <2>1, <2>2, <2>3 DEF Names
<1> QED  BY <1>1, <1>2, <1>3, <1>4, <1>5

LEMMA SameName ==
  ASSUME NEW n \in Names, NEW m \in Names, n.by = m.by, n.of = m.of
  PROVE  n = m
BY NameTypes

LEMMA GoneTypes ==
  /\ Gone \in Things /\ Gone.kind = "none" /\ Gone.dir = Root /\ Gone.access = "open"
  /\ Gone.owner = "user" /\ Gone.by = "other" /\ ~Gone.filled /\ ~Gone.touched
BY NameTypes, Parts DEF Gone, Things

-----------------------------------------------------------------------------
(* What a step does to an object.                                           *)

\* It stays what it is; perhaps it is touched, protected or filled.
Lasts(c) ==
  /\ objs'[c].kind = objs[c].kind /\ objs'[c].dir = objs[c].dir /\ objs'[c].by = objs[c].by
  /\ objs'[c].owner = objs[c].owner /\ objs'[c].born = objs[c].born
  /\ objs'[c].mtime \in {objs[c].mtime, clock}
  /\ objs[c].touched => objs'[c].touched
  /\ objs'[c].access \in {objs[c].access, "own"} \/ objs'[c].touched
Keeps(c) == Lasts(c) /\ objs'[c].name = objs[c].name

\* It is new: nobody has held it, and its name is not taken.
Comes(n) ==
  /\ n \in Unused
  /\ objs'[n].born = clock /\ objs'[n].mtime = clock
  /\ objs'[n].name.by \notin Procs
  /\ objs'[n].name.by = "moved" => objs'[n].name.of = n

Remain == \A c \in Objects : Keeps(c) /\ objs'[c].touched = objs[c].touched
Thins == \A c \in Objects : Keeps(c) \/ objs'[c] = Gone

Adds(n) ==
  /\ Comes(n) /\ \A c \in Objects \ {n} : Keeps(c)
  /\ \A c \in Objects : Exists(c) => objs[c].dir # objs'[n].dir \/ objs[c].name # objs'[n].name

\* A command moves it to quarantine.
Isolates(p, o) ==
  /\ Exists(o) /\ objs[o].name.by = "none" /\ Unspent(p, objs[o].name.of)
  /\ Lasts(o) /\ objs'[o].touched = objs[o].touched /\ objs'[o].name = Quarantine(p, objs[o].name)
  /\ \A c \in Objects \ {o} : Keeps(c)

\* Another takes its place.
Replaces(o, n) ==
  /\ Exists(o) /\ objs[o].name.by = "none" /\ Comes(n)
  /\ Lasts(o) /\ objs'[o].touched /\ objs'[o].name = MovedAway(o)
  /\ objs'[n].dir = objs[o].dir /\ objs'[n].name = objs[o].name /\ objs'[n].touched
  /\ \A c \in Objects \ {o, n} : Keeps(c)

FileStep ==
  \/ Thins
  \/ \E n \in Objects : Adds(n)
  \/ \E p \in Procs, o \in Objects : Isolates(p, o)
  \/ \E o, n \in Objects : Replaces(o, n)

FilesTyped ==
  /\ system' = system /\ clock' \in 0..1 /\ clock <= clock'
  /\ objs' \in [Objects -> Things] /\ GoneIsGone'

LEMMA RemainThins ==
  ASSUME Remain
  PROVE  Thins /\ \A c \in Objects : Exists(c)' <=> Exists(c)
BY DEF Remain, Thins, Keeps, Lasts, Exists

LEMMA FilesThen ==
  ASSUME TypeOK, Files, Spent, FilesTyped, FileStep
  PROVE  UniqueNames' /\ MovedOnce' /\ QuarantineOnce' /\ Times'
<1> USE DEF Exists
<1>1. UniqueNames /\ objs \in [Objects -> Things] /\ clock \in 0..1
  BY DEF TypeOK, UniqueNames
<1>2. \A c \in Objects : objs[c].name \in Names /\ objs'[c].name \in Names
  BY <1>1 DEF FilesTyped, Things
<1>3. CASE Thins
  <2>1. \A c \in Objects : Exists(c)' => Exists(c) /\ Keeps(c)
    BY <1>3, GoneTypes DEF Thins, Keeps, Lasts
  <2>2. UniqueNames' /\ MovedOnce' /\ QuarantineOnce'
    BY <1>1, <2>1 DEF Keeps, Lasts, UniqueNames, Files, MovedOnce, QuarantineOnce
  <2>3. Times'
    BY <1>1, <2>1 DEF Keeps, Lasts, Files, Times, FilesTyped, Things
  <2> QED  BY <2>2, <2>3
<1>4. CASE \E n \in Objects : Adds(n)
  <2>1. PICK n \in Objects : Adds(n)
    BY <1>4
  <2>2. \A c \in Objects \ {n} : Exists(c)' => Exists(c) /\ Keeps(c)
    BY <2>1 DEF Adds, Keeps, Lasts
  <2>3. UniqueNames'
    BY <1>1, <2>1, <2>2 DEF Adds, Keeps, Lasts, UniqueNames
  <2>4. MovedOnce' /\ QuarantineOnce'
    BY <2>1, <2>2 DEF Adds, Comes, Keeps, Lasts, Files, MovedOnce, QuarantineOnce
  <2>5. Times'
    BY <1>1, <2>1, <2>2 DEF Adds, Comes, Keeps, Lasts, Files, Times, FilesTyped, Things
  <2> QED  BY <2>3, <2>4, <2>5
<1>5. CASE \E p \in Procs, o \in Objects : Isolates(p, o)
  <2>1. PICK p \in Procs, o \in Objects : Isolates(p, o)
    BY <1>5
  <2>2. \A c \in Objects : Exists(c)' => Exists(c) /\ Lasts(c) /\ (c # o => Keeps(c))
    BY <2>1 DEF Isolates, Keeps, Lasts
  <2>3. objs'[o].name.by = p /\ objs'[o].name.of = objs[o].name.of /\ p \notin {"none", "moved"}
    BY <2>1, Parts, ConstantsAssumption DEF Isolates
  <2>4. \A c \in Objects \ {o} : Exists(c) => objs[c].name # objs'[o].name
    BY <2>1, <2>3 DEF Spent, Isolates
  <2>5. UniqueNames'
    BY <1>1, <2>2, <2>4 DEF Keeps, Lasts, UniqueNames
  <2>6. MovedOnce' /\ QuarantineOnce'
    BY <2>2, <2>3, <2>4 DEF Keeps, Lasts, Files, MovedOnce, QuarantineOnce
  <2>7. Times'
    BY <1>1, <2>2 DEF Lasts, Files, Times, FilesTyped, Things
  <2> QED  BY <2>5, <2>6, <2>7
<1>6. CASE \E o, n \in Objects : Replaces(o, n)
  <2>1. PICK o \in Objects, n \in Objects : Replaces(o, n)
    BY <1>6
  <2>2. /\ o # n /\ ~Exists(n)
        /\ \A c \in Objects \ {n} : Exists(c)' => Exists(c) /\ Lasts(c) /\ (c # o => Keeps(c))
    BY <2>1 DEF Replaces, Comes, Unused, Keeps, Lasts
  <2>3. objs'[o].name.by = "moved" /\ objs'[o].name.of = o /\ "moved" \notin Procs /\ "none" \notin Procs
    BY <2>1, Parts, ConstantsAssumption DEF Replaces
  <2>4. \A c \in Objects \ {o} : Exists(c) => objs[c].name # objs'[o].name
    BY <2>3 DEF Files, MovedOnce
  <2>5. UniqueNames'
    <3>1. \A c \in Objects \ {o, n} : Exists(c)' => objs'[c].dir # objs'[n].dir \/ objs'[c].name # objs'[n].name
      BY <1>1, <2>1, <2>2 DEF Replaces, Keeps, Lasts, UniqueNames
    <3>2. objs'[n].name # objs'[o].name
      BY <2>1, <2>3 DEF Replaces
    <3> QED  BY <1>1, <2>2, <2>4, <3>1, <3>2 DEF Keeps, Lasts, UniqueNames
  <2>6. MovedOnce' /\ QuarantineOnce'
    BY <2>1, <2>2, <2>3, <2>4 DEF Replaces, Comes, Keeps, Lasts, Files, MovedOnce, QuarantineOnce
  <2>7. Times'
    BY <1>1, <2>1, <2>2 DEF Replaces, Comes, Lasts, Files, Times, FilesTyped, Things
  <2> QED  BY <2>5, <2>6, <2>7
<1> QED  BY <1>3, <1>4, <1>5, <1>6 DEF FileStep

-----------------------------------------------------------------------------
(* What each action does to the files.                                      *)

LEMMA Types ==
  ASSUME IInv
  PROVE  /\ objs \in [Objects -> Things] /\ UniqueNames /\ system \in {"posix", "nt"}
         /\ clock \in 0..1 /\ \A c \in Objects : objs[c].name \in Names
BY DEF IInv, TypeOK, UniqueNames, Things

LEMMA NestingStays ==
  ASSUME Nesting,
         \A c \in Objects : Exists(c)' => Exists(c) /\ Keeps(c),
         \A c \in Objects : Exists(c)' /\ objs[c].dir # Root =>
           Exists(objs[c].dir)' /\ objs'[c].touched = objs'[objs[c].dir].touched,
         objs \in [Objects -> Things]
  PROVE  Nesting'
<1> SUFFICES ASSUME NEW c \in Objects, Exists(c)', objs'[c].dir # Root
             PROVE  NestedIn(c, objs[c].dir)'
  BY DEF Nesting
<1> DEFINE d == objs[c].dir
<1>1. Exists(c) /\ Keeps(c) /\ objs'[c].dir = d /\ d # Root /\ d \in Objects
  BY DEF Keeps, Lasts, Things
<1>2. NestedIn(c, d) /\ Exists(d)' /\ Keeps(d) /\ objs'[c].touched = objs'[d].touched
  BY <1>1 DEF Nesting
<1> QED  BY <1>1, <1>2 DEF NestedIn, Keeps, Lasts

LEMMA IdleFiles ==
  ASSUME IInv, objs' = objs, system' = system, clock' \in 0..1, clock <= clock'
  PROVE  FilesTyped /\ Remain /\ Nesting'
<1>1. \A c \in Objects : Keeps(c)
  BY DEF Keeps, Lasts
<1>2. GoneIsGone' /\ Nesting'
  BY DEF IInv, Files, GoneIsGone, Nesting, NestedIn, Exists
<1> QED  BY <1>1, <1>2, Types DEF FilesTyped, Remain

LEMMA UnchangedFiles ==
  ASSUME IInv, UNCHANGED files
  PROVE  FilesTyped /\ Remain /\ Nesting'
BY IdleFiles, Types DEF files

LEMMA AlteredFiles ==
  ASSUME IInv, NEW o \in Objects, NEW a \in {objs[o].access, "own"}, NEW f \in BOOLEAN,
         NEW m \in {objs[o].mtime, clock}, UNCHANGED <<system, clock>>,
         objs' = [objs EXCEPT ![o] =
           IF Exists(o) THEN [objs[o] EXCEPT !.access = a, !.filled = f, !.mtime = m] ELSE Gone]
  PROVE  FilesTyped /\ Remain /\ Nesting'
<1>1. CASE ~Exists(o)
  <2>1. objs[o] = Gone
    BY <1>1 DEF IInv, Files, GoneIsGone
  <2>2. objs' = objs
    BY <1>1, <2>1, Types
  <2> QED  BY <2>2, UnchangedFiles DEF files
<1>2. CASE Exists(o)
  <2>1. objs[o] \in Things
    BY Types
  <2>2. /\ objs'[o] \in Things /\ objs'[o].kind = objs[o].kind /\ objs'[o].dir = objs[o].dir
        /\ objs'[o].by = objs[o].by /\ objs'[o].owner = objs[o].owner /\ objs'[o].born = objs[o].born
        /\ objs'[o].mtime \in {objs[o].mtime, clock} /\ objs'[o].touched = objs[o].touched
        /\ objs'[o].access \in {objs[o].access, "own"} /\ objs'[o].name = objs[o].name
    BY <1>2, <2>1, Types DEF Things
  <2>3. \A c \in Objects \ {o} : objs'[c] = objs[c]
    BY Types
  <2>4. objs' \in [Objects -> Things]
    BY <1>2, <2>1, <2>2, Types
  <2>5. \A c \in Objects : Keeps(c) /\ objs'[c].touched = objs[c].touched
    BY <2>2, <2>3 DEF Keeps, Lasts
  <2>6. \A c \in Objects : Exists(c)' <=> Exists(c)
    BY <2>5 DEF Keeps, Lasts, Exists
  <2>7. Nesting'
    <3>1. \A c \in Objects : Exists(c)' /\ objs[c].dir # Root =>
            Exists(objs[c].dir)' /\ objs'[c].touched = objs'[objs[c].dir].touched
      BY <2>5, <2>6, Types DEF IInv, Files, Nesting, NestedIn, Things
    <3> QED  BY <2>5, <2>6, <3>1, NestingStays, Types DEF IInv, Files
  <2>8. GoneIsGone'
    BY <1>2, <2>2, <2>3, <2>6 DEF IInv, Files, GoneIsGone
  <2> QED  BY <2>4, <2>5, <2>7, <2>8, Types DEF FilesTyped, Remain
<1> QED  BY <1>1, <1>2

LEMMA RemovedFiles ==
  ASSUME IInv, NEW S \in SUBSET Objects, UNCHANGED <<system, clock>>,
         \A o \in S : Inside(o) \subseteq S,
         objs' = [c \in Objects |-> IF c \in S THEN Gone ELSE objs[c]]
  PROVE  FilesTyped /\ Thins /\ Nesting'
<1>1. \A c \in Objects : objs'[c] = IF c \in S THEN Gone ELSE objs[c]
  OBVIOUS
<1>2. objs' \in [Objects -> Things] /\ GoneIsGone'
  BY <1>1, Types, GoneTypes DEF IInv, Files, GoneIsGone, Exists
<1>3. \A c \in Objects : c \notin S => Keeps(c)
  BY <1>1 DEF Keeps, Lasts
<1>4. \A c \in Objects : Exists(c)' => c \notin S /\ Exists(c)
  BY <1>1, GoneTypes DEF Exists
<1>5. \A c \in Objects : Exists(c)' /\ objs[c].dir # Root =>
        Exists(objs[c].dir)' /\ objs'[c].touched = objs'[objs[c].dir].touched
  <2> SUFFICES ASSUME NEW c \in Objects, Exists(c)', objs[c].dir # Root
               PROVE  Exists(objs[c].dir)' /\ objs'[c].touched = objs'[objs[c].dir].touched
    OBVIOUS
  <2> DEFINE d == objs[c].dir
  <2>1. d \in Objects /\ NestedIn(c, d) /\ c \notin S
    BY <1>4, Types DEF IInv, Files, Nesting, Things
  <2>2. d \notin S
    BY <1>4, <2>1 DEF Inside
  <2> QED  BY <1>1, <2>1, <2>2 DEF NestedIn, Exists
<1>6. Nesting'
  BY <1>3, <1>4, <1>5, NestingStays, Types DEF IInv, Files
<1> QED  BY <1>1, <1>2, <1>3, <1>6, Types DEF FilesTyped, Thins

LEMMA RenamedFiles ==
  ASSUME IInv, NEW p \in Procs, NEW o \in Objects, NEW n \in Listed, Exists(o), objs[o].name = n,
         Unspent(p, n.of), objs[o].dir # Root => p \notin Sweepers,
         UNCHANGED <<system, clock>>, objs' = [objs EXCEPT ![o] = [objs[o] EXCEPT !.name = Quarantine(p, n)]]
  PROVE  FilesTyped /\ Isolates(p, o) /\ Nesting'
<1>1. objs[o] \in Things /\ Quarantine(p, n) \in Names /\ n.by = "none" /\ Quarantine(p, n).by = p
  BY Types, NameTypes, Parts
<1>2. /\ objs'[o] \in Things /\ objs'[o].kind = objs[o].kind /\ objs'[o].dir = objs[o].dir
      /\ objs'[o].by = objs[o].by /\ objs'[o].owner = objs[o].owner /\ objs'[o].born = objs[o].born
      /\ objs'[o].mtime = objs[o].mtime /\ objs'[o].touched = objs[o].touched
      /\ objs'[o].access = objs[o].access /\ objs'[o].name = Quarantine(p, n)
  BY <1>1, Types DEF Things
<1>3. \A c \in Objects \ {o} : objs'[c] = objs[c]
  BY Types
<1>4. objs' \in [Objects -> Things]
  BY <1>2, Types
<1>5. Lasts(o) /\ \A c \in Objects \ {o} : Keeps(c)
  BY <1>2, <1>3 DEF Keeps, Lasts
<1>6. \A c \in Objects : Exists(c)' <=> Exists(c)
  BY <1>2, <1>3 DEF Exists
<1>7. GoneIsGone'
  BY <1>3, <1>6 DEF IInv, Files, GoneIsGone
<1>8. Nesting'
  <2> SUFFICES ASSUME NEW c \in Objects, Exists(c)', objs'[c].dir # Root
               PROVE  NestedIn(c, objs[c].dir)'
    BY DEF Nesting
  <2> DEFINE d == objs[c].dir
  <2>1. Exists(c) /\ objs'[c].dir = d /\ d # Root /\ d \in Objects
    BY <1>2, <1>3, <1>6, Types DEF Things
  <2>2. NestedIn(c, d)
    BY <2>1 DEF IInv, Files, Nesting
  <2>3. objs'[c].touched = objs[c].touched /\ objs'[c].by = objs[c].by /\ objs'[c].name.by \notin Sweepers
    BY <1>1, <1>2, <1>3, <2>1, <2>2 DEF NestedIn
  <2>4. /\ objs'[d].touched = objs[d].touched /\ objs'[d].by = objs[d].by /\ objs'[d].dir = objs[d].dir
        /\ objs'[d].kind = objs[d].kind /\ Exists(d)'
    BY <1>2, <1>3, <1>6, <2>1, <2>2 DEF NestedIn
  <2> QED  BY <2>1, <2>2, <2>3, <2>4 DEF NestedIn
<1> QED  BY <1>1, <1>2, <1>4, <1>5, <1>7, <1>8, Types DEF FilesTyped, Isolates

LEMMA AddedFiles ==
  ASSUME IInv, NEW n \in Fresh, NEW e \in Things, e.kind # "none", e.born = clock, e.mtime = clock,
         e.name.by \notin Procs, e.name.by = "moved" => e.name.of = n,
         \A c \in Objects : Exists(c) => objs[c].dir # e.dir \/ objs[c].name # e.name,
         e.dir = Root \/ /\ Exists(e.dir) /\ objs[e.dir].kind = "dir" /\ objs[e.dir].dir = Root
                         /\ e.touched = objs[e.dir].touched
                         /\ ~e.touched => e.by = objs[e.dir].by,
         UNCHANGED <<system, clock>>, objs' = [objs EXCEPT ![n] = e]
  PROVE  FilesTyped /\ Adds(n) /\ Nesting'
<1>1. n \in Objects /\ n \in Unused /\ ~Exists(n)
  BY DEF Fresh, Unused, Exists
<1>2. objs'[n] = e /\ \A c \in Objects \ {n} : objs'[c] = objs[c]
  BY <1>1, Types
<1>3. objs' \in [Objects -> Things] /\ GoneIsGone'
  BY <1>1, <1>2, Types, NobodyIsNone DEF IInv, Files, GoneIsGone, Exists
<1>4. Adds(n)
  BY <1>1, <1>2 DEF Adds, Comes, Keeps, Lasts
<1>5. Nesting'
  <2> SUFFICES ASSUME NEW c \in Objects, Exists(c)', objs'[c].dir # Root
               PROVE  NestedIn(c, objs[c].dir)'
    BY DEF Nesting
  <2>1. CASE c = n
    <3>1. objs'[c].dir = e.dir /\ e.dir # n /\ e.dir \in Objects /\ objs'[e.dir] = objs[e.dir]
      BY <1>1, <1>2, <2>1 DEF Things
    <3>2. e.name.by \notin Sweepers
      BY DEF Procs
    <3> QED  BY <1>2, <2>1, <3>1, <3>2 DEF NestedIn, Exists
  <2>2. CASE c # n
    <3>1. objs'[c] = objs[c] /\ Exists(c) /\ NestedIn(c, objs[c].dir) /\ objs[c].dir \in Objects
      BY <1>2, <2>2, Types DEF IInv, Files, Nesting, Exists, Things
    <3>2. objs[c].dir # n
      BY <1>1, <3>1 DEF NestedIn
    <3> QED  BY <1>2, <3>1, <3>2 DEF NestedIn, Exists
  <2> QED  BY <2>1, <2>2
<1> QED  BY <1>1, <1>3, <1>4, <1>5, Types DEF FilesTyped

Places == Making \cup Filling \cup Removing \cup Ended \cup {"body", "list", "look"}

LocalsTyped ==
  /\ at \in [Procs -> Places]
  /\ mine \in [Procs -> [dir : Objects \cup {Nobody}, file : Objects \cup {Nobody}]]
  /\ expected \in [Procs -> [dir : Objects \cup {Nobody}, file : Objects \cup {Nobody}]]
  /\ fd \in [Procs -> Objects \cup {Nobody}]
  /\ todo \in [Procs -> [names : SUBSET Listed, name : Listed, cutoff : 0..1]]
  /\ faulty \subseteq Procs /\ trouble \in 0..MaxTrouble

Local(p) == Role(p) /\ Possessions(p) /\ Errands(p)

LEMMA Commands ==
  ASSUME IInv
  PROVE  /\ LocalsTyped /\ \A p \in Procs : Local(p) /\ at[p] \in Places
BY DEF IInv, TypeOK, Locals, LocalsTyped, Local, Places

LEMMA Kinds ==
  ASSUME NEW p \in Procs
  PROVE  /\ p \in Sweepers <=> p \notin Creators
         /\ p \in Creators <=> p \in Artifacts \cup Directories \cup Makers
         /\ p \in Artifacts => p \notin Directories \cup Makers
         /\ Nested(p) => p \in Artifacts /\ p \in Creators /\ p \notin Sweepers
         /\ FileTarget(p) \in Listed \/ p \in Sweepers
         /\ p \notin Sweepers => Target(p) = Candidate(p) /\ FileTarget(p) = FileName(p)
         /\ p \in Sweepers => Target(p) = todo[p].name /\ FileTarget(p) = todo[p].name
         /\ FileName(p) = IF Nested(p) THEN Environment ELSE Candidate(p)
BY ConstantsAssumption, NameTypes DEF Procs, Creators, Nested, FileTarget, Target, FileName

LEMMA Targets ==
  ASSUME IInv, NEW p \in Procs
  PROVE  FileTarget(p) \in Listed /\ Target(p) \in Listed
<1>1. todo[p].name \in Listed
  BY DEF IInv, TypeOK
<1> QED  BY <1>1, Kinds, NameTypes

\* The directory and the file that p creates.
NewDir(p, o) ==
  /\ mine'[p].dir = o /\ mine'[p].file = mine[p].file /\ objs'[o].kind = "dir" /\ objs'[o].dir = Root
  /\ objs'[o].by = p /\ objs'[o].name = Candidate(p) /\ objs'[o].access = "own" /\ objs'[o].owner = "user"
NewOwnFile(p, o) ==
  /\ mine'[p].file = o /\ mine'[p].dir = mine[p].dir /\ objs'[o].kind = "file" /\ objs'[o].by = p
  /\ objs'[o].name = FileName(p) /\ objs'[o].owner = "user"
  /\ objs'[o].access = Access(objs'[o].dir)
  /\ ~Nested(p) => objs'[o].dir = Root
  /\ Nested(p) => objs'[o].dir # Root /\ objs'[o].dir = Named(Root, Candidate(p))
  /\ objs'[o].dir = mine[p].dir /\ (objs'[o].dir # Root => ~objs[objs'[o].dir].touched) => ~objs'[o].touched
  /\ ~objs'[o].touched => /\ objs'[o].dir = mine[p].dir
                          /\ objs'[o].dir # Root => Genuine(objs'[o].dir)

LEMMA MkdirFiles ==
  ASSUME IInv, NEW p \in Procs, Mkdir(p)
  PROVE  FilesTyped /\ (\E o \in Objects : Adds(o) /\ NewDir(p, o)) /\ Nesting'
<1>1. PICK o \in Fresh :
        /\ Change(o, [Gone EXCEPT !.kind = "dir", !.name = Candidate(p), !.access = "own",
                                  !.mtime = clock, !.born = clock, !.by = p])
        /\ mine' = [mine EXCEPT ![p].dir = o]
  BY DEF Mkdir
<1> DEFINE e == [Gone EXCEPT !.kind = "dir", !.name = Candidate(p), !.access = "own",
                                 !.mtime = clock, !.born = clock, !.by = p]
<1>2. /\ e \in Things /\ e.kind = "dir" /\ e.dir = Root /\ e.name = Candidate(p) /\ e.born = clock
      /\ e.mtime = clock /\ e.access = "own" /\ e.owner = "user" /\ e.by = p
  BY GoneTypes, NameTypes, Types DEF Things
<1>3. \A c \in Objects : Exists(c) => objs[c].dir # e.dir \/ objs[c].name # e.name
  BY <1>2, NamedNot DEF Mkdir
<1>4. e.name.by = "none" /\ "none" \notin Procs
  BY <1>2, Parts, ConstantsAssumption
<1>5. objs' = [objs EXCEPT ![o] = e] /\ UNCHANGED <<system, clock>>
  BY <1>1 DEF Change
<1> HIDE DEF e
<1>6. o \in Objects /\ mine'[p].dir = o /\ mine'[p].file = mine[p].file /\ objs'[o] = e
  BY <1>1, <1>5, Types, Commands DEF Fresh, Unused, LocalsTyped
<1>7. FilesTyped /\ Adds(o) /\ Nesting'
  BY <1>2, <1>3, <1>4, <1>5, AddedFiles
<1> QED  BY <1>2, <1>6, <1>7 DEF NewDir

\* The entry of a file that a command creates in d.
NewFile(p, d) ==
  [Gone EXCEPT !.kind = "file", !.dir = d, !.name = FileName(p), !.access = Access(d),
               !.mtime = clock, !.born = clock, !.by = p,
               !.touched = d # mine[p].dir \/ (d # Root /\ objs[d].touched)]

LEMMA NewFileFields ==
  ASSUME IInv, NEW p \in Procs, NEW d \in Objects \cup {Root}
  PROVE  LET e == NewFile(p, d) IN
         /\ e \in Things /\ e.kind = "file" /\ e.dir = d /\ e.name = FileName(p) /\ e.access = Access(d)
         /\ e.born = clock /\ e.mtime = clock /\ e.by = p /\ e.owner = "user"
         /\ e.touched = (d # mine[p].dir \/ (d # Root /\ objs[d].touched))
<1>1. Access(d) \in {"own", "inherited", "open"}
  BY DEF Access
<1>2. FileName(p) \in Names
  BY NameTypes DEF FileName
<1>3. PICK t \in BOOLEAN : t = (d # mine[p].dir \/ (d # Root /\ objs[d].touched))
  OBVIOUS
<1> DEFINE e == [Gone EXCEPT !.kind = "file", !.dir = d, !.name = FileName(p), !.access = Access(d),
               !.mtime = clock, !.born = clock, !.by = p, !.touched = t]
<1>4. NewFile(p, d) = e
  BY <1>3, Zenon DEF NewFile
<1>5. /\ e \in Things /\ e.kind = "file" /\ e.dir = d /\ e.name = FileName(p) /\ e.access = Access(d)
      /\ e.born = clock /\ e.mtime = clock /\ e.by = p /\ e.owner = "user" /\ e.touched = t
  BY <1>1, <1>2, GoneTypes, Types DEF Things
<1> HIDE DEF e
<1> QED  BY <1>3, <1>4, <1>5, Zenon

\* A file goes where the command's directory, or another by its name, lies.
LEMMA OpenFileDoes ==
  ASSUME IInv, NEW p \in Procs, OpenFile(p)
  PROVE  LET d == IF Nested(p) THEN Named(Root, Candidate(p)) ELSE Root IN
         \/ Undo(p)
         \/ /\ FileNamed(p, FileName(p)) = Nobody
            /\ Nested(p) => /\ d \in Objects /\ d # Root /\ Exists(d) /\ objs[d].kind = "dir"
                            /\ objs[d].dir = Root /\ objs[d].name = Candidate(p)
                            /\ FileNamed(p, FileName(p)) = Named(d, FileName(p))
            /\ \E o \in Fresh :
                 /\ objs' = [objs EXCEPT ![o] = NewFile(p, d)] /\ UNCHANGED <<system, clock>>
                 /\ mine' = [mine EXCEPT ![p].file = o] /\ fd' = [fd EXCEPT ![p] = o]
            /\ Goto(p, "fileIdentity") /\ UNCHANGED <<expected, todo>> /\ NoFault
<1> DEFINE d == IF Nested(p) THEN Named(Root, Candidate(p)) ELSE Root
<1>1. ASSUME Nested(p), d # Nobody /\ objs[d].kind = "dir"
      PROVE  /\ d \in Objects /\ d # Root /\ Exists(d) /\ objs[d].kind = "dir"
             /\ objs[d].dir = Root /\ objs[d].name = Candidate(p)
             /\ FileNamed(p, FileName(p)) = Named(d, FileName(p))
  BY <1>1, NamedIs DEF FileNamed, Root, Nobody
<1> QED  BY <1>1, Zenon DEF OpenFile, Change, NewFile

LEMMA OpenFileFiles ==
  ASSUME IInv, NEW p \in Procs, OpenFile(p)
  PROVE  FilesTyped /\ ((Remain /\ Undo(p)) \/ \E o \in Objects : Adds(o) /\ NewOwnFile(p, o)) /\ Nesting'
<1>1. CASE Undo(p)
  BY <1>1, UnchangedFiles DEF Undo, Close
<1>2. CASE ~Undo(p)
  <2> DEFINE d == IF Nested(p) THEN Named(Root, Candidate(p)) ELSE Root
             e == NewFile(p, d)
  <2>1. /\ Nested(p) => /\ d \in Objects /\ d # Root /\ Exists(d) /\ objs[d].kind = "dir"
                        /\ objs[d].dir = Root /\ objs[d].name = Candidate(p)
        /\ ~Nested(p) => d = Root
        /\ Named(d, FileName(p)) = Nobody
    BY <1>2, OpenFileDoes DEF FileNamed
  <2>2. PICK o \in Fresh : /\ objs' = [objs EXCEPT ![o] = e] /\ UNCHANGED <<system, clock>>
                           /\ mine' = [mine EXCEPT ![p].file = o]
    BY <1>2, OpenFileDoes
  <2>3. d \in Objects \cup {Root}
    BY <2>1
  <2>13. Nested(p) => d = Named(Root, Candidate(p))
    OBVIOUS
  <2> HIDE DEF d
  <2>4. /\ e \in Things /\ e.kind = "file" /\ e.dir = d /\ e.name = FileName(p)
        /\ e.born = clock /\ e.mtime = clock /\ e.by = p /\ e.owner = "user" /\ e.access = Access(d)
        /\ e.touched = (d # mine[p].dir \/ (d # Root /\ objs[d].touched))
    BY <2>3, NewFileFields
  <2> HIDE DEF e
  <2>5. \A c \in Objects : Exists(c) => objs[c].dir # e.dir \/ objs[c].name # e.name
    BY <2>1, <2>4, NamedNot
  <2>6. e.name.by = "none" /\ "none" \notin Procs
    BY <2>4, Parts, ConstantsAssumption DEF FileName
  <2>7. \A c \in Objects : objs[c].touched \in BOOLEAN
    BY Types DEF Things
  <2>8. ASSUME d # Root
        PROVE  /\ Exists(d) /\ objs[d].kind = "dir" /\ objs[d].dir = Root
               /\ e.touched = objs[d].touched /\ (~e.touched => e.by = objs[d].by)
    <3>1. Nested(p) /\ d \in Objects /\ Exists(d) /\ objs[d].name = Candidate(p)
      BY <2>1, <2>8
    <3>2. CASE objs[d].touched
      BY <2>1, <2>4, <2>7, <2>8, <3>1, <3>2
    <3>3. CASE ~objs[d].touched
      <4> DEFINE q == objs[d].by
      <4>1. InPlace(d, q)
        BY <3>1, <3>3 DEF IInv, Tied, Placed, Genuine
      <4>2. objs[d].name.of = p /\ objs[d].name.of # "environment"
        BY <3>1, Parts, ConstantsAssumption
      <4>3. d # mine[q].file \/ Nested(q)
        BY <2>1, <3>1, <4>1, Kinds DEF IInv, Tied, Made, MadeFile, InPlace, Procs
      <4>4. q = p /\ d = mine[p].dir
        BY <4>1, <4>2, <4>3 DEF InPlace
      <4>5. e.touched = (d # mine[p].dir \/ (d # Root /\ objs[d].touched))
        BY <2>4
      <4>6. e.touched = objs[d].touched
        BY <2>7, <3>1, <3>3, <4>4, <4>5
      <4> QED  BY <2>1, <2>4, <2>8, <3>1, <4>4, <4>6
    <3> QED  BY <3>2, <3>3
  <2>9. FilesTyped /\ Adds(o) /\ Nesting'
    BY <2>2, <2>4, <2>5, <2>6, <2>8, AddedFiles
  <2>10. o \in Objects /\ mine'[p].file = o /\ mine'[p].dir = mine[p].dir /\ objs'[o] = e
    BY <2>2, Types, Commands DEF Fresh, Unused, LocalsTyped
  <2>11. ~e.touched => d = mine[p].dir /\ (d # Root => Genuine(d))
    BY <2>1, <2>4 DEF Genuine
  <2> HIDE DEF Access
  <2>12. NewOwnFile(p, o)
    BY <2>1, <2>13, <2>4, <2>10, <2>11 DEF NewOwnFile
  <2> QED  BY <2>9, <2>10, <2>12
<1> QED  BY <1>1, <1>2

LEMMA MoveFileIsolates ==
  ASSUME IInv, NEW p \in Procs, MoveFile(p), FileNamed(p, FileTarget(p)) # Nobody
  PROVE  FilesTyped /\ Isolates(p, FileNamed(p, FileTarget(p))) /\ Nesting'
<1> DEFINE o == FileNamed(p, FileTarget(p))
           n == FileTarget(p)
<1>1. o \in Objects /\ Exists(o) /\ objs[o].name = n /\ (objs[o].dir # Root => Nested(p))
  BY FileNamedIs
<1>2. UNCHANGED <<system, clock>> /\ objs' = [objs EXCEPT ![o] = [objs[o] EXCEPT !.name = Quarantine(p, n)]]
  BY DEF MoveFile, Change
<1>3. Unspent(p, n.of)
  BY Kinds DEF MoveFile, Unspent, Ended
<1> HIDE DEF o
<1>4. n \in Listed
  BY Targets
<1> HIDE DEF n
<1>5. objs[o].dir # Root => p \notin Sweepers
  BY <1>1, Kinds
<1> QED  BY <1>1, <1>2, <1>3, <1>4, <1>5, RenamedFiles DEF o, n

LEMMA MoveDirIsolates ==
  ASSUME IInv, NEW p \in Procs, MoveDir(p), Named(Root, Target(p)) # Nobody
  PROVE  FilesTyped /\ Isolates(p, Named(Root, Target(p))) /\ Nesting'
<1> DEFINE o == Named(Root, Target(p))
           n == Target(p)
<1>1. o \in Objects /\ Exists(o) /\ objs[o].name = n /\ objs[o].dir = Root
  BY NamedIs
<1>2. UNCHANGED <<system, clock>> /\ objs' = [objs EXCEPT ![o] = [objs[o] EXCEPT !.name = Quarantine(p, n)]]
  BY DEF MoveDir, Change
<1>3. Unspent(p, n.of)
  BY Kinds, Parts DEF MoveDir, Unspent
<1> HIDE DEF o
<1>4. n \in Listed
  BY Targets
<1> HIDE DEF n
<1> QED  BY <1>1, <1>2, <1>3, <1>4, RenamedFiles DEF o, n

\* A file that is deleted holds nothing.
LEMMA DeleteFileDoes ==
  ASSUME IInv, NEW p \in Procs, DeleteFile(p)
  PROVE  LET o == FileNamed(p, Quarantine(p, FileTarget(p))) IN
         \/ o = Nobody /\ UNCHANGED files
         \/ /\ o # Nobody /\ o \in Objects /\ Exists(o) /\ Inside(o) = {}
            /\ o = expected[p].file /\ (objs[o].dir # Root => Nested(p))
            /\ objs' = [c \in Objects |-> IF c \in {o} THEN Gone ELSE objs[c]]
            /\ UNCHANGED <<system, clock>>
<1> DEFINE o == FileNamed(p, Quarantine(p, FileTarget(p)))
<1>1. CASE o = Nobody
  BY <1>1, Zenon DEF DeleteFile, Passes
<1>2. CASE o # Nobody
  <2>1. /\ o \in Objects /\ Exists(o) /\ objs[o].name = Quarantine(p, FileTarget(p))
        /\ objs[o].dir # Root => Nested(p)
    BY <1>2, FileNamedIs
  <2>2. objs' = [objs EXCEPT ![o] = Gone] /\ UNCHANGED <<system, clock>> /\ at[p] = "delete"
    BY <1>2 DEF DeleteFile, Change
  <2> HIDE DEF o
  <2>3. o = expected[p].file /\ objs[o].kind = "file"
    BY <2>1, <2>2 DEF IInv, Tied, Found
  <2>4. Inside(o) = {}
    <3> SUFFICES ASSUME NEW c \in Inside(o) PROVE FALSE
      OBVIOUS
    <3> QED  BY <2>1, <2>3, NobodyIsNone DEF Inside, IInv, Files, Nesting, NestedIn, Root, Nobody
  <2>5. objs' = [c \in Objects |-> IF c \in {o} THEN Gone ELSE objs[c]]
    BY <2>2, Types
  <2> QED  BY <1>2, <2>1, <2>2, <2>3, <2>4, <2>5 DEF o
<1> QED  BY <1>1, <1>2

LEMMA DeleteFileFiles ==
  ASSUME IInv, NEW p \in Procs, DeleteFile(p)
  PROVE  FilesTyped /\ Thins /\ Nesting'
<1> DEFINE o == FileNamed(p, Quarantine(p, FileTarget(p)))
<1>1. CASE UNCHANGED files
  BY <1>1, UnchangedFiles, RemainThins
<1>2. CASE ~UNCHANGED files
  <2>1. /\ o \in Objects /\ Inside(o) = {} /\ UNCHANGED <<system, clock>>
        /\ objs' = [c \in Objects |-> IF c \in {o} THEN Gone ELSE objs[c]]
    BY <1>2, DeleteFileDoes
  <2> HIDE DEF o
  <2>2. {o} \in SUBSET Objects /\ \A c \in {o} : Inside(c) \subseteq {o}
    BY <2>1
  <2> QED  BY <2>1, <2>2, RemovedFiles
<1> QED  BY <1>1, <1>2

LEMMA InsideInside ==
  ASSUME IInv, NEW o \in Objects
  PROVE  Inside(o) \cup {o} \in SUBSET Objects /\ \A c \in Inside(o) \cup {o} : Inside(c) \subseteq Inside(o) \cup {o}
<1>1. ASSUME NEW c \in Inside(o), NEW b \in Inside(c) PROVE FALSE
  <2>1. c \in Objects /\ o # Root /\ objs[c].dir = o
    BY NobodyIsNone DEF Inside, Root, Nobody
  <2>2. objs[b].dir = c /\ c # Root /\ objs[c].dir = Root
    BY <2>1, NobodyIsNone DEF Inside, IInv, Files, Nesting, NestedIn, Root, Nobody
  <2> QED  BY <2>1, <2>2
<1> QED  BY <1>1 DEF Inside

LEMMA DeleteDirDoes ==
  ASSUME IInv, NEW p \in Procs, DeleteDir(p)
  PROVE  LET o == Named(Root, Quarantine(p, Target(p))) IN
         \/ o = Nobody /\ UNCHANGED files
         \/ /\ o # Nobody /\ o \in Objects /\ Exists(o) /\ objs[o].dir = Root /\ o = expected[p].dir
            /\ objs' = [c \in Objects |-> IF c \in Inside(o) \cup {o} THEN Gone ELSE objs[c]]
            /\ UNCHANGED <<system, clock>>
<1> DEFINE o == Named(Root, Quarantine(p, Target(p)))
<1>1. CASE o = Nobody
  BY <1>1, Zenon DEF DeleteDir, Passes
<1>2. CASE o # Nobody
  <2>1. /\ o \in Objects /\ Exists(o) /\ objs[o].name = Quarantine(p, Target(p)) /\ objs[o].dir = Root
    BY <1>2, NamedIs
  <2>2. /\ objs' = [c \in Objects |-> IF c \in Inside(o) \cup {o} THEN Gone ELSE objs[c]]
        /\ UNCHANGED <<system, clock>> /\ at[p] = "deleteDir"
    BY <1>2 DEF DeleteDir
  <2> HIDE DEF o
  <2>3. o = expected[p].dir
    BY <2>1, <2>2 DEF IInv, Tied, Found
  <2> QED  BY <1>2, <2>1, <2>2, <2>3 DEF o
<1> QED  BY <1>1, <1>2

LEMMA DeleteDirFiles ==
  ASSUME IInv, NEW p \in Procs, DeleteDir(p)
  PROVE  FilesTyped /\ Thins /\ Nesting'
<1> DEFINE o == Named(Root, Quarantine(p, Target(p)))
<1>1. CASE UNCHANGED files
  BY <1>1, UnchangedFiles, RemainThins
<1>2. CASE ~UNCHANGED files
  <2>1. /\ o \in Objects /\ UNCHANGED <<system, clock>>
        /\ objs' = [c \in Objects |-> IF c \in Inside(o) \cup {o} THEN Gone ELSE objs[c]]
    BY <1>2, DeleteDirDoes
  <2> HIDE DEF o
  <2> QED  BY <2>1, InsideInside, RemovedFiles
<1> QED  BY <1>1, <1>2

LEMMA AlterFiles ==
  ASSUME IInv, NEW p \in Procs, ChmodDir(p) \/ Write(p) \/ Protect(p)
  PROVE  FilesTyped /\ Remain /\ Nesting'
<1>1. \A o \in Objects : objs[o] \in Things
  BY Types
<1>2. \A o \in Objects :
        /\ [objs[o] EXCEPT !.access = "own"] =
             [objs[o] EXCEPT !.access = "own", !.filled = objs[o].filled, !.mtime = objs[o].mtime]
        /\ [objs[o] EXCEPT !.filled = TRUE, !.mtime = clock] =
             [objs[o] EXCEPT !.access = objs[o].access, !.filled = TRUE, !.mtime = clock]
        /\ objs[o].filled \in BOOLEAN
  BY <1>1 DEF Things
<1>3. CASE ChmodDir(p)
  <2>1. CASE Undo(p)
    BY <2>1, UnchangedFiles DEF Undo, Close
  <2>2. CASE ~Undo(p)
    <3>1. fd[p] \in Objects
      BY <1>3 DEF ChmodDir, IInv, Locals, Possessions, Opening, TypeOK
    <3>2. UNCHANGED <<system, clock>> /\ objs' = [objs EXCEPT ![fd[p]] =
            IF Exists(fd[p]) THEN [objs[fd[p]] EXCEPT !.access = "own"] ELSE Gone]
      BY <1>3, <2>2 DEF ChmodDir, Through, Change
    <3> QED  BY <1>2, <3>1, <3>2, AlteredFiles
  <2> QED  BY <2>1, <2>2
<1>4. CASE Write(p)
  <2>1. fd[p] \in Objects
    BY <1>4 DEF Write, IInv, Locals, Possessions, Holding, TypeOK
  <2>2. UNCHANGED <<system, clock>> /\ objs' = [objs EXCEPT ![fd[p]] =
          IF Exists(fd[p]) THEN [objs[fd[p]] EXCEPT !.filled = TRUE, !.mtime = clock] ELSE Gone]
    BY <1>4 DEF Write, Through, Change
  <2> QED  BY <1>2, <2>1, <2>2, AlteredFiles
<1>5. CASE Protect(p)
  <2>1. CASE Undo(p)
    BY <2>1, UnchangedFiles DEF Undo, Close
  <2>2. CASE ~Undo(p)
    <3> DEFINE o == IF Nested(p) THEN FileNamed(p, FileName(p)) ELSE fd[p]
    <3>1. UNCHANGED <<system, clock>> /\ o # Nobody /\ objs' = [objs EXCEPT ![o] =
            IF Exists(o) THEN [objs[o] EXCEPT !.access = "own"] ELSE Gone]
      BY <1>5, <2>2 DEF Protect, Change
    <3>2. o \in Objects
      BY <3>1, FileNamedIs DEF IInv, TypeOK
    <3> HIDE DEF o
    <3> QED  BY <1>2, <3>1, <3>2, AlteredFiles
  <2> QED  BY <2>1, <2>2
<1> QED  BY <1>3, <1>4, <1>5

\* In a directory that only its maker has touched, there is only its maker's file.
LEMMA OnlyChild ==
  ASSUME IInv, NEW o \in Objects, Genuine(o), objs[o].dir # Root
  PROVE  LET d == objs[o].dir IN
         d \in Objects /\ Genuine(d) /\ o = mine[objs[d].by].file /\ d = mine[objs[d].by].dir
         /\ objs[d].by = objs[o].by
<1> DEFINE d == objs[o].dir
           q == objs[o].by
<1>1. d \in Objects /\ Genuine(d) /\ objs[d].by = q /\ objs[d].dir = Root /\ q \in Creators /\ q \in Procs
  BY Types DEF Genuine, IInv, Files, Nesting, NestedIn, Things, Tied, Placed, InPlace, Procs
<1>2. InPlace(o, q)
  BY DEF IInv, Tied, Placed
<1>3. Exists(o)
  BY DEF Genuine
<1>4. o # mine[q].dir /\ (o = mine[q].file => Nested(q))
  BY <1>1, <1>3 DEF IInv, Tied, Made, MadeDir, MadeFile
<1> QED  BY <1>1, <1>2, <1>4 DEF InPlace

Like(new, old) ==
  /\ new.kind = old.kind /\ new.dir = old.dir /\ new.by = old.by /\ new.owner = old.owner
  /\ new.born = old.born /\ new.mtime = old.mtime /\ new.access = old.access /\ new.name = old.name
  /\ old.touched => new.touched

LEMMA TouchFields ==
  ASSUME IInv, NEW o \in Objects, Exists(o)
  PROVE  /\ Touch(o) \in [Objects -> Things]
         /\ \A c \in Objects :
              /\ Like(Touch(o)[c], objs[c]) /\ (~Exists(c) => Touch(o)[c] = objs[c])
              /\ c \in Inside(o) \cup {o, objs[o].dir} => Touch(o)[c].touched
         /\ \A c \in Objects : Exists(c) /\ objs[c].dir # Root =>
              Touch(o)[c].touched = Touch(o)[objs[c].dir].touched
<1> DEFINE Near == Inside(o) \cup {o, objs[o].dir}
           T == Touch(o)
<1>1. T = [c \in Objects |-> IF c \in Near THEN [objs[c] EXCEPT !.touched = TRUE] ELSE objs[c]]
  BY DEF Touch, Reached
<1>2. \A c \in Objects : c \in Near => Exists(c)
  BY NobodyIsNone, Types DEF Inside, IInv, Files, Nesting, NestedIn, Root, Nobody, Things
<1>3. ASSUME NEW c \in Objects
      PROVE  /\ T[c] \in Things /\ T[c].kind = objs[c].kind /\ T[c].dir = objs[c].dir
             /\ T[c].by = objs[c].by /\ T[c].owner = objs[c].owner
             /\ T[c].born = objs[c].born /\ T[c].mtime = objs[c].mtime
             /\ T[c].access = objs[c].access /\ T[c].name = objs[c].name
             /\ T[c].touched = (objs[c].touched \/ c \in Near)
             /\ ~Exists(c) => T[c] = objs[c]
  <2>1. objs[c] \in Things /\ objs[c].touched \in BOOLEAN
    BY Types DEF Things
  <2>2. CASE c \in Near
    <3>1. T[c] = [objs[c] EXCEPT !.touched = TRUE]
      BY <1>1, <2>2
    <3> HIDE DEF T, Near
    <3> QED  BY <1>2, <2>1, <2>2, <3>1 DEF Things
  <2>3. CASE c \notin Near
    <3>1. T[c] = objs[c]
      BY <1>1, <2>3
    <3> HIDE DEF T, Near
    <3> QED  BY <2>1, <2>3, <3>1
  <2> QED  BY <2>2, <2>3
<1>4. T \in [Objects -> Things]
  BY <1>1, <1>3
<1> HIDE DEF T
<1>5. ASSUME NEW c \in Objects, Exists(c), objs[c].dir # Root
      PROVE  T[c].touched = T[objs[c].dir].touched
  <2> DEFINE d == objs[c].dir
  <2>1. d \in Objects /\ NestedIn(c, d) /\ Exists(d)
    BY <1>5, Types DEF IInv, Files, Nesting, NestedIn, Things
  <2>2. /\ objs[c].touched \in BOOLEAN /\ objs[c].touched = objs[d].touched
        /\ objs[d].dir = Root
    BY <2>1, Types DEF NestedIn, Things
  <2>3. d \notin Inside(o) /\ (d = objs[o].dir => objs[o].dir # Root)
    BY <1>5, <2>2, NobodyIsNone DEF Inside, Root, Nobody
  <2>4. c # objs[o].dir
    BY <1>5, NobodyIsNone DEF IInv, Files, Nesting, NestedIn, Root, Nobody
  <2>5. CASE objs[c].touched
    BY <1>3, <2>1, <2>2, <2>5
  <2>6. CASE ~objs[c].touched
    <3>1. ASSUME d = objs[o].dir, c # o PROVE FALSE
      <4>1. Genuine(c) /\ Genuine(o)
        BY <1>5, <2>2, <2>3, <2>6, <3>1 DEF IInv, Files, Nesting, NestedIn, Genuine
      <4> QED  BY <1>5, <2>3, <3>1, <4>1, OnlyChild
    <3>2. d = o <=> c \in Inside(o)
      BY <1>5 DEF Inside
    <3>3. d \in Near <=> c \in Near
      BY <2>3, <2>4, <3>1, <3>2
    <3> HIDE DEF Near
    <3> QED  BY <1>3, <2>1, <2>2, <3>3
  <2> QED  BY <2>5, <2>6
<1>6. \A c \in Objects : Like(T[c], objs[c]) /\ (c \in Near => T[c].touched)
  <2> HIDE DEF Near
  <2> QED  BY <1>3 DEF Like
<1> QED  BY <1>3, <1>4, <1>5, <1>6 DEF T

LEMMA OpenUpFiles ==
  ASSUME IInv, NEW o \in Objects, OpenUp(o)
  PROVE  FilesTyped /\ Thins /\ Nesting'
<1> DEFINE T == Touch(o)
<1>1. Exists(o) /\ UNCHANGED <<system, clock>> /\ objs' = [T EXCEPT ![o].access = "open"]
  BY DEF OpenUp, Others
<1>2. /\ T \in [Objects -> Things]
      /\ \A c \in Objects :
           /\ Like(T[c], objs[c]) /\ (~Exists(c) => T[c] = objs[c])
           /\ c \in Inside(o) \cup {o, objs[o].dir} => T[c].touched
      /\ \A c \in Objects : Exists(c) /\ objs[c].dir # Root =>
           T[c].touched = T[objs[c].dir].touched
  BY <1>1, TouchFields
<1>3. T[o].touched
  BY <1>2
<1> HIDE DEF T
<1>4. /\ objs'[o] \in Things /\ objs'[o].kind = T[o].kind /\ objs'[o].dir = T[o].dir
      /\ objs'[o].by = T[o].by /\ objs'[o].owner = T[o].owner /\ objs'[o].born = T[o].born
      /\ objs'[o].mtime = T[o].mtime /\ objs'[o].touched = T[o].touched /\ objs'[o].name = T[o].name
  BY <1>1, <1>2 DEF Things
<1>5. \A c \in Objects \ {o} : objs'[c] = T[c]
  BY <1>1, <1>2
<1>6. objs' \in [Objects -> Things]
  BY <1>1, <1>2, <1>4
<1>7. \A c \in Objects : Keeps(c) /\ objs'[c].touched = T[c].touched
  <2> SUFFICES ASSUME NEW c \in Objects PROVE Keeps(c) /\ objs'[c].touched = T[c].touched
    OBVIOUS
  <2>1. Like(T[c], objs[c])
    BY <1>2
  <2>2. CASE c = o
    BY <1>3, <1>4, <2>1, <2>2 DEF Keeps, Lasts, Like
  <2>3. CASE c # o
    BY <1>5, <2>1, <2>3 DEF Keeps, Lasts, Like
  <2> QED  BY <2>2, <2>3
<1>8. \A c \in Objects : Exists(c)' <=> Exists(c)
  BY <1>7 DEF Keeps, Lasts, Exists
<1>9. Nesting'
  <2>1. \A c \in Objects : Exists(c)' /\ objs[c].dir # Root =>
          Exists(objs[c].dir)' /\ objs'[c].touched = objs'[objs[c].dir].touched
    <3>1. \A c \in Objects : Exists(c) /\ objs[c].dir # Root => objs[c].dir \in Objects /\ Exists(objs[c].dir)
      BY Types DEF IInv, Files, Nesting, NestedIn, Things
    <3>2. \A c \in Objects : objs'[c].dir = objs[c].dir
      BY <1>7 DEF Keeps, Lasts
    <3> QED  BY <1>2, <1>7, <1>8, <3>1, <3>2 DEF Exists
  <2> QED  BY <1>7, <1>8, <2>1, NestingStays, Types DEF IInv, Files
<1>10. GoneIsGone'
  BY <1>1, <1>2, <1>5, <1>8 DEF IInv, Files, GoneIsGone
<1> QED  BY <1>1, <1>6, <1>7, <1>9, <1>10, Types DEF FilesTyped, Thins

LEMMA TakeFiles ==
  ASSUME IInv, NEW o \in Objects, Take(o)
  PROVE  FilesTyped /\ Thins /\ Nesting'
<1> DEFINE T == Touch(o)
           S == Inside(o) \cup {o}
<1>1. /\ Exists(o) /\ UNCHANGED <<system, clock>>
      /\ objs' = [c \in Objects |-> IF c \in S THEN Gone ELSE T[c]]
  BY DEF Take, Others, Reached
<1>2. /\ T \in [Objects -> Things]
      /\ \A c \in Objects :
           /\ Like(T[c], objs[c]) /\ (~Exists(c) => T[c] = objs[c])
           /\ c \in Inside(o) \cup {o, objs[o].dir} => T[c].touched
      /\ \A c \in Objects : Exists(c) /\ objs[c].dir # Root =>
           T[c].touched = T[objs[c].dir].touched
  BY <1>1, TouchFields
<1> HIDE DEF T
<1>3. S \in SUBSET Objects /\ \A c \in S : Inside(c) \subseteq S
  BY InsideInside
<1>4. \A c \in Objects : c \in Inside(o) <=> Exists(c) /\ objs[c].dir = o
  BY DEF Inside
<1>5. \A c \in Objects : objs'[c] = IF c \in S THEN Gone ELSE T[c]
  BY <1>1
<1>6. objs' \in [Objects -> Things]
  BY <1>1, <1>2, GoneTypes
<1>7. \A c \in Objects : c \notin S => Keeps(c) /\ objs'[c].touched = T[c].touched
  <2> SUFFICES ASSUME NEW c \in Objects, c \notin S PROVE Keeps(c) /\ objs'[c].touched = T[c].touched
    OBVIOUS
  <2>1. objs'[c] = T[c] /\ Like(T[c], objs[c])
    BY <1>2, <1>5
  <2> QED  BY <2>1 DEF Keeps, Lasts, Like
<1>8. \A c \in Objects : Exists(c)' <=> c \notin S /\ Exists(c)
  BY <1>5, <1>7, GoneTypes DEF Keeps, Lasts, Exists
<1>9. GoneIsGone'
  BY <1>2, <1>5, <1>8 DEF IInv, Files, GoneIsGone
<1>10. Nesting'
  <2>1. ASSUME NEW c \in Objects, Exists(c)', objs[c].dir # Root
        PROVE  Exists(objs[c].dir)' /\ objs'[c].touched = objs'[objs[c].dir].touched
    <3> DEFINE d == objs[c].dir
    <3>1. d \in Objects /\ NestedIn(c, d) /\ c \notin S /\ Exists(c)
      BY <1>8, <2>1, Types DEF IInv, Files, Nesting, Things
    <3>2. Exists(d) /\ d \notin S
      BY <1>4, <3>1, NobodyIsNone DEF NestedIn, Root, Nobody
    <3>3. T[c].touched = T[d].touched
      BY <1>2, <2>1, <3>1
    <3> HIDE DEF S
    <3>4. objs'[c].dir = d
      BY <1>7, <3>1 DEF Keeps, Lasts
    <3> QED  BY <1>7, <1>8, <3>1, <3>2, <3>3, <3>4 DEF Exists
  <2> HIDE DEF S
  <2> QED  BY <1>7, <1>8, <2>1, NestingStays, Types DEF IInv, Files
<1> HIDE DEF S
<1> QED  BY <1>1, <1>5, <1>6, <1>7, <1>9, <1>10, Types DEF FilesTyped, Thins

LEMMA StrangerFields ==
  ASSUME IInv, NEW d \in Objects \cup {Root}, NEW n \in Names, NEW kind \in {"file", "dir", "link"},
         NEW access \in {"own", "open"}, NEW owner \in {"user", "another"}
  PROVE  LET e == Stranger(d, n, kind, access, owner) IN
         /\ e \in Things /\ e.kind = kind /\ e.dir = d /\ e.name = n /\ e.touched
         /\ e.born = clock /\ e.mtime = clock
BY GoneTypes, Types DEF Things, Stranger

LEMMA ExchangeDoes ==
  ASSUME IInv, NEW o \in Objects, Exchange(o)
  PROVE  FilesTyped /\ Nesting' /\ \E n \in Objects : Replaces(o, n)
<1> DEFINE T == Touch(o)
<1>1. Exists(o) /\ objs[o].name.by = "none" /\ UNCHANGED <<system, clock>>
  BY DEF Exchange, Others
<1>2. PICK n \in Fresh, kind \in {"file", "dir", "link"}, access \in {"own", "open"},
           owner \in {"user", "another"} :
        objs' = [T EXCEPT ![o].name = MovedAway(o),
                          ![n] = Stranger(objs[o].dir, objs[o].name, kind, access, owner)]
  BY Zenon DEF Exchange
<1> DEFINE e == Stranger(objs[o].dir, objs[o].name, kind, access, owner)
<1>3. n \in Objects /\ n \in Unused /\ ~Exists(n) /\ n # o
  BY <1>1 DEF Fresh, Unused, Exists
<1>4. objs[o].dir \in Objects \cup {Root} /\ objs[o].name \in Names /\ MovedAway(o) \in Names
  BY Types, NameTypes DEF Things
<1>5. /\ e \in Things /\ e.kind = kind /\ e.dir = objs[o].dir /\ e.name = objs[o].name /\ e.touched
      /\ e.born = clock /\ e.mtime = clock
  BY <1>4, StrangerFields
<1>6. /\ T \in [Objects -> Things]
      /\ \A c \in Objects :
           /\ Like(T[c], objs[c]) /\ (~Exists(c) => T[c] = objs[c])
           /\ c \in Inside(o) \cup {o, objs[o].dir} => T[c].touched
      /\ \A c \in Objects : Exists(c) /\ objs[c].dir # Root =>
           T[c].touched = T[objs[c].dir].touched
  BY <1>1, TouchFields
<1>7. T[o].touched /\ (objs[o].dir # Root => T[objs[o].dir].touched)
  BY <1>4, <1>6
<1>8. objs' = [T EXCEPT ![o].name = MovedAway(o), ![n] = e]
  BY <1>2
<1> HIDE DEF T, e
<1>9. /\ objs'[o] \in Things /\ objs'[o].kind = T[o].kind /\ objs'[o].dir = T[o].dir
      /\ objs'[o].by = T[o].by /\ objs'[o].owner = T[o].owner /\ objs'[o].born = T[o].born
      /\ objs'[o].mtime = T[o].mtime /\ objs'[o].touched = T[o].touched /\ objs'[o].name = MovedAway(o)
      /\ objs'[o].access = T[o].access
  BY <1>3, <1>4, <1>6, <1>8 DEF Things
<1>10. objs'[n] = e /\ \A c \in Objects \ {o, n} : objs'[c] = T[c]
  BY <1>3, <1>6, <1>8
<1>11. objs' \in [Objects -> Things]
  BY <1>5, <1>6, <1>8, <1>9, <1>10
<1>12. \A c \in Objects \ {n} : Lasts(c) /\ (c # o => Keeps(c)) /\ objs'[c].touched = T[c].touched
  <2> SUFFICES ASSUME NEW c \in Objects \ {n}
               PROVE  Lasts(c) /\ (c # o => Keeps(c)) /\ objs'[c].touched = T[c].touched
    OBVIOUS
  <2>1. Like(T[c], objs[c])
    BY <1>6
  <2>2. CASE c = o
    BY <1>7, <1>9, <2>1, <2>2 DEF Lasts, Like
  <2>3. CASE c # o
    BY <1>10, <2>1, <2>3 DEF Keeps, Lasts, Like
  <2> QED  BY <2>2, <2>3
<1>13. Exists(n)' /\ \A c \in Objects \ {n} : Exists(c)' <=> Exists(c)
  BY <1>3, <1>5, <1>10, <1>12, NobodyIsNone DEF Lasts, Exists
<1>14. GoneIsGone'
  BY <1>1, <1>6, <1>10, <1>13 DEF IInv, Files, GoneIsGone
<1>15. Nesting'
  <2> SUFFICES ASSUME NEW c \in Objects, Exists(c)', objs'[c].dir # Root
               PROVE  NestedIn(c, objs[c].dir)'
    BY DEF Nesting
  <2>1. CASE c = n
    <3> DEFINE d == objs[o].dir
    <3>1. objs'[c] = e /\ e.dir = d /\ d # Root /\ d \in Objects /\ NestedIn(o, d) /\ d # n /\ d # o
      BY <1>1, <1>3, <1>4, <1>5, <1>10, <2>1 DEF IInv, Files, Nesting, NestedIn
    <3>2. Keeps(d) /\ objs'[d].touched = T[d].touched /\ objs[d].kind = "dir" /\ objs[d].dir = Root
      BY <1>12, <3>1 DEF NestedIn
    <3>3. e.name.by \notin Sweepers
      BY <1>1, <1>5, ConstantsAssumption DEF Procs
    <3>4. (objs'[c].touched = objs'[d].touched) /\ objs'[c].touched
      <4>1. e.touched \in BOOLEAN /\ T[d].touched \in BOOLEAN
        BY <1>5, <1>6, <3>1 DEF Things
      <4> QED  BY <1>5, <1>7, <3>1, <3>2, <4>1
    <3>5. objs'[d].kind = "dir" /\ objs'[d].dir = Root /\ d # Nobody
      BY <3>1, <3>2, NobodyIsNone DEF Keeps, Lasts
    <3>6. objs'[c].dir = d
      BY <3>1
    <3> QED  BY <3>1, <3>3, <3>4, <3>5, <3>6 DEF NestedIn, Exists
  <2>2. CASE c # n
    <3> DEFINE d == objs[c].dir
    <3>1. objs'[c].dir = d /\ Exists(c) /\ NestedIn(c, d) /\ d \in Objects /\ d # Root
      BY <1>12, <1>13, <2>2, Types DEF IInv, Files, Nesting, Things, Lasts
    <3>2. d # n
      BY <1>3, <3>1 DEF NestedIn
    <3>3. Lasts(d) /\ Exists(d)' /\ Lasts(c)
      BY <1>12, <1>13, <2>2, <3>1, <3>2 DEF NestedIn
    <3>4. objs'[c].touched = objs'[d].touched
      BY <1>6, <1>12, <2>2, <3>1, <3>2
    <3>5. objs'[c].name.by \notin Sweepers
      <4>1. CASE c = o
        BY <1>9, <4>1, Parts, ConstantsAssumption DEF Procs
      <4>2. CASE c # o
        BY <1>12, <2>2, <3>1, <4>2 DEF Keeps, NestedIn
      <4> QED  BY <4>1, <4>2
    <3> QED  BY <3>1, <3>3, <3>4, <3>5 DEF NestedIn, Lasts
  <2> QED  BY <2>1, <2>2
<1>16. Replaces(o, n)
  <2>1. Comes(n)
    BY <1>1, <1>3, <1>5, <1>10, ConstantsAssumption DEF Comes
  <2> QED  BY <1>1, <1>3, <1>5, <1>7, <1>9, <1>10, <1>12, <2>1 DEF Replaces
<1> QED  BY <1>1, <1>3, <1>11, <1>14, <1>15, <1>16, Types DEF FilesTyped

LEMMA AddToDoes ==
  ASSUME IInv, NEW o \in Objects, AddTo(o)
  PROVE  FilesTyped /\ Nesting' /\ \E n \in Objects : Adds(n) /\ objs'[n].touched /\ objs'[n].dir # Root
<1> DEFINE T == Touch(o)
<1>1. Exists(o) /\ objs[o].kind = "dir" /\ objs[o].dir = Root /\ UNCHANGED <<system, clock>>
  BY DEF AddTo, Others
<1>2. PICK n \in Fresh, access \in {"own", "open"} :
        objs' = [T EXCEPT ![n] = Stranger(o, MovedAway(n), "file", access, "user")]
  BY Zenon DEF AddTo
<1> DEFINE e == Stranger(o, MovedAway(n), "file", access, "user")
<1>3. n \in Objects /\ n \in Unused /\ ~Exists(n) /\ n # o
  BY <1>1 DEF Fresh, Unused, Exists
<1>5. /\ e \in Things /\ e.kind = "file" /\ e.dir = o /\ e.name = MovedAway(n) /\ e.touched
      /\ e.born = clock /\ e.mtime = clock
  BY <1>3, NameTypes, StrangerFields
<1>6. /\ T \in [Objects -> Things]
      /\ \A c \in Objects :
           /\ Like(T[c], objs[c]) /\ (~Exists(c) => T[c] = objs[c])
           /\ c \in Inside(o) \cup {o, objs[o].dir} => T[c].touched
      /\ \A c \in Objects : Exists(c) /\ objs[c].dir # Root =>
           T[c].touched = T[objs[c].dir].touched
  BY <1>1, TouchFields
<1>7. T[o].touched
  BY <1>6
<1>8. objs' = [T EXCEPT ![n] = e]
  BY <1>2
<1> HIDE DEF T, e
<1>10. objs'[n] = e /\ \A c \in Objects \ {n} : objs'[c] = T[c]
  BY <1>3, <1>6, <1>8
<1>11. objs' \in [Objects -> Things]
  BY <1>5, <1>6, <1>8
<1>12. \A c \in Objects \ {n} : Keeps(c) /\ objs'[c].touched = T[c].touched
  <2> SUFFICES ASSUME NEW c \in Objects \ {n} PROVE Keeps(c) /\ objs'[c].touched = T[c].touched
    OBVIOUS
  <2>1. Like(T[c], objs[c])
    BY <1>6
  <2> QED  BY <1>10, <2>1 DEF Keeps, Lasts, Like
<1>13. Exists(n)' /\ \A c \in Objects \ {n} : Exists(c)' <=> Exists(c)
  BY <1>3, <1>5, <1>10, <1>12, NobodyIsNone DEF Keeps, Lasts, Exists
<1>14. GoneIsGone'
  BY <1>6, <1>10, <1>13 DEF IInv, Files, GoneIsGone
<1>15. Nesting'
  <2> SUFFICES ASSUME NEW c \in Objects, Exists(c)', objs'[c].dir # Root
               PROVE  NestedIn(c, objs[c].dir)'
    BY DEF Nesting
  <2>1. CASE c = n
    <3>1. objs'[c] = e /\ e.dir = o /\ Keeps(o) /\ objs'[o].touched = T[o].touched /\ Exists(o)'
      BY <1>1, <1>3, <1>5, <1>10, <1>12, <1>13, <2>1
    <3>2. e.name.by \notin Sweepers
      BY <1>5, Parts, ConstantsAssumption DEF Procs
    <3>3. objs'[c].touched = objs'[o].touched /\ objs'[c].touched
      <4>1. e.touched \in BOOLEAN /\ T[o].touched \in BOOLEAN
        BY <1>5, <1>6 DEF Things
      <4> QED  BY <1>5, <1>7, <3>1, <4>1
    <3>4. objs'[o].kind = "dir" /\ objs'[o].dir = Root
      BY <1>1, <3>1 DEF Keeps, Lasts
    <3> QED  BY <3>1, <3>2, <3>3, <3>4 DEF NestedIn
  <2>2. CASE c # n
    <3> DEFINE d == objs[c].dir
    <3>1. objs'[c].dir = d /\ Exists(c) /\ NestedIn(c, d) /\ d \in Objects /\ d # Root
      BY <1>12, <1>13, <2>2, Types DEF IInv, Files, Nesting, Things, Keeps, Lasts
    <3>2. d # n
      BY <1>3, <3>1 DEF NestedIn
    <3>3. Keeps(d) /\ Exists(d)' /\ Keeps(c)
      BY <1>12, <1>13, <2>2, <3>1, <3>2 DEF NestedIn
    <3>4. objs'[c].touched = objs'[d].touched
      BY <1>6, <1>12, <2>2, <3>1, <3>2
    <3> QED  BY <3>1, <3>3, <3>4 DEF NestedIn, Keeps, Lasts
  <2> QED  BY <2>1, <2>2
<1>16. Adds(n)
  <2>1. Comes(n)
    BY <1>3, <1>5, <1>10, Parts, ConstantsAssumption DEF Comes
  <2>2. \A c \in Objects : Exists(c) => objs[c].dir # objs'[n].dir \/ objs[c].name # objs'[n].name
    BY <1>3, <1>5, <1>10, Parts DEF IInv, Files, MovedOnce
  <2> QED  BY <1>12, <2>1, <2>2 DEF Adds
<1>17. objs'[n].touched /\ objs'[n].dir # Root
  BY <1>5, <1>10, NobodyIsNone DEF Root, Nobody
<1> QED  BY <1>1, <1>3, <1>11, <1>14, <1>15, <1>16, <1>17, Types DEF FilesTyped

\* The steps that leave the files alone.
Looks(p) ==
  \/ Identity(p) \/ CheckDacl(p) \/ OpenDir(p) \/ VerifyOpenDir(p) \/ VerifyDir(p)
  \/ FileIdentity(p) \/ VerifyOpen(p) \/ VerifyClosed(p) \/ Leave(p) \/ CheckFile(p)
  \/ CheckDir(p) \/ CheckTree(p) \/ List(p) \/ Look(p) \/ Fault(p) \/ Kill(p)

LEMMA LooksLook ==
  ASSUME NEW p \in Procs, Looks(p)
  PROVE  UNCHANGED files
<1> USE DEF Passes, Undo, Close, Proves
<1>1. CASE Identity(p) \/ CheckDacl(p) \/ OpenDir(p) \/ VerifyOpenDir(p) \/ VerifyDir(p)
  BY <1>1, Zenon DEF Identity, CheckDacl, OpenDir, VerifyOpenDir, VerifyDir
<1>2. CASE FileIdentity(p) \/ VerifyOpen(p) \/ VerifyClosed(p) \/ Leave(p) \/ CheckFile(p)
  BY <1>2, Zenon DEF FileIdentity, VerifyOpen, VerifyClosed, Leave, CheckFile
<1>3. CASE CheckDir(p) \/ CheckTree(p) \/ List(p) \/ Look(p) \/ Fault(p) \/ Kill(p)
  BY <1>3, Zenon DEF CheckDir, CheckTree, List, Look, Fault, Kill
<1> QED  BY <1>1, <1>2, <1>3 DEF Looks

\* A command moves what it wants to remove.
Isolating(p) ==
  \/ /\ MoveFile(p) /\ FileNamed(p, FileTarget(p)) # Nobody
     /\ Isolates(p, FileNamed(p, FileTarget(p)))
  \/ /\ MoveDir(p) /\ Named(Root, Target(p)) # Nobody
     /\ Isolates(p, Named(Root, Target(p)))

StepKinds ==
  \/ Thins
  \/ \E p \in Procs : Isolating(p)
  \/ \E p \in Procs, n \in Objects : Mkdir(p) /\ Adds(n) /\ NewDir(p, n)
  \/ \E p \in Procs, n \in Objects : OpenFile(p) /\ Adds(n) /\ NewOwnFile(p, n)
  \/ \E n \in Objects : Adds(n) /\ objs'[n].touched /\ objs'[n].dir # Root
  \/ \E o, n \in Objects : Replaces(o, n)

LEMMA MoveFiles ==
  ASSUME IInv, NEW p \in Procs, MoveFile(p) \/ MoveDir(p)
  PROVE  FilesTyped /\ (Remain \/ Isolating(p)) /\ Nesting'
<1>1. CASE UNCHANGED files
  BY <1>1, UnchangedFiles
<1>2. CASE ~UNCHANGED files /\ MoveFile(p)
  <2>1. FileNamed(p, FileTarget(p)) # Nobody
    BY <1>2 DEF MoveFile, Passes
  <2> QED  BY <1>2, <2>1, MoveFileIsolates DEF Isolating
<1>3. CASE ~UNCHANGED files /\ MoveDir(p)
  <2>1. Named(Root, Target(p)) # Nobody
    BY <1>3 DEF MoveDir, Passes
  <2> QED  BY <1>3, <2>1, MoveDirIsolates DEF Isolating
<1> QED  BY <1>1, <1>2, <1>3

LEMMA IsolatingIsolates ==
  ASSUME NEW p \in Procs, Isolating(p)
  PROVE  \E o \in Objects : Isolates(p, o)
BY FileNamedIs, NamedIs DEF Isolating

\* Every step is one of these, and keeps the files in order.
LEMMA NextKinds ==
  ASSUME IInv, [Next]_vars
  PROVE  FilesTyped /\ StepKinds /\ Nesting'
<1>1. CASE UNCHANGED vars
  BY <1>1, UnchangedFiles, RemainThins DEF vars, StepKinds
<1>2. ASSUME NEW p \in Procs, Command(p) \/ Fault(p) \/ Kill(p)
      PROVE  FilesTyped /\ StepKinds /\ Nesting'
  <2>1. CASE Looks(p)
    BY <2>1, LooksLook, UnchangedFiles, RemainThins DEF StepKinds
  <2>2. CASE Mkdir(p)
    BY <2>2, MkdirFiles DEF StepKinds
  <2>3. CASE OpenFile(p)
    BY <2>3, OpenFileFiles, RemainThins DEF StepKinds
  <2>4. CASE ChmodDir(p) \/ Write(p) \/ Protect(p) \/ DeleteFile(p) \/ DeleteDir(p)
    BY <2>4, AlterFiles, DeleteFileFiles, DeleteDirFiles, RemainThins DEF StepKinds
  <2>5. CASE MoveFile(p) \/ MoveDir(p)
    BY <2>5, MoveFiles, RemainThins DEF StepKinds
  <2> QED  BY <1>2, <2>1, <2>2, <2>3, <2>4, <2>5, Zenon DEF Command, Looks
<1>3. ASSUME NEW o \in Objects, OpenUp(o) \/ Take(o) \/ Exchange(o) \/ AddTo(o)
      PROVE  FilesTyped /\ StepKinds /\ Nesting'
  BY <1>3, OpenUpFiles, TakeFiles, ExchangeDoes, AddToDoes DEF StepKinds
<1>4. CASE TimePasses
  BY <1>4, IdleFiles, RemainThins DEF TimePasses, StepKinds
<1> QED  BY <1>1, <1>2, <1>3, <1>4 DEF Next

LEMMA NextFiles ==
  ASSUME IInv, [Next]_vars
  PROVE  FilesTyped /\ Files' /\ UniqueNames'
<1>1. FilesTyped /\ FileStep /\ Nesting'
  BY NextKinds, IsolatingIsolates DEF StepKinds, FileStep
<1>2. TypeOK /\ Files /\ Spent
  BY DEF IInv, Tied
<1>3. UniqueNames' /\ MovedOnce' /\ QuarantineOnce' /\ Times'
  BY <1>1, <1>2, FilesThen
<1> QED  BY <1>1, <1>3 DEF Files, FilesTyped

-----------------------------------------------------------------------------
(* What each action does to the commands.                                   *)

\* Only p does something.
Alone(p) ==
  /\ \A q \in Procs \ {p} : /\ at'[q] = at[q] /\ mine'[q] = mine[q] /\ expected'[q] = expected[q]
                            /\ fd'[q] = fd[q] /\ todo'[q] = todo[q]
  /\ faulty \subseteq faulty' /\ faulty' \subseteq faulty \cup {p}

LEMMA AsideStays ==
  ASSUME NEW q \in Procs, Local(q), system' = system, clock \in 0..1, clock' \in 0..1, clock <= clock',
         at'[q] = at[q], mine'[q] = mine[q], expected'[q] = expected[q], fd'[q] = fd[q],
         todo'[q] = todo[q], todo[q].cutoff \in 0..1, q \in faulty => q \in faulty'
  PROVE  Local(q)'
<1>1. Role(q)'
  BY DEF Local, Role
<1>2. Possessions(q)'
  BY DEF Local, Possessions
<1>3. Errands(q)'
  BY DEF Local, Errands
<1> QED  BY <1>1, <1>2, <1>3 DEF Local

\* p goes on to x, and may close its descriptor.
Goes(p, x, f) ==
  /\ at' = [at EXCEPT ![p] = x] /\ fd' = [fd EXCEPT ![p] = f]
  /\ UNCHANGED <<mine, expected, todo, faulty, trouble>>

LEMMA PassesGoes ==
  ASSUME IInv, NEW p \in Procs, NEW x, Passes(p, x)
  PROVE  Goes(p, x, fd[p])
BY Commands DEF LocalsTyped, Passes, Goto, Keep, NoFault, Goes

LEMMA CloseGoes ==
  ASSUME IInv, NEW p \in Procs, NEW x, Close(p, x)
  PROVE  Goes(p, x, Nobody)
BY DEF Close, Goto, NoFault, Goes

LEMMA UndoGoes ==
  ASSUME IInv, NEW p \in Procs, Undo(p)
  PROVE  Goes(p, IF expected[p].file # Nobody THEN "move" ELSE "moveDir", Nobody)
BY CloseGoes DEF Undo

LEMMA GoesOn ==
  ASSUME IInv, NEW p \in Procs, NEW x \in Places, NEW f \in Objects \cup {Nobody}, Goes(p, x, f)
  PROVE  /\ LocalsTyped' /\ Alone(p) /\ at'[p] = x /\ fd'[p] = f
         /\ mine'[p] = mine[p] /\ expected'[p] = expected[p] /\ todo'[p] = todo[p]
         /\ faulty' = faulty
BY Commands DEF LocalsTyped, Alone, Goes

LEMMA UndoFits ==
  ASSUME IInv, NEW p \in Procs, Undo(p), clock' = clock, system' = system,
         at[p] \in (Making \ {"mkdir"}) \cup (Filling \ {"fileIdentity"})
  PROVE  LocalsTyped' /\ Alone(p) /\ Local(p)'
<1> DEFINE x == IF expected[p].file # Nobody THEN "move" ELSE "moveDir"
<1>1. Goes(p, x, Nobody) /\ Local(p) /\ p \notin Sweepers /\ x \in Places
  BY UndoGoes, Commands, Kinds DEF Local, Role, Making, Filling, Removing, Ended, Places
<1>2. /\ LocalsTyped' /\ Alone(p) /\ at'[p] = x /\ fd'[p] = Nobody
      /\ mine'[p] = mine[p] /\ expected'[p] = expected[p] /\ todo'[p] = todo[p] /\ faulty' = faulty
  BY <1>1, GoesOn
<1>3. /\ expected[p].file # Nobody => p \in Artifacts /\ expected[p].file = mine[p].file
      /\ expected[p].file = Nobody => mine[p].file = Nobody
  BY <1>1, Kinds DEF Local, Possessions, Making, Filling
<1>4. Role(p)'
  BY <1>1, <1>2, <1>3, Kinds DEF Role, Removing, Making, Filling, Ended, Creators
<1>5. Possessions(p)'
  BY <1>1, <1>2, <1>3 DEF Local, Possessions, Removing, Making, Filling, Holding, Opening
<1>6. Errands(p)'
  BY <1>1, <1>2 DEF Local, Errands
<1> QED  BY <1>2, <1>4, <1>5, <1>6 DEF Local

LEMMA GoFits ==
  ASSUME IInv, NEW p \in Procs, NEW x \in Places, NEW f \in Objects \cup {Nobody}, Goes(p, x, f),
         clock' = clock, system' = system,
         Role(p) => IF p \in Sweepers THEN x \in {"look"} \cup Removing
                    ELSE IF p \in Artifacts
                      THEN x \in {"dacl", "body"} \cup Filling \cup (Removing \ {"checkTree"}) \cup Ended
                           /\ (system = "posix" => x \notin Making)
                      ELSE x \in Making \cup {"body", "moveDir", "checkDir", "deleteDir"} \cup Ended,
         IF x \in Holding THEN f = mine[p].file /\ f # Nobody
           ELSE IF x \in Opening THEN f # Nobody ELSE f = Nobody,
         x \notin {"mkdir", "identity"},
         p \in Creators => /\ x \in Making \cup {"open"} => at[p] \in Making
                           /\ x = "fileIdentity" => expected[p].file = Nobody
                           /\ x \in {"write", "protect", "verifyOpen", "verifyClosed", "body",
                                     "move", "check", "delete"} /\ p \in Artifacts =>
                                expected[p].file = mine[p].file /\ mine[p].file # Nobody
                           /\ system = "posix" /\ p \in Artifacts =>
                                (x \in {"moveDir", "checkDir", "deleteDir"} => mine[p].file = Nobody),
         p \in Sweepers /\ x \in Removing => at[p] \in Removing
  PROVE  LocalsTyped' /\ Alone(p) /\ Local(p)'
<1>1. Local(p)
  BY Commands
<1>2. /\ LocalsTyped' /\ Alone(p) /\ at'[p] = x /\ fd'[p] = f
      /\ mine'[p] = mine[p] /\ expected'[p] = expected[p] /\ todo'[p] = todo[p] /\ faulty' = faulty
  BY GoesOn
<1>3. Role(p)'
  BY <1>1, <1>2, Kinds DEF Local, Role, Removing, Making, Filling, Ended, Creators
<1>4. Possessions(p)'
  BY <1>1, <1>2, Kinds DEF Local, Possessions, Making
<1>5. Errands(p)'
  BY <1>1, <1>2, Kinds DEF Local, Errands, Removing
<1> QED  BY <1>2, <1>3, <1>4, <1>5 DEF Local

LEMMA MakingFits ==
  ASSUME IInv, NEW p \in Procs,
         CheckDacl(p) \/ OpenDir(p) \/ ChmodDir(p) \/ VerifyOpenDir(p) \/ VerifyDir(p)
  PROVE  LocalsTyped' /\ Alone(p) /\ Local(p)'
<1> USE DEF Making, Filling, Removing, Ended, Places, Holding, Opening
<1>1. /\ at[p] \in Making \ {"mkdir", "identity"} /\ Local(p) /\ p \notin Sweepers
  BY Commands, Kinds DEF CheckDacl, OpenDir, ChmodDir, VerifyOpenDir, VerifyDir, Local, Role
<1>2. clock' = clock /\ system' = system
  <2>1. CASE ChmodDir(p)
    BY <2>1 DEF ChmodDir, Through, Change, Undo, Close, files
  <2>2. CASE ~ChmodDir(p)
    BY <2>2, LooksLook, Zenon DEF Looks, files
  <2> QED  BY <2>1, <2>2
<1>3. CASE Undo(p)
  BY <1>1, <1>2, <1>3, UndoFits
<1>4. CASE ~Undo(p)
  <2>1. mine[p].file = Nobody /\ expected[p].file = Nobody /\ fd[p] \in Objects \cup {Nobody}
    BY <1>1, Kinds, Commands DEF Local, Possessions, LocalsTyped
  <2>2. CASE CheckDacl(p)
    <3>1. PICK x : Goes(p, x, fd[p]) /\ x = (IF p \in Artifacts THEN "open"
                     ELSE IF p \in Directories THEN "verifyDir" ELSE "done")
      BY <1>4, <2>2, PassesGoes DEF CheckDacl, Proves
    <3>2. fd[p] = Nobody
      BY <1>1, <2>2 DEF CheckDacl, Local, Possessions
    <3> QED  BY <1>1, <1>2, <2>1, <2>2, <3>1, <3>2, GoFits, Kinds DEF CheckDacl, Creators
  <2>3. CASE OpenDir(p)
    <3>1. PICK f \in Objects : Goes(p, "chmodDir", f)
      BY <1>4, <2>3, NamedIs DEF OpenDir, Goes, Goto, NoFault
    <3>2. f # Nobody /\ p \notin Artifacts
      BY <1>1, <2>3, NobodyIsNone DEF Local, Role, OpenDir
    <3> QED  BY <1>1, <1>2, <2>1, <3>1, <3>2, GoFits, Kinds DEF Creators
  <2>4. CASE ChmodDir(p)
    <3>1. Goes(p, "verifyOpenDir", fd[p])
      BY <1>4, <2>4, Commands DEF ChmodDir, Goes, Goto, Keep, NoFault, LocalsTyped
    <3>2. fd[p] # Nobody /\ p \notin Artifacts
      BY <1>1, <2>4 DEF Local, Role, Possessions, ChmodDir
    <3> QED  BY <1>1, <1>2, <2>1, <3>1, <3>2, GoFits, Kinds DEF Creators
  <2>5. CASE VerifyOpenDir(p)
    <3>1. Goes(p, "verifyDir", Nobody)
      BY <1>4, <2>5, CloseGoes DEF VerifyOpenDir
    <3>2. p \notin Artifacts
      BY <1>1, <2>5 DEF Local, Role, VerifyOpenDir
    <3> QED  BY <1>1, <1>2, <2>1, <3>1, <3>2, GoFits, Kinds DEF Creators
  <2>6. CASE VerifyDir(p)
    <3>1. PICK x : Goes(p, x, fd[p]) /\ x = (IF p \in Makers THEN "done" ELSE "body")
      BY <1>4, <2>6, PassesGoes DEF VerifyDir, Proves
    <3>2. fd[p] = Nobody /\ p \notin Artifacts
      BY <1>1, <2>6 DEF VerifyDir, Local, Role, Possessions
    <3> QED  BY <1>1, <1>2, <2>1, <3>1, <3>2, GoFits, Kinds DEF Creators
  <2> QED  BY <2>2, <2>3, <2>4, <2>5, <2>6
<1> QED  BY <1>3, <1>4

LEMMA FillingFits ==
  ASSUME IInv, NEW p \in Procs, Write(p) \/ Protect(p) \/ VerifyOpen(p) \/ VerifyClosed(p) \/ Leave(p)
  PROVE  LocalsTyped' /\ Alone(p) /\ Local(p)'
<1> USE DEF Making, Filling, Removing, Ended, Places, Holding, Opening
<1>1. /\ at[p] \in (Filling \ {"open", "fileIdentity"}) \cup {"body"} /\ Local(p) /\ p \in Creators
      /\ p \notin Sweepers
  BY Commands, Kinds DEF Write, Protect, VerifyOpen, VerifyClosed, Leave, Local, Role
<1>2. clock' = clock /\ system' = system
  <2>1. CASE Write(p)
    BY <2>1 DEF Write, Through, Change
  <2>2. CASE Protect(p)
    BY <2>2 DEF Protect, Change, Undo, Close, files
  <2>3. CASE ~Write(p) /\ ~Protect(p)
    BY <2>3, LooksLook, Zenon DEF Looks, files
  <2> QED  BY <2>1, <2>2, <2>3
<1>3. CASE Undo(p) /\ at[p] # "body"
  BY <1>1, <1>2, <1>3, UndoFits
<1>4. CASE ~Undo(p) \/ at[p] = "body"
  <2>1. p \in Artifacts => expected[p].file = mine[p].file /\ mine[p].file # Nobody
    BY <1>1 DEF Local, Possessions
  <2>2. p \notin Artifacts => at[p] = "body"
    BY <1>1, Kinds DEF Local, Role
  <2>3. at[p] \in {"verifyClosed", "body"} => fd[p] = Nobody
    BY <1>1 DEF Local, Possessions
  <2>4. at[p] \in {"write", "protect", "verifyOpen"} => fd[p] = mine[p].file
    BY <1>1 DEF Local, Possessions
  <2>5. fd[p] \in Objects \cup {Nobody}
    BY Commands DEF LocalsTyped
  <2>6. CASE Write(p)
    <3>1. Goes(p, "protect", fd[p]) /\ at[p] = "write"
      BY <2>6, Commands DEF Write, Goes, Goto, Keep, NoFault, LocalsTyped
    <3> QED  BY <1>1, <1>2, <2>1, <2>2, <2>4, <2>5, <3>1, GoFits, Kinds
  <2>7. CASE Protect(p)
    <3>1. Goes(p, "verifyOpen", fd[p]) /\ at[p] = "protect"
      BY <1>4, <2>7, Commands DEF Protect, Goes, Goto, Keep, NoFault, LocalsTyped
    <3> QED  BY <1>1, <1>2, <2>1, <2>2, <2>4, <2>5, <3>1, GoFits, Kinds
  <2>8. CASE VerifyOpen(p)
    <3>1. Goes(p, "verifyClosed", Nobody) /\ at[p] = "verifyOpen"
      BY <1>4, <2>8, CloseGoes DEF VerifyOpen
    <3> QED  BY <1>1, <1>2, <2>1, <2>2, <3>1, GoFits, Kinds
  <2>9. CASE VerifyClosed(p)
    <3>1. Goes(p, "body", fd[p]) /\ at[p] = "verifyClosed"
      BY <1>4, <2>9, PassesGoes DEF VerifyClosed, Proves
    <3> QED  BY <1>1, <1>2, <2>1, <2>2, <2>3, <3>1, GoFits, Kinds
  <2>10. CASE Leave(p)
    <3>1. PICK x : Goes(p, x, fd[p]) /\ x = (IF p \in Artifacts THEN "move" ELSE "moveDir")
      BY <2>10, PassesGoes DEF Leave
    <3>2. at[p] = "body"
      BY <2>10 DEF Leave
    <3> QED  BY <1>1, <1>2, <2>1, <2>2, <2>3, <3>1, <3>2, GoFits, Kinds
  <2> QED  BY <2>6, <2>7, <2>8, <2>9, <2>10
<1> QED  BY <1>3, <1>4

LEMMA RemovingFits ==
  ASSUME IInv, NEW p \in Procs,
         \/ MoveFile(p) \/ CheckFile(p) \/ DeleteFile(p)
         \/ MoveDir(p) \/ CheckDir(p) \/ CheckTree(p) \/ DeleteDir(p)
  PROVE  LocalsTyped' /\ Alone(p) /\ Local(p)'
<1> USE DEF Making, Filling, Removing, Ended, Places, Holding, Opening
<1>1. /\ at[p] \in Removing /\ Local(p) /\ fd[p] = Nobody
  BY Commands DEF MoveFile, CheckFile, DeleteFile, MoveDir, CheckDir, CheckTree, DeleteDir, Local, Possessions
<1>2. clock' = clock /\ system' = system
  <2>1. CASE MoveFile(p) \/ DeleteFile(p)
    BY <2>1 DEF MoveFile, DeleteFile, Change, Passes, files
  <2>2. CASE MoveDir(p) \/ DeleteDir(p)
    BY <2>2 DEF MoveDir, DeleteDir, Change, Passes, files
  <2>3. CASE CheckFile(p) \/ CheckDir(p) \/ CheckTree(p)
    BY <2>3, LooksLook, Zenon DEF Looks, files
  <2> QED  BY <2>1, <2>2, <2>3
<1>3. PICK x : /\ Goes(p, x, fd[p])
               /\ \/ x = AfterEnd(p)
                  \/ at[p] = "move" /\ x = "check"
                  \/ at[p] = "check" /\ x = "delete"
                  \/ at[p] = "delete" /\ Nested(p) /\ x = "moveDir"
                  \/ at[p] = "moveDir" /\ x = "checkDir"
                  \/ at[p] = "checkDir" /\ x = "deleteDir"
                  \/ at[p] = "checkDir" /\ p \in Sweepers /\ x = "checkTree"
                  \/ at[p] = "checkTree" /\ p \in Sweepers /\ x = "deleteDir"
  <2>1. CASE MoveFile(p)
    <3>1. (\E x \in {AfterEnd(p), "check"} : Goto(p, x) /\ Keep) /\ at[p] = "move"
      BY <2>1 DEF MoveFile, Passes
    <3> QED  BY <3>1, Commands DEF Goto, Keep, NoFault, Goes, LocalsTyped
  <2>2. CASE CheckFile(p)
    <3>1. (\E x \in {AfterEnd(p), "delete"} : Goto(p, x) /\ Keep) /\ at[p] = "check"
      BY <2>2 DEF CheckFile, Passes
    <3> QED  BY <3>1, Commands DEF Goto, Keep, NoFault, Goes, LocalsTyped
  <2>3. CASE DeleteFile(p)
    <3>1. (Goto(p, AfterEnd(p)) \/ (Nested(p) /\ Goto(p, "moveDir"))) /\ Keep /\ at[p] = "delete"
      BY <2>3 DEF DeleteFile, Passes
    <3> QED  BY <3>1, Commands DEF Goto, Keep, NoFault, Goes, LocalsTyped
  <2>4. CASE MoveDir(p)
    <3>1. (\E x \in {AfterEnd(p), "checkDir"} : Goto(p, x) /\ Keep) /\ at[p] = "moveDir"
      BY <2>4 DEF MoveDir, Passes
    <3> QED  BY <3>1, Commands DEF Goto, Keep, NoFault, Goes, LocalsTyped
  <2>5. CASE CheckDir(p)
    <3>1. /\ Goto(p, AfterEnd(p)) \/ Goto(p, "deleteDir") \/ (p \in Sweepers /\ Goto(p, "checkTree"))
          /\ Keep /\ at[p] = "checkDir"
      BY <2>5 DEF CheckDir, Passes
    <3> QED  BY <3>1, Commands DEF Goto, Keep, NoFault, Goes, LocalsTyped
  <2>6. CASE CheckTree(p)
    <3>1. (\E x \in {AfterEnd(p), "deleteDir"} : Goto(p, x) /\ Keep) /\ at[p] = "checkTree"
      BY <2>6 DEF CheckTree, Passes
    <3>2. p \in Sweepers
      BY <1>1, <3>1, Kinds DEF Local, Role
    <3> QED  BY <3>1, <3>2, Commands DEF Goto, Keep, NoFault, Goes, LocalsTyped
  <2>7. CASE DeleteDir(p)
    <3>1. Goto(p, AfterEnd(p)) /\ Keep
      BY <2>7 DEF DeleteDir, Passes
    <3> QED  BY <3>1, Commands DEF Goto, Keep, NoFault, Goes, LocalsTyped
  <2> QED  BY <2>1, <2>2, <2>3, <2>4, <2>5, <2>6, <2>7
<1>4. p \in Sweepers => x \in {"look"} \cup Removing
  BY <1>3, Kinds DEF AfterEnd
<1>5. p \notin Sweepers => x \in {"done", "check", "delete", "moveDir", "checkDir", "deleteDir"}
  BY <1>3 DEF AfterEnd
<1>6. p \notin Sweepers /\ p \notin Artifacts => x \in {"done", "checkDir", "deleteDir"}
  BY <1>1, <1>3, Kinds DEF AfterEnd, Local, Role
<1>7. p \in Artifacts => /\ x \in {"check", "delete"} => expected[p].file = mine[p].file /\ mine[p].file # Nobody
                         /\ system = "posix" /\ x \in {"moveDir", "checkDir", "deleteDir"} => mine[p].file = Nobody
  BY <1>1, <1>3, Kinds DEF AfterEnd, Local, Possessions, Nested
<1>8. x \in Places
  BY <1>4, <1>5
<1> HIDE DEF AfterEnd
<1> QED  BY <1>1, <1>2, <1>3, <1>4, <1>5, <1>6, <1>7, <1>8, GoFits, Kinds

LEMMA BeginningFits ==
  ASSUME IInv, NEW p \in Procs, Mkdir(p) \/ Identity(p)
  PROVE  LocalsTyped' /\ Alone(p) /\ Local(p)'
<1> USE DEF Making, Filling, Removing, Ended, Places, Holding, Opening
<1>1. /\ at[p] \in {"mkdir", "identity"} /\ Local(p) /\ p \in Creators /\ p \notin Sweepers
      /\ LocalsTyped
  BY Commands, Kinds DEF Mkdir, Identity, Local, Role
<1>2. system' = system /\ clock' = clock /\ ~(p \in Artifacts /\ system = "posix")
  BY <1>1, LooksLook DEF Mkdir, Change, Looks, files, Local, Role
<1>3. CASE Mkdir(p)
  <2>1. PICK o \in Objects : mine' = [mine EXCEPT ![p].dir = o]
    BY <1>3 DEF Mkdir, Fresh, Unused
  <2>2. at' = [at EXCEPT ![p] = "identity"] /\ UNCHANGED <<expected, fd, todo, faulty, trouble>>
    BY <1>3 DEF Mkdir, Goto, NoFault
  <2>3. LocalsTyped'
    BY <1>1, <2>1, <2>2 DEF LocalsTyped
  <2>4. /\ at'[p] = "identity" /\ mine'[p].file = mine[p].file /\ expected'[p] = expected[p]
        /\ fd'[p] = fd[p] /\ todo'[p] = todo[p] /\ Alone(p)
    BY <1>1, <2>1, <2>2 DEF LocalsTyped, Alone
  <2>5. Role(p)'
    BY <1>1, <1>2, <2>4, Kinds DEF Role
  <2>6. Possessions(p)'
    BY <1>1, <1>2, <1>3, <2>4, Kinds DEF Local, Possessions, Mkdir
  <2>7. Errands(p)'
    BY <1>1, <1>2, <2>4, Kinds DEF Local, Errands
  <2> QED  BY <2>3, <2>4, <2>5, <2>6, <2>7 DEF Local
<1>4. CASE Identity(p) /\ Passes(p, "done")
  <2>1. Goes(p, "done", fd[p]) /\ fd[p] = Nobody
    BY <1>1, <1>4, PassesGoes DEF Local, Possessions
  <2> QED  BY <1>1, <1>2, <2>1, GoFits, Kinds
<1>5. CASE Identity(p) /\ ~Passes(p, "done")
  <2>1. PICK o \in Objects : expected' = [expected EXCEPT ![p] = [expected[p] EXCEPT !.dir = o]]
    BY <1>5, NamedIs DEF Identity, Find
  <2>2. PICK x : /\ x = IF system = "nt" THEN "dacl" ELSE "openDir"
                 /\ at' = [at EXCEPT ![p] = x] /\ UNCHANGED <<mine, fd, todo, faulty, trouble>>
    BY <1>5 DEF Identity, Goto, NoFault
  <2>3. LocalsTyped'
    BY <1>1, <2>1, <2>2 DEF LocalsTyped
  <2>4. /\ at'[p] = x /\ expected'[p].file = expected[p].file /\ mine'[p] = mine[p]
        /\ fd'[p] = fd[p] /\ todo'[p] = todo[p] /\ Alone(p)
    BY <1>1, <2>1, <2>2 DEF LocalsTyped, Alone
  <2>5. Role(p)'
    BY <1>1, <1>2, <2>2, <2>4, Kinds, Types DEF Role, Creators
  <2>6. Possessions(p)'
    BY <1>1, <1>2, <2>2, <2>4, Kinds DEF Local, Possessions
  <2>7. Errands(p)'
    BY <1>1, <1>2, <2>2, <2>4, Kinds DEF Local, Errands
  <2> QED  BY <2>3, <2>4, <2>5, <2>6, <2>7 DEF Local
<1> QED  BY <1>3, <1>4, <1>5

LEMMA OpeningFits ==
  ASSUME IInv, NEW p \in Procs, OpenFile(p) \/ FileIdentity(p)
  PROVE  LocalsTyped' /\ Alone(p) /\ Local(p)'
<1> USE DEF Making, Filling, Removing, Ended, Places, Holding, Opening
<1>1. /\ at[p] \in {"open", "fileIdentity"} /\ Local(p) /\ p \in Artifacts /\ p \in Creators
      /\ p \notin Sweepers /\ LocalsTyped
  BY Commands, Kinds DEF OpenFile, FileIdentity, Local, Role
<1>2. system' = system /\ clock' = clock
  BY OpenFileDoes, LooksLook, Zenon DEF Undo, Close, Looks, files
<1>3. CASE OpenFile(p) /\ Undo(p)
  BY <1>1, <1>2, <1>3, UndoFits DEF OpenFile
<1>4. CASE OpenFile(p) /\ ~Undo(p)
  <2>1. PICK o \in Objects : mine' = [mine EXCEPT ![p].file = o] /\ fd' = [fd EXCEPT ![p] = o]
    BY <1>4, OpenFileDoes DEF Fresh, Unused
  <2>2. at' = [at EXCEPT ![p] = "fileIdentity"] /\ UNCHANGED <<expected, todo, faulty, trouble>>
    BY <1>4, OpenFileDoes DEF Goto, NoFault
  <2>3. LocalsTyped'
    BY <1>1, <2>1, <2>2 DEF LocalsTyped
  <2>4. /\ at'[p] = "fileIdentity" /\ mine'[p].dir = mine[p].dir /\ expected'[p] = expected[p]
        /\ mine'[p].file = o /\ fd'[p] = o /\ todo'[p] = todo[p] /\ Alone(p)
    BY <1>1, <2>1, <2>2 DEF LocalsTyped, Alone
  <2>5. Role(p)'
    BY <1>1, <1>2, <2>4, Kinds DEF Role
  <2>6. Possessions(p)'
    BY <1>1, <1>2, <1>4, <2>4, NobodyIsNone DEF Local, Possessions, OpenFile
  <2>7. Errands(p)'
    BY <1>1, <1>2, <2>4 DEF Local, Errands
  <2> QED  BY <2>3, <2>4, <2>5, <2>6, <2>7 DEF Local
<1>5. CASE FileIdentity(p)
  <2>1. /\ expected' = [expected EXCEPT ![p] = [expected[p] EXCEPT !.file = fd[p]]]
        /\ at' = [at EXCEPT ![p] = "write"] /\ UNCHANGED <<mine, fd, todo, faulty, trouble>>
    BY <1>5 DEF FileIdentity, Find, Goto, NoFault
  <2>2. LocalsTyped'
    BY <1>1, <2>1 DEF LocalsTyped
  <2>3. /\ at'[p] = "write" /\ expected'[p].dir = expected[p].dir /\ mine'[p] = mine[p]
        /\ expected'[p].file = fd[p] /\ fd'[p] = fd[p] /\ todo'[p] = todo[p] /\ Alone(p)
    BY <1>1, <2>1 DEF LocalsTyped, Alone
  <2>4. fd[p] = mine[p].file /\ fd[p] # Nobody
    BY <1>1, <1>5 DEF Local, Possessions, FileIdentity
  <2>5. Role(p)'
    BY <1>1, <1>2, <2>3, Kinds DEF Role
  <2>6. Possessions(p)'
    BY <1>1, <1>2, <2>3, <2>4 DEF Local, Possessions
  <2>7. Errands(p)'
    BY <1>1, <1>2, <2>3 DEF Local, Errands
  <2> QED  BY <2>2, <2>3, <2>5, <2>6, <2>7 DEF Local
<1> QED  BY <1>3, <1>4, <1>5

LEMMA SweepingFits ==
  ASSUME IInv, NEW p \in Procs, List(p) \/ Look(p)
  PROVE  LocalsTyped' /\ Alone(p) /\ Local(p)'
<1> USE DEF Making, Filling, Removing, Ended, Places, Holding, Opening
<1>1. /\ at[p] \in {"list", "look"} /\ Local(p) /\ p \in Sweepers /\ p \notin Creators
      /\ LocalsTyped /\ clock \in 0..1
  BY Commands, Kinds, Types DEF List, Look, Local, Role
<1>2. system' = system /\ clock' = clock
  BY LooksLook, Zenon DEF Looks, files
<1>3. mine[p].dir = Nobody /\ mine[p].file = Nobody /\ fd[p] = Nobody
  BY <1>1 DEF Local, Possessions
<1>4. CASE List(p)
  <2> DEFINE N == {objs[o].name : o \in {c \in Inside(Root) : objs[c].name.by = "none"}}
  <2>1. N \in SUBSET Listed
    BY Types, NameTypes DEF Inside
  <2>2. /\ todo' = [todo EXCEPT ![p].cutoff = clock, ![p].names = N]
        /\ at' = [at EXCEPT ![p] = "look"] /\ UNCHANGED <<mine, expected, fd, faulty, trouble>>
    BY <1>4, Zenon DEF List, Goto, NoFault
  <2> HIDE DEF N
  <2>3. LocalsTyped'
    BY <1>1, <2>1, <2>2 DEF LocalsTyped
  <2>4. /\ at'[p] = "look" /\ mine'[p] = mine[p] /\ fd'[p] = fd[p] /\ todo'[p].cutoff = clock
        /\ Alone(p)
    BY <1>1, <2>2 DEF LocalsTyped, Alone
  <2> QED  BY <1>1, <1>2, <1>3, <2>3, <2>4, Kinds DEF Local, Role, Possessions, Errands
<1>5. CASE Look(p) /\ todo[p].names = {} /\ Passes(p, "done")
  <2>1. Goes(p, "done", Nobody)
    BY <1>3, <1>5, PassesGoes
  <2>2. /\ LocalsTyped' /\ Alone(p) /\ at'[p] = "done" /\ fd'[p] = Nobody
        /\ mine'[p] = mine[p] /\ todo'[p] = todo[p]
    BY <2>1, GoesOn
  <2> QED  BY <1>1, <1>2, <1>3, <1>5, <2>2, Kinds DEF Local, Role, Possessions, Errands
<1>6. CASE Look(p) /\ ~(todo[p].names = {} /\ Passes(p, "done"))
  <2>1. PICK n \in todo[p].names :
          /\ todo' = [todo EXCEPT ![p].names = todo[p].names \ {n}, ![p].name = n]
          /\ \/ UNCHANGED <<at, expected>>
             \/ /\ Stale(p, Named(Root, n))
                /\ \E x \in {"move", "moveDir"}, f \in [dir : {Named(Root, n), Nobody}, file : {Named(Root, n), Nobody}] :
                     Find(p, f) /\ Goto(p, x)
          /\ UNCHANGED <<mine, fd, faulty, trouble>>
    BY <1>6, <1>1 DEF Look, NoFault, LocalsTyped
  <2>2. /\ n \in Listed /\ todo' \in [Procs -> [names : SUBSET Listed, name : Listed, cutoff : 0..1]]
        /\ todo'[p].cutoff = todo[p].cutoff /\ todo'[p].names = todo[p].names \ {n} /\ todo'[p].name = n
        /\ \A q \in Procs \ {p} : todo'[q] = todo[q]
    BY <1>1, <2>1 DEF LocalsTyped
  <2>3. Stale(p, Named(Root, n)) => Named(Root, n) \in Objects
    BY NamedIs DEF Stale
  <2>4. at'[p] \in {"look", "move", "moveDir"} /\ \A q \in Procs \ {p} : at'[q] = at[q]
    BY <1>1, <1>6, <2>1 DEF Goto, Look, LocalsTyped
  <2>5. \A q \in Procs \ {p} : expected'[q] = expected[q]
    BY <1>1, <2>1 DEF Find, LocalsTyped
  <2>6. at' \in [Procs -> Places]
    BY <1>1, <2>1 DEF Goto, LocalsTyped
  <2>7. expected' \in [Procs -> [dir : Objects \cup {Nobody}, file : Objects \cup {Nobody}]]
    BY <1>1, <2>1, <2>3 DEF Find, LocalsTyped
  <2>8. LocalsTyped' /\ Alone(p) /\ mine'[p] = mine[p] /\ fd'[p] = fd[p]
    BY <1>1, <2>1, <2>2, <2>4, <2>5, <2>6, <2>7 DEF LocalsTyped, Alone
  <2>9. Role(p)' /\ Possessions(p)'
    BY <1>1, <1>3, <2>4, <2>8, Kinds DEF Role, Possessions
  <2>10. Errands(p)'
    BY <1>1, <1>2, <2>2, <2>4 DEF Local, Errands
  <2> QED  BY <2>8, <2>9, <2>10 DEF Local
<1> QED  BY <1>4, <1>5, <1>6 DEF Look

LEMMA FailingFits ==
  ASSUME IInv, NEW p \in Procs, Fault(p) \/ Kill(p)
  PROVE  LocalsTyped' /\ Alone(p) /\ Local(p)'
<1> USE DEF Making, Filling, Removing, Ended, Places, Holding, Opening
<1>1. Local(p) /\ LocalsTyped /\ at[p] \in Places /\ at[p] \notin {"done", "killed"}
  BY Commands DEF Fault, Kill
<1>2. system' = system /\ clock' = clock
  BY LooksLook DEF Looks, files
<1>3. PICK x : /\ at' = [at EXCEPT ![p] = x]
               /\ x = "killed" \/ (x = FaultPlace(p) /\ at[p] \notin {"body", "look"})
  BY DEF Fault, Kill, Goto
<1>4. /\ fd' = [fd EXCEPT ![p] = Nobody] /\ UNCHANGED <<mine, expected, todo>>
      /\ faulty' = faulty \cup {p} /\ trouble' = trouble + 1 /\ trouble < MaxTrouble
  BY DEF Fault, Kill
<1>5. x \in {"killed", "done", "look", "move", "moveDir"}
  BY <1>1, <1>3 DEF FaultPlace, AfterEnd
<1>6. LocalsTyped'
  BY <1>1, <1>3, <1>4, <1>5, ConstantsAssumption DEF LocalsTyped
<1>7. /\ at'[p] = x /\ fd'[p] = Nobody /\ mine'[p] = mine[p] /\ expected'[p] = expected[p]
      /\ todo'[p] = todo[p] /\ p \in faulty' /\ Alone(p)
  BY <1>1, <1>3, <1>4 DEF LocalsTyped, Alone
<1>8. x = "look" <=> x = FaultPlace(p) /\ p \in Sweepers /\ at[p] \in Removing
  BY <1>1, <1>3, Kinds DEF FaultPlace, AfterEnd, Local, Role
<1>9. x \in {"move", "moveDir"} => p \notin Sweepers
  BY <1>1, <1>3, Kinds DEF FaultPlace, AfterEnd, Local, Role
<1>10. x = "move" => p \in Artifacts /\ at[p] \in {"write", "protect", "verifyOpen", "verifyClosed"}
  BY <1>1, <1>3, <1>9, Kinds DEF FaultPlace, AfterEnd, Local, Role
<1>11. x = "moveDir" => ~(p \in Artifacts /\ system = "posix")
  BY <1>1, <1>3, <1>9, Kinds DEF FaultPlace, AfterEnd, Local, Role, Nested
<1>12. Role(p)'
  BY <1>1, <1>2, <1>5, <1>7, <1>8, <1>9, <1>10, <1>11, Kinds DEF Role
<1>13. Possessions(p)'
  BY <1>1, <1>2, <1>5, <1>7, <1>8, <1>9, <1>10, <1>11, Kinds DEF Local, Possessions
<1>14. Errands(p)'
  BY <1>1, <1>2, <1>5, <1>7, <1>8, <1>9 DEF Local, Errands
<1> QED  BY <1>6, <1>7, <1>12, <1>13, <1>14 DEF Local

LEMMA CommandFits ==
  ASSUME IInv, NEW p \in Procs, Command(p) \/ Fault(p) \/ Kill(p)
  PROVE  LocalsTyped' /\ Alone(p) /\ Local(p)'
BY BeginningFits, MakingFits, OpeningFits, FillingFits, RemovingFits, SweepingFits, FailingFits,
   Zenon DEF Command

\* Every step keeps the commands in order.
LEMMA NextLocals ==
  ASSUME IInv, [Next]_vars
  PROVE  LocalsTyped' /\ Locals'
<1>1. LocalsTyped /\ \A q \in Procs : Local(q) /\ todo[q].cutoff \in 0..1
  BY Commands DEF LocalsTyped
<1>2. system' = system /\ clock \in 0..1 /\ clock' \in 0..1 /\ clock <= clock'
  BY NextFiles, Types DEF FilesTyped
<1>3. CASE UNCHANGED <<at, mine, expected, fd, todo, faulty>> /\ trouble' \in 0..MaxTrouble
  <2>1. LocalsTyped'
    BY <1>1, <1>3 DEF LocalsTyped
  <2>2. \A q \in Procs : Local(q)'
    BY <1>1, <1>2, <1>3, AsideStays
  <2> QED  BY <2>1, <2>2 DEF Local, Locals
<1>4. ASSUME NEW p \in Procs, Command(p) \/ Fault(p) \/ Kill(p)
      PROVE  LocalsTyped' /\ Locals'
  <2>1. LocalsTyped' /\ Alone(p) /\ Local(p)'
    BY <1>4, CommandFits
  <2>2. ASSUME NEW q \in Procs, q # p PROVE Local(q)'
    BY <1>1, <1>2, <2>1, <2>2, AsideStays DEF Alone
  <2> QED  BY <2>1, <2>2 DEF Local, Locals
<1>5. ASSUME NEW o \in Objects, OpenUp(o) \/ Take(o) \/ Exchange(o) \/ AddTo(o)
      PROVE  Others
  BY <1>5 DEF OpenUp, Take, Exchange, AddTo
<1>6. CASE Others
  BY <1>1, <1>3, <1>6, ConstantsAssumption DEF Others, LocalsTyped
<1>7. CASE TimePasses \/ UNCHANGED vars
  BY <1>1, <1>3, <1>7 DEF TimePasses, NoFault, vars, LocalsTyped
<1> QED  BY <1>4, <1>5, <1>6, <1>7 DEF Next

LEMMA NextTypes ==
  ASSUME IInv, [Next]_vars
  PROVE  TypeOK'
<1>1. LocalsTyped' /\ Locals' /\ FilesTyped /\ UniqueNames' /\ system \in {"posix", "nt"}
  BY NextLocals, NextFiles, Types
<1>2. \A p \in Procs : fd'[p] # Nobody => at'[p] \in Holding \cup Opening
  BY <1>1 DEF Locals, Possessions
<1> QED  BY <1>1, <1>2 DEF TypeOK, LocalsTyped, FilesTyped, UniqueNames, Places, Holding, Opening

-----------------------------------------------------------------------------
(* What a step does to the ties of commands and objects.                    *)

Same(q) == /\ at'[q] = at[q] /\ mine'[q] = mine[q] /\ expected'[q] = expected[q]
           /\ fd'[q] = fd[q] /\ todo'[q] = todo[q]

LEMMA OneActs ==
  ASSUME IInv, [Next]_vars, NEW q \in Procs
  PROVE  Same(q) \/ Command(q) \/ Fault(q) \/ Kill(q)
<1>1. CASE \E p \in Procs : Command(p) \/ Fault(p) \/ Kill(p)
  BY <1>1, CommandFits DEF Alone, Same
<1>2. CASE \E o \in Objects : OpenUp(o) \/ Take(o) \/ Exchange(o) \/ AddTo(o)
  BY <1>2 DEF OpenUp, Take, Exchange, AddTo, Others, Same
<1>3. CASE TimePasses \/ UNCHANGED vars
  BY <1>3 DEF TimePasses, NoFault, vars, Same
<1> QED  BY <1>1, <1>2, <1>3 DEF Next

\* An object lasts, or it was not yet in use.
LEMMA StepLasts ==
  ASSUME IInv, [Next]_vars, NEW o \in Objects, Exists(o)'
  PROVE  (Exists(o) /\ Lasts(o)) \/ o \in Unused
<1>1. StepKinds
  BY NextKinds
<1>2. Lasts(o) => Exists(o)
  BY DEF Lasts, Exists
<1>3. objs'[o] # Gone
  BY GoneTypes DEF Exists
<1> QED  BY <1>1, <1>2, <1>3, IsolatingIsolates
         DEF StepKinds, Thins, Adds, Comes, Isolates, Replaces, Keeps

LEMMA HeldLasts ==
  ASSUME IInv, [Next]_vars, NEW o \in Objects, o \in Held, Exists(o)'
  PROVE  Exists(o) /\ Lasts(o)
BY StepLasts DEF Unused

LEMMA HeldByCommand ==
  ASSUME NEW q \in Procs, NEW o \in {mine[q].dir, mine[q].file, expected[q].dir, expected[q].file}
  PROVE  o \in Held
BY DEF Held

LEMMA Settled ==
  ASSUME IInv, [Next]_vars, NEW q \in Procs
  PROVE  /\ mine'[q] = mine[q] \/ Mkdir(q) \/ OpenFile(q)
         /\ expected'[q] = expected[q] \/ Identity(q) \/ FileIdentity(q) \/ Look(q)
         /\ todo'[q] = todo[q] \/ List(q) \/ Look(q)
<1> USE DEF Passes, Undo, Close, Proves, Keep
<1>1. CASE Same(q)
  BY <1>1 DEF Same
<1>2. CASE Mkdir(q) \/ OpenFile(q)
  <2>1. UNCHANGED <<expected, todo>>
    BY <1>2, Zenon DEF Mkdir, OpenFile
  <2> QED  BY <1>2, <2>1
<1>3. CASE Identity(q) \/ FileIdentity(q)
  <2>1. UNCHANGED <<mine, todo>>
    BY <1>3, Zenon DEF Identity, FileIdentity
  <2> QED  BY <1>3, <2>1
<1>4. CASE List(q) \/ Look(q)
  <2>1. UNCHANGED mine /\ (List(q) => UNCHANGED expected)
    BY <1>4, Zenon DEF List, Look
  <2> QED  BY <1>4, <2>1
<1>5. CASE CheckDacl(q) \/ OpenDir(q) \/ VerifyOpenDir(q) \/ VerifyDir(q) \/ ChmodDir(q)
           \/ Write(q) \/ Protect(q) \/ VerifyOpen(q) \/ VerifyClosed(q) \/ Leave(q)
  <2>1. UNCHANGED <<mine, expected, todo>>
    BY <1>5, Zenon DEF CheckDacl, OpenDir, VerifyOpenDir, VerifyDir, ChmodDir, Write, Protect,
       VerifyOpen, VerifyClosed, Leave
  <2> QED  BY <2>1
<1>6. CASE MoveFile(q) \/ CheckFile(q) \/ DeleteFile(q) \/ MoveDir(q) \/ CheckDir(q)
           \/ CheckTree(q) \/ DeleteDir(q) \/ Fault(q) \/ Kill(q)
  <2>1. UNCHANGED <<mine, expected, todo>>
    BY <1>6, Zenon DEF MoveFile, CheckFile, DeleteFile, MoveDir, CheckDir, CheckTree, DeleteDir,
       Fault, Kill
  <2> QED  BY <2>1
<1> QED  BY <1>1, <1>2, <1>3, <1>4, <1>5, <1>6, OneActs, Zenon DEF Command

\* What a command holds on to stays its own: what changes is named.
LEMMA MineLasts ==
  ASSUME IInv, [Next]_vars, NEW q \in Procs
  PROVE  /\ Exists(mine[q].dir)' =>
              \/ /\ mine'[q].dir = mine[q].dir /\ mine[q].dir \in Objects
                 /\ Exists(mine[q].dir) /\ Lasts(mine[q].dir)
              \/ Mkdir(q) /\ mine'[q].dir \in Objects /\ NewDir(q, mine'[q].dir)
         /\ Exists(mine[q].file)' =>
              \/ /\ mine'[q].file = mine[q].file /\ mine[q].file \in Objects
                 /\ Exists(mine[q].file) /\ Lasts(mine[q].file)
              \/ OpenFile(q) /\ mine'[q].file \in Objects /\ NewOwnFile(q, mine'[q].file)
<1>1. CASE mine'[q] = mine[q]
  <2>1. ASSUME NEW o \in {mine[q].dir, mine[q].file}, Exists(o)'
        PROVE  o \in Objects /\ Exists(o) /\ Lasts(o)
    <3>1. o \in Objects \cup {Nobody} /\ o # Nobody
      BY <2>1, Commands DEF LocalsTyped, Exists
    <3> QED  BY <2>1, <3>1, HeldByCommand, HeldLasts
  <2> QED  BY <1>1, <2>1
<1>2. ASSUME NEW o \in {mine[q].dir, mine[q].file}, Exists(o)'
      PROVE  o \in Objects /\ Exists(o) /\ Lasts(o)
  <2>1. o \in Objects \cup {Nobody} /\ o # Nobody
    BY <1>2, Commands DEF LocalsTyped, Exists
  <2> QED  BY <1>2, <2>1, HeldByCommand, HeldLasts
<1>3. CASE Mkdir(q)
  BY <1>2, <1>3, MkdirFiles DEF NewDir
<1>4. CASE OpenFile(q)
  BY <1>1, <1>2, <1>4, OpenFileFiles DEF NewOwnFile, Undo, Close
<1> QED  BY <1>1, <1>3, <1>4, Settled

LEMMA NextMade ==
  ASSUME IInv, [Next]_vars
  PROVE  Made'
<1> SUFFICES ASSUME NEW q \in Procs
             PROVE  /\ Exists(mine[q].dir)' => MadeDir(q, mine[q].dir)'
                    /\ Exists(mine[q].file)' => MadeFile(q, mine[q].file)'
  BY DEF Made
<1>1. Made /\ system' = system
  BY NextFiles DEF IInv, Tied, FilesTyped
<1>2. Exists(mine[q].dir)' => MadeDir(q, mine[q].dir)'
  BY <1>1, MineLasts DEF Made, MadeDir, Lasts, NewDir
<1>3. Exists(mine[q].file)' => MadeFile(q, mine[q].file)'
  BY <1>1, MineLasts DEF Made, MadeFile, Lasts, NewOwnFile, Nested
<1> QED  BY <1>2, <1>3

\* Only a command itself moves what it has made, but for the sweeps.
LEMMA MovesOwn ==
  ASSUME IInv, NEW p \in Procs, p \notin Sweepers, Isolating(p), NEW o \in Objects, Isolates(p, o),
         Genuine(o), ~(Keeps(o))
  PROVE  objs[o].by = p
<1> DEFINE q == objs[o].by
<1>1. InPlace(o, q) /\ q \in Creators
  BY DEF IInv, Tied, Placed, InPlace
<1>2. CASE MoveFile(p)
  <2>1. o = FileNamed(p, FileName(p)) /\ o # Nobody
    BY <1>2, Kinds DEF Isolating, Isolates, MoveFile, MoveDir
  <2>2. CASE ~Nested(p)
    <3>1. objs[o].dir = Root /\ objs[o].name.of = p
      BY <2>1, <2>2, FileNamedIs, Kinds, Parts
    <3> QED  BY <1>1, <3>1 DEF InPlace
  <2>3. CASE Nested(p)
    <3>1. objs[o].dir # Root /\ objs[objs[o].dir].name.of = p
      BY <2>1, <2>3, FileNamedIs, Parts, NobodyIsNone DEF Root, Nobody
    <3>2. /\ objs[o].dir \in Objects /\ Genuine(objs[o].dir) /\ objs[objs[o].dir].by = q
          /\ objs[objs[o].dir].dir = Root
      BY <2>1, <2>3, <3>1, OnlyChild, FileNamedIs
    <3>3. InPlace(objs[o].dir, q)
      BY <3>2 DEF IInv, Tied, Placed
    <3> QED  BY <3>1, <3>2, <3>3 DEF InPlace
  <2> QED  BY <2>2, <2>3
<1>3. CASE MoveDir(p)
  <2>1. o = Named(Root, Candidate(p)) /\ o # Nobody
    BY <1>3, Kinds DEF Isolating, Isolates, MoveFile, MoveDir
  <2>2. objs[o].dir = Root /\ objs[o].name.of = p
    BY <2>1, NamedIs, Parts
  <2> QED  BY <1>1, <2>2 DEF InPlace
<1> QED  BY <1>2, <1>3 DEF Isolating

\* What a step may do with the name of an object that nobody has touched.
LEMMA GenuineNames ==
  ASSUME IInv, [Next]_vars, NEW o \in Objects, Genuine(o), Genuine(o)'
  PROVE  /\ objs'[o].name.of = objs[o].name.of
         /\ \/ objs'[o].name = objs[o].name
            \/ /\ objs[o].name.by = "none" /\ objs'[o].name.by \in Procs /\ Isolating(objs'[o].name.by)
               /\ Isolates(objs'[o].name.by, o)
               /\ objs'[o].name.by \in Sweepers \cup {objs[o].by}
<1>1. StepKinds /\ Lasts(o) /\ o \notin Unused /\ Exists(o) /\ Exists(o)' /\ ~objs'[o].touched
  BY NextKinds, StepLasts DEF Genuine, Unused, Exists
<1>2. CASE Keeps(o)
  BY <1>2 DEF Keeps
<1>3. CASE ~Keeps(o)
  <2>1. PICK p \in Procs : Isolating(p)
    BY <1>1, <1>3, GoneTypes DEF StepKinds, Thins, Adds, Replaces, Comes, Exists
  <2>2. Isolates(p, o)
    BY <1>3, <2>1, IsolatingIsolates DEF Isolates
  <2>3. objs'[o].name.by = p /\ objs'[o].name.of = objs[o].name.of /\ objs[o].name.by = "none"
    BY <2>2, Parts DEF Isolates
  <2> QED  BY <1>3, <2>1, <2>2, <2>3, MovesOwn
<1> QED  BY <1>2, <1>3

LEMMA NextPlaced ==
  ASSUME IInv, [Next]_vars
  PROVE  Placed'
<1> SUFFICES ASSUME NEW o \in Objects, Genuine(o)'
             PROVE  InPlace(o, objs[o].by)'
  BY DEF Placed
<1>1. StepKinds /\ system' = system /\ Exists(o)' /\ ~objs'[o].touched
  BY NextKinds DEF FilesTyped, Genuine
<1>2. CASE Exists(o)
  <2>0. PICK q : q = objs[o].by
    OBVIOUS
  <2>1. Lasts(o) /\ Genuine(o) /\ InPlace(o, q) /\ objs'[o].by = q /\ o # Nobody
    BY <1>1, <1>2, <2>0, StepLasts, NobodyIsNone DEF Unused, Exists, Lasts, Genuine, IInv, Tied, Placed
  <2>2. q \in Procs /\ q \in Creators
    BY <2>1 DEF InPlace, Procs
  <2>3. /\ o = mine[q].dir => o = mine'[q].dir
        /\ o = mine[q].file => mine'[q] = mine[q]
    <3>1. Local(q)
      BY <2>2, Commands
    <3>2. ~Mkdir(q)
      BY <2>1, <2>2, <3>1 DEF Local, Possessions, Making, InPlace, Mkdir
    <3>3. OpenFile(q) => mine[q].file = Nobody
      BY <2>2, <3>1 DEF Local, Possessions, OpenFile
    <3>4. OpenFile(q) => mine'[q].dir = mine[q].dir
      BY <2>2, OpenFileFiles DEF NewOwnFile, Undo, Close
    <3> QED  BY <2>1, <2>2, <3>2, <3>3, <3>4, Settled
  <2>4. objs'[o].name.of = objs[o].name.of /\ objs'[o].name.by \in {"none", q} \cup Sweepers
    BY <2>0, <2>1, GenuineNames DEF InPlace
  <2>5. objs'[o].access \in {objs[o].access, "own"}
    BY <1>1, <2>1 DEF Lasts
  <2>6. InPlace(o, q)'
    BY <1>1, <2>1, <2>2, <2>3, <2>4, <2>5 DEF InPlace, Lasts, Nested
  <2> QED  BY <2>1, <2>6
<1>3. CASE ~Exists(o)
  <2>1. ~Keeps(o) /\ ~Lasts(o) /\ objs'[o] # Gone
    BY <1>1, <1>3, GoneTypes DEF Keeps, Lasts, Exists
  <2>2. \/ \E p \in Procs : Mkdir(p) /\ NewDir(p, o)
        \/ \E p \in Procs : OpenFile(p) /\ NewOwnFile(p, o)
    BY <1>1, <1>3, <2>1, IsolatingIsolates DEF StepKinds, Thins, Isolates, Adds, Replaces
  <2>3. ASSUME NEW p \in Procs, Mkdir(p), NewDir(p, o)
        PROVE  InPlace(o, objs[o].by)'
    <3>1. p \in Creators
      BY <2>3, Commands, Kinds DEF Mkdir, Local, Role, Removing, Ended
    <3> QED  BY <2>3, <3>1, Parts DEF InPlace, NewDir
  <2>4. ASSUME NEW p \in Procs, OpenFile(p), NewOwnFile(p, o)
        PROVE  InPlace(o, objs[o].by)'
    <3>0. PICK d : d = objs'[o].dir
      OBVIOUS
    <3>1. p \in Creators /\ p \in Artifacts /\ mine[p].file = Nobody
      BY <2>4, Commands, Kinds DEF OpenFile, Local, Role, Possessions, Making, Removing, Ended
    <3>2. d = mine[p].dir /\ mine'[p].dir = mine[p].dir /\ mine'[p].file = o /\ objs'[o].by = p
      BY <1>1, <2>4, <3>0 DEF NewOwnFile
    <3>3. CASE ~Nested(p)
      BY <1>1, <2>4, <3>0, <3>1, <3>2, <3>3, Parts DEF InPlace, NewOwnFile, Access, FileName, Nested
    <3>4. CASE Nested(p)
      <4>1. d # Root /\ Genuine(d) /\ objs'[o].access = Access(d)
        BY <1>1, <2>4, <3>0, <3>4 DEF NewOwnFile
      <4>2. d \in Objects
        BY <3>1, <3>2, <4>1, Commands DEF LocalsTyped, Root, Nobody, Creators, Procs
      <4>3. objs[d].by = p /\ objs[d].owner = "user"
        BY <3>2, <4>1 DEF Genuine, IInv, Tied, Made, MadeDir
      <4>4. objs[d].access = "own"
        BY <3>1, <3>4, <4>1, <4>2, <4>3, NobodyIsNone DEF IInv, Tied, Placed, InPlace
      <4>5. objs'[o].access = "inherited"
        BY <4>1, <4>3, <4>4 DEF Access, Private
      <4>6. objs'[o].name = Environment
        BY <2>4, <3>4 DEF NewOwnFile, FileName
      <4> QED  BY <1>1, <3>0, <3>1, <3>2, <3>4, <4>1, <4>5, <4>6, Parts DEF InPlace, Nested
    <3> QED  BY <3>3, <3>4
  <2> QED  BY <2>2, <2>3, <2>4
<1> QED  BY <1>2, <1>3

\* How a removal goes on: never back.
LEMMA Onward ==
  ASSUME IInv, [Next]_vars, NEW q \in Procs
  PROVE  LET x == at[q]
             y == at'[q]
         IN  /\ x \in Ended => y = x
             /\ q \notin Sweepers =>
                  /\ x = "check" => y \in {"check", "delete", "done", "killed"}
                  /\ x = "delete" => y \in {"delete", "done", "killed"} \/ (Nested(q) /\ y = "moveDir")
                  /\ x = "moveDir" => y \in {"moveDir", "checkDir", "done", "killed"}
                  /\ x = "checkDir" => y \in {"checkDir", "deleteDir", "done", "killed"}
                  /\ x = "deleteDir" => y \in {"deleteDir", "done", "killed"}
             /\ q \in Sweepers /\ y \in {"move", "moveDir"} => x = y \/ Look(q)
             /\ q \in Sweepers /\ y = "list" => x = "list"
             /\ q \in Sweepers /\ y \in Removing => x \in Removing \/ Look(q)
             /\ y = "check" => x = "check" \/ MoveFile(q)
             /\ y = "checkDir" => x = "checkDir" \/ MoveDir(q)
             /\ y = "delete" => x = "delete" \/ CheckFile(q)
             /\ y \in {"checkTree", "deleteDir"} => x \in {"checkTree", "deleteDir"} \/ CheckDir(q)
<1> USE DEF Passes, Undo, Close, Proves, Goto, Making, Filling, Removing, Ended
<1>1. Local(q) /\ at \in [Procs -> Places]
  BY Commands DEF LocalsTyped
<1>2. CASE Same(q)
  BY <1>2 DEF Same
<1>3. CASE \/ Mkdir(q) \/ Identity(q) \/ CheckDacl(q) \/ OpenDir(q) \/ ChmodDir(q)
           \/ VerifyOpenDir(q) \/ VerifyDir(q) \/ OpenFile(q) \/ FileIdentity(q) \/ Write(q)
           \/ Protect(q) \/ VerifyOpen(q) \/ VerifyClosed(q) \/ Leave(q)
  <2>1. at[q] \in Making \cup Filling \cup {"body"} /\ q \notin Sweepers
    BY <1>1, <1>3, Kinds DEF Mkdir, Identity, CheckDacl, OpenDir, ChmodDir, VerifyOpenDir, VerifyDir, OpenFile,
       FileIdentity, Write, Protect, VerifyOpen, VerifyClosed, Leave, Local, Role
  <2>2. CASE Mkdir(q) \/ Identity(q) \/ CheckDacl(q) \/ OpenDir(q) \/ ChmodDir(q) \/ VerifyOpenDir(q)
             \/ VerifyDir(q)
    <3>1. \E y \in Making \cup Filling \cup {"body", "move", "moveDir", "done"} : at' = [at EXCEPT ![q] = y]
      BY <2>2 DEF Mkdir, Identity, CheckDacl, OpenDir, ChmodDir, VerifyOpenDir, VerifyDir
    <3>2. at'[q] \in Making \cup Filling \cup {"body", "move", "moveDir", "done"}
      BY <1>1, <3>1
    <3> QED  BY <2>1, <3>2
  <2>3. CASE OpenFile(q) \/ FileIdentity(q) \/ Write(q) \/ Protect(q) \/ VerifyOpen(q) \/ VerifyClosed(q)
             \/ Leave(q)
    <3>1. \E y \in Making \cup Filling \cup {"body", "move", "moveDir", "done"} : at' = [at EXCEPT ![q] = y]
      BY <2>3 DEF OpenFile, FileIdentity, Write, Protect, VerifyOpen, VerifyClosed, Leave
    <3>2. at'[q] \in Making \cup Filling \cup {"body", "move", "moveDir", "done"}
      BY <1>1, <3>1
    <3> QED  BY <2>1, <3>2
  <2> QED  BY <1>3, <2>2, <2>3
<1>4. CASE MoveFile(q) \/ CheckFile(q) \/ DeleteFile(q)
  <2>1. AfterEnd(q) = IF q \in Sweepers THEN "look" ELSE "done"
    BY DEF AfterEnd
  <2>2. CASE MoveFile(q)
    <3>1. at[q] = "move" /\ \E y \in {AfterEnd(q), "check"} : at' = [at EXCEPT ![q] = y]
      BY <2>2 DEF MoveFile
    <3> QED  BY <1>1, <2>1, <2>2, <3>1
  <2>3. CASE CheckFile(q)
    <3>1. at[q] = "check" /\ \E y \in {AfterEnd(q), "delete"} : at' = [at EXCEPT ![q] = y]
      BY <2>3 DEF CheckFile
    <3> QED  BY <1>1, <2>1, <2>3, <3>1
  <2>4. CASE DeleteFile(q)
    <3>1. /\ at[q] = "delete"
          /\ \E y \in {AfterEnd(q), "moveDir"} : at' = [at EXCEPT ![q] = y] /\ (y = "moveDir" => Nested(q))
      BY <2>1, <2>4 DEF DeleteFile
    <3> QED  BY <1>1, <2>1, <3>1, Kinds
  <2> QED  BY <1>4, <2>2, <2>3, <2>4
<1>5. CASE MoveDir(q) \/ CheckDir(q) \/ CheckTree(q) \/ DeleteDir(q)
  <2>1. AfterEnd(q) = IF q \in Sweepers THEN "look" ELSE "done"
    BY DEF AfterEnd
  <2>2. CASE MoveDir(q)
    <3>1. at[q] = "moveDir" /\ \E y \in {AfterEnd(q), "checkDir"} : at' = [at EXCEPT ![q] = y]
      BY <2>2 DEF MoveDir
    <3> QED  BY <1>1, <2>1, <2>2, <3>1
  <2>3. CASE CheckDir(q)
    <3>1. /\ at[q] = "checkDir"
          /\ \E y \in {AfterEnd(q), "checkTree", "deleteDir"} :
               at' = [at EXCEPT ![q] = y] /\ (y = "checkTree" => q \in Sweepers)
      BY <2>1, <2>3 DEF CheckDir
    <3> QED  BY <1>1, <2>1, <2>3, <3>1
  <2>4. CASE CheckTree(q)
    <3>1. at[q] = "checkTree" /\ \E y \in {AfterEnd(q), "deleteDir"} : at' = [at EXCEPT ![q] = y]
      BY <2>4 DEF CheckTree
    <3> QED  BY <1>1, <2>1, <2>4, <3>1
  <2>5. CASE DeleteDir(q)
    <3>1. at[q] = "deleteDir" /\ at' = [at EXCEPT ![q] = AfterEnd(q)]
      BY <2>5 DEF DeleteDir
    <3> QED  BY <1>1, <2>1, <2>5, <3>1
  <2> QED  BY <1>5, <2>2, <2>3, <2>4, <2>5
<1>6. CASE List(q)
  <2>1. at[q] = "list" /\ at' = [at EXCEPT ![q] = "look"]
    BY <1>6 DEF List
  <2> QED  BY <1>1, <2>1
<1>7. CASE Look(q)
  <2>1. at[q] = "look" /\ (at' = at \/ \E y \in {"done", "move", "moveDir"} : at' = [at EXCEPT ![q] = y])
    BY <1>7 DEF Look
  <2> QED  BY <1>1, <1>7, <2>1
<1>8. CASE Fault(q) \/ Kill(q)
  <2>1. at[q] \notin Ended /\ \E y : at' = [at EXCEPT ![q] = y]
                                  /\ (y = "killed" \/ (y = FaultPlace(q) /\ at[q] \notin {"body", "look"}))
    BY <1>8 DEF Fault, Kill
  <2>2. at'[q] = "killed" \/ (at'[q] = FaultPlace(q) /\ at[q] \notin {"body", "look"})
    BY <1>1, <2>1
  <2>3. FaultPlace(q) \in {"done", "move", "moveDir", AfterEnd(q)}
    BY DEF FaultPlace
  <2>4. at[q] \in Removing => FaultPlace(q) = AfterEnd(q)
    BY DEF FaultPlace
  <2>5. q \in Sweepers /\ at[q] \in {"list"} => FaultPlace(q) = "done"
    BY DEF FaultPlace
  <2>6. AfterEnd(q) = IF q \in Sweepers THEN "look" ELSE "done"
    BY DEF AfterEnd
  <2>7. q \in Sweepers => at[q] \in {"list", "look"} \cup Removing
    BY <1>1, <2>1 DEF Local, Role
  <2> HIDE DEF Making, Filling
  <2> QED  BY <2>1, <2>2, <2>3, <2>4, <2>5, <2>6, <2>7
<1> QED  BY <1>2, <1>3, <1>4, <1>5, <1>6, <1>7, <1>8, OneActs, Zenon DEF Command

LEMMA LookDoes ==
  ASSUME IInv, NEW q \in Procs, Look(q)
  PROVE  /\ at[q] = "look" /\ UNCHANGED files
         /\ \/ todo[q].names = {} /\ todo'[q] = todo[q] /\ at'[q] = "done" /\ expected'[q] = expected[q]
            \/ \E n \in todo[q].names :
                 /\ todo'[q].names = todo[q].names \ {n} /\ todo'[q].name = n /\ todo'[q].cutoff = todo[q].cutoff
                 /\ \/ /\ at'[q] = "look" /\ expected'[q] = expected[q] /\ ~Stale(q, Named(Root, n))
                    \/ /\ Stale(q, Named(Root, n))
                       /\ \/ /\ at'[q] = "moveDir" /\ objs[Named(Root, n)].kind = "dir"
                             /\ expected'[q] = [dir |-> Named(Root, n), file |-> Nobody]
                          \/ /\ at'[q] = "move" /\ objs[Named(Root, n)].kind # "dir"
                             /\ expected'[q] = [dir |-> Nobody, file |-> Named(Root, n)]
<1>1. LocalsTyped /\ at[q] = "look" /\ UNCHANGED files
  BY Commands, LooksLook DEF Look, Looks
<1>2. CASE todo[q].names = {} /\ Passes(q, "done")
  BY <1>1, <1>2 DEF Passes, Goto, Keep, LocalsTyped
<1>3. CASE ~(todo[q].names = {} /\ Passes(q, "done"))
  <2>1. PICK n \in todo[q].names :
          /\ todo' = [todo EXCEPT ![q].names = todo[q].names \ {n}, ![q].name = n]
          /\ IF ~Stale(q, Named(Root, n)) THEN UNCHANGED <<at, expected>>
             ELSE IF objs[Named(Root, n)].kind = "dir"
               THEN Find(q, [dir |-> Named(Root, n), file |-> Nobody]) /\ Goto(q, "moveDir")
               ELSE Find(q, [dir |-> Nobody, file |-> Named(Root, n)]) /\ Goto(q, "move")
    BY <1>1, <1>3 DEF Look, LocalsTyped
  <2>2. todo'[q].names = todo[q].names \ {n} /\ todo'[q].name = n /\ todo'[q].cutoff = todo[q].cutoff
    BY <1>1, <2>1 DEF LocalsTyped
  <2>3. CASE ~Stale(q, Named(Root, n))
    BY <1>1, <2>1, <2>2, <2>3
  <2>4. CASE Stale(q, Named(Root, n))
    BY <1>1, <2>1, <2>2, <2>4 DEF Find, Goto, LocalsTyped
  <2> QED  BY <2>3, <2>4
<1> QED  BY <1>1, <1>2, <1>3

LEMMA UnspentShrinks ==
  ASSUME IInv, [Next]_vars, NEW q \in Procs, NEW n, Unspent(q, n)'
  PROVE  Unspent(q, n)
<1>1. CASE q \notin Sweepers
  <2>1. FileName(q)' = FileName(q)
    BY NextFiles DEF FilesTyped, FileName, Nested
  <2>2. Nested(q) => FileName(q).of = "environment" /\ q # "environment"
    BY Parts, ConstantsAssumption DEF FileName
  <2>3. at[q] \in Ended => at'[q] = at[q]
    BY Onward
  <2>4. at[q] \in {"check", "delete", "checkDir", "deleteDir", "moveDir"} =>
          \/ at[q] \in {"check", "delete"} /\ at'[q] \in {"check", "delete", "done", "killed"}
          \/ at[q] = "delete" /\ at'[q] = "moveDir" /\ Nested(q)
          \/ at[q] = "moveDir" /\ at'[q] = "moveDir"
          \/ at'[q] \in {"checkDir", "deleteDir", "done", "killed"}
    BY <1>1, Onward
  <2> QED  BY <1>1, <2>1, <2>2, <2>3, <2>4 DEF Unspent, Ended
<1>2. CASE q \in Sweepers
  <2>1. at[q] # "list" => at'[q] # "list"
    BY <1>2, Onward
  <2>2. CASE todo'[q] = todo[q] /\ ~Look(q)
    <3>1. at'[q] \in {"move", "moveDir"} => at[q] \in {"move", "moveDir"}
      BY <1>2, <2>2, Onward
    <3> QED  BY <1>2, <2>1, <2>2, <3>1 DEF Unspent
  <2>3. CASE List(q)
    BY <1>2, <2>3 DEF Unspent, List
  <2>4. CASE Look(q)
    <3>1. todo[q] \in [names : SUBSET Listed, name : Listed, cutoff : 0..1]
      BY Commands DEF LocalsTyped
    <3>2. at[q] = "look" /\ at'[q] \in {"look", "done", "move", "moveDir"}
      BY <2>4, LookDoes
    <3>3. \E m \in todo'[q].names \cup (IF at'[q] \in {"move", "moveDir"} THEN {todo'[q].name} ELSE {}) : n = m.of
      BY <1>2, <3>2 DEF Unspent
    <3>4. /\ todo'[q].names \subseteq todo[q].names
          /\ at'[q] \in {"move", "moveDir"} => todo'[q].name \in todo[q].names
      BY <2>4, LookDoes, Zenon
    <3>5. \E m \in todo[q].names : n = m.of
      BY <3>3, <3>4
    <3> QED  BY <1>2, <3>5 DEF Unspent
  <2> QED  BY <2>2, <2>3, <2>4, Settled
<1> QED  BY <1>1, <1>2

\* A name is spent when it is given.
LEMMA IsolatingSpends ==
  ASSUME IInv, [Next]_vars, NEW p \in Procs, Isolating(p), NEW o \in Objects, Isolates(p, o), ~Keeps(o)
  PROVE  ~Unspent(p, objs[o].name.of)'
<1>1. LocalsTyped /\ Local(p)
  BY Commands
<1>2. PICK n \in Listed :
         /\ objs[o].name = n /\ (p \in Sweepers => n = todo[p].name)
         /\ todo'[p] = todo[p]
         /\ \/ at[p] = "move" /\ at'[p] = "check" /\ (p \notin Sweepers => n = FileName(p))
            \/ at[p] = "moveDir" /\ at'[p] = "checkDir"
  <2>1. CASE MoveFile(p)
    <3>1. o = FileNamed(p, FileTarget(p)) /\ o # Nobody
      BY <2>1 DEF Isolating, Isolates, MoveFile, MoveDir
    <3>2. objs[o].name = FileTarget(p)
      BY <3>1, FileNamedIs
    <3>3. at[p] = "move" /\ at'[p] = "check" /\ todo' = todo
      BY <1>1, <2>1, <3>1 DEF MoveFile, Goto, Keep, LocalsTyped
    <3> QED  BY <3>2, <3>3, Targets, Kinds
  <2>2. CASE MoveDir(p)
    <3>1. o = Named(Root, Target(p)) /\ o # Nobody
      BY <2>2 DEF Isolating, Isolates, MoveFile, MoveDir
    <3>2. objs[o].name = Target(p)
      BY <3>1, NamedIs
    <3>3. at[p] = "moveDir" /\ at'[p] = "checkDir" /\ todo' = todo
      BY <1>1, <2>2, <3>1 DEF MoveDir, Goto, Keep, LocalsTyped
    <3> QED  BY <3>2, <3>3, Targets, Kinds
  <2> QED  BY <2>1, <2>2 DEF Isolating
<1>3. objs'[o].name.of = n.of
  BY <1>2, Parts DEF Isolates
<1>4. FileName(p)' = FileName(p)
  BY NextFiles DEF FilesTyped, FileName, Nested
<1>5. CASE p \notin Sweepers
  BY <1>2, <1>3, <1>4, <1>5 DEF Unspent, Ended
<1>6. CASE p \in Sweepers
  <2>1. n \notin todo[p].names
    BY <1>1, <1>2, <1>6 DEF Local, Errands, Removing
  <2>2. \A m \in todo[p].names : m.of # n.of
    <3>1. \A m \in todo[p].names : m \in Listed
      BY <1>1 DEF LocalsTyped
    <3> QED  BY <2>1, <3>1, NameTypes, SameName
  <2> QED  BY <1>2, <1>3, <1>6, <2>2 DEF Unspent
<1> QED  BY <1>5, <1>6

LEMMA NextSpent ==
  ASSUME IInv, [Next]_vars
  PROVE  Spent'
<1> SUFFICES ASSUME NEW o \in Objects, Exists(o)', objs'[o].name.by \in Procs,
                    Unspent(objs[o].name.by, objs[o].name.of)'
             PROVE  FALSE
  BY DEF Spent
<1>1. StepKinds
  BY NextKinds
<1>2. PICK q \in Procs : q = objs'[o].name.by
  OBVIOUS
<1>8. PICK n : n = objs'[o].name.of
  OBVIOUS
<1>3. Unspent(q, n)'
  BY <1>2, <1>8
<1>4. Unspent(q, n)
  BY <1>3, UnspentShrinks
<1>5. "none" \notin Procs /\ "moved" \notin Procs
  BY ConstantsAssumption
<1>6. CASE Exists(o) /\ objs'[o].name = objs[o].name
  BY <1>2, <1>4, <1>6, <1>8 DEF IInv, Tied, Spent
<1>7. CASE ~(Exists(o) /\ objs'[o].name = objs[o].name)
  <2>1. ~Keeps(o) /\ objs'[o] # Gone
    BY <1>7, GoneTypes DEF Keeps, Lasts, Exists
  <2>2. PICK p \in Procs : Isolating(p)
    BY <1>1, <1>2, <1>5, <2>1, Parts DEF StepKinds, Thins, Adds, Comes, Replaces
  <2>3. Isolates(p, o)
    BY <2>1, <2>2, IsolatingIsolates DEF Isolates
  <2>4. p = q
    BY <1>2, <2>3, Parts DEF Isolates
  <2>5. ~Unspent(p, objs[o].name.of)'
    BY <2>1, <2>2, <2>3, IsolatingSpends
  <2>6. objs'[o].name.of = objs[o].name.of
    BY <2>3, Parts DEF Isolates
  <2> QED  BY <1>3, <1>8, <2>4, <2>5, <2>6
<1> QED  BY <1>6, <1>7

LEMMA QuarantineStays ==
  ASSUME IInv, [Next]_vars, NEW p \in Procs, ~Isolating(p), NEW o \in Objects, Exists(o)',
         objs'[o].name.by = p
  PROVE  Exists(o) /\ Keeps(o)
<1>1. StepKinds /\ "none" \notin Procs /\ "moved" \notin Procs
  BY NextKinds, ConstantsAssumption
<1>2. objs'[o] # Gone /\ (Keeps(o) => Exists(o))
  BY GoneTypes DEF Exists, Keeps, Lasts
<1>3. CASE \E q \in Procs : Isolating(q)
  <2>1. PICK q \in Procs, c \in Objects : Isolating(q) /\ Isolates(q, c)
    BY <1>3, IsolatingIsolates
  <2>2. c # o
    BY <2>1, Parts DEF Isolates
  <2> QED  BY <1>2, <2>1, <2>2 DEF Isolates
<1>4. CASE ~\E q \in Procs : Isolating(q)
  BY <1>1, <1>2, <1>4, Parts DEF StepKinds, Thins, Adds, Comes, Replaces
<1> QED  BY <1>3, <1>4

\* While a command removes something its errand stays the same.
LEMMA ErrandStays ==
  ASSUME IInv, [Next]_vars, NEW p \in Procs, at[p] \in Removing
  PROVE  todo'[p] = todo[p] /\ expected'[p] = expected[p] /\ mine'[p] = mine[p]
BY Settled DEF Removing, List, Look, Identity, FileIdentity, Mkdir, OpenFile

LEMMA TargetsStay ==
  ASSUME IInv, [Next]_vars, NEW p \in Procs, todo'[p] = todo[p]
  PROVE  FileTarget(p)' = FileTarget(p) /\ Target(p)' = Target(p)
BY NextFiles DEF FilesTyped, FileTarget, Target, FileName, Nested

LEMMA NextFound ==
  ASSUME IInv, [Next]_vars
  PROVE  Found'
<1> SUFFICES ASSUME NEW p \in Procs, NEW o \in Objects, Exists(o)'
             PROVE  /\ at'[p] = "delete" /\ objs'[o].name = Quarantine(p, FileTarget(p)') =>
                         o = expected'[p].file /\ objs'[o].kind = "file"
                    /\ at'[p] \in {"checkTree", "deleteDir"} /\ objs'[o].name = Quarantine(p, Target(p)') =>
                         o = expected'[p].dir
  BY DEF Found
<1>1. LocalsTyped
  BY Commands
<1>2. ASSUME at'[p] = "delete", objs'[o].name = Quarantine(p, FileTarget(p)')
      PROVE  o = expected'[p].file /\ objs'[o].kind = "file"
  <2>1. at[p] = "delete" \/ (at[p] = "check" /\ CheckFile(p))
    BY <1>2, Onward DEF CheckFile
  <2>2. /\ todo'[p] = todo[p] /\ expected'[p] = expected[p] /\ FileTarget(p)' = FileTarget(p)
        /\ objs'[o].name = Quarantine(p, FileTarget(p))
    BY <1>2, <2>1, ErrandStays, TargetsStay DEF Removing
  <2>3. ~Isolating(p)
    BY <2>1 DEF Isolating, MoveFile, MoveDir
  <2>4. objs'[o].name.by = p
    BY <2>2, Parts
  <2>5. Exists(o) /\ Keeps(o)
    BY <2>3, <2>4, QuarantineStays
  <2>6. objs[o].name = Quarantine(p, FileTarget(p)) /\ objs'[o].kind = objs[o].kind
    BY <2>2, <2>5 DEF Keeps, Lasts
  <2>7. CASE at[p] = "delete"
    BY <2>2, <2>5, <2>6, <2>7 DEF IInv, Tied, Found
  <2>8. CASE at[p] = "check" /\ CheckFile(p)
    <3> DEFINE c == FileNamed(p, Quarantine(p, FileTarget(p)))
    <3>1. Is(c, "file", expected[p].file)
      BY <1>1, <1>2, <2>8 DEF CheckFile, Passes, Goto, AfterEnd, LocalsTyped
    <3>2. c # Nobody /\ c = expected[p].file /\ objs[c].kind = "file"
      BY <3>1 DEF Is
    <3>3. c \in Objects /\ Exists(c) /\ objs[c].name = Quarantine(p, FileTarget(p))
      BY <3>2, FileNamedIs
    <3> HIDE DEF c
    <3>4. c = o
      BY <2>5, <2>6, <3>3, Parts DEF IInv, Files, QuarantineOnce
    <3> QED  BY <2>2, <2>6, <3>2, <3>4
  <2> QED  BY <2>1, <2>7, <2>8
<1>3. ASSUME at'[p] \in {"checkTree", "deleteDir"}, objs'[o].name = Quarantine(p, Target(p)')
      PROVE  o = expected'[p].dir
  <2>1. at[p] \in {"checkTree", "deleteDir"} \/ (at[p] = "checkDir" /\ CheckDir(p))
    BY <1>3, Onward DEF CheckDir
  <2>2. /\ todo'[p] = todo[p] /\ expected'[p] = expected[p] /\ Target(p)' = Target(p)
        /\ objs'[o].name = Quarantine(p, Target(p))
    BY <1>3, <2>1, ErrandStays, TargetsStay DEF Removing
  <2>3. ~Isolating(p)
    BY <2>1 DEF Isolating, MoveFile, MoveDir
  <2>4. objs'[o].name.by = p
    BY <2>2, Parts
  <2>5. Exists(o) /\ Keeps(o)
    BY <2>3, <2>4, QuarantineStays
  <2>6. objs[o].name = Quarantine(p, Target(p))
    BY <2>2, <2>5 DEF Keeps
  <2>7. CASE at[p] \in {"checkTree", "deleteDir"}
    BY <2>2, <2>5, <2>6, <2>7 DEF IInv, Tied, Found
  <2>8. CASE at[p] = "checkDir" /\ CheckDir(p)
    <3> DEFINE c == Named(Root, Quarantine(p, Target(p)))
    <3>1. Is(c, "dir", expected[p].dir)
      BY <1>1, <1>3, <2>8 DEF CheckDir, Passes, Goto, AfterEnd, LocalsTyped
    <3>2. c # Nobody /\ c = expected[p].dir
      BY <3>1 DEF Is
    <3>3. c \in Objects /\ Exists(c) /\ objs[c].name = Quarantine(p, Target(p))
      BY <3>2, NamedIs
    <3> HIDE DEF c
    <3>4. c = o
      BY <2>5, <2>6, <3>3, Parts DEF IInv, Files, QuarantineOnce
    <3> QED  BY <2>2, <3>2, <3>4
  <2> QED  BY <2>1, <2>7, <2>8
<1> QED  BY <1>2, <1>3

LEMMA NextExpected ==
  ASSUME IInv, [Next]_vars
  PROVE  Expected'
<1> SUFFICES ASSUME NEW p \in Procs, NEW o \in Objects, Exists(o)'
             PROVE  /\ p \in Creators /\ o = expected'[p].dir => o = mine'[p].dir \/ objs'[o].touched
                    /\ p \in Sweepers /\ at'[p] \in Removing /\ o \in {expected'[p].dir, expected'[p].file} =>
                         objs'[o].born < todo'[p].cutoff
  BY DEF Expected
<1>1. LocalsTyped /\ Local(p)
  BY Commands
<1>2. ASSUME p \in Creators, o = expected'[p].dir
      PROVE  o = mine'[p].dir \/ objs'[o].touched
  <2>1. CASE expected'[p].dir = expected[p].dir
    <3>1. Exists(o) /\ Lasts(o)
      BY <1>2, <2>1, HeldByCommand, HeldLasts
    <3>2. o = mine[p].dir \/ objs[o].touched
      BY <1>2, <2>1, <3>1 DEF IInv, Tied, Expected
    <3>3. mine'[p].dir = mine[p].dir
      <4>1. ~Mkdir(p)
        BY <1>1, <1>2, <2>1, NobodyIsNone DEF Local, Possessions, Mkdir, Making
      <4>2. OpenFile(p) => mine'[p].dir = mine[p].dir
        BY OpenFileFiles DEF NewOwnFile, Undo, Close
      <4> QED  BY <4>1, <4>2, Settled
    <3> QED  BY <3>1, <3>2, <3>3 DEF Lasts
  <2>2. CASE expected'[p].dir # expected[p].dir
    <3>1. Identity(p)
      <4>1. ~Look(p)
        BY <1>1, <1>2, Kinds DEF Look, Local, Role, Making, Filling, Removing, Ended
      <4>2. FileIdentity(p) => expected'[p].dir = expected[p].dir
        BY <1>1 DEF FileIdentity, Find, LocalsTyped
      <4> QED  BY <2>2, <4>1, <4>2, Settled
    <3>2. UNCHANGED files /\ mine' = mine /\ o = Named(Root, Candidate(p)) /\ o # Nobody
      BY <1>1, <1>2, <2>2, <3>1, LooksLook, NobodyIsNone
         DEF Identity, Find, Passes, Keep, Looks, LocalsTyped
    <3>3. Exists(o) /\ objs[o].dir = Root /\ objs[o].name.of = p /\ objs'[o] = objs[o]
      BY <3>2, NamedIs, Parts DEF files
    <3>4. ASSUME ~objs[o].touched PROVE o = mine[p].dir
      <4>1. InPlace(o, objs[o].by)
        BY <3>3, <3>4 DEF Genuine, IInv, Tied, Placed
      <4>2. mine[p].file = Nobody
        BY <1>1, <1>2, <3>1 DEF Local, Possessions, Identity, Making
      <4> QED  BY <3>3, <4>1, <4>2, NobodyIsNone DEF InPlace
    <3> QED  BY <3>2, <3>3, <3>4
  <2> QED  BY <2>1, <2>2
<1>3. ASSUME p \in Sweepers, at'[p] \in Removing, o \in {expected'[p].dir, expected'[p].file}
      PROVE  objs'[o].born < todo'[p].cutoff
  <2>1. CASE at[p] \in Removing
    <3>1. todo'[p] = todo[p] /\ expected'[p] = expected[p]
      BY <2>1, ErrandStays
    <3>2. Exists(o) /\ Lasts(o)
      BY <1>3, <3>1, HeldByCommand, HeldLasts
    <3>3. objs[o].born < todo[p].cutoff
      BY <1>3, <2>1, <3>1, <3>2 DEF IInv, Tied, Expected
    <3> QED  BY <3>1, <3>2, <3>3 DEF Lasts
  <2>2. CASE at[p] \notin Removing
    <3>1. Look(p)
      BY <1>3, <2>2, Onward
    <3>2. \E n : /\ Stale(p, Named(Root, n)) /\ todo'[p].cutoff = todo[p].cutoff
                 /\ \/ expected'[p] = [dir |-> Named(Root, n), file |-> Nobody]
                    \/ expected'[p] = [dir |-> Nobody, file |-> Named(Root, n)]
      <4>1. at'[p] # "look" /\ at'[p] # "done"
        BY <1>3 DEF Removing
      <4> QED  BY <3>1, <4>1, LookDoes, Zenon
    <3>3. PICK n : /\ Stale(p, Named(Root, n)) /\ o = Named(Root, n)
                   /\ todo'[p].cutoff = todo[p].cutoff /\ UNCHANGED files
      BY <1>3, <3>1, <3>2, LookDoes, NobodyIsNone
    <3>4. Exists(o) /\ objs[o].mtime < todo[p].cutoff
      BY <3>3, NamedIs DEF Stale, Expired
    <3>5. objs[o].born <= objs[o].mtime
      BY <3>4 DEF IInv, Files, Times
    <3>6. objs[o].born \in Nat /\ objs[o].mtime \in Nat /\ todo[p].cutoff \in Nat
      BY <1>1, Types DEF Things, LocalsTyped
    <3> QED  BY <3>3, <3>4, <3>5, <3>6 DEF files
  <2> QED  BY <2>1, <2>2
<1> QED  BY <1>2, <1>3

LEMMA NextInv ==
  ASSUME IInv, [Next]_vars
  PROVE  IInv'
BY NextTypes, NextFiles, NextLocals, NextMade, NextPlaced, NextSpent, NextFound, NextExpected
   DEF IInv, Tied

LEMMA InitInv ==
  ASSUME Init
  PROVE  IInv
<1>1. /\ \A o \in Objects : objs[o] = Gone /\ ~Exists(o)
      /\ \A q \in Procs : mine[q] = [dir |-> Nobody, file |-> Nobody]
      /\ \A q \in Procs : mine[q].dir = Nobody /\ mine[q].file = Nobody
      /\ \A q \in Procs : expected[q].dir = Nobody /\ expected[q].file = Nobody /\ fd[q] = Nobody
      /\ \A q \in Procs : todo[q] = [names |-> {}, name |-> Environment, cutoff |-> 0]
      /\ \A q \in Procs : todo[q].cutoff = 0 /\ todo[q].names = {}
      /\ system \in {"posix", "nt"} /\ clock = 0
  BY GoneTypes DEF Init, Exists
<1>2. \A q \in Procs : at[q] = "done" \/ at[q] = (IF q \in Sweepers THEN "list"
                             ELSE IF q \in Artifacts /\ system = "posix" THEN "open" ELSE "mkdir")
  BY DEF Init
<1>3. at \in [Procs -> Places]
  BY DEF Init, Places, Making, Filling, Ended
<1>4. TypeOK
  <2>1. /\ mine \in [Procs -> [dir : Objects \cup {Nobody}, file : Objects \cup {Nobody}]]
        /\ expected = mine /\ fd \in [Procs -> Objects \cup {Nobody}]
    BY DEF Init
  <2>2. todo \in [Procs -> [names : SUBSET Listed, name : Listed, cutoff : 0..1]]
    BY NameTypes DEF Init
  <2>3. faulty \subseteq Procs /\ trouble \in 0..MaxTrouble
    BY ConstantsAssumption DEF Init
  <2>4. objs \in [Objects -> Things]
    BY GoneTypes DEF Init
  <2> QED  BY <1>1, <1>3, <2>1, <2>2, <2>3, <2>4 DEF TypeOK, Places
<1>5. Files
  BY <1>1 DEF Files, GoneIsGone, Nesting, MovedOnce, QuarantineOnce, Times
<1>6. Locals
  <2> SUFFICES ASSUME NEW q \in Procs PROVE Role(q) /\ Possessions(q) /\ Errands(q)
    BY DEF Locals
  <2>1. Role(q)
    BY <1>2, Kinds, <1>1 DEF Role, Making, Filling, Ended, Creators
  <2>2. Possessions(q)
    BY <1>1, <1>2 DEF Possessions, Holding, Opening, Making
  <2>3. Errands(q)
    BY <1>1, <1>2 DEF Errands, Removing
  <2> QED  BY <2>1, <2>2, <2>3
<1>7. Tied
  BY <1>1, NobodyIsNone DEF Tied, Made, Placed, Genuine, Spent, Found, Expected, Exists
<1> QED  BY <1>4, <1>5, <1>6, <1>7 DEF IInv

-----------------------------------------------------------------------------
(* The theorems.                                                            *)

\* Objects, commands and their ties stay as the invariants above say, whatever
\* private_artifact, private_directory, create_private_directory, the sweep and
\* other programs do: the theorems rest on it.
THEOREM Invariance == Spec => []IInv
BY InitInv, NextInv, PTL DEF Spec

\* Whatever else happens in the directory they share: every command is at one
\* of its steps, two objects never have the same name in a directory, and a
\* descriptor of secure_temp.py is open only while its object is made safe.
THEOREM TypesCorrect == Spec => []TypeOK
<1>1. IInv => TypeOK
  BY DEF IInv
<1> QED  BY <1>1, Invariance, PTL

LEMMA InvPrivate ==
  ASSUME IInv
  PROVE  ContentsPrivate
<1> SUFFICES ASSUME NEW o \in Objects, Genuine(o)
             PROVE  Private(o) \/ (objs[o].access = "inherited" /\ objs[o].dir # Root /\ Private(objs[o].dir))
  BY DEF ContentsPrivate, Genuine
<1>1. PICK q : q = objs[o].by
  OBVIOUS
<1>2. InPlace(o, q) /\ q \in Procs /\ Exists(o)
  BY <1>1 DEF IInv, Tied, Placed, InPlace, Procs, Genuine
<1>3. objs[o].owner = "user"
  BY <1>2 DEF IInv, Tied, Made, MadeDir, MadeFile, InPlace
<1>4. CASE objs[o].access = "own"
  BY <1>3, <1>4 DEF Private
<1>5. CASE objs[o].access = "inherited"
  <2>1. objs[o].dir # Root
    BY <1>2, <1>5 DEF InPlace
  <2>2. PICK d \in Objects : d = objs[o].dir /\ Genuine(d) /\ d = mine[q].dir /\ objs[d].by = q
    BY <1>1, <2>1, OnlyChild
  <2>3. objs[d].owner = "user" /\ objs[d].dir = Root /\ objs[d].kind = "dir"
    BY <1>2, <2>2 DEF IInv, Tied, Made, MadeDir, Genuine
  <2>4. d # mine[q].file \/ objs[d].access = "own"
    BY <1>2, <2>2, <2>3 DEF IInv, Tied, Made, MadeFile, Genuine
  <2>5. objs[d].access = "own"
    BY <2>2, <2>3, <2>4 DEF IInv, Tied, Placed, InPlace
  <2> QED  BY <1>5, <2>1, <2>2, <2>3, <2>5 DEF Private
<1> QED  BY <1>2, <1>4, <1>5 DEF InPlace

\* From the first byte that private_artifact writes on, nobody but the user can
\* read it, unless another program opens it up or exchanges the directory it
\* lies in.
THEOREM PrivateFromTheStart == Spec => []ContentsPrivate
BY Invariance, InvPrivate, PTL

LEMMA Remover ==
  ASSUME IInv, [Next]_vars, NEW o \in Objects, Exists(o), ~(Exists(o)'), ~\E c \in Objects : Take(c)
  PROVE  \E p \in Procs : DeleteFile(p) \/ DeleteDir(p)
<1>1. ~Remain /\ ~Keeps(o) /\ ~Lasts(o)
  BY RemainThins DEF Keeps, Lasts, Exists
<1>2. PICK p \in Procs : Command(p) \/ Fault(p) \/ Kill(p)
  <2>1. ASSUME NEW c \in Objects, OpenUp(c) PROVE FALSE
    <3>1. objs' = [Touch(c) EXCEPT ![c].access = "open"] /\ Exists(c)
      BY <2>1 DEF OpenUp
    <3>2. Touch(c) \in [Objects -> Things] /\ Like(Touch(c)[o], objs[o])
      BY <3>1, TouchFields
    <3>3. objs'[o].kind = Touch(c)[o].kind
      BY <3>1, <3>2 DEF Things
    <3> QED  BY <3>2, <3>3 DEF Like, Exists
  <2>2. ASSUME NEW c \in Objects, Exchange(c) \/ AddTo(c) PROVE FALSE
    BY <1>1, <2>2, ExchangeDoes, AddToDoes DEF Replaces, Adds, Comes, Unused, Exists
  <2>3. ~TimePasses /\ ~UNCHANGED vars
    BY DEF TimePasses, vars, files, Exists
  <2> QED  BY <2>1, <2>2, <2>3 DEF Next
<1>3. ~Looks(p)
  BY <1>1, LooksLook, UnchangedFiles
<1>4. ~(ChmodDir(p) \/ Write(p) \/ Protect(p))
  BY <1>1, AlterFiles
<1>5. ~Mkdir(p) /\ ~OpenFile(p)
  BY <1>1, MkdirFiles, OpenFileFiles DEF Adds, Comes, Unused, Exists
<1>6. ~MoveFile(p) /\ ~MoveDir(p)
  BY <1>1, MoveFiles, IsolatingIsolates DEF Isolates
<1> QED  BY <1>2, <1>3, <1>4, <1>5, <1>6, Zenon DEF Command, Looks

LEMMA RemovesOwn ==
  ASSUME IInv, [Next]_vars, NEW o \in Objects, Exists(o), ~(Exists(o)'), trouble' = trouble
  PROVE  \E p \in Procs : Removes(p, o)
<1>1. PICK p \in Procs : DeleteFile(p) \/ DeleteDir(p)
  <2>1. ~\E c \in Objects : Take(c)
    BY Commands DEF Take, Others, LocalsTyped
  <2> QED  BY <2>1, Remover
<1>2. Local(p) /\ LocalsTyped /\ objs \in [Objects -> Things]
  BY Commands, Types
<1>3. CASE DeleteFile(p)
  <2>1. /\ at[p] = "delete" /\ o = expected[p].file /\ o # Nobody
        /\ objs[o].dir # Root => p \in Creators /\ p \notin Sweepers
    BY <1>3, DeleteFileDoes, Kinds DEF DeleteFile, files, Exists
  <2>2. at'[p] # "delete"
    BY <1>2, <1>3 DEF DeleteFile, Passes, Goto, AfterEnd, LocalsTyped
  <2>3. p \in Sweepers => objs[o].born < todo[p].cutoff /\ objs[o].dir = Root
    BY <2>1 DEF IInv, Tied, Expected, Removing
  <2>4. p \notin Sweepers => p \in Creators /\ o = mine[p].file
    BY <1>2, <2>1, Kinds, NobodyIsNone DEF Local, Possessions
  <2>5. CASE objs[o].dir \in {expected[p].dir} \ {Root}
    <3>1. Exists(objs[o].dir) /\ objs[o].dir \in Objects
      BY <1>2, <2>5 DEF IInv, Files, Nesting, NestedIn, Things
    <3>2. objs[o].dir = mine[p].dir \/ objs[objs[o].dir].touched
      BY <2>1, <2>5, <3>1 DEF IInv, Tied, Expected
    <3> QED  BY <2>1, <2>2, <2>5, <3>2 DEF Removes
  <2>6. CASE objs[o].dir \notin {expected[p].dir} \ {Root}
    BY <2>1, <2>2, <2>3, <2>4, <2>6 DEF Removes
  <2> QED  BY <2>5, <2>6
<1>4. CASE DeleteDir(p)
  <2>1. PICK d \in Objects :
          /\ at[p] = "deleteDir" /\ d = expected[p].dir /\ Exists(d) /\ objs[d].dir = Root
          /\ o \in Inside(d) \cup {d}
    BY <1>4, DeleteDirDoes DEF DeleteDir, files, Exists
  <2>2. at'[p] # "deleteDir"
    BY <1>2, <1>4 DEF DeleteDir, Passes, Goto, AfterEnd, LocalsTyped
  <2>3. p \in Sweepers => objs[d].born < todo[p].cutoff
    BY <2>1 DEF IInv, Tied, Expected, Removing
  <2>4. p \notin Sweepers => d = mine[p].dir \/ objs[d].touched
    BY <2>1, Kinds DEF IInv, Tied, Expected
  <2>5. d # Root
    BY NobodyIsNone DEF Root, Nobody
  <2>6. d = IF objs[o].dir \in {expected[p].dir} \ {Root} THEN objs[o].dir ELSE o
    BY <2>1, <2>5 DEF Inside
  <2> QED  BY <2>1, <2>2, <2>3, <2>4, <2>6 DEF Removes
<1> QED  BY <1>1, <1>3, <1>4

\* Whatever is exchanged between a look of _quarantine_then_unlink or
\* _quarantine_then_rmtree and the removal: what goes is what the command made
\* and what that holds, or what took its directory's place before the first
\* look, and in a sweep what is older than its cutoff.
THEOREM NothingElseIsRemoved == Spec => RemovesOnlyItsOwn
<1>1. IInv /\ [Next]_vars => [\A o \in Objects : Exists(o) /\ ~(Exists(o))' /\ trouble' = trouble =>
                                \E p \in Procs : Removes(p, o)]_vars
  BY RemovesOwn
<1> QED  BY <1>1, Invariance, PTL DEF Spec, RemovesOnlyItsOwn

-----------------------------------------------------------------------------
(* Cleaning up.  What a command made and nobody else has touched or moved   *)
(* is found again under its name.                                           *)

LEMMA OwnDir ==
  ASSUME IInv, NEW p \in Procs, Genuine(mine[p].dir)
  PROVE  LET d == mine[p].dir IN
         /\ d \in Objects /\ Exists(d) /\ p \in Creators /\ objs[d].kind = "dir" /\ objs[d].dir = Root
         /\ Private(d) /\ objs[d].by = p /\ objs[d].name.of = p /\ objs[d].name \in Names
         /\ objs[d].name.by \in {"none", p} \cup Sweepers
<1> DEFINE d == mine[p].dir
<1>1. d \in Objects /\ Exists(d)
  BY Commands DEF Genuine, Exists, LocalsTyped
<1>2. objs[d].kind = "dir" /\ objs[d].dir = Root /\ objs[d].by = p /\ objs[d].owner = "user"
  BY <1>1 DEF IInv, Tied, Made, MadeDir
<1>3. d # mine[p].file
  BY <1>1, <1>2 DEF IInv, Tied, Made, MadeFile
<1>4. InPlace(d, p)
  BY <1>1, <1>2 DEF IInv, Tied, Placed
<1> QED  BY <1>1, <1>2, <1>3, <1>4, Types DEF InPlace, Private

LEMMA OwnFile ==
  ASSUME IInv, NEW p \in Procs, Genuine(mine[p].file)
  PROVE  LET f == mine[p].file IN
         /\ f \in Objects /\ Exists(f) /\ p \in Artifacts /\ p \in Creators /\ objs[f].kind = "file"
         /\ objs[f].owner = "user" /\ objs[f].by = p /\ objs[f].name \in Names
         /\ objs[f].name.by \in {"none", p} \cup Sweepers
         /\ ~Nested(p) => objs[f].dir = Root /\ objs[f].access = "own" /\ objs[f].name.of = p
         /\ Nested(p) => /\ objs[f].dir = mine[p].dir /\ Genuine(mine[p].dir) /\ mine[p].dir # Root
                         /\ objs[f].name.of = "environment" /\ objs[f].name.by \in {"none", p}
<1> DEFINE f == mine[p].file
<1>1. f \in Objects /\ Exists(f)
  BY Commands DEF Genuine, Exists, LocalsTyped
<1>2. /\ objs[f].kind = "file" /\ objs[f].by = p /\ objs[f].owner = "user"
      /\ ~Nested(p) => objs[f].dir = Root
  BY <1>1 DEF IInv, Tied, Made, MadeFile
<1>3. f # mine[p].dir
  BY <1>1, <1>2 DEF IInv, Tied, Made, MadeDir
<1>4. InPlace(f, p)
  BY <1>1, <1>2 DEF IInv, Tied, Placed
<1>5. p \in Artifacts
  BY <1>1, <1>4, Commands, NobodyIsNone DEF InPlace, Local, Possessions
<1>6. objs[f].dir # Root => NestedIn(f, objs[f].dir)
  BY <1>1 DEF IInv, Files, Nesting
<1>7. Nested(p) => /\ objs[f].dir = mine[p].dir /\ mine[p].dir # Root /\ Genuine(mine[p].dir)
                   /\ objs[f].name.of = "environment" /\ objs[f].name.by \notin Sweepers
  BY <1>3, <1>4, <1>6 DEF InPlace, NestedIn, Genuine
<1> HIDE DEF f
<1> QED  BY <1>1, <1>2, <1>3, <1>4, <1>5, <1>7, Types DEF InPlace, f

\* Before a command gives a quarantine name it has not given it.
LEMMA NotYetMoved ==
  ASSUME IInv, NEW p \in Procs, NEW o \in Objects, Exists(o), Unspent(p, objs[o].name.of)
  PROVE  objs[o].name.by # p
BY DEF IInv, Tied, Spent

LEMMA KnownDir ==
  ASSUME IInv, NEW p \in Procs, Free(p, mine[p].dir), Unspent(p, p)
  PROVE  Named(Root, Candidate(p)) = mine[p].dir
<1> DEFINE d == mine[p].dir
<1>1. /\ d \in Objects /\ Exists(d) /\ objs[d].dir = Root /\ objs[d].name.of = p /\ objs[d].name \in Names
  BY OwnDir DEF Free
<1>2. objs[d].name.by = "none"
  BY <1>1, NotYetMoved DEF Free
<1>3. objs[d].name = Candidate(p)
  BY <1>1, <1>2, SameName, NameTypes, Parts
<1> QED  BY <1>1, <1>3, NamedOnce, Types

LEMMA MovedDir ==
  ASSUME IInv, NEW p \in Procs, Genuine(mine[p].dir), objs[mine[p].dir].name.by = p
  PROVE  Named(Root, Quarantine(p, Candidate(p))) = mine[p].dir
<1> DEFINE d == mine[p].dir
<1>1. /\ d \in Objects /\ Exists(d) /\ objs[d].dir = Root /\ objs[d].name.of = p /\ objs[d].name \in Names
  BY OwnDir
<1>2. objs[d].name = Quarantine(p, Candidate(p))
  BY <1>1, SameName, NameTypes, Parts
<1> QED  BY <1>1, <1>2, NamedOnce, Types

LEMMA KnownFile ==
  ASSUME IInv, NEW p \in Procs, Genuine(mine[p].file), Free(p, Holder(p)),
         Unspent(p, FileName(p).of), Nested(p) => Unspent(p, p)
  PROVE  FileNamed(p, FileName(p)) = mine[p].file
<1> DEFINE f == mine[p].file
<1>1. f \in Objects /\ Exists(f) /\ objs[f].name \in Names /\ p \in Procs
  BY OwnFile
<1>2. FileName(p).of = objs[f].name.of /\ FileName(p).by = "none" /\ FileName(p) \in Names
  BY OwnFile, Parts, NameTypes DEF FileName
<1>3. objs[f].name.by = "none"
  BY <1>1, <1>2, OwnFile, NotYetMoved DEF Free, Holder
<1>4. objs[f].name = FileName(p)
  BY <1>1, <1>2, <1>3, SameName
<1>5. CASE ~Nested(p)
  BY <1>1, <1>4, <1>5, OwnFile, NamedOnce, Types DEF FileNamed
<1>6. CASE Nested(p)
  <2>1. Named(Root, Candidate(p)) = mine[p].dir
    BY <1>6, KnownDir DEF Holder
  <2>2. objs[mine[p].dir].kind = "dir" /\ mine[p].dir # Nobody /\ objs[f].dir = mine[p].dir
    BY <1>6, OwnFile, OwnDir, NobodyIsNone
  <2> QED  BY <1>1, <1>4, <1>6, <2>1, <2>2, NamedOnce, Types DEF FileNamed
<1> QED  BY <1>5, <1>6

LEMMA MovedFile ==
  ASSUME IInv, NEW p \in Procs, Genuine(mine[p].file), Free(p, Holder(p)),
         objs[mine[p].file].name.by = p, Nested(p) => Unspent(p, p)
  PROVE  FileNamed(p, Quarantine(p, FileName(p))) = mine[p].file
<1> DEFINE f == mine[p].file
<1>1. f \in Objects /\ Exists(f) /\ objs[f].name \in Names
  BY OwnFile
<1>2. FileName(p).of = objs[f].name.of /\ FileName(p) \in Listed
  BY OwnFile, Parts, NameTypes DEF FileName
<1>4. objs[f].name = Quarantine(p, FileName(p))
  BY <1>1, <1>2, SameName, NameTypes, Parts
<1>5. CASE ~Nested(p)
  BY <1>1, <1>4, <1>5, OwnFile, NamedOnce, Types DEF FileNamed
<1>6. CASE Nested(p)
  <2>1. Named(Root, Candidate(p)) = mine[p].dir
    BY <1>6, KnownDir DEF Holder
  <2>2. objs[mine[p].dir].kind = "dir" /\ mine[p].dir # Nobody /\ objs[f].dir = mine[p].dir
    BY <1>6, OwnFile, OwnDir, NobodyIsNone
  <2> QED  BY <1>1, <1>4, <1>6, <2>1, <2>2, NamedOnce, Types DEF FileNamed
<1> QED  BY <1>5, <1>6

\* An object that is free now was free before, or is new.
LEMMA FreeBefore ==
  ASSUME IInv, [Next]_vars, NEW p \in Procs, NEW o \in Objects, Free(p, o)', Exists(o)
  PROVE  /\ Free(p, o) /\ Lasts(o)
         /\ objs[o].name.by = p => objs'[o].name.by = p
<1>1. Lasts(o) /\ Genuine(o) /\ Genuine(o)'
  BY StepLasts DEF Free, Genuine, Unused, Exists, Lasts
<1>2. objs'[o].name = objs[o].name \/ objs[o].name.by = "none"
  BY <1>1, GenuineNames
<1>3. "none" \notin Procs
  BY ConstantsAssumption
<1> QED  BY <1>1, <1>2, <1>3 DEF Free

\* As long as its directory is left alone, so is the file, but for its maker.
LEMMA ChildStays ==
  ASSUME IInv, [Next]_vars, NEW p \in Procs, Nested(p), Genuine(mine[p].file),
         Genuine(mine[p].dir), NEW d \in Objects, d = mine[p].dir, Genuine(d)',
         NEW f \in Objects, f = mine[p].file, ~DeleteFile(p)
  PROVE  Genuine(f)' /\ objs'[f].dir = d
<1>1. /\ Exists(f) /\ objs[f].dir = d /\ d # Root /\ Exists(d)' /\ ~objs'[d].touched
      /\ objs[d].dir = Root /\ objs[d].name.of = p /\ Exists(d)
  BY OwnFile, OwnDir DEF Genuine
<1>2. CASE Exists(f)'
  <2>1. Lasts(f)
    BY <1>1, <1>2, StepLasts DEF Unused, Exists
  <2>2. Nesting'
    BY NextFiles DEF Files
  <2>3. objs'[f].dir = d
    BY <1>1, <2>1 DEF Lasts
  <2>4. objs'[f].touched = objs'[d].touched
    BY <1>1, <1>2, <2>2, <2>3 DEF Nesting, NestedIn
  <2> QED  BY <1>1, <1>2, <2>3, <2>4 DEF Genuine
<1>3. CASE ~(Exists(f)')
  <2>1. ASSUME NEW q \in Procs, DeleteFile(q) PROVE FALSE
    <3> DEFINE o == FileNamed(q, Quarantine(q, FileTarget(q)))
    <3>1. o = f /\ o # Nobody /\ (objs[o].dir # Root => Nested(q))
      BY <1>1, <1>3, <2>1, DeleteFileDoes DEF files, Exists
    <3>2. Nested(q) /\ objs[d].name = Candidate(q)
      BY <1>1, <3>1, FileNamedIs
    <3> QED  BY <1>1, <2>1, <3>2, Parts
  <2>2. ASSUME NEW q \in Procs, DeleteDir(q) PROVE FALSE
    <3> DEFINE o == Named(Root, Quarantine(q, Target(q)))
    <3>1. /\ objs[o].dir = Root /\ f \in Inside(o) \cup {o}
          /\ objs' = [c \in Objects |-> IF c \in Inside(o) \cup {o} THEN Gone ELSE objs[c]]
      BY <1>1, <1>3, <2>2, DeleteDirDoes DEF files, Exists
    <3>2. o = d
      BY <1>1, <3>1 DEF Inside
    <3> HIDE DEF o
    <3>3. objs'[d] = Gone
      BY <3>1, <3>2
    <3> QED  BY <1>1, <3>3, GoneTypes DEF Exists
  <2>3. ASSUME NEW c \in Objects, Take(c) PROVE FALSE
    <3>1. /\ objs' = [o \in Objects |-> IF o \in Inside(c) \cup {c} THEN Gone ELSE Touch(c)[o]]
          /\ Exists(c)
      BY <2>3 DEF Take, Reached
    <3>2. /\ \A o \in Objects : Like(Touch(c)[o], objs[o]) /\ (o \in Inside(c) \cup {c, objs[c].dir} => Touch(c)[o].touched)
      BY <3>1, TouchFields
    <3>3. f \in Inside(c) \cup {c}
      BY <1>1, <1>3, <3>1, <3>2 DEF Exists, Like
    <3>4. c = d \/ c = f
      BY <1>1, <3>3 DEF Inside
    <3>5. objs'[d] = Gone \/ objs'[d].touched
      BY <1>1, <3>1, <3>2, <3>4
    <3> QED  BY <1>1, <3>5, GoneTypes DEF Exists
  <2> QED  BY <1>1, <1>3, <2>1, <2>2, <2>3, Remover
<1> QED  BY <1>2, <1>3

\* Where a command is says what it does.
LEMMA CommandAt ==
  ASSUME NEW p \in Procs, Command(p)
  PROVE  /\ at[p] \notin Ended
         /\ at[p] = "mkdir" => Mkdir(p)
         /\ at[p] = "identity" => Identity(p)
         /\ at[p] = "dacl" => CheckDacl(p)
         /\ at[p] = "openDir" => OpenDir(p)
         /\ at[p] = "chmodDir" => ChmodDir(p)
         /\ at[p] = "verifyOpenDir" => VerifyOpenDir(p)
         /\ at[p] = "verifyDir" => VerifyDir(p)
         /\ at[p] = "open" => OpenFile(p)
         /\ at[p] = "fileIdentity" => FileIdentity(p)
         /\ at[p] = "write" => Write(p)
         /\ at[p] = "protect" => Protect(p)
         /\ at[p] = "verifyOpen" => VerifyOpen(p)
         /\ at[p] = "verifyClosed" => VerifyClosed(p)
         /\ at[p] = "body" => Leave(p)
         /\ at[p] = "move" => MoveFile(p)
         /\ at[p] = "check" => CheckFile(p)
         /\ at[p] = "delete" => DeleteFile(p)
         /\ at[p] = "moveDir" => MoveDir(p)
         /\ at[p] = "checkDir" => CheckDir(p)
         /\ at[p] = "checkTree" => CheckTree(p)
         /\ at[p] = "deleteDir" => DeleteDir(p)
         /\ at[p] = "list" => List(p)
         /\ at[p] = "look" => Look(p)
<1>1. /\ Mkdir(p) => at[p] = "mkdir"
      /\ Identity(p) => at[p] = "identity"
      /\ CheckDacl(p) => at[p] = "dacl"
      /\ OpenDir(p) => at[p] = "openDir"
      /\ ChmodDir(p) => at[p] = "chmodDir"
      /\ VerifyOpenDir(p) => at[p] = "verifyOpenDir"
      /\ VerifyDir(p) => at[p] = "verifyDir"
      /\ OpenFile(p) => at[p] = "open"
      /\ FileIdentity(p) => at[p] = "fileIdentity"
      /\ Write(p) => at[p] = "write"
      /\ Protect(p) => at[p] = "protect"
      /\ VerifyOpen(p) => at[p] = "verifyOpen"
      /\ VerifyClosed(p) => at[p] = "verifyClosed"
      /\ Leave(p) => at[p] = "body"
      /\ MoveFile(p) => at[p] = "move"
      /\ CheckFile(p) => at[p] = "check"
      /\ DeleteFile(p) => at[p] = "delete"
      /\ MoveDir(p) => at[p] = "moveDir"
      /\ CheckDir(p) => at[p] = "checkDir"
      /\ CheckTree(p) => at[p] = "checkTree"
      /\ DeleteDir(p) => at[p] = "deleteDir"
      /\ List(p) => at[p] = "list"
      /\ Look(p) => at[p] = "look"
  BY DEF Mkdir, Identity, CheckDacl, OpenDir, ChmodDir, VerifyOpenDir, VerifyDir, OpenFile, FileIdentity, Write, Protect, VerifyOpen,
         VerifyClosed, Leave, MoveFile, CheckFile, DeleteFile, MoveDir, CheckDir, CheckTree, DeleteDir, List, Look
<1> QED  BY <1>1 DEF Command, Ended

LEMMA DirMaking ==
  ASSUME IInv, [Next]_vars, NEW p \in Artifacts \cup Directories, NEW d \in Objects, d = mine[p].dir,
         Free(p, d), DirKept(p, d), at[p] \in Making, Command(p)
  PROVE  /\ at'[p] \in (Making \ {"mkdir", "identity"}) \cup {"open", "body", "moveDir"}
         /\ at'[p] = "body" => p \notin Artifacts
         /\ expected'[p].dir = d /\ (at'[p] \in Opening => fd'[p] = d)
<1> USE DEF Making, Filling, Removing, Opening
<1>1. /\ p \in Procs /\ Local(p) /\ LocalsTyped /\ at[p] # "mkdir" /\ p \notin Makers /\ d # Nobody
      /\ expected[p].file = Nobody
  BY Commands, NobodyIsNone, ConstantsAssumption DEF Local, Possessions, Procs, Creators
<1>2. Named(Root, Candidate(p)) = d /\ objs[d].kind = "dir" /\ Private(d) /\ p \in Creators /\ p \notin Sweepers
  <2>1. p \in Creators /\ p \notin Sweepers
    BY <1>1, Kinds DEF Creators
  <2>2. Unspent(p, p)
    BY <2>1 DEF Unspent, Ended
  <2> QED  BY <1>1, <2>1, <2>2, KnownDir, OwnDir DEF Free
<1>3. expected'[p] = expected[p] \/ Identity(p)
  BY <1>1, Settled DEF FileIdentity, Look
<1>4. CASE Identity(p)
  <2>1. /\ expected' = [expected EXCEPT ![p] = [expected[p] EXCEPT !.dir = d]]
        /\ \E x \in {"dacl", "openDir"} : at' = [at EXCEPT ![p] = x]
    BY <1>1, <1>2, <1>4 DEF Identity, Find, Goto
  <2> QED  BY <1>1, <2>1 DEF LocalsTyped
<1>5. CASE ~Identity(p)
  <2>1. /\ expected'[p] = expected[p] /\ expected[p].dir = d /\ at[p] \notin {"mkdir", "identity"}
        /\ expected'[p].dir = d
    <3>1. at[p] # "identity"
      BY <1>1, <1>5, CommandAt
    <3> QED  BY <1>1, <1>3, <1>5, <3>1 DEF DirKept
  <2>2. CASE Undo(p)
    <3>1. at' = [at EXCEPT ![p] = "moveDir"]
      BY <1>1, <2>2 DEF Undo, Close, Goto
    <3> QED  BY <1>1, <2>1, <3>1 DEF LocalsTyped
  <2>3. CASE CheckDacl(p) /\ ~Undo(p)
    <3>1. \E x \in {"open", "verifyDir"} : at' = [at EXCEPT ![p] = x]
      BY <1>1, <1>2, <2>3 DEF CheckDacl, Proves, Passes, Goto
    <3> QED  BY <1>1, <2>1, <3>1 DEF LocalsTyped
  <2>4. CASE OpenDir(p) /\ ~Undo(p)
    <3>1. at' = [at EXCEPT ![p] = "chmodDir"] /\ fd' = [fd EXCEPT ![p] = d]
      BY <1>1, <1>2, <2>4 DEF OpenDir, Goto
    <3> QED  BY <1>1, <2>1, <3>1 DEF LocalsTyped
  <2>5. CASE ChmodDir(p) /\ ~Undo(p)
    <3>1. at' = [at EXCEPT ![p] = "verifyOpenDir"] /\ fd' = fd /\ fd[p] = d
      BY <1>1, <2>5 DEF ChmodDir, Goto, Keep, DirKept
    <3> QED  BY <1>1, <2>1, <3>1 DEF LocalsTyped
  <2>6. CASE VerifyOpenDir(p) /\ ~Undo(p)
    <3>1. at' = [at EXCEPT ![p] = "verifyDir"]
      BY <1>1, <2>6 DEF VerifyOpenDir, Close, Goto
    <3> QED  BY <1>1, <2>1, <3>1 DEF LocalsTyped
  <2>7. CASE VerifyDir(p) /\ ~Undo(p)
    <3>1. at' = [at EXCEPT ![p] = "body"]
      BY <1>1, <2>7 DEF VerifyDir, Proves, Passes, Goto
    <3>2. p \notin Artifacts
      BY <1>1, <2>7, Kinds DEF VerifyDir, Local, Role, Ended
    <3> QED  BY <1>1, <2>1, <3>1, <3>2 DEF LocalsTyped
  <2>8. \/ CheckDacl(p) \/ OpenDir(p) \/ ChmodDir(p) \/ VerifyOpenDir(p) \/ VerifyDir(p)
    BY <1>1, <1>5, CommandAt
  <2> QED  BY <2>2, <2>3, <2>4, <2>5, <2>6, <2>7, <2>8
<1> QED  BY <1>4, <1>5

\* From creating the file on, until it is removed.
LEMMA DirFilling ==
  ASSUME IInv, [Next]_vars, NEW p \in Artifacts \cup Directories, NEW d \in Objects, d = mine[p].dir,
         Free(p, d), DirKept(p, d), Free(p, d)', at[p] \in Filling \cup {"body"}, Command(p)
  PROVE  DirKept(p, d)'
<1> USE DEF Making, Filling, Removing, Opening, Holding
<1>1. /\ p \in Procs /\ Local(p) /\ LocalsTyped /\ p \notin Makers /\ d # Nobody
      /\ p \in Creators /\ p \notin Sweepers
  BY Commands, NobodyIsNone, Kinds, ConstantsAssumption DEF Procs, Creators
<1>2. expected'[p].dir = d
  <2>1. expected[p].dir = d
    BY DEF DirKept
  <2>2. CASE FileIdentity(p)
    BY <1>1, <2>1, <2>2 DEF FileIdentity, Find, LocalsTyped
  <2>3. CASE ~FileIdentity(p)
    BY <1>1, <2>1, <2>3, Settled DEF Identity, Look
  <2> QED  BY <2>2, <2>3
<1>3. CASE p \in Directories
  <2>1. at[p] = "body" /\ Leave(p) /\ p \notin Artifacts
    BY <1>1, <1>3, Kinds, CommandAt DEF Local, Role, Ended
  <2>2. at'[p] = "moveDir"
    BY <1>1, <2>1 DEF Leave, Passes, Goto, LocalsTyped
  <2> QED  BY <1>2, <2>1, <2>2 DEF DirKept, WithFile
<1>4. CASE p \in Artifacts
  <2>1. Nested(p)
    BY <1>1, <1>4, Types DEF Local, Possessions, Nested
  <2>2. CASE OpenFile(p) /\ Undo(p)
    <3>1. at' = [at EXCEPT ![p] = "moveDir"]
      BY <1>1, <2>2 DEF Undo, Close, Goto, OpenFile, Local, Possessions
    <3> QED  BY <1>1, <1>2, <3>1 DEF LocalsTyped, DirKept, WithFile
  <2>3. CASE OpenFile(p) /\ ~Undo(p)
    <3>1. PICK f \in Objects : NewOwnFile(p, f) /\ Adds(f)
      BY <1>1, <2>3, OpenFileFiles
    <3>2. at'[p] = "fileIdentity"
      BY <1>1, <2>3, OpenFileDoes DEF Goto, LocalsTyped
    <3>3. Unspent(p, p)
      BY <1>1, <2>3 DEF OpenFile, Unspent, Ended
    <3>4. Named(Root, Candidate(p)) = d
      BY <1>1, <3>3, KnownDir
    <3>5. d # Root /\ ~objs[d].touched
      BY <1>1 DEF Free, Genuine, Root, Nobody
    <3>6. objs'[f].dir = d /\ ~objs'[f].touched /\ mine'[p].file = f
      BY <2>1, <3>1, <3>4, <3>5 DEF NewOwnFile
    <3>7. Exists(f)'
      BY <3>1, NobodyIsNone DEF NewOwnFile, Exists
    <3> QED  BY <1>2, <3>2, <3>6, <3>7 DEF DirKept, WithFile, Genuine
  <2>4. CASE ~OpenFile(p)
    <3>1. at[p] # "open" /\ WithFile(p)
      BY <1>1, <1>4, <2>4, CommandAt DEF WithFile
    <3>2. Genuine(mine[p].file) /\ mine[p].file \in Objects
      BY <1>1, <3>1, OwnFile DEF DirKept
    <3>3. mine'[p] = mine[p] /\ ~DeleteFile(p)
      BY <1>1, <2>4, <3>1, Settled DEF Mkdir, DeleteFile
    <3>4. Genuine(d) /\ Genuine(d)'
      BY DEF Free
    <3>5. \A f \in Objects : f = mine[p].file => Genuine(f)' /\ objs'[f].dir = d
      BY <1>1, <2>1, <3>2, <3>3, <3>4, ChildStays
    <3>6. Genuine(mine[p].file)' /\ objs'[mine'[p].file].dir = d
      <4>1. PICK f \in Objects : f = mine[p].file /\ f = mine'[p].file
        BY <3>2, <3>3
      <4>2. Genuine(f)' /\ objs'[f].dir = d
        BY <3>5, <4>1
      <4> QED  BY <4>1, <4>2 DEF Genuine, Exists
    <3>7. at[p] # "fileIdentity" => expected[p].file # Nobody
      BY <1>1, <1>4, <3>1, CommandAt DEF Local, Possessions
    <3>8. at'[p] \in Holding \cup {"verifyClosed", "move", "body"}
      <4>1. CASE FileIdentity(p) \/ Write(p) \/ Leave(p)
        <5>1. \E x \in {"write", "protect", "move"} : at' = [at EXCEPT ![p] = x]
          BY <1>4, <4>1 DEF FileIdentity, Write, Leave, Passes, Goto
        <5> QED  BY <1>1, <5>1 DEF LocalsTyped
      <4>2. CASE Protect(p) \/ VerifyOpen(p) \/ VerifyClosed(p)
        <5>1. at[p] # "fileIdentity"
          BY <4>2 DEF Protect, VerifyOpen, VerifyClosed
        <5>2. \E x \in {"verifyOpen", "verifyClosed", "body", "move"} : at' = [at EXCEPT ![p] = x]
          BY <3>7, <4>2, <5>1 DEF Protect, VerifyOpen, VerifyClosed, Proves, Passes, Undo, Close, Goto
        <5> QED  BY <1>1, <5>2 DEF LocalsTyped
      <4> QED  BY <1>1, <2>4, <4>1, <4>2, CommandAt
    <3> QED  BY <1>2, <3>6, <3>8 DEF DirKept
  <2> QED  BY <2>2, <2>3, <2>4
<1> QED  BY <1>3, <1>4

LEMMA DirRemoving ==
  ASSUME IInv, [Next]_vars, NEW p \in Artifacts \cup Directories, NEW d \in Objects, d = mine[p].dir,
         Free(p, d), DirKept(p, d), Free(p, d)', at[p] \in Removing, Command(p),
         Genuine(mine[p].file) /\ Free(p, Holder(p)) => FileKept(p, mine[p].file)
  PROVE  DirKept(p, d)'
<1> USE DEF Making, Filling, Removing, Opening, Holding
<1>1. /\ p \in Procs /\ Local(p) /\ LocalsTyped /\ p \notin Makers /\ d # Nobody
      /\ p \in Creators /\ p \notin Sweepers
  BY Commands, NobodyIsNone, Kinds, ConstantsAssumption DEF Procs, Creators
<1>2. expected'[p].dir = d /\ expected[p].dir = d /\ mine'[p] = mine[p]
  BY <1>1, ErrandStays DEF DirKept
<1>3. Target(p) = Candidate(p) /\ FileTarget(p) = FileName(p) /\ AfterEnd(p) = "done"
  BY <1>1, Kinds DEF AfterEnd
<1>4. Genuine(d) /\ Genuine(d)' /\ objs[d].kind = "dir" /\ Private(d)
  BY <1>1, OwnDir DEF Free
<1>5. CASE at[p] \in {"move", "check", "delete"}
  <2>1. p \in Artifacts /\ Nested(p)
    BY <1>1, <1>5, Types, Kinds DEF Local, Role, Possessions, Nested, Ended
  <2>2. Genuine(mine[p].file) /\ mine[p].file \in Objects /\ objs[mine[p].file].kind = "file" /\ WithFile(p)
    BY <1>1, <1>5, OwnFile DEF DirKept, WithFile
  <2>3. PICK f \in Objects : f = mine[p].file
    BY <2>2
  <2>4. Free(p, Holder(p)) /\ FileKept(p, f)
    BY <2>1, <2>2, <2>3 DEF Holder
  <2>5. expected[p].file = f /\ f # Nobody
    BY <1>1, <1>5, <2>1, <2>3 DEF Local, Possessions
  <2>6. Unspent(p, p)
    BY <1>1, <1>5, <2>1, Kinds, Parts, ConstantsAssumption DEF Unspent, Ended
  <2>7. ~DeleteFile(p) => Genuine(mine[p].file)' /\ objs'[mine'[p].file].dir = d
    <3>1. ~DeleteFile(p) => Genuine(f)' /\ objs'[f].dir = d
      BY <1>1, <1>4, <2>1, <2>2, <2>3, ChildStays
    <3> QED  BY <1>2, <2>3, <3>1 DEF Genuine, Exists
  <2>8. CASE at[p] = "move"
    <3>1. Unspent(p, FileName(p).of)
      BY <1>1, <2>8 DEF Unspent, Ended
    <3>2. FileNamed(p, FileName(p)) = f
      BY <1>1, <2>2, <2>3, <2>4, <2>6, <3>1, KnownFile
    <3>3. at' = [at EXCEPT ![p] = "check"]
      BY <1>1, <1>3, <2>5, <2>8, <3>2, CommandAt DEF MoveFile, Goto
    <3>4. at'[p] = "check" /\ ~DeleteFile(p)
      BY <1>1, <2>8, <3>3 DEF LocalsTyped, DeleteFile
    <3> QED  BY <1>2, <2>7, <3>4 DEF DirKept
  <2>9. CASE at[p] = "check"
    <3>1. objs[f].name.by = p /\ objs[f].access = "own"
      BY <2>4, <2>9 DEF FileKept
    <3>2. FileNamed(p, Quarantine(p, FileName(p))) = f
      BY <1>1, <2>2, <2>3, <2>4, <2>6, <3>1, MovedFile
    <3>3. Is(f, "file", expected[p].file)
      BY <1>1, <2>2, <2>3, <2>5, <3>1, OwnFile DEF Is, Private
    <3>4. at' = [at EXCEPT ![p] = "delete"]
      BY <1>1, <1>3, <2>9, <3>2, <3>3, CommandAt DEF CheckFile, Passes, Goto
    <3>5. at'[p] = "delete" /\ ~DeleteFile(p)
      BY <1>1, <2>9, <3>4 DEF LocalsTyped, DeleteFile
    <3> QED  BY <1>2, <2>7, <3>5 DEF DirKept
  <2>10. CASE at[p] = "delete"
    <3>1. objs[f].name.by = p
      BY <2>4, <2>10 DEF FileKept
    <3>2. FileNamed(p, Quarantine(p, FileName(p))) = f
      BY <1>1, <2>2, <2>3, <2>4, <2>6, <3>1, MovedFile
    <3>3. at' = [at EXCEPT ![p] = "moveDir"]
      BY <1>1, <1>3, <2>1, <2>5, <2>10, <3>2, CommandAt DEF DeleteFile, Goto
    <3>4. at'[p] = "moveDir"
      BY <1>1, <3>3 DEF LocalsTyped
    <3> QED  BY <1>2, <3>4 DEF DirKept, WithFile
  <2> QED  BY <1>5, <2>8, <2>9, <2>10
<1>6. CASE at[p] = "moveDir"
  <2>1. Unspent(p, p)
    BY <1>1, <1>6 DEF Unspent
  <2>2. Named(Root, Candidate(p)) = d
    BY <1>1, <2>1, KnownDir
  <2>3. /\ at' = [at EXCEPT ![p] = "checkDir"]
        /\ objs' = [objs EXCEPT ![d] = [objs[d] EXCEPT !.name = Quarantine(p, Candidate(p))]]
    BY <1>1, <1>3, <1>6, <2>2, CommandAt DEF MoveDir, Goto, Change
  <2>4. objs[d] \in Things /\ objs \in [Objects -> Things]
    BY Types
  <2>5. objs'[d].name = Quarantine(p, Candidate(p))
    BY <2>3, <2>4 DEF Things
  <2>6. at'[p] = "checkDir" /\ objs'[d].name.by = p
    BY <1>1, <2>3, <2>5, Parts DEF LocalsTyped
  <2> QED  BY <1>2, <2>6 DEF DirKept, WithFile
<1>7. CASE at[p] = "checkDir"
  <2>1. objs[d].name.by = p
    BY <1>7 DEF DirKept
  <2>2. Named(Root, Quarantine(p, Candidate(p))) = d
    BY <1>1, <1>4, <2>1, MovedDir
  <2>3. at' = [at EXCEPT ![p] = "deleteDir"]
    BY <1>1, <1>2, <1>3, <1>4, <1>7, <2>2, CommandAt DEF CheckDir, Is, Passes, Goto
  <2>4. at'[p] = "deleteDir"
    BY <1>1, <2>3 DEF LocalsTyped
  <2>5. objs'[d].name.by = p
    <3>1. Exists(d)
      BY <1>4 DEF Genuine
    <3> QED  BY <1>1, <2>1, <3>1, FreeBefore
  <2> QED  BY <1>2, <2>4, <2>5 DEF DirKept, WithFile
<1>8. CASE at[p] = "deleteDir"
  <2>1. objs[d].name.by = p
    BY <1>8 DEF DirKept
  <2>2. Named(Root, Quarantine(p, Candidate(p))) = d
    BY <1>1, <1>4, <2>1, MovedDir
  <2>3. objs'[d] = Gone
    BY <1>1, <1>3, <1>8, <2>2, CommandAt DEF DeleteDir
  <2> QED  BY <1>4, <2>3, GoneTypes DEF Genuine, Exists
<1>9. at[p] # "checkTree"
  BY <1>1, Kinds DEF Local, Role, Ended
<1> QED  BY <1>5, <1>6, <1>7, <1>8, <1>9

\* A command that is not faulty does its next step or none.
LEMMA Unfailing ==
  ASSUME IInv, [Next]_vars, NEW p \in Procs, p \notin faulty'
  PROVE  p \notin faulty /\ (Same(p) \/ Command(p))
<1>1. faulty \subseteq faulty'
  <2>1. CASE \E q \in Procs : Command(q) \/ Fault(q) \/ Kill(q)
    BY <2>1, CommandFits DEF Alone
  <2>2. CASE \E o \in Objects : OpenUp(o) \/ Take(o) \/ Exchange(o) \/ AddTo(o)
    BY <2>2 DEF OpenUp, Take, Exchange, AddTo, Others
  <2>3. CASE TimePasses \/ UNCHANGED vars
    BY <2>3 DEF TimePasses, NoFault, vars
  <2> QED  BY <2>1, <2>2, <2>3 DEF Next
<1> QED  BY <1>1, OneActs DEF Fault, Kill

LEMMA NextDirKept ==
  ASSUME IInv, [Next]_vars, Kept, NEW p \in Artifacts \cup Directories, p \notin faulty',
         Free(p, mine[p].dir)'
  PROVE  DirKept(p, mine[p].dir)'
<1>1. /\ p \in Procs /\ Local(p) /\ LocalsTyped /\ LocalsTyped' /\ p \notin faulty
      /\ p \notin Sweepers
  BY Commands, Unfailing, NextLocals, Kinds DEF Procs, Creators
<1>2. PICK d \in Objects : d = mine'[p].dir /\ Exists(d)'
  BY <1>1 DEF LocalsTyped, Free, Genuine, Exists
<1>3. SUFFICES DirKept(p, d)'
  BY <1>2 DEF DirKept
<1>4. Free(p, d)'
  BY <1>2 DEF Free, Genuine, Exists
<1>5. CASE Mkdir(p)
  <2>1. at'[p] = "identity"
    BY <1>1, <1>5 DEF Mkdir, Goto, LocalsTyped
  <2> QED  BY <2>1 DEF DirKept, WithFile, Opening, Holding
<1>6. CASE ~Mkdir(p)
  <2>1. d = mine[p].dir /\ Exists(d)
    <3>1. Exists(mine[p].dir)'
      BY <1>2 DEF Exists
    <3> QED  BY <1>1, <1>2, <1>6, <3>1, MineLasts
  <2>2. /\ Free(p, d) /\ DirKept(p, d)
        /\ objs[d].name.by = p => objs'[d].name.by = p
    BY <1>1, <1>4, <2>1, FreeBefore DEF Kept
  <2>3. CASE Same(p)
    <3>1. /\ at'[p] = at[p] /\ expected'[p].dir = expected[p].dir /\ fd'[p] = fd[p]
          /\ mine'[p].file = mine[p].file /\ (WithFile(p)' <=> WithFile(p))
      BY <2>3 DEF Same, WithFile
    <3>2. ASSUME WithFile(p) PROVE Genuine(mine[p].file)' /\ objs'[mine'[p].file].dir = d
      <4>1. Nested(p)
        BY <1>1, <2>1, <3>2, Kinds, Types DEF WithFile, Local, Role, Possessions, Nested, Exists,
           Holding, Making, Ended
      <4>2. Genuine(mine[p].file) /\ mine[p].file \in Objects
        BY <1>1, <2>2, <3>2, OwnFile DEF DirKept
      <4>3. PICK f \in Objects : f = mine[p].file
        BY <4>2
      <4>4. ~DeleteFile(p)
        BY <1>1, <2>3 DEF Same, DeleteFile, Passes, Goto, AfterEnd, LocalsTyped
      <4>5. Genuine(d) /\ Genuine(d)'
        BY <1>4, <2>2 DEF Free
      <4>6. Genuine(f)' /\ objs'[f].dir = d
        BY <1>1, <2>1, <4>1, <4>2, <4>3, <4>4, <4>5, ChildStays
      <4>7. mine'[p].file = f
        BY <3>1, <4>3
      <4> QED  BY <4>6, <4>7 DEF Genuine, Exists
    <3> QED  BY <2>2, <3>1, <3>2 DEF DirKept
  <2>4. CASE Command(p)
    <3>1. CASE at[p] \in Making
      <4>1. /\ at'[p] \in (Making \ {"mkdir", "identity"}) \cup {"open", "body", "moveDir"}
            /\ at'[p] = "body" => p \notin Artifacts
            /\ expected'[p].dir = d /\ (at'[p] \in Opening => fd'[p] = d)
        BY <2>1, <2>2, <2>4, <3>1, DirMaking
      <4> QED  BY <4>1 DEF DirKept, WithFile, Making, Opening, Holding
    <3>2. CASE at[p] \in Filling \cup {"body"}
      BY <1>4, <2>1, <2>2, <2>4, <3>2, DirFilling
    <3>3. CASE at[p] \in Removing
      <4>1. Genuine(mine[p].file) /\ Free(p, Holder(p)) => FileKept(p, mine[p].file)
        BY <1>1 DEF Kept
      <4> QED  BY <1>4, <2>1, <2>2, <2>4, <3>3, <4>1, DirRemoving
    <3>4. at[p] \notin {"list", "look"} \cup Ended
      BY <1>1, <2>4, CommandAt, Kinds DEF Local, Role, Making, Filling, Removing, Ended
    <3> QED  BY <1>1, <3>1, <3>2, <3>3, <3>4 DEF LocalsTyped, Places
  <2> QED  BY <1>1, <2>3, <2>4, Unfailing
<1> QED  BY <1>5, <1>6

\* Until its file is removed a command finds it, and makes it its own.
LEMMA FileFilling ==
  ASSUME IInv, [Next]_vars, NEW p \in Artifacts, NEW f \in Objects, f = mine[p].file,
         Genuine(f), Free(p, Holder(p)), FileKept(p, f), Genuine(f)',
         at[p] \in Holding \cup {"verifyClosed", "body"}, Command(p)
  PROVE  FileKept(p, f)'
<1> USE DEF Holding
<1>1. /\ p \in Procs /\ Local(p) /\ LocalsTyped /\ f # Nobody /\ p \in Creators /\ p \notin Sweepers
      /\ Exists(f) /\ Exists(f)' /\ objs[f].owner = "user" /\ ~objs'[f].touched
  BY Commands, NobodyIsNone, Kinds, OwnFile DEF Procs, Creators, Genuine
<1>2. objs[f].access = "own" => objs'[f].access = "own"
  <2>1. Lasts(f)
    BY <1>1, StepLasts DEF Unused, Exists
  <2> QED  BY <1>1, <2>1 DEF Lasts
<1>3. at[p] # "fileIdentity" => expected[p].file # Nobody
  BY <1>1 DEF Local, Possessions
<1>4. CASE FileIdentity(p) \/ Write(p)
  <2>1. \E x \in {"write", "protect"} : at' = [at EXCEPT ![p] = x]
    BY <1>4, Zenon DEF FileIdentity, Write, Goto
  <2> QED  BY <1>1, <2>1 DEF LocalsTyped, FileKept
<1>5. CASE Protect(p)
  <2>1. (IF Nested(p) THEN FileNamed(p, FileName(p)) ELSE fd[p]) = f
    <3>1. Unspent(p, p) /\ Unspent(p, FileName(p).of)
      BY <1>1, <1>5 DEF Protect, Unspent, Ended
    <3>2. Nested(p) => FileNamed(p, FileName(p)) = f
      BY <1>1, <3>1, KnownFile
    <3>3. fd[p] = f
      BY <1>1, <1>5 DEF Protect, Local, Possessions
    <3> QED  BY <3>2, <3>3
  <2>2. /\ at' = [at EXCEPT ![p] = "verifyOpen"]
        /\ objs' = [objs EXCEPT ![f] = [objs[f] EXCEPT !.access = "own"]]
    BY <1>1, <1>5, <2>1 DEF Protect, Change, Goto
  <2>3. objs[f] \in Things /\ objs \in [Objects -> Things]
    BY Types
  <2>4. objs'[f].access = "own"
    BY <2>2, <2>3 DEF Things
  <2> QED  BY <1>1, <2>2, <2>4 DEF LocalsTyped, FileKept
<1>6. CASE VerifyOpen(p) \/ VerifyClosed(p) \/ Leave(p)
  <2>1. \E x \in {"verifyClosed", "body", "move"} : at' = [at EXCEPT ![p] = x]
    <3>1. at[p] # "fileIdentity"
      BY <1>6 DEF VerifyOpen, VerifyClosed, Leave
    <3> QED  BY <1>3, <1>6, <3>1 DEF VerifyOpen, VerifyClosed, Leave, Proves, Passes, Undo, Close, Goto
  <2>2. objs[f].access = "own"
    <3>1. at[p] \in {"verifyOpen", "verifyClosed", "body"}
      BY <1>6 DEF VerifyOpen, VerifyClosed, Leave
    <3> QED  BY <3>1 DEF FileKept
  <2> QED  BY <1>1, <1>2, <2>1, <2>2 DEF LocalsTyped, FileKept
<1> QED  BY <1>1, <1>4, <1>5, <1>6, CommandAt

LEMMA FileRemoving ==
  ASSUME IInv, [Next]_vars, NEW p \in Artifacts, NEW f \in Objects, f = mine[p].file,
         Genuine(f), Free(p, Holder(p)), FileKept(p, f), Genuine(f)',
         at[p] \in {"move", "check", "delete"}, Command(p)
  PROVE  FileKept(p, f)'
<1>1. /\ p \in Procs /\ Local(p) /\ LocalsTyped /\ f # Nobody /\ p \in Creators /\ p \notin Sweepers
      /\ Exists(f) /\ Exists(f)' /\ ~objs'[f].touched /\ objs[f].kind = "file" /\ objs[f].owner = "user"
  BY Commands, NobodyIsNone, Kinds, OwnFile DEF Procs, Creators, Genuine
<1>2. objs[f].access = "own" /\ objs'[f].access = "own"
  <2>1. Lasts(f)
    BY <1>1, StepLasts DEF Unused, Exists
  <2> QED  BY <1>1, <2>1 DEF Lasts, FileKept
<1>3. expected[p].file = f /\ FileTarget(p) = FileName(p)
  BY <1>1, Kinds DEF Local, Possessions
<1>4. Nested(p) => Unspent(p, p)
  BY <1>1, Kinds, Parts, ConstantsAssumption DEF Unspent, Ended
<1>5. objs[f].name.by = p => FileNamed(p, Quarantine(p, FileName(p))) = f
  BY <1>1, <1>4, MovedFile
<1>6. CASE at[p] = "move"
  <2>1. Unspent(p, FileName(p).of)
    BY <1>1, <1>6 DEF Unspent, Ended
  <2>2. FileNamed(p, FileName(p)) = f
    BY <1>1, <1>4, <2>1, KnownFile
  <2>3. /\ at' = [at EXCEPT ![p] = "check"]
        /\ objs' = [objs EXCEPT ![f] = [objs[f] EXCEPT !.name = Quarantine(p, FileName(p))]]
    BY <1>1, <1>3, <1>6, <2>2, CommandAt DEF MoveFile, Goto, Change
  <2>4. objs[f] \in Things /\ objs \in [Objects -> Things]
    BY Types
  <2>5. objs'[f].name = Quarantine(p, FileName(p))
    BY <2>3, <2>4 DEF Things
  <2> QED  BY <1>1, <1>2, <2>3, <2>5, Parts DEF LocalsTyped, FileKept
<1>7. CASE at[p] = "check"
  <2>1. objs[f].name.by = p
    BY <1>7 DEF FileKept
  <2>2. Is(f, "file", expected[p].file)
    BY <1>1, <1>2, <1>3 DEF Is, Private
  <2>3. CheckFile(p)
    BY <1>1, <1>7, CommandAt
  <2>4. at' = [at EXCEPT ![p] = "delete"] /\ UNCHANGED files
    BY <1>3, <1>5, <2>1, <2>2, <2>3 DEF CheckFile, Passes, Goto
  <2> QED  BY <1>1, <1>2, <2>1, <2>4 DEF LocalsTyped, FileKept, files
<1>8. CASE at[p] = "delete"
  <2>1. objs[f].name.by = p
    BY <1>8 DEF FileKept
  <2>2. objs' = [objs EXCEPT ![f] = Gone]
    BY <1>1, <1>3, <1>5, <1>8, <2>1, CommandAt DEF DeleteFile, Change
  <2>3. objs'[f] = Gone
    BY <2>2, Types
  <2> QED  BY <1>1, <2>3, GoneTypes DEF Exists
<1> QED  BY <1>6, <1>7, <1>8

LEMMA NextFileKept ==
  ASSUME IInv, [Next]_vars, Kept, NEW p \in Artifacts \cup Directories, p \notin faulty',
         Genuine(mine[p].file)', Free(p, Holder(p))'
  PROVE  FileKept(p, mine[p].file)'
<1>1. /\ p \in Procs /\ Local(p) /\ LocalsTyped /\ LocalsTyped' /\ p \notin faulty /\ p \notin Sweepers
      /\ system' = system
  BY Commands, Unfailing, NextLocals, NextKinds, Kinds DEF Procs, Creators, FilesTyped
<1>2. PICK f \in Objects : f = mine'[p].file /\ Genuine(f)' /\ Exists(f)'
  BY <1>1 DEF LocalsTyped, Genuine, Exists
<1>3. SUFFICES FileKept(p, f)'
  BY <1>2 DEF FileKept
<1>4. CASE OpenFile(p) /\ NewOwnFile(p, f)
  <2>1. ~Undo(p)
    <3>1. at[p] = "open" /\ mine[p].file # f
      <4>1. p \in Creators /\ at[p] = "open"
        BY <1>4, <1>1, Kinds DEF OpenFile
      <4> QED  BY <1>1, <4>1, NobodyIsNone DEF Local, Possessions
    <3> QED  BY <1>2, <3>1 DEF Undo, Close
  <2>2. at'[p] = "fileIdentity"
    BY <1>1, <1>4, <2>1, OpenFileDoes DEF Goto, LocalsTyped
  <2> QED  BY <2>2 DEF FileKept
<1>5. CASE ~(OpenFile(p) /\ NewOwnFile(p, f))
  <2>1. f = mine[p].file /\ Exists(f) /\ Lasts(f)
    <3>1. Exists(mine[p].file)'
      BY <1>2 DEF Exists
    <3> QED  BY <1>1, <1>2, <1>5, <3>1, MineLasts
  <2>2. Genuine(f) /\ p \in Artifacts
    BY <1>1, <1>2, <2>1, OwnFile DEF Genuine, Lasts
  <2>3. at[p] \notin Making \cup {"open"} /\ p \in Creators /\ f # Nobody
    BY <1>1, <2>1, <2>2, Kinds, NobodyIsNone DEF Local, Possessions
  <2>4. mine'[p] = mine[p]
    BY <1>1, <2>3, Settled DEF Mkdir, OpenFile, Making
  <2>5. PICK h \in Objects : /\ h = Holder(p) /\ Exists(h)
                             /\ h = mine[p].dir \/ ~Nested(p)
                             /\ Free(p, h)'
    <3>1. CASE Nested(p)
      <4>1. Genuine(mine[p].dir) /\ Nested(p)'
        BY <1>1, <2>1, <2>2, <3>1, OwnFile DEF Nested
      <4>2. mine[p].dir \in Objects /\ Exists(mine[p].dir)
        BY <1>1, <4>1, OwnDir
      <4>3. PICK h \in Objects : h = mine[p].dir /\ h = mine'[p].dir
        BY <2>4, <4>2
      <4>4. Free(p, h)'
        BY <4>1, <4>3 DEF Holder, Free, Genuine, Exists
      <4> QED  BY <3>1, <4>2, <4>3, <4>4 DEF Holder
    <3>2. CASE ~Nested(p)
      <4>1. ~(Nested(p)')
        BY <1>1, <3>2 DEF Nested
      <4>2. Free(p, f)'
        BY <1>2, <4>1 DEF Holder, Free, Genuine, Exists
      <4> QED  BY <2>1, <3>2, <4>2 DEF Holder
    <3> QED  BY <3>1, <3>2
  <2>6. Free(p, h) /\ FileKept(p, f)
    BY <1>1, <2>1, <2>2, <2>5, FreeBefore DEF Kept
  <2>7. CASE Same(p)
    <3>1. objs[f].access = "own" => objs'[f].access = "own"
      BY <1>2, <2>1 DEF Lasts, Genuine
    <3>2. objs[f].name.by = p => objs'[f].name.by = p
      <4>1. objs'[f].name = objs[f].name \/ objs[f].name.by = "none"
        BY <1>2, <2>2, GenuineNames
      <4> QED  BY <1>1, <4>1, ConstantsAssumption
    <3> QED  BY <2>6, <2>7, <3>1, <3>2 DEF FileKept, Same
  <2>8. CASE Command(p)
    <3>1. CASE at[p] \in Holding \cup {"verifyClosed", "body"}
      BY <1>2, <2>1, <2>2, <2>5, <2>6, <2>8, <3>1, FileFilling
    <3>2. CASE at[p] \in {"move", "check", "delete"}
      BY <1>2, <2>1, <2>2, <2>5, <2>6, <2>8, <3>2, FileRemoving
    <3>3. CASE at[p] \in {"moveDir", "checkDir", "deleteDir"}
      <4>1. Nested(p)
        BY <1>1, <2>1, <2>2, <2>3, <3>3, Types DEF Local, Possessions, Nested
      <4>2. Nested(p)'
        BY <1>1, <4>1 DEF Nested
      <4>3. Free(p, mine[p].dir)'
        BY <4>2 DEF Holder
      <4>4. at'[p] # "done"
        BY <4>3, NextDirKept DEF DirKept
      <4>5. at'[p] \in {"moveDir", "checkDir", "deleteDir", "done", "killed"}
        BY <1>1, <3>3, Onward
      <4> QED  BY <4>4, <4>5 DEF FileKept
    <3>4. at[p] \notin {"list", "look", "checkTree"} \cup Ended
      BY <1>1, <2>2, <2>3, <2>8, CommandAt DEF Local, Role, Making, Filling, Removing, Ended
    <3> QED  BY <1>1, <2>3, <3>1, <3>2, <3>3, <3>4 DEF LocalsTyped, Places, Filling, Removing, Holding
  <2> QED  BY <1>1, <2>7, <2>8, Unfailing
<1> QED  BY <1>4, <1>5

LEMMA NextKept ==
  ASSUME IInv, [Next]_vars, Kept
  PROVE  Kept'
BY NextDirKept, NextFileKept DEF Kept

-----------------------------------------------------------------------------
(* What a sweep has listed it meets again under the same name, old enough   *)
(* to be moved.                                                             *)

LEMMA NewTimes ==
  ASSUME IInv, [Next]_vars, NEW o \in Objects, Exists(o)', ~Exists(o)
  PROVE  objs'[o].mtime = clock
<1>1. StepKinds
  BY NextKinds
<1>2. ~Lasts(o) /\ objs'[o] # Gone
  BY GoneTypes DEF Lasts, Exists
<1> QED  BY <1>1, <1>2, IsolatingIsolates DEF StepKinds, Thins, Adds, Comes, Isolates, Replaces, Keeps

LEMMA StrayBefore ==
  ASSUME IInv, [Next]_vars, NEW o \in Objects, Stray(o)', clock = 1
  PROVE  Stray(o) /\ objs'[o].name = objs[o].name
<1>1. Exists(o)' /\ objs'[o].mtime = 0
  BY DEF Stray, Genuine
<1>2. Exists(o)
  BY <1>1, NewTimes
<1>3. Lasts(o)
  BY <1>1, <1>2, StepLasts DEF Unused, Exists
<1>4. Genuine(o) /\ Genuine(o)'
  BY <1>2, <1>3 DEF Stray, Genuine, Lasts
<1>5. objs'[o].name = objs[o].name
  BY <1>4, GenuineNames, ConstantsAssumption DEF Stray
<1> QED  BY <1>1, <1>3, <1>4, <1>5 DEF Stray, Lasts

LEMMA StrayIsStale ==
  ASSUME IInv, NEW o \in Objects, Stray(o), NEW s \in Procs, todo[s].cutoff = 1
  PROVE  Stale(s, o) /\ Named(Root, objs[o].name) = o
<1>1. Exists(o) /\ Genuine(o) /\ objs[o].dir = Root /\ objs[o].mtime = 0
  BY DEF Stray, Genuine
<1>2. PICK q : q = objs[o].by
  OBVIOUS
<1>3. InPlace(o, q) /\ q \in Procs
  BY <1>1, <1>2 DEF IInv, Tied, Placed, InPlace, Procs
<1>4. objs[o].kind \in {"file", "dir"} /\ objs[o].owner = "user" /\ objs[o].access = "own"
  BY <1>1, <1>3 DEF IInv, Tied, Made, MadeDir, MadeFile, InPlace
<1>5. Named(Root, objs[o].name) = o
  BY <1>1, NamedOnce, Types
<1> QED  BY <1>1, <1>4, <1>5, NobodyIsNone DEF Stale, Expired, Private

LEMMA NextSwept ==
  ASSUME IInv, [Next]_vars, Swept
  PROVE  Swept'
<1> SUFFICES ASSUME NEW s \in Sweepers, s \notin faulty', todo'[s].cutoff = 1,
                    at'[s] \notin {"list", "killed"}, NEW o \in Objects, Stray(o)'
             PROVE  \/ objs'[o].name \in todo'[s].names
                    \/ at'[s] \in {"move", "moveDir"} /\ todo'[s].name = objs'[o].name
  BY DEF Swept
<1>1. /\ s \in Procs /\ Local(s) /\ LocalsTyped /\ s \notin faulty /\ s \notin Creators
      /\ Same(s) \/ Command(s)
  BY Commands, Unfailing, Kinds DEF Procs
<1>2. CASE List(s)
  <2>1. /\ objs' = objs
        /\ todo'[s].names = {objs[c].name : c \in {c \in Inside(Root) : objs[c].name.by = "none"}}
    BY <1>1, <1>2 DEF List, LocalsTyped, files
  <2>2. o \in Inside(Root) /\ objs[o].name.by = "none"
    BY <2>1 DEF Stray, Genuine, Inside, Exists
  <2> QED  BY <2>1, <2>2
<1>3. CASE ~List(s)
  <2>1. todo'[s] = todo[s] \/ Look(s)
    BY <1>1, <1>3, Settled
  <2>2. todo[s].cutoff = 1
    BY <1>1, <2>1, LookDoes
  <2>3. clock = 1
    BY <1>1, <2>2, Types DEF Local, Errands
  <2>4. Stray(o) /\ objs'[o].name = objs[o].name
    BY <2>3, StrayBefore
  <2>5. at[s] \notin {"list", "killed"}
    BY <1>1, <1>3, Onward, CommandAt DEF Same, Ended
  <2>6. \/ objs[o].name \in todo[s].names
        \/ at[s] \in {"move", "moveDir"} /\ todo[s].name = objs[o].name
    BY <1>1, <2>2, <2>4, <2>5 DEF Swept
  <2>7. CASE Look(s)
    <3>1. Stale(s, o) /\ Named(Root, objs[o].name) = o
      BY <1>1, <2>2, <2>4, StrayIsStale
    <3>2. at[s] = "look"
      BY <2>7 DEF Look
    <3>3. PICK n \in todo[s].names :
            /\ todo'[s].names = todo[s].names \ {n} /\ todo'[s].name = n
            /\ at'[s] \in {"move", "moveDir"} \/ ~Stale(s, Named(Root, n))
      BY <1>1, <2>6, <2>7, <3>2, LookDoes
    <3>4. CASE n = objs[o].name
      BY <2>4, <3>1, <3>3, <3>4
    <3>5. CASE n # objs[o].name
      BY <2>4, <2>6, <3>2, <3>3, <3>5
    <3> QED  BY <3>4, <3>5
  <2>8. CASE Same(s)
    BY <2>4, <2>6, <2>8 DEF Same
  <2>9. CASE ~Look(s) /\ Command(s)
    <3>1. CASE at[s] \in {"move", "moveDir"} /\ todo[s].name = objs[o].name
      <4>1. Named(Root, todo[s].name) = o /\ o # Nobody
        BY <1>1, <2>2, <2>4, <3>1, StrayIsStale, NobodyIsNone
      <4>2. ~Nested(s) /\ FileTarget(s) = todo[s].name /\ Target(s) = todo[s].name
        BY <1>1, Kinds
      <4>3. MoveFile(s) \/ MoveDir(s)
        BY <1>1, <2>9, <3>1, CommandAt
      <4>4. objs' = [objs EXCEPT ![o] = [objs[o] EXCEPT !.name = Quarantine(s, todo[s].name)]]
        BY <4>1, <4>2, <4>3 DEF MoveFile, MoveDir, FileNamed, Change
      <4>5. objs[o] \in Things /\ objs \in [Objects -> Things]
        BY Types
      <4>6. objs'[o].name.by = s
        BY <4>4, <4>5, Parts DEF Things
      <4> QED  BY <1>1, <4>6, ConstantsAssumption DEF Stray
    <3>2. CASE objs[o].name \in todo[s].names
      BY <2>1, <2>4, <2>9, <3>2
    <3> QED  BY <2>6, <3>1, <3>2
  <2> QED  BY <1>1, <2>7, <2>8, <2>9
<1> QED  BY <1>2, <1>3

-----------------------------------------------------------------------------
(* What a command or a sweep has moved to quarantine it is about to delete,  *)
(* unless it was killed or one of its calls failed: what it moved is what it *)
(* expected, for nobody makes an object of a name that is already listed.    *)

LEMMA Starting ==
  ASSUME IInv, [Next]_vars, NEW p \in Creators, Begins(p)'
  PROVE  Begins(p) /\ ~Mkdir(p) /\ ~OpenFile(p)
<1> USE DEF Passes, Undo, Close, Proves, Goto, Making, Filling, Removing, Ended, Begins
<1>1. /\ p \in Procs /\ Local(p) /\ at \in [Procs -> Places] /\ p \notin Sweepers
      /\ system' = system /\ (Nested(p)' <=> Nested(p))
  BY Commands, Kinds, NextKinds DEF LocalsTyped, Procs, FilesTyped, Nested
<1>2. CASE Same(p)
  BY <1>1, <1>2 DEF Same, Mkdir, OpenFile
<1>3. CASE Mkdir(p) \/ Identity(p) \/ OpenDir(p) \/ ChmodDir(p) \/ VerifyOpenDir(p) \/ VerifyDir(p)
  <2>1. \E y \in (Making \ {"mkdir"}) \cup {"body", "move", "moveDir", "done"} : at' = [at EXCEPT ![p] = y]
    BY <1>3 DEF Mkdir, Identity, OpenDir, ChmodDir, VerifyOpenDir, VerifyDir
  <2> QED  BY <1>1, <2>1
<1>4. CASE CheckDacl(p)
  <2>1. /\ at[p] = "dacl"
        /\ \E y \in {"open", "verifyDir", "done", "move", "moveDir"} :
             at' = [at EXCEPT ![p] = y] /\ (y = "open" => p \in Artifacts)
    BY <1>4 DEF CheckDacl
  <2>2. at'[p] = "open" /\ p \in Artifacts /\ at[p] = "dacl"
    BY <1>1, <2>1
  <2>3. Nested(p)
    BY <1>1, <2>2, Types DEF Local, Role, Nested
  <2> QED  BY <1>1, <2>2, <2>3
<1>5. CASE OpenFile(p) \/ FileIdentity(p) \/ Write(p) \/ Protect(p) \/ VerifyOpen(p) \/ VerifyClosed(p)
           \/ Leave(p)
  <2>1. \E y \in (Filling \ {"open"}) \cup {"body", "move", "moveDir"} : at' = [at EXCEPT ![p] = y]
    BY <1>5 DEF OpenFile, FileIdentity, Write, Protect, VerifyOpen, VerifyClosed, Leave
  <2> QED  BY <1>1, <2>1
<1>6. CASE MoveFile(p) \/ CheckFile(p) \/ DeleteFile(p) \/ MoveDir(p) \/ CheckDir(p) \/ CheckTree(p)
           \/ DeleteDir(p)
  <2>1. \E y \in Removing \cup {AfterEnd(p)} : at' = [at EXCEPT ![p] = y]
    BY <1>6 DEF MoveFile, CheckFile, DeleteFile, MoveDir, CheckDir, CheckTree, DeleteDir
  <2>2. AfterEnd(p) = "done"
    BY <1>1 DEF AfterEnd
  <2> QED  BY <1>1, <2>1, <2>2
<1>7. CASE Fault(p) \/ Kill(p)
  <2>1. \E y \in {FaultPlace(p), "killed"} : at' = [at EXCEPT ![p] = y]
    BY <1>7 DEF Fault, Kill
  <2>2. FaultPlace(p) \in {"done", "move", "moveDir", AfterEnd(p)} /\ AfterEnd(p) = "done"
    BY <1>1 DEF FaultPlace, AfterEnd
  <2> QED  BY <1>1, <2>1, <2>2
<1>8. at[p] \notin {"list", "look"}
  BY <1>1, Kinds DEF Local, Role
<1>9. ~List(p) /\ ~Look(p)
  BY <1>8 DEF List, Look
<1> HIDE DEF Passes, Undo, Close, Proves, Goto, Making, Filling, Removing, Ended, Begins
<1> QED  BY <1>1, <1>2, <1>3, <1>4, <1>5, <1>6, <1>7, <1>9, OneActs, Zenon DEF Command

LEMMA NextBegun ==
  ASSUME IInv, [Next]_vars, Begun
  PROVE  Begun'
<1> SUFFICES ASSUME NEW p \in Creators, Begins(p)'
             PROVE  /\ \A o \in Objects : Exists(o)' /\ objs'[o].dir = Root => objs'[o].name # Candidate(p)
                    /\ \A s \in Sweepers : /\ Candidate(p) \notin todo'[s].names
                                           /\ at'[s] \in {"move", "moveDir"} => todo'[s].name # Candidate(p)
  BY DEF Begun
<1>1. Begins(p) /\ ~Mkdir(p) /\ ~OpenFile(p) /\ p \in Procs
  BY Starting DEF Procs
<1>2. ASSUME NEW o \in Objects, Exists(o)', objs'[o].dir = Root, objs'[o].name = Candidate(p)
      PROVE  FALSE
  <2>1. StepKinds /\ Candidate(p).by = "none" /\ "none" \notin Procs /\ Environment # Candidate(p)
        /\ objs'[o] # Gone
    BY <1>2, NextKinds, Parts, ConstantsAssumption, GoneTypes DEF Exists, Procs
  <2>2. ~Keeps(o)
    BY <1>1, <1>2 DEF Begun, Keeps, Lasts, Exists
  <2>3. CASE Thins
    BY <2>1, <2>2, <2>3 DEF Thins
  <2>4. CASE \E q \in Procs : Isolating(q)
    BY <2>1, <2>2, <2>4, <1>2, IsolatingIsolates, Parts DEF Isolates
  <2>5. ASSUME NEW q \in Procs, (Mkdir(q) /\ NewDir(q, o)) \/ (OpenFile(q) /\ NewOwnFile(q, o))
        PROVE  FALSE
    <3>1. objs'[o].name \in {Candidate(q), Environment} /\ q # p
      BY <1>1, <2>5 DEF NewDir, NewOwnFile, FileName
    <3>2. Candidate(q).of = q /\ Candidate(p).of = p
      BY Parts
    <3> QED  BY <1>2, <2>1, <3>1, <3>2
  <2>6. CASE \E n \in Objects : Adds(n) /\ objs'[n].touched /\ objs'[n].dir # Root
    BY <1>2, <2>2, <2>6 DEF Adds
  <2>7. CASE \E c, n \in Objects : Replaces(c, n)
    <3>1. PICK c \in Objects, n \in Objects : Replaces(c, n)
      BY <2>7
    <3>2. o # c
      BY <1>2, <2>1, <3>1, Parts DEF Replaces
    <3>3. o = n
      BY <2>2, <3>1, <3>2 DEF Replaces
    <3>4. Exists(c) /\ objs[c].dir = Root /\ objs[c].name = Candidate(p)
      BY <1>2, <3>1, <3>3 DEF Replaces
    <3> QED  BY <1>1, <3>4 DEF Begun
  <2>8. CASE \E q \in Procs, n \in Objects : \/ Mkdir(q) /\ Adds(n) /\ NewDir(q, n)
                                             \/ OpenFile(q) /\ Adds(n) /\ NewOwnFile(q, n)
    BY <2>2, <2>5, <2>8 DEF Adds
  <2> QED  BY <2>1, <2>3, <2>4, <2>6, <2>7, <2>8 DEF StepKinds
<1>3. ASSUME NEW s \in Sweepers
      PROVE  /\ Candidate(p) \notin todo'[s].names
             /\ at'[s] \in {"move", "moveDir"} => todo'[s].name # Candidate(p)
  <2>1. s \in Procs /\ LocalsTyped
    BY Commands DEF Procs
  <2>2. CASE List(s)
    <3>1. /\ todo'[s].names = {objs[c].name : c \in {c \in Inside(Root) : objs[c].name.by = "none"}}
          /\ at'[s] = "look"
      BY <2>1, <2>2 DEF List, LocalsTyped, Goto
    <3> QED  BY <1>1, <3>1 DEF Begun, Inside
  <2>3. CASE Look(s)
    <3>1. at'[s] \in {"done", "look"} \/ todo'[s].name \in todo[s].names
      BY <2>1, <2>3, LookDoes
    <3>2. todo'[s].names \subseteq todo[s].names
      BY <2>1, <2>3, LookDoes
    <3> QED  BY <1>1, <3>1, <3>2 DEF Begun
  <2>4. CASE ~List(s) /\ ~Look(s)
    <3>1. todo'[s] = todo[s] /\ (at'[s] \in {"move", "moveDir"} => at'[s] = at[s])
      BY <2>1, <2>4, Settled, Onward
    <3> QED  BY <1>1, <3>1 DEF Begun
  <2> QED  BY <2>2, <2>3, <2>4
<1> QED  BY <1>2, <1>3

\* What nobody else has touched at the top is what its maker made, and private.
LEMMA TopIsOwn ==
  ASSUME IInv, NEW o \in Objects, AtTop(o)
  PROVE  /\ Private(o) /\ o # Nobody /\ Named(Root, objs[o].name) = o
         /\ objs[o].name.of = objs[o].by /\ objs[o].name.by \in {"none", objs[o].by} \cup Sweepers
         /\ objs[o].by \in Creators
         /\ \/ o = mine[objs[o].by].dir /\ objs[o].kind = "dir"
            \/ /\ o = mine[objs[o].by].file /\ objs[o].kind = "file" /\ ~Nested(objs[o].by)
               /\ objs[o].by \in Artifacts
<1>1. PICK q : q = objs[o].by
  OBVIOUS
<1>2. InPlace(o, q) /\ Exists(o) /\ objs[o].dir = Root
  BY <1>1 DEF AtTop, Genuine, IInv, Tied, Placed
<1>3. q \in Procs /\ Local(q) /\ o # Nobody /\ Named(Root, objs[o].name) = o
  BY <1>2, Commands, NobodyIsNone, NamedOnce, Types DEF InPlace, Procs
<1>4. CASE o = mine[q].dir
  <2>1. MadeDir(q, o)
    BY <1>2, <1>3, <1>4 DEF IInv, Tied, Made
  <2>2. o # mine[q].file
    BY <1>2, <1>3, <2>1 DEF IInv, Tied, Made, MadeDir, MadeFile
  <2> QED  BY <1>1, <1>2, <1>3, <1>4, <2>1, <2>2 DEF InPlace, MadeDir, Private
<1>5. CASE o # mine[q].dir
  <2>1. o = mine[q].file /\ ~Nested(q)
    BY <1>2, <1>5 DEF InPlace
  <2>2. MadeFile(q, o) /\ q \in Artifacts
    BY <1>2, <1>3, <2>1 DEF IInv, Tied, Made, Local, Possessions, InPlace
  <2> QED  BY <1>1, <1>2, <1>3, <1>5, <2>1, <2>2 DEF InPlace, MadeFile, Private
<1> QED  BY <1>4, <1>5

LEMMA TopBefore ==
  ASSUME IInv, [Next]_vars, NEW o \in Objects, AtTop(o)', Exists(o)
  PROVE  AtTop(o) /\ Lasts(o) /\ objs'[o].kind = objs[o].kind
<1>1. Exists(o)' /\ ~objs'[o].touched /\ objs'[o].dir = Root
  BY DEF AtTop, Genuine
<1>2. Lasts(o)
  BY <1>1, StepLasts DEF Unused, Exists
<1> QED  BY <1>1, <1>2 DEF AtTop, Genuine, Lasts

\* A creator knows its directory as long as nobody else has touched or moved it.
LEMMA NextKnows ==
  ASSUME IInv, [Next]_vars, Handled, NEW q \in Creators, q \notin faulty',
         at'[q] \notin {"mkdir", "identity"}, Free(q, mine[q].dir)'
  PROVE  expected'[q].dir = mine'[q].dir
<1>1. /\ q \in Procs /\ Local(q) /\ LocalsTyped /\ LocalsTyped' /\ q \notin faulty
      /\ q \notin Sweepers /\ (Same(q) \/ Command(q))
  BY Commands, Unfailing, NextLocals, Kinds DEF Procs
<1>2. PICK d \in Objects : d = mine'[q].dir /\ Exists(d)'
  BY <1>1 DEF LocalsTyped, Free, Genuine, Exists
<1>3. Free(q, d)'
  BY <1>2 DEF Free, Genuine, Exists
<1>4. ~Mkdir(q)
  <2>1. Mkdir(q) => at'[q] = "identity"
    BY <1>1 DEF Mkdir, Goto, LocalsTyped
  <2> QED  BY <2>1
<1>5. d = mine[q].dir /\ Exists(d)
  <2>1. Exists(mine[q].dir)'
    BY <1>1, <1>2, <1>4, Settled, OpenFileFiles DEF NewOwnFile, Undo, Close, Exists
  <2> QED  BY <1>1, <1>2, <1>4, <2>1, MineLasts
<1>6. Free(q, d)
  BY <1>1, <1>3, <1>5, FreeBefore
<1>7. CASE Identity(q)
  <2>1. Unspent(q, q) /\ at[q] = "identity"
    BY <1>1, <1>7 DEF Identity, Unspent, Ended
  <2>2. Named(Root, Candidate(q)) = d /\ d # Nobody
    BY <1>1, <1>5, <1>6, <2>1, KnownDir, NobodyIsNone
  <2>3. expected' = [expected EXCEPT ![q] = [expected[q] EXCEPT !.dir = d]]
    BY <1>7, <2>2 DEF Identity, Find
  <2> QED  BY <1>1, <1>2, <2>3 DEF LocalsTyped
<1>8. CASE ~Identity(q)
  <2>1. at[q] \notin {"mkdir", "identity"}
    BY <1>1, <1>4, <1>8, CommandAt DEF Same
  <2>2. expected[q].dir = d
    BY <1>1, <1>5, <1>6, <2>1 DEF Handled
  <2>3. expected'[q].dir = expected[q].dir
    <3>1. ~Look(q)
      BY <1>1, Kinds DEF Look, Local, Role, Making, Filling, Removing, Ended
    <3>2. FileIdentity(q) => expected'[q].dir = expected[q].dir
      BY <1>1 DEF FileIdentity, Find, LocalsTyped
    <3> QED  BY <1>1, <1>8, <3>1, <3>2, Settled
  <2> QED  BY <1>2, <2>2, <2>3
<1> QED  BY <1>7, <1>8

\* What is in quarantine goes on to be deleted.
LEMMA GraspStays ==
  ASSUME IInv, [Next]_vars, NEW q \in Procs, NEW o \in Objects, Same(q) \/ Command(q),
         AtTop(o), AtTop(o)', Grasp(q, o), objs'[o].name = objs[o].name
  PROVE  Grasp(q, o)'
<1>1. /\ at[q] \in Removing /\ todo'[q] = todo[q] /\ expected'[q] = expected[q] /\ LocalsTyped
      /\ FileTarget(q)' = FileTarget(q) /\ Target(q)' = Target(q) /\ (Nested(q)' <=> Nested(q))
      /\ Private(o) /\ o # Nobody /\ Named(Root, objs[o].name) = o /\ objs'[o].kind = objs[o].kind
      /\ Exists(o)' /\ Exists(o)
  BY TopIsOwn, TopBefore, Commands, ErrandStays, TargetsStay, NextFiles
     DEF Grasp, Removing, AtTop, Genuine, FilesTyped, Nested
<1>2. CASE Same(q)
  BY <1>1, <1>2 DEF Same, Grasp, Quarantine
<1>3. CASE Command(q) /\ at[q] \in {"check", "delete"}
  <2>1. /\ o = expected[q].file /\ objs[o].kind = "file" /\ ~Nested(q)
        /\ FileNamed(q, Quarantine(q, FileTarget(q))) = o
    BY <1>1, <1>3 DEF Grasp, FileNamed
  <2>2. CASE at[q] = "check"
    <3>1. CheckFile(q)
      BY <1>3, <2>2, CommandAt
    <3>2. at' = [at EXCEPT ![q] = "delete"]
      BY <1>1, <2>1, <3>1 DEF CheckFile, Is, Passes, Goto
    <3>3. at'[q] = "delete"
      BY <1>1, <3>2 DEF LocalsTyped
    <3> QED  BY <1>1, <1>3, <2>1, <3>3 DEF Grasp, Quarantine
  <2>3. CASE at[q] = "delete"
    <3>1. DeleteFile(q)
      BY <1>3, <2>3, CommandAt
    <3>2. objs'[o] = Gone
      BY <1>1, <2>1, <3>1, DeleteFileDoes
    <3> QED  BY <1>1, <3>2, GoneTypes DEF Exists
  <2> QED  BY <1>3, <2>2, <2>3
<1>4. CASE Command(q) /\ at[q] \in {"checkDir", "checkTree", "deleteDir"}
  <2>1. /\ o = expected[q].dir /\ objs[o].kind = "dir" /\ Named(Root, Quarantine(q, Target(q))) = o
    BY <1>1, <1>4 DEF Grasp
  <2>2. CASE at[q] = "checkDir"
    <3>1. CheckDir(q)
      BY <1>4, <2>2, CommandAt
    <3>2. \E x \in {"checkTree", "deleteDir"} : at' = [at EXCEPT ![q] = x]
      BY <1>1, <2>1, <3>1 DEF CheckDir, Is, Passes, Goto
    <3>3. at'[q] \in {"checkTree", "deleteDir"}
      BY <1>1, <3>2 DEF LocalsTyped
    <3> QED  BY <1>1, <1>4, <2>1, <3>3 DEF Grasp, Quarantine
  <2>3. CASE at[q] = "checkTree"
    <3>1. CheckTree(q)
      BY <1>4, <2>3, CommandAt
    <3>2. \A c \in Inside(o) : objs[c].kind # "link" /\ objs[c].access # "open"
      <4> SUFFICES ASSUME NEW c \in Inside(o)
                   PROVE  objs[c].kind # "link" /\ objs[c].access # "open"
        OBVIOUS
      <4>1. c \in Objects /\ Exists(c) /\ objs[c].dir = o /\ o # Root
        BY <1>1 DEF Inside, Root, Nobody
      <4>2. Genuine(c)
        BY <4>1 DEF IInv, Files, Nesting, NestedIn, AtTop, Genuine
      <4>3. PICK m : m = objs[c].by
        OBVIOUS
      <4>4. InPlace(c, m) /\ Exists(c)
        BY <4>1, <4>2, <4>3 DEF IInv, Tied, Placed
      <4>5. m \in Procs /\ (c = mine[m].dir \/ c = mine[m].file)
        BY <4>4 DEF InPlace, Procs
      <4>6. objs[c].kind \in {"dir", "file"}
        BY <4>4, <4>5 DEF IInv, Tied, Made, MadeDir, MadeFile
      <4>7. objs[c].access \in {"own", "inherited"}
        BY <4>4 DEF InPlace
      <4> QED  BY <4>6, <4>7
    <3>3. at' = [at EXCEPT ![q] = "deleteDir"]
      BY <1>1, <2>1, <3>1, <3>2 DEF CheckTree, Passes, Goto
    <3>4. at'[q] = "deleteDir"
      BY <1>1, <3>3 DEF LocalsTyped
    <3> QED  BY <1>1, <1>4, <2>1, <3>4 DEF Grasp, Quarantine
  <2>4. CASE at[q] = "deleteDir"
    <3>1. DeleteDir(q)
      BY <1>4, <2>4, CommandAt
    <3>2. objs'[o] = Gone
      BY <1>1, <2>1, <3>1, DeleteDirDoes
    <3> QED  BY <1>1, <3>2, GoneTypes DEF Exists
  <2> QED  BY <1>4, <2>2, <2>3, <2>4
<1> QED  BY <1>2, <1>3, <1>4 DEF Grasp

\* And what is moved to quarantine is what was expected.
LEMMA GraspBegins ==
  ASSUME IInv, [Next]_vars, Handled, NEW q \in Procs, q \notin faulty, NEW o \in Objects,
         AtTop(o), AtTop(o)', objs[o].name.by = "none", Isolating(q), Isolates(q, o),
         q \in Sweepers \/ q = objs[o].by
  PROVE  Grasp(q, o)'
<1>1. /\ LocalsTyped /\ Local(q) /\ objs'[o].kind = objs[o].kind /\ Exists(o) /\ objs[o].dir = Root
      /\ objs'[o].name = Quarantine(q, objs[o].name) /\ o # Nobody /\ o # Root
      /\ Named(Root, objs[o].name) = o /\ (Nested(q)' <=> Nested(q))
      /\ at[q] \in {"move", "moveDir"}
  BY TopIsOwn, TopBefore, Commands, NextFiles, NobodyIsNone
     DEF AtTop, Genuine, Isolates, FilesTyped, Nested, Isolating, MoveFile, MoveDir, Root, Nobody
<1>2. /\ todo'[q] = todo[q] /\ expected'[q] = expected[q]
      /\ FileTarget(q)' = FileTarget(q) /\ Target(q)' = Target(q)
  BY <1>1, ErrandStays, TargetsStay DEF Removing
<1>3. q \notin Sweepers =>
        /\ q \in Creators /\ objs[o].name.of = q
        /\ \/ o = mine[q].dir /\ objs[o].kind = "dir"
           \/ o = mine[q].file /\ objs[o].kind = "file" /\ ~Nested(q) /\ q \in Artifacts
  BY TopIsOwn
<1>4. \A c \in Objects : Isolates(q, c) => c = o
  <2> SUFFICES ASSUME NEW c \in Objects, Isolates(q, c), c # o PROVE FALSE
    OBVIOUS
  <2>1. objs'[o].name = objs[o].name
    BY DEF Isolates, Keeps
  <2>2. objs'[o].name.by = q /\ q # "none"
    BY <1>1, Parts, ConstantsAssumption
  <2> QED  BY <2>1, <2>2
<1>5. CASE MoveFile(q) /\ at[q] = "move"
  <2>1. FileNamed(q, FileTarget(q)) = o
    BY <1>4, <1>5, FileNamedIs DEF Isolating, MoveDir
  <2>2. ~Nested(q) /\ objs[o].name = FileTarget(q)
    BY <1>1, <2>1, FileNamedIs, NobodyIsNone DEF Root, Nobody
  <2>3. at' = [at EXCEPT ![q] = "check"]
    BY <1>1, <1>5, <2>1 DEF MoveFile, Goto
  <2>4. at'[q] = "check"
    BY <1>1, <2>3 DEF LocalsTyped
  <2>5. o = expected[q].file /\ objs[o].kind = "file"
    <3>1. CASE q \in Sweepers
      <4>1. objs[o].name = todo[q].name
        BY <2>2, <3>1, Kinds
      <4> QED  BY <1>5, <3>1, <4>1 DEF Handled, Aim
    <3>2. CASE q \notin Sweepers
      <4>1. q \in Artifacts
        BY <1>1, <1>3, <1>5, <3>2, Kinds DEF Local, Role, Making, Ended
      <4>2. mine[q].dir = Nobody
        BY <1>1, <1>3, <2>2, <3>2, <4>1, Types DEF Nested, Local, Possessions
      <4> QED  BY <1>1, <1>3, <1>5, <3>2, <4>1, <4>2 DEF Local, Possessions
    <3> QED  BY <3>1, <3>2
  <2> QED  BY <1>1, <1>2, <2>2, <2>4, <2>5 DEF Grasp, Quarantine
<1>6. CASE MoveDir(q) /\ at[q] = "moveDir"
  <2>1. Named(Root, Target(q)) = o
    BY <1>4, <1>6, NamedIs DEF Isolating, MoveFile
  <2>2. objs[o].name = Target(q)
    BY <1>1, <2>1, NamedIs
  <2>3. at' = [at EXCEPT ![q] = "checkDir"]
    BY <1>1, <1>6, <2>1 DEF MoveDir, Goto
  <2>4. at'[q] = "checkDir"
    BY <1>1, <2>3 DEF LocalsTyped
  <2>5. o = expected[q].dir /\ objs[o].kind = "dir"
    <3>1. CASE q \in Sweepers
      <4>1. objs[o].name = todo[q].name
        BY <2>2, <3>1, Kinds
      <4> QED  BY <1>6, <3>1, <4>1 DEF Handled, Aim
    <3>2. CASE q \notin Sweepers
      <4>1. o = mine[q].dir /\ objs[o].kind = "dir" /\ q \in Creators
        <5>1. ASSUME o = mine[q].file, ~Nested(q), q \in Artifacts PROVE FALSE
          BY <1>1, <1>6, <5>1, <1>3, <3>2, Types DEF Nested, Local, Possessions
        <5> QED  BY <1>3, <3>2, <5>1
      <4>2. Free(q, mine[q].dir)
        BY <4>1 DEF Free, AtTop
      <4> QED  BY <1>6, <4>1, <4>2 DEF Handled
    <3> QED  BY <3>1, <3>2
  <2> QED  BY <1>1, <1>2, <2>2, <2>4, <2>5 DEF Grasp, Quarantine
<1> QED  BY <1>5, <1>6 DEF Isolating, MoveFile, MoveDir

LEMMA NextGrasps ==
  ASSUME IInv, [Next]_vars, Handled, NEW q \in Procs, q \notin faulty', NEW o \in Objects, AtTop(o)',
         objs'[o].name.by = q
  PROVE  Grasp(q, o)'
<1>1. q \notin faulty /\ (Same(q) \/ Command(q)) /\ "none" \notin Procs
  BY Unfailing, ConstantsAssumption
<1>2. Exists(o)
  <2>1. Exists(o)'
    BY DEF AtTop, Genuine
  <2>2. CASE Isolating(q)
    <3>1. PICK c \in Objects : Isolates(q, c)
      BY <2>2, IsolatingIsolates
    <3> QED  BY <2>1, <3>1 DEF Isolates, Keeps, Lasts, Exists
  <2> QED  BY <2>1, <2>2, QuarantineStays
<1>3. AtTop(o)
  BY <1>2, TopBefore
<1>4. \/ objs'[o].name = objs[o].name
      \/ objs[o].name.by = "none" /\ Isolating(q) /\ Isolates(q, o) /\ q \in Sweepers \cup {objs[o].by}
  BY <1>3, GenuineNames DEF AtTop
<1>5. CASE objs'[o].name = objs[o].name
  <2>1. Grasp(q, o)
    BY <1>1, <1>3, <1>5 DEF Handled
  <2> QED  BY <1>1, <1>3, <1>5, <2>1, GraspStays
<1>6. CASE objs'[o].name # objs[o].name
  BY <1>1, <1>3, <1>4, <1>6, GraspBegins
<1> QED  BY <1>5, <1>6

LEMMA NextAims ==
  ASSUME IInv, [Next]_vars, Begun, Handled, NEW s \in Sweepers, s \notin faulty',
         at'[s] \in {"move", "moveDir"}, NEW o \in Objects, AtTop(o)', objs'[o].name = todo'[s].name
  PROVE  Aim(s, o)'
<1>1. /\ s \in Procs /\ s \notin faulty /\ LocalsTyped /\ LocalsTyped' /\ "none" \notin Procs
      /\ todo'[s].name.by = "none"
  BY Commands, Unfailing, NextLocals, NameTypes, ConstantsAssumption DEF Procs, LocalsTyped
<1>2. CASE Look(s)
  <2>1. UNCHANGED files
    BY <1>1, <1>2, LookDoes
  <2>2. AtTop(o) /\ objs'[o] = objs[o]
    BY <2>1 DEF AtTop, Genuine, Exists, files
  <2>3. Named(Root, objs[o].name) = o
    BY <2>2, TopIsOwn
  <2>4. PICK n \in todo[s].names :
          /\ todo'[s].name = n /\ Stale(s, Named(Root, n))
          /\ \/ /\ at'[s] = "moveDir" /\ objs[Named(Root, n)].kind = "dir"
                /\ expected'[s] = [dir |-> Named(Root, n), file |-> Nobody]
             \/ /\ at'[s] = "move" /\ objs[Named(Root, n)].kind # "dir"
                /\ expected'[s] = [dir |-> Nobody, file |-> Named(Root, n)]
    BY <1>1, <1>2, LookDoes
  <2>5. Named(Root, n) = o
    BY <2>2, <2>3, <2>4
  <2> QED  BY <2>2, <2>4, <2>5 DEF Aim, Stale
<1>3. CASE ~Look(s)
  <2>1. at'[s] = at[s] /\ todo'[s] = todo[s] /\ expected'[s] = expected[s]
    BY <1>1, <1>3, Onward, ErrandStays DEF Removing
  <2>2. Exists(o)
    <3> SUFFICES ASSUME ~Exists(o) PROVE FALSE
      OBVIOUS
    <3>1. Exists(o)' /\ o \in Unused
      BY StepLasts DEF AtTop, Genuine
    <3>2. IInv'
      BY NextInv
    <3>3. PICK m : m = objs'[o].by
      OBVIOUS
    <3>4. InPlace(o, m)' /\ objs'[o].dir = Root
      BY <3>2, <3>3 DEF IInv, Tied, Placed, AtTop
    <3>5. m \in Creators /\ m \in Procs /\ objs'[o].name.of = m /\ o # Root
          /\ (o = mine'[m].dir \/ (o = mine'[m].file /\ ~(Nested(m)')))
      BY <3>4, NobodyIsNone DEF InPlace, Procs, Root, Nobody
    <3>6. o # mine[m].dir /\ o # mine[m].file
      BY <3>1, <3>5 DEF Unused, Held
    <3>7. Mkdir(m) \/ (OpenFile(m) /\ o = mine'[m].file /\ ~Nested(m))
      <4>1. OpenFile(m) => mine'[m].dir = mine[m].dir
        BY <3>5, OpenFileFiles DEF NewOwnFile, Undo, Close
      <4>2. Nested(m)' <=> Nested(m)
        BY NextFiles DEF FilesTyped, Nested
      <4> QED  BY <3>5, <3>6, <4>1, <4>2, Settled
    <3>8. Begins(m)
      BY <3>7 DEF Begins, Mkdir, OpenFile
    <3>9. objs'[o].name = Candidate(m)
      BY <1>1, <2>1, <3>5, SameName, NameTypes, Parts DEF LocalsTyped
    <3> QED  BY <2>1, <3>5, <3>8, <3>9 DEF Begun
  <2>3. AtTop(o) /\ objs'[o].kind = objs[o].kind
    BY <2>2, TopBefore
  <2>4. objs'[o].name = objs[o].name
    BY <1>1, <2>3, GenuineNames DEF AtTop
  <2>5. Aim(s, o)
    BY <1>1, <2>1, <2>3, <2>4 DEF Handled
  <2> QED  BY <2>1, <2>3, <2>5 DEF Aim
<1> QED  BY <1>2, <1>3

LEMMA NextHandled ==
  ASSUME IInv, [Next]_vars, Begun, Handled
  PROVE  Handled'
BY NextKnows, NextGrasps, NextAims DEF Handled

LEMMA InitCleaning ==
  ASSUME Init
  PROVE  Swept /\ Kept /\ Begun /\ Handled
<1>1. /\ \A o \in Objects : ~Exists(o)
      /\ \A q \in Procs : mine[q] = [dir |-> Nobody, file |-> Nobody]
      /\ \A q \in Procs : todo[q].names = {}
      /\ \A q \in Procs : at[q] \notin {"move", "moveDir"}
  BY GoneTypes DEF Init, Exists
<1>2. \A q \in Procs : ~Genuine(mine[q].dir) /\ ~Genuine(mine[q].file)
  BY <1>1 DEF Genuine, Exists
<1>3. Swept
  BY <1>1 DEF Swept, Stray, Genuine
<1>4. Kept
  BY <1>2 DEF Kept, Free, Procs, Creators
<1>5. Begun
  BY <1>1 DEF Begun, Procs
<1>6. Handled
  BY <1>1, <1>2 DEF Handled, AtTop, Genuine, Free
<1> QED  BY <1>3, <1>4, <1>5, <1>6

\* What lies in a quarantine is in somebody's hands.
LEMMA InQuarantine ==
  ASSUME IInv, Handled, NEW o \in Objects, AtTop(o), NEW q \in Procs, objs[o].name.by = q
  PROVE  InHands(q, o)
<1>1. CASE q \in faulty
  BY <1>1 DEF InHands
<1>2. CASE q \notin faulty
  <2>1. Grasp(q, o)
    BY <1>2 DEF Handled
  <2> QED  BY <2>1 DEF Grasp, InHands, Deleting, Removing
<1> QED  BY <1>1, <1>2

LEMMA InvCleansUp ==
  ASSUME IInv, Swept, Kept, Handled
  PROVE  CleansUp
<1>1. ASSUME NEW p \in Artifacts \cup Directories, at[p] = "done", p \notin faulty,
             NEW o \in {mine[p].dir, mine[p].file} \ {Nobody}, Left(o)
      PROVE  \E s \in Sweepers : InHands(s, o) \/ (objs[o].dir # Root /\ InHands(s, objs[o].dir))
  <2>1. p \in Procs /\ p \notin Sweepers /\ Genuine(o) /\ Sweepers \subseteq Procs
    BY <1>1, Kinds DEF Left, Genuine, Procs, Creators
  <2>2. CASE o = mine[p].dir
    <3>1. ~Free(p, o)
      BY <1>1, <2>2 DEF Kept, DirKept
    <3>2. objs[o].name.by \in Sweepers /\ o \in Objects /\ AtTop(o)
      BY <2>1, <2>2, <3>1, OwnDir DEF Free, AtTop
    <3> QED  BY <2>1, <3>2, InQuarantine
  <2>3. CASE o = mine[p].file
    <3>1. ~Free(p, Holder(p))
      BY <1>1, <2>1, <2>3 DEF Kept, FileKept
    <3>2. CASE Nested(p)
      <4>1. Genuine(mine[p].dir) /\ objs[o].dir = mine[p].dir /\ mine[p].dir # Root
        BY <2>1, <2>3, <3>2, OwnFile
      <4>2. /\ objs[mine[p].dir].name.by \in Sweepers /\ mine[p].dir \in Objects
            /\ AtTop(mine[p].dir)
        BY <2>1, <3>1, <3>2, <4>1, OwnDir DEF Free, Holder, AtTop
      <4> QED  BY <2>1, <4>1, <4>2, InQuarantine
    <3>3. CASE ~Nested(p)
      <4>1. objs[o].name.by \in Sweepers /\ o \in Objects /\ AtTop(o)
        BY <2>1, <2>3, <3>1, <3>3, OwnFile DEF Free, Holder, AtTop
      <4> QED  BY <2>1, <4>1, InQuarantine
    <3> QED  BY <3>2, <3>3
  <2> QED  BY <1>1, <2>2, <2>3
<1>2. ASSUME NEW s \in Sweepers, at[s] = "done", s \notin faulty, todo[s].cutoff = 1,
             NEW o \in Objects, Left(o), objs[o].dir = Root, objs[o].mtime = 0
      PROVE  \E q \in Procs : InHands(q, o)
  <2>1. todo[s].names = {} /\ s \in Procs
    BY <1>2, Commands DEF Local, Errands, Procs
  <2>2. ~Stray(o)
    BY <1>2, <2>1 DEF Swept
  <2>3. AtTop(o) /\ objs[o].name.by # "none"
    BY <1>2, <2>2 DEF Stray, Genuine, Left, AtTop
  <2>4. objs[o].name.by \in Procs
    BY <2>3, TopIsOwn DEF Procs
  <2> QED  BY <2>3, <2>4, InQuarantine
<1> QED  BY <1>1, <1>2 DEF CleansUp

\* A private_artifact or private_directory that ends without a failed call
\* leaves nothing behind, and when sweep_expired_artifacts has ended without one
\* nothing at the top has expired - but for what another program touched and for
\* what was renamed to a quarantine: that is about to be deleted by the command
\* that renamed it, or its command was killed or failed, and it stays.
THEOREM OnlyQuarantineStays == Spec => []CleansUp
<1>1. Init => Swept /\ Kept /\ Begun /\ Handled
  BY InitCleaning
<1>2. IInv /\ Swept /\ Kept /\ Begun /\ Handled /\ [Next]_vars => Swept' /\ Kept' /\ Begun' /\ Handled'
  BY NextSwept, NextKept, NextBegun, NextHandled
<1>3. IInv /\ Swept /\ Kept /\ Begun /\ Handled => CleansUp
  BY InvCleansUp
<1> QED  BY <1>1, <1>2, <1>3, Invariance, PTL DEF Spec

=============================================================================
