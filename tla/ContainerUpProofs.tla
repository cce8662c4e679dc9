--------------------------- MODULE ContainerUpProofs ---------------------------
(***************************************************************************)
(* What `up`, `build` and `dockerfile` promise, proved for every project,  *)
(* every set of commands and every number of changes: what is in an image, *)
(* what is not, what a payload is made of, and that the container starts.  *)
(*                                                                         *)
(* A plan, a bundle and a payload belong to one command: the invariant     *)
(* says of each place of a command what they hold there, and of an image   *)
(* and of the container what is left of the command that made them.        *)
(***************************************************************************)
EXTENDS ContainerUp, SequenceTheorems, WellFoundedInduction, TLAPS

(***************************************************************************)
(* Places of a command.                                                    *)
(***************************************************************************)
IsCustom(p) == Args(p).command = "up" /\ Args(p).custom

Choosing == {"select", "take", "chain"}
Writing  == {"open", "check", "copy", "bundled"}

\* Where a command that builds has read its config.
HasPlan(p) ==
  \/ at[p] \in Choosing \cup Writing \cup {"planned", "archived", "build"}
  \/ at[p] = "compose" /\ ~IsCustom(p)

Chosen    == Places \ (Choosing \cup {"failed"})
Archived  == {"archived", "compose", "build", "inspect", "clear", "services", "run", "wait", "done", "failed"}
Built     == {"inspect", "clear", "services", "run", "wait", "done", "failed"}
Inspected == {"clear", "services", "run", "wait"}
OfUp      == {"payload", "inspect", "compose"} \cup Inspected
OfCustom  == {"start", "done", "failed"} \cup OfUp

Flow(p) ==
  /\ at[p] \in Places
  /\ p \notin DOMAIN scene.args => at[p] = "done"
  /\ p \in DOMAIN scene.args /\ IsCustom(p) => at[p] \in OfCustom /\ ~plan[p].final
  /\ at[p] = "payload" => IsCustom(p)
  /\ at[p] \in OfUp => Args(p).command = "up"
  /\ at[p] \in (Writing \cup OfUp \cup {"archived", "build"}) /\ Args(p).command = "up" /\ ~IsCustom(p)
       => plan[p].final
  /\ at[p] = "start" => run[p] = NoCommand
  /\ at[p] \in {"start", "config", "planned"} => ~plan[p].final

(***************************************************************************)
(* The project.                                                            *)
(***************************************************************************)
Kinds == {"file", "link", "none"}

Project ==
  /\ scene \in Scenes /\ configs = scene.configs
  /\ disk \in [Files -> [kind : Kinds, ino : 0..MaxEdits, stamp : 0..MaxEdits, data : Contents]]
  /\ \A f \in Files : disk[f].data.of = f /\ (disk[f].kind = "link" => disk[f].ino # 0)
  /\ dirs \in [Dirs -> [kind : {"dir", "link"}, ino : 0..MaxEdits, moves : 0..MaxEdits]]
  /\ \A d \in Dirs : dirs[d].moves <= edits /\ (dirs[d].kind = "link" => dirs[d].moves # 0)
  /\ edits \in 0..MaxEdits

\* A directory above f was exchanged and still is, or was exchanged once more;
\* was exchanged and back; and it or another one again.
Exchanged(f) ==
  \E d \in Above[f] \ {Root} : dirs[d].moves > 0 /\ (dirs[d].kind = "link" \/ dirs[d].moves > 1)
ExchangedBack(f) ==
  \E d \in Above[f] \ {Root} : dirs[d].moves > 1 /\ (dirs[d].kind = "dir" \/ dirs[d].moves > 2)
ExchangedAgain(f) ==
  \E d, e \in Above[f] \ {Root} : dirs[d].moves > (IF d = e THEN 2 ELSE 1) /\ dirs[e].moves > 0

(***************************************************************************)
(* A plan.                                                                 *)
(***************************************************************************)
Looks == {"file", "package", "member", "maybe"}

Wanted ==
  {r \in [what : Files \cup Dirs \cup {NoFile}, reason : Reasons, how : Looks \cup {"tree", "local"}] :
     /\ r.how \in Looks \ {"maybe"} => r.what \in Files
     /\ r.how = "maybe" => r.what \in Files \cup {NoFile}
     /\ r.how \in {"tree", "local"} => r.what \in Dirs}

\* The contents of a file that was selected: its own, or what an exchanged directory had.
FoundFor(f, data) == data \in Contents /\ (data.of = f \/ (data = Outside /\ Exchanged(f)))

PlanTyped(p) ==
  /\ DOMAIN plan[p] = DOMAIN NoPlan
  /\ plan[p].excluded \subseteq Files
  /\ plan[p].todo \in Seq(Wanted)
  /\ plan[p].installs \cup plan[p].roots \subseteq Dirs
  /\ DOMAIN plan[p].selected \subseteq Files
  /\ \A f \in DOMAIN plan[p].selected :
       /\ {"data", "reasons"} \subseteq DOMAIN plan[p].selected[f]
       /\ FoundFor(f, plan[p].selected[f].data)
       /\ plan[p].selected[f].reasons \in (SUBSET Reasons) \ {{}}

AtWork(p) ==
  /\ at[p] \in {"take", "chain"} =>
       plan[p].todo # <<>> /\ Head(plan[p].todo).how \in Looks /\ Head(plan[p].todo).what \in Files \ plan[p].excluded
  /\ at[p] = "chain" => FoundFor(Head(plan[p].todo).what, plan[p].taken.data)
  /\ at[p] \in Chosen => plan[p].todo = <<>>

\* What must stay out is excluded, unless a link led to it when the config was read.
KeptHere(p, f) == f # NoFile => f \in plan[p].excluded \/ ~Stayed(f)
Kept(p, f)     == f # NoFile => f \in plan[p].excluded \/ disk[f].ino # 0 \/ ~Stayed(f)

Excludes(p) ==
  /\ HasPlan(p) \/ DOMAIN plan[p].selected # {} => Config \in plan[p].excluded
  /\ Config \in plan[p].excluded =>
       /\ plan[p].settings \in Range(configs)
       /\ KeptHere(p, plan[p].settings.pip)
       /\ Kept(p, plan[p].settings.dotenv) /\ Kept(p, plan[p].settings.cliDotenv)
  /\ DOMAIN plan[p].selected \cap plan[p].excluded = {}

\* A file is selected or about to be.
Coming(p, f) == \E i \in DOMAIN plan[p].todo : plan[p].todo[i].what = f /\ plan[p].todo[i].how = "file"
ComingAsSource(p, f) ==
  \E i \in DOMAIN plan[p].todo :
    plan[p].todo[i].what = f /\ plan[p].todo[i].how = "file" /\ plan[p].todo[i].reason # "auth"
IsThere(p, f) == f \in DOMAIN plan[p].selected \/ Coming(p, f)
IsSource(p, f) ==
  \/ f \in DOMAIN plan[p].selected /\ ~(plan[p].selected[f].reasons \subseteq {"auth"})
  \/ ComingAsSource(p, f)

Referred(p) == HasPlan(p) => \A ref \in References(plan[p].settings) : ref.dotted \/ IsSource(p, ref.file)

(***************************************************************************)
(* A bundle.                                                               *)
(***************************************************************************)
Planned(p) == [f \in DOMAIN plan[p].selected |-> plan[p].selected[f].data]

Copies(p, files) == files = [f \in DOMAIN files |-> plan[p].selected[f].data]

Copied(p) ==
  /\ DOMAIN bundle[p].inventory \subseteq DOMAIN plan[p].selected
  /\ Copies(p, bundle[p].inventory)
  /\ \A f \in DOMAIN bundle[p].inventory : bundle[p].inventory[f] = Outside => ExchangedAgain(f)

Bundled(p) ==
  /\ DOMAIN bundle[p] = DOMAIN NoBundle
  /\ at[p] \in {"check", "copy"} =>
       /\ bundle[p].todo \in Seq(DOMAIN plan[p].selected)
       /\ DOMAIN plan[p].selected = DOMAIN bundle[p].inventory \cup Range(bundle[p].todo)
  /\ at[p] = "copy" =>
       bundle[p].todo # <<>> /\ (plan[p].selected[Head(bundle[p].todo)].data = Outside => ExchangedBack(Head(bundle[p].todo)))
  /\ at[p] \in {"check", "copy", "bundled"} => Copied(p)
  /\ at[p] = "bundled" => DOMAIN bundle[p].inventory = DOMAIN plan[p].selected
  /\ \/ bundle[p].archive = <<>>
     \/ /\ at[p] \in Archived
        /\ bundle[p].archive = Planned(p)
        /\ \A f \in DOMAIN bundle[p].archive : bundle[p].archive[f] = Outside => ExchangedAgain(f)
  /\ at[p] \in {"archived", "build"} \/ (at[p] = "compose" /\ ~IsCustom(p)) => bundle[p].archive = Planned(p)

(***************************************************************************)
(* A payload.                                                              *)
(***************************************************************************)
\* What AUTH_MODULE_PATH is: one text, which names a file that is there once the image is planned.
Authorised(p) ==
  Auth \in DOMAIN run[p].payload =>
    \E atom \in run[p].payload[Auth] :
      /\ run[p].payload[Auth] = {atom}
      /\ atom.from = "container" => plan[p].final /\ IsThere(p, atom.key)
      /\ atom.from \in DOMAIN AuthRefs /\ (plan[p].final \/ IsCustom(p)) => AuthRefs[atom.from].dotted

ToCompose(p, payload) == Only(payload, Args(p).composeEnv)

Payload(p) ==
  /\ DOMAIN run[p] = DOMAIN NoCommand
  /\ \A n \in DOMAIN run[p].payload : \A atom \in run[p].payload[n] : atom.from = "launch" => atom.key \in run[p].eligible
  /\ p \in DOMAIN scene.args => Authorised(p)
  /\ at[p] \in Inspected \/ (at[p] = "compose" /\ IsCustom(p)) =>
       /\ Graphs \in DOMAIN run[p].payload /\ run[p].payload[Graphs] = Text("image", Graphs)
       /\ Args(p).compose => run[p].compose = ToCompose(p, run[p].payload)
  /\ at[p] = "run" /\ Args(p).compose => run[p].posted = ToCompose(p, run[p].payload)

(***************************************************************************)
(* The daemon.                                                             *)
(***************************************************************************)
ImageOk(t) ==
  LET i == images[t] IN
  /\ i.by = "baked" => t # UpTag /\ i.manifest = {}
  /\ i.by \in Procs =>
       /\ i.by \in DOMAIN scene.args /\ ~IsCustom(i.by) /\ at[i.by] \in Built
       /\ i.files = Planned(i.by)
       /\ \A ref \in i.manifest : Loads(ref, i.files)
       /\ Auth \in DOMAIN run[i.by].payload =>
            \A atom \in run[i.by].payload[Auth] : atom.from = "container" => atom.key \in DOMAIN i.files

ImagesOk == images = [t \in Tags |-> images[t]] /\ \A t \in Tags : ImageOk(t)

Running ==
  /\ DOMAIN container = {"state", "by", "image", "payload"}
  /\ container.state \in {"starting", "healthy", "crashed"}
  /\ container.by \in DOMAIN scene.args /\ at[container.by] \in {"wait", "done", "failed"}
  /\ container.payload = run[container.by].payload
  /\ Args(container.by).compose => run[container.by].posted = ToCompose(container.by, container.payload)
  /\ container.image.by \in {container.by, "baked"} => Boots(container)
  /\ container.state = "crashed" => ~Boots(container)

ContainerOk == container = Nothing \/ Running

OfCommand(p) ==
  /\ Flow(p) /\ PlanTyped(p) /\ AtWork(p) /\ Excludes(p) /\ Referred(p)
  /\ Bundled(p) /\ Payload(p)

\* Every command is at some place.
Everywhere == at = [p \in Procs |-> at[p]]

UpInv ==
  /\ Project
  /\ Everywhere /\ DOMAIN plan = Procs /\ DOMAIN bundle = Procs /\ DOMAIN run = Procs
  /\ \A p \in Procs : OfCommand(p)
  /\ ImagesOk
  /\ ContainerOk

(***************************************************************************)
(* Folds.  A fold over a sequence is built up one element after the other: *)
(* the library folds over the set of indices, always taking its maximum,   *)
(* and the sets 1..k are what it comes to.                                 *)
(***************************************************************************)

\* A set of numbers has a least one: what induction along a sequence rests on.
LEMMA LeastOf ==
  ASSUME NEW T \in SUBSET Nat, T # {}
  PROVE  \E x \in T : \A y \in T : x <= y
<1> DEFINE R == OpToRel(<, Nat)
<1>1. IsWellFoundedOn(R, Nat)
  BY NatLessThanWellFounded
<1>2. \E x \in T : \A y \in T : <<y, x>> \notin R
  <2> HIDE DEF R
  <2> QED BY <1>1, WFMin
<1>3. \A x, y \in Nat : y < x => <<y, x>> \in R
  BY DEF R, OpToRel
<1> HIDE DEF R
<1>4. PICK x \in T : \A y \in T : <<y, x>> \notin R
  BY <1>2
<1>5. ASSUME NEW y \in T PROVE x <= y
  <2>1. x \in Nat /\ y \in Nat
    OBVIOUS
  <2>2. ~ (y < x)
    BY <1>3, <1>4, <2>1
  <2> QED BY <2>1, <2>2
<1> QED BY <1>4, <1>5

\* What holds of no elements, and of one more, holds of all: T are the counterexamples.
LEMMA NoCounterexample ==
  ASSUME NEW n \in Nat, NEW T \in SUBSET (0 .. n),
         0 \notin T,
         \A k \in 1 .. n : k - 1 \notin T => k \notin T
  PROVE  T = {}
<1> SUFFICES ASSUME T # {} PROVE FALSE
  OBVIOUS
<1>1. T \in SUBSET Nat
  OBVIOUS
<1>2. PICK k \in T : \A y \in T : k <= y
  BY <1>1, LeastOf
<1>3. k \in 1 .. n
  <2>1. k \in 0 .. n /\ k # 0
    BY <1>2
  <2> QED BY <2>1
<1>4. k - 1 \notin T
  <2>1. ~ (k <= k - 1)
    BY <1>3
  <2> QED BY <1>2, <2>1
<1> QED BY <1>2, <1>3, <1>4

\* The maximum of a set of indices that has the last one.
LEMMA MaxOfLast ==
  ASSUME NEW k \in Nat \ {0}, NEW s \in SUBSET (1 .. k), k \in s
  PROVE  Max(s) = k
<1>1. \A y \in s : k >= y
  OBVIOUS
<1>2. \E x \in s : \A y \in s : x >= y
  BY <1>1
<1>3. Max(s) \in s /\ \A y \in s : Max(s) >= y
  BY <1>2 DEF Max
<1>4. PICK m : m = Max(s)
  OBVIOUS
<1>5. m \in s /\ m >= k
  BY <1>3, <1>4
<1>6. m = k
  BY <1>5
<1> QED BY <1>4, <1>6

\* The sets of indices below 1..k are those of 1..k without k.
LEMMA IndicesBelow ==
  ASSUME NEW k \in Nat \ {0}
  PROVE  /\ \A s \in SUBSET (1 .. k) : s \ {k} \in SUBSET (1 .. k - 1)
         /\ \A s \in SUBSET (1 .. k) : k \notin s => s \in SUBSET (1 .. k - 1)
         /\ SUBSET (1 .. k - 1) \subseteq SUBSET (1 .. k)
         /\ (1 .. k) \ {k} = 1 .. k - 1
         /\ 1 .. k # {} /\ Max(1 .. k) = k
<1>1. \A i \in 1 .. k : i # k => i \in 1 .. k - 1
  OBVIOUS
<1>2. \A i \in 1 .. k - 1 : i \in 1 .. k /\ i # k
  OBVIOUS
<1>3. k \in 1 .. k
  OBVIOUS
<1>4. Max(1 .. k) = k
  BY <1>3, MaxOfLast
<1> HIDE DEF Max
<1> QED BY <1>1, <1>2, <1>3, <1>4

(***************************************************************************)
(* The folds of the model: the files of a set in the order of their paths, *)
(* the bindings of a document, and the assignments of a command.           *)
(***************************************************************************)
Adding(found, f, files) == IF f \in files THEN Append(found, f) ELSE found
Commanding(layers, a, target) ==
  IF target \in a.targets THEN MergeValues(layers, a.values, {}, "command") ELSE layers

StepOf(kind, state, x, par) ==
  IF kind = "path" THEN Adding(state, x, par)
  ELSE IF kind = "binding" THEN Bind(state, x, par) ELSE Commanding(state, x, par)

Folds(kind, it, n, seq, start, par) ==
  it = [s \in SUBSET (1 .. n) |->
          IF s = {} THEN start ELSE StepOf(kind, it[s \ {Max(s)}], seq[Max(s)], par)]

\* The sets of indices of a sequence can be folded over one after the other.
LEMMA FoldExists ==
  ASSUME NEW n \in Nat, NEW kind, NEW seq, NEW start, NEW par
  PROVE  \E it : Folds(kind, it, n, seq, start, par)
<1> DEFINE T == {k \in 0 .. n : ~ \E it : Folds(kind, it, k, seq, start, par)}
<1>1. T \in SUBSET (0 .. n)
  OBVIOUS
<1>2. 0 \notin T
  <2> DEFINE none == [s \in SUBSET (1 .. 0) |-> start]
  <2>1. \A s \in SUBSET (1 .. 0) : s = {}
    OBVIOUS
  <2>2. Folds(kind, none, 0, seq, start, par)
    BY <2>1 DEF Folds
  <2> QED BY <2>2
<1>3. ASSUME NEW k \in 1 .. n, k - 1 \notin T PROVE k \notin T
  <2>1. k - 1 \in 0 .. n /\ k \in Nat \ {0}
    OBVIOUS
  <2>2. PICK it : Folds(kind, it, k - 1, seq, start, par)
    BY <1>3, <2>1
  <2> DEFINE more == [s \in SUBSET (1 .. k) |-> IF k \in s THEN StepOf(kind, it[s \ {k}], seq[k], par) ELSE it[s]]
  <2>3. ASSUME NEW s \in SUBSET (1 .. k)
        PROVE  more[s] = IF s = {} THEN start ELSE StepOf(kind, more[s \ {Max(s)}], seq[Max(s)], par)
    <3>1. CASE k \in s
      <4>1. Max(s) = k /\ s \ {k} \in SUBSET (1 .. k) /\ k \notin s \ {k} /\ s # {}
        BY <2>1, <3>1, MaxOfLast
      <4>2. more[s \ {k}] = it[s \ {k}]
        BY <4>1
      <4>3. more[s] = StepOf(kind, it[s \ {k}], seq[k], par)
        BY <3>1
      <4> HIDE DEF more
      <4> QED BY <4>1, <4>2, <4>3
    <3>2. CASE k \notin s
      <4>1. s \in SUBSET (1 .. k - 1)
        BY <2>1, <3>2, IndicesBelow
      <4>2. s \ {Max(s)} \in SUBSET (1 .. k) /\ k \notin s \ {Max(s)}
        BY <3>2
      <4>3. more[s] = it[s] /\ more[s \ {Max(s)}] = it[s \ {Max(s)}]
        BY <3>2, <4>2
      <4>4. it[s] = IF s = {} THEN start ELSE StepOf(kind, it[s \ {Max(s)}], seq[Max(s)], par)
        BY <2>2, <4>1 DEF Folds
      <4> HIDE DEF more
      <4> QED BY <4>3, <4>4
    <3> QED BY <3>1, <3>2
  <2>4. more = [s \in SUBSET (1 .. k) |-> more[s]]
    OBVIOUS
  <2>5. Folds(kind, more, k, seq, start, par)
    <3> HIDE DEF more
    <3> QED BY <2>3, <2>4 DEF Folds
  <2> QED BY <2>5
<1>4. T = {}
  <2> HIDE DEF T
  <2> QED BY <1>1, <1>2, <1>3, NoCounterexample
<1> QED BY <1>4

\* From the fold over sets of indices to the states after one element, two and so on.
LEMMA FoldSteps ==
  ASSUME NEW n \in Nat, NEW kind, NEW seq, NEW start, NEW par, NEW it, Folds(kind, it, n, seq, start, par)
  PROVE  \E g : /\ g[n] = it[1 .. n] /\ g[0] = start
                /\ \A k \in 1 .. n : g[k] = StepOf(kind, g[k - 1], seq[k], par)
<1>1. Folds(kind, it, n, seq, start, par)
  OBVIOUS
<1> DEFINE g == [k \in 0 .. n |-> it[1 .. k]]
<1>4. g[n] = it[1 .. n]
  OBVIOUS
<1>5. g[0] = start
  <2>1. 1 .. 0 = {}
    OBVIOUS
  <2>2. it[{}] = start
    BY <1>1 DEF Folds
  <2> QED BY <2>1, <2>2
<1>6. ASSUME NEW k \in 1 .. n PROVE g[k] = StepOf(kind, g[k - 1], seq[k], par)
  <2>1. k \in Nat \ {0} /\ k \in 0 .. n /\ k - 1 \in 0 .. n
    BY <1>1
  <2>2. 1 .. k \in SUBSET (1 .. n)
    BY <1>1
  <2>3. 1 .. k # {} /\ Max(1 .. k) = k /\ (1 .. k) \ {Max(1 .. k)} = 1 .. k - 1
    BY <2>1, IndicesBelow
  <2>4. it[1 .. k] = StepOf(kind, it[1 .. k - 1], seq[k], par)
    BY <1>1, <2>2, <2>3 DEF Folds
  <2> QED BY <2>1, <2>4
<1> HIDE DEF g
<1> QED BY <1>4, <1>5, <1>6

\* The files of a set, one after the other.
LEMMA PathSteps ==
  ASSUME NEW files
  PROVE  \E g : /\ g[Len(Order)] = InPathOrder(files) /\ g[0] = <<>>
                /\ \A k \in 1 .. Len(Order) : g[k] = Adding(g[k - 1], Order[k], files)
<1> DEFINE n == Len(Order)
<1>1. n \in Nat /\ DOMAIN Order = 1 .. n
  BY ProjectAssumption
<1> DEFINE it == CHOOSE f : Folds("path", f, n, Order, <<>>, files)
<1>2. InPathOrder(files) = it[1 .. n]
  BY <1>1 DEF InPathOrder, Adding, FoldLeft, MapThenFoldSet, Folds, StepOf
<1>3. Folds("path", it, n, Order, <<>>, files)
  BY <1>1, FoldExists
<1> HIDE DEF it, n
<1>4. PICK g : /\ g[n] = it[1 .. n] /\ g[0] = <<>>
               /\ \A k \in 1 .. n : g[k] = StepOf("path", g[k - 1], Order[k], files)
  BY <1>1, <1>3, FoldSteps
<1>5. \A k \in 1 .. n : g[k] = Adding(g[k - 1], Order[k], files)
  BY <1>4 DEF StepOf
<1> QED BY <1>2, <1>4, <1>5 DEF n

\* The sequence has the files of the set and no others.
LEMMA InPathOrderFiles ==
  ASSUME NEW files \in SUBSET Files
  PROVE  InPathOrder(files) \in Seq(files) /\ Range(InPathOrder(files)) = files
<1> DEFINE n == Len(Order)
<1>1. n \in Nat /\ DOMAIN Order = 1 .. n /\ \A f \in Files : \E i \in 1 .. n : Order[i] = f
  BY ProjectAssumption DEF Range
<1>2. PICK g : /\ g[n] = InPathOrder(files) /\ g[0] = <<>>
               /\ \A k \in 1 .. n : g[k] = Adding(g[k - 1], Order[k], files)
  BY PathSteps
<1> HIDE DEF n
<1> DEFINE Right(k) == /\ g[k] \in Seq(files)
                       /\ \A i \in 1 .. k : Order[i] \in files => \E j \in 1 .. Len(g[k]) : g[k][j] = Order[i]
<1> DEFINE T == {k \in 0 .. n : ~ Right(k)}
<1>3. T \in SUBSET (0 .. n)
  OBVIOUS
<1>4. 0 \notin T
  <2>1. \A i \in 1 .. 0 : FALSE
    OBVIOUS
  <2>2. g[0] \in Seq(files)
    BY <1>2
  <2>3. Right(0)
    BY <2>1, <2>2
  <2> QED BY <2>3
<1>5. ASSUME NEW k \in 1 .. n, k - 1 \notin T PROVE k \notin T
  <2>1. k - 1 \in 0 .. n /\ k \in Nat
    BY <1>1
  <2>2. Right(k - 1)
    BY <1>5, <2>1
  <2>3. PICK l \in Seq(files) : l = g[k - 1]
    BY <2>2
  <2>4. \A i \in 1 .. k - 1 : Order[i] \in files => \E j \in 1 .. Len(l) : l[j] = Order[i]
    BY <2>2, <2>3
  <2>5. g[k] = IF Order[k] \in files THEN Append(l, Order[k]) ELSE l
    BY <1>2, <2>3 DEF Adding
  <2>6. \A i \in 1 .. k : i = k \/ i \in 1 .. k - 1
    BY <2>1
  <2>7. CASE Order[k] \notin files
    <3>1. g[k] = l
      BY <2>5, <2>7
    <3>2. Right(k)
      BY <2>3, <2>4, <2>6, <2>7, <3>1
    <3> QED BY <3>2
  <2>8. CASE Order[k] \in files
    <3>1. PICK f \in files : f = Order[k]
      BY <2>8
    <3>2. PICK m : m = Append(l, f)
      OBVIOUS
    <3>2a. m \in Seq(files)
      BY <3>2
    <3>3. Len(m) = Len(l) + 1 /\ m[Len(l) + 1] = f /\ \A j \in 1 .. Len(l) : m[j] = l[j]
      BY <3>2, AppendProperties
    <3>4. Len(l) \in Nat
      OBVIOUS
    <3>5. \A j \in 1 .. Len(l) : j \in 1 .. Len(m)
      BY <3>3, <3>4
    <3>6. Len(l) + 1 \in 1 .. Len(m)
      BY <3>3, <3>4
    <3>7. \A i \in 1 .. k : Order[i] \in files => \E j \in 1 .. Len(m) : m[j] = Order[i]
      BY <2>4, <2>6, <3>1, <3>3, <3>5, <3>6
    <3>8. g[k] = m
      BY <2>5, <2>8, <3>1, <3>2
    <3>9. Right(k)
      BY <3>2a, <3>7, <3>8
    <3> QED BY <3>9
  <2> QED BY <2>7, <2>8
<1>6. T = {}
  <2> HIDE DEF T
  <2> QED BY <1>1, <1>3, <1>4, <1>5, NoCounterexample
<1>7. Right(n)
  BY <1>1, <1>6
<1>8. PICK l \in Seq(files) : l = InPathOrder(files)
  BY <1>2, <1>7
<1>9. \A i \in 1 .. n : Order[i] \in files => \E j \in 1 .. Len(l) : l[j] = Order[i]
  BY <1>2, <1>7, <1>8
<1>10. \A f \in files : \E j \in DOMAIN l : l[j] = f
  BY <1>1, <1>9
<1>11. \A j \in DOMAIN l : l[j] \in files
  OBVIOUS
<1>12. Range(l) = files
  BY <1>10, <1>11 DEF Range
<1> QED BY <1>8, <1>12

(***************************************************************************)
(* Frames: what a step does not touch keeps what is said of it.            *)
(***************************************************************************)
\* Nothing of the project or of the scene changes.
Still == UNCHANGED <<scene, configs, disk, dirs, edits>>

\* The others stay where they are, with what they hold.
Alone(p) ==
  /\ Everywhere' /\ DOMAIN plan' = Procs /\ DOMAIN bundle' = Procs /\ DOMAIN run' = Procs
  /\ \A q \in Procs \ {p} :
       at'[q] = at[q] /\ plan'[q] = plan[q] /\ bundle'[q] = bundle[q] /\ run'[q] = run[q]

\* What is said of exchanged directories is about directories.
LEMMA ExchangesStay ==
  ASSUME NEW f, UNCHANGED dirs
  PROVE  /\ Exchanged(f)' <=> Exchanged(f)
         /\ ExchangedBack(f)' <=> ExchangedBack(f)
         /\ ExchangedAgain(f)' <=> ExchangedAgain(f)
BY DEF Exchanged, ExchangedBack, ExchangedAgain

\* A step of a command on its own variables leaves the project as it was.
LEMMA ProjectStays ==
  ASSUME Project, Still
  PROVE  Project'
BY DEF Project, Still

\* A command that does not move is still where it may be.
LEMMA FlowStays ==
  ASSUME NEW p, Flow(p), UNCHANGED scene, at'[p] = at[p], plan'[p] = plan[p], run'[p] = run[p]
  PROVE  Flow(p)'
BY DEF Flow, IsCustom, Args

\* A plan that nobody touches keeps its type.
LEMMA PlanTypedStays ==
  ASSUME NEW p, PlanTyped(p), UNCHANGED dirs, plan'[p] = plan[p]
  PROVE  PlanTyped(p)'
<1>1. \A f, data : FoundFor(f, data)' <=> FoundFor(f, data)
  BY ExchangesStay DEF FoundFor
<1> QED BY <1>1 DEF PlanTyped

\* So does the file that is being looked at.
LEMMA AtWorkStays ==
  ASSUME NEW p, AtWork(p), UNCHANGED dirs, at'[p] = at[p], plan'[p] = plan[p]
  PROVE  AtWork(p)'
<1>1. \A f, data : FoundFor(f, data)' <=> FoundFor(f, data)
  BY ExchangesStay DEF FoundFor
<1> QED BY <1>1 DEF AtWork

\* Whether a command has read its config depends on its place alone.
LEMMA HasPlanStays ==
  ASSUME NEW p, UNCHANGED scene, at'[p] = at[p]
  PROVE  HasPlan(p)' <=> HasPlan(p)
BY DEF HasPlan, IsCustom, Args

\* A plan that stays excludes what it did, as long as its command has not come by one.
LEMMA ExcludesStays ==
  ASSUME NEW p, Excludes(p), Still, plan'[p] = plan[p], HasPlan(p)' => HasPlan(p)
  PROVE  Excludes(p)'
<1>1. \A f : (Kept(p, f)' <=> Kept(p, f)) /\ (KeptHere(p, f)' <=> KeptHere(p, f))
  BY DEF Kept, KeptHere, Stayed, Still
<1> QED BY <1>1 DEF Excludes, Still

\* What a plan has selected, and what it is about to, is said by the plan alone.
LEMMA SourcesStay ==
  ASSUME NEW p, plan'[p] = plan[p]
  PROVE  /\ \A f : IsSource(p, f)' <=> IsSource(p, f)
         /\ \A f : IsThere(p, f)' <=> IsThere(p, f)
         /\ Planned(p)' = Planned(p)
         /\ \A files : Copies(p, files)' <=> Copies(p, files)
BY DEF IsSource, IsThere, ComingAsSource, Coming, Planned, Copies

\* The references of the config stay selected while the plan stays.
LEMMA ReferredStays ==
  ASSUME NEW p, Referred(p), plan'[p] = plan[p], HasPlan(p)' => HasPlan(p)
  PROVE  Referred(p)'
<1>1. \A f : IsSource(p, f)' <=> IsSource(p, f)
  BY SourcesStay
<1>2. References(plan[p].settings)' = References(plan[p].settings)
  BY DEF References
<1> QED BY <1>1, <1>2 DEF Referred

\* A context that nobody writes to is as far as it was.
LEMMA BundledStays ==
  ASSUME NEW p, Bundled(p), Still, at'[p] = at[p], plan'[p] = plan[p], bundle'[p] = bundle[p]
  PROVE  Bundled(p)'
<1>1. Planned(p)' = Planned(p) /\ \A files : Copies(p, files)' <=> Copies(p, files)
  BY SourcesStay
<1>2. \A f : ExchangedBack(f)' <=> ExchangedBack(f)
  BY ExchangesStay DEF Still
<1>3. \A f : ExchangedAgain(f)' <=> ExchangedAgain(f)
  BY ExchangesStay DEF Still
<1>4. Copied(p)' <=> Copied(p)
  BY <1>1, <1>3 DEF Copied
<1>5. IsCustom(p)' <=> IsCustom(p)
  BY DEF IsCustom, Args, Still
<1> QED BY <1>1, <1>2, <1>3, <1>4, <1>5 DEF Bundled

\* AUTH_MODULE_PATH names what it named while plan and payload stay.
LEMMA AuthorisedStays ==
  ASSUME NEW p, Authorised(p), UNCHANGED scene, plan'[p] = plan[p], run'[p].payload = run[p].payload
  PROVE  Authorised(p)'
<1>1. \A f : IsThere(p, f)' <=> IsThere(p, f)
  BY SourcesStay
<1>2. (IsCustom(p)' <=> IsCustom(p)) /\ AuthRefs' = AuthRefs
  BY DEF IsCustom, Args, AuthRefs
<1> QED BY <1>1, <1>2 DEF Authorised

\* A payload that was resolved is not resolved again.
LEMMA PayloadStays ==
  ASSUME NEW p, Payload(p), UNCHANGED scene, at'[p] = at[p], plan'[p] = plan[p], run'[p] = run[p]
  PROVE  Payload(p)'
<1>1. p \in DOMAIN scene.args => Authorised(p)'
  BY AuthorisedStays DEF Payload
<1>2. /\ IsCustom(p)' <=> IsCustom(p)
      /\ Args(p)' = Args(p)
      /\ \A payload : ToCompose(p, payload)' = ToCompose(p, payload)
  BY DEF IsCustom, Args, ToCompose
<1> QED BY <1>1, <1>2 DEF Payload

\* What is said of a command stays true while the others take steps.
LEMMA CommandStays ==
  ASSUME NEW p, OfCommand(p), Still,
         at'[p] = at[p], plan'[p] = plan[p], bundle'[p] = bundle[p], run'[p] = run[p]
  PROVE  OfCommand(p)'
<1>1. HasPlan(p)' <=> HasPlan(p)
  BY HasPlanStays DEF Still
<1>2. Flow(p)'
  BY FlowStays DEF OfCommand, Still
<1>3. PlanTyped(p)'
  BY PlanTypedStays DEF OfCommand, Still
<1>4. AtWork(p)'
  BY AtWorkStays DEF OfCommand, Still
<1>5. Excludes(p)'
  BY <1>1, ExcludesStays DEF OfCommand
<1>6. Referred(p)'
  BY <1>1, ReferredStays DEF OfCommand
<1>7. Bundled(p)'
  BY BundledStays DEF OfCommand
<1>8. Payload(p)'
  BY PayloadStays DEF OfCommand, Still
<1> QED BY <1>2, <1>3, <1>4, <1>5, <1>6, <1>7, <1>8 DEF OfCommand

\* An image stays right as long as the command that built it keeps its plan and its
\* reference to the auth module.
LEMMA ImageStays ==
  ASSUME UNCHANGED scene, NEW t, ImageOk(t), images'[t] = images[t],
         NEW p \in Procs, Alone(p),
         at[p] \in Built /\ ~IsCustom(p) =>
           /\ at'[p] \in Built /\ plan'[p] = plan[p]
           /\ Auth \in DOMAIN run'[p].payload =>
                Auth \in DOMAIN run[p].payload /\ run'[p].payload[Auth] = run[p].payload[Auth]
  PROVE  ImageOk(t)'
<1> DEFINE by == images[t].by
<1>2. CASE by \notin Procs
  BY <1>2 DEF ImageOk
<1>3. CASE by \in Procs
  <2>1. by \in DOMAIN scene.args /\ ~IsCustom(by) /\ at[by] \in Built
    BY <1>3 DEF ImageOk
  <2>2. /\ at'[by] \in Built /\ plan'[by] = plan[by]
        /\ Auth \in DOMAIN run'[by].payload =>
             Auth \in DOMAIN run[by].payload /\ run'[by].payload[Auth] = run[by].payload[Auth]
    BY <1>3, <2>1 DEF Alone
  <2>3. (IsCustom(by)' <=> IsCustom(by)) /\ Planned(by)' = Planned(by)
    BY <2>2, SourcesStay DEF IsCustom, Args
  <2>4. \A ref, files : Loads(ref, files)' <=> Loads(ref, files)
    BY DEF Loads
  <2> HIDE DEF by
  <2>5. /\ by = "baked" => t # UpTag /\ images[t].manifest = {}
        /\ images[t].files = Planned(by)
        /\ \A ref \in images[t].manifest : Loads(ref, images[t].files)
        /\ Auth \in DOMAIN run[by].payload =>
             \A atom \in run[by].payload[Auth] : atom.from = "container" => atom.key \in DOMAIN images[t].files
    BY <1>3 DEF ImageOk, by
  <2> QED BY <2>1, <2>2, <2>3, <2>4, <2>5 DEF ImageOk, by
<1> QED BY <1>2, <1>3

\* An image stays right while its builder keeps the plan and the auth module of its payload.
LEMMA ImagesStay ==
  ASSUME ImagesOk, UNCHANGED <<images, scene>>,
         NEW p \in Procs, Alone(p),
         at[p] \in Built /\ ~IsCustom(p) =>
           /\ at'[p] \in Built /\ plan'[p] = plan[p]
           /\ Auth \in DOMAIN run'[p].payload =>
                Auth \in DOMAIN run[p].payload /\ run'[p].payload[Auth] = run[p].payload[Auth]
  PROVE  ImagesOk'
<1> SUFFICES ASSUME NEW t \in Tags PROVE ImageOk(t)'
  BY DEF ImagesOk
<1>1. ImageOk(t) /\ images'[t] = images[t]
  BY DEF ImagesOk
<1> QED BY <1>1, ImageStays

\* Whether a container starts depends on its image and its payload.
LEMMA BootsStays ==
  ASSUME NEW c, NEW d, UNCHANGED scene, d.payload = c.payload, d.image = c.image
  PROVE  Boots(d)' <=> Boots(c)
BY DEF Boots, AuthLoads, AuthRefs, Loads

\* A container stays right while the command that started it keeps its payload.
LEMMA ContainerStays ==
  ASSUME ContainerOk, UNCHANGED <<container, scene>>,
         NEW p \in Procs, Alone(p), DOMAIN scene.args \subseteq Procs,
         at[p] \in {"wait", "done", "failed"} => at'[p] \in {"wait", "done", "failed"} /\ run'[p] = run[p]
  PROVE  ContainerOk'
<1>1. CASE container = Nothing
  BY <1>1 DEF ContainerOk, Nothing
<1>2. CASE container # Nothing
  <2>1. Running
    BY <1>2 DEF ContainerOk
  <2> DEFINE by == container.by
  <2>2. by \in Procs /\ at[by] \in {"wait", "done", "failed"}
    BY <2>1 DEF Running
  <2>3. at'[by] \in {"wait", "done", "failed"} /\ run'[by] = run[by]
    BY <2>2 DEF Alone
  <2>4. Boots(container)' <=> Boots(container)
    BY BootsStays
  <2>5. Args(by)' = Args(by) /\ \A payload : ToCompose(by, payload)' = ToCompose(by, payload)
    BY DEF Args, ToCompose
  <2> QED BY <2>1, <2>3, <2>4, <2>5 DEF Running, ContainerOk
<1> QED BY <1>1, <1>2

\* The scene of a run is one of those described, and its commands are processes.
LEMMA ArgsProcs ==
  ASSUME Project
  PROVE  IsScene(scene) /\ DOMAIN scene.args \subseteq Procs
BY ScenesAssumption DEF Project, IsScene

\* A step of one command that leaves the daemon alone.
LEMMA StepKeeps ==
  ASSUME UpInv, NEW p \in Procs, Alone(p), Still, UNCHANGED <<images, container>>,
         OfCommand(p)',
         at[p] \in Built /\ ~IsCustom(p) =>
           /\ at'[p] \in Built /\ plan'[p] = plan[p]
           /\ Auth \in DOMAIN run'[p].payload =>
                Auth \in DOMAIN run[p].payload /\ run'[p].payload[Auth] = run[p].payload[Auth],
         at[p] \in {"wait", "done", "failed"} => at'[p] \in {"wait", "done", "failed"} /\ run'[p] = run[p]
  PROVE  UpInv'
<1>1. Project'
  BY ProjectStays DEF UpInv
<1>2. \A q \in Procs \ {p} : OfCommand(q)'
  BY CommandStays DEF UpInv, Alone
<1>3. ImagesOk'
  BY ImagesStay DEF UpInv, Still
<1>4. ContainerOk'
  BY ContainerStays, ArgsProcs DEF UpInv, Still
<1> QED BY <1>1, <1>2, <1>3, <1>4 DEF UpInv, Alone

\* The command goes to another place with the plan it has.
LEMMA PlanFollows ==
  ASSUME NEW p, PlanTyped(p), AtWork(p), Excludes(p), Referred(p), Still, plan'[p] = plan[p],
         at'[p] \notin {"take", "chain"}, HasPlan(p)' => HasPlan(p),
         at'[p] \in Chosen => plan[p].todo = <<>>
  PROVE  PlanTyped(p)' /\ AtWork(p)' /\ Excludes(p)' /\ Referred(p)'
<1>1. PlanTyped(p)'
  BY PlanTypedStays DEF Still
<1>2. AtWork(p)'
  BY DEF AtWork
<1>3. Excludes(p)'
  BY ExcludesStays
<1>4. Referred(p)'
  BY ReferredStays
<1> QED BY <1>1, <1>2, <1>3, <1>4

\* It goes there with the payload it has.
LEMMA PayloadFollows ==
  ASSUME NEW p, Payload(p), UNCHANGED scene, plan'[p] = plan[p], run'[p] = run[p],
         at'[p] \in Inspected \/ (at'[p] = "compose" /\ IsCustom(p)) =>
           at[p] \in Inspected \/ (at[p] = "compose" /\ IsCustom(p)),
         at'[p] # "run"
  PROVE  Payload(p)'
<1>1. p \in DOMAIN scene.args => Authorised(p)'
  BY AuthorisedStays DEF Payload
<1>2. /\ IsCustom(p)' <=> IsCustom(p)
      /\ Args(p)' = Args(p)
      /\ \A payload : ToCompose(p, payload)' = ToCompose(p, payload)
  BY DEF IsCustom, Args, ToCompose
<1> QED BY <1>1, <1>2 DEF Payload

\* The bundle is as it was; the command archives no more than it did.
LEMMA BundleFollows ==
  ASSUME NEW p, Bundled(p), Still, plan'[p] = plan[p], bundle'[p] = bundle[p],
         at'[p] \notin {"check", "copy", "bundled"},
         at[p] \in Archived => at'[p] \in Archived,
         at'[p] \in {"archived", "build"} \/ (at'[p] = "compose" /\ ~IsCustom(p)) =>
           at[p] \in {"archived", "build"} \/ (at[p] = "compose" /\ ~IsCustom(p))
  PROVE  Bundled(p)'
<1>1. Planned(p)' = Planned(p)
  BY SourcesStay
<1>2. \A f : ExchangedAgain(f)' <=> ExchangedAgain(f)
  BY ExchangesStay DEF Still
<1>3. IsCustom(p)' <=> IsCustom(p)
  BY DEF IsCustom, Args, Still
<1> QED BY <1>1, <1>2, <1>3 DEF Bundled

\* How the places of a command lie among each other.
LEMMA PlacesAre ==
  /\ Archived \subseteq Places /\ Built \subseteq Archived /\ Inspected \subseteq Built /\ OfUp \subseteq Places
  /\ "failed" \in Built /\ "done" \in Built /\ "failed" \notin Chosen /\ "failed" \notin Inspected
BY DEF Archived, Built, Inspected, OfUp, Places, Chosen, Choosing

\* A command that fails keeps what it has and does nothing with it.
LEMMA FailKeeps ==
  ASSUME NEW p, OfCommand(p), Still, p \in DOMAIN scene.args,
         at'[p] = "failed", plan'[p] = plan[p], run'[p] = run[p],
         bundle'[p] = bundle[p] \/ bundle'[p] = NoBundle
  PROVE  OfCommand(p)'
<1>1. Flow(p)'
  BY DEF OfCommand, Flow, IsCustom, Args, Still, Places, OfCustom, OfUp, Writing, Inspected
<1>2. PlanTyped(p)' /\ AtWork(p)' /\ Excludes(p)' /\ Referred(p)'
  <2>1. ~HasPlan(p)'
    BY DEF HasPlan, Choosing, Writing
  <2> QED BY <2>1, PlanFollows, PlacesAre DEF OfCommand
<1>3. Bundled(p)'
  <2>1. CASE bundle'[p] = bundle[p]
    BY <2>1, BundleFollows DEF OfCommand, Archived
  <2>2. CASE bundle'[p] = NoBundle
    BY <2>2 DEF Bundled, NoBundle
  <2> QED BY <2>1, <2>2
<1>4. Payload(p)'
  BY PayloadFollows DEF OfCommand, Still, Inspected
<1> QED BY <1>1, <1>2, <1>3, <1>4 DEF OfCommand

\* A step of a command moves this command only.
LEMMA GotoDoes ==
  ASSUME UpInv, NEW p \in Procs, NEW place, Goto(p, place)
  PROVE  /\ at'[p] = place /\ Everywhere'
         /\ \A q \in Procs \ {p} : at'[q] = at[q]
BY DEF UpInv, Goto, Everywhere

\* A command that fails, on its own.
LEMMA FailsKeeps ==
  ASSUME UpInv, NEW p \in DOMAIN scene.args, Fails(p), UNCHANGED <<scene, run, images, container>>
  PROVE  UpInv'
<1>1. p \in Procs
  BY ArgsProcs DEF UpInv
<1>2. at'[p] = "failed" /\ Alone(p) /\ Still
  BY <1>1, GotoDoes DEF Fails, Alone, Still, project, UpInv
<1>3. OfCommand(p)'
  BY <1>1, <1>2, FailKeeps DEF Fails, UpInv
<1> QED BY <1>1, <1>2, <1>3, StepKeeps DEF Fails, Built

\* A command that ends with an error (a raised ContainerBuildError) leaves the rest right.
LEMMA AbortsKeeps ==
  ASSUME UpInv, NEW p \in DOMAIN scene.args, Aborts(p)
  PROVE  UpInv'
BY FailsKeeps DEF Aborts

(***************************************************************************)
(* The bundle.                                                             *)
(***************************************************************************)
\* The function of no argument is the empty sequence.
LEMMA EmptyFunction ==
  /\ DOMAIN << >> = {}
  /\ \A f : DOMAIN f = {} /\ f = [x \in DOMAIN f |-> f[x]] => f = << >>
  /\ << >> = [x \in {} |-> x]
<1>1. DOMAIN << >> = {}
  OBVIOUS
<1>2. << >> = [x \in {} |-> x]
  OBVIOUS
<1>3. ASSUME NEW f, DOMAIN f = {}, f = [x \in DOMAIN f |-> f[x]] PROVE f = << >>
  BY <1>3, <1>1
<1> QED BY <1>1, <1>2, <1>3

\* What a command does to its own state, the project aside.
LEMMA BuildAlone ==
  ASSUME UpInv, NEW p \in Procs, NEW place, Goto(p, place),
         UNCHANGED <<project, scene, run>>,
         plan' = plan \/ \E q : plan' = [plan EXCEPT ![p] = q],
         bundle' = bundle \/ \E b : bundle' = [bundle EXCEPT ![p] = b]
  PROVE  Alone(p) /\ Still /\ at'[p] = place /\ run'[p] = run[p]
<1>1. at'[p] = place /\ Everywhere' /\ \A q \in Procs \ {p} : at'[q] = at[q]
  BY GotoDoes
<1>2. DOMAIN plan' = Procs /\ \A q \in Procs \ {p} : plan'[q] = plan[q]
  BY DEF UpInv
<1>3. DOMAIN bundle' = Procs /\ \A q \in Procs \ {p} : bundle'[q] = bundle[q]
  BY DEF UpInv
<1>4. run' = run /\ DOMAIN run = Procs
  BY DEF UpInv
<1> QED BY <1>1, <1>2, <1>3, <1>4 DEF Alone, Still, project

\* Opening the output: everything the plan selects is to be copied.
LEMMA OpenOutputKeeps ==
  ASSUME UpInv, NEW p \in DOMAIN scene.args, OpenOutput(p), UNCHANGED <<scene, run, images, container>>
  PROVE  UpInv'
<1>0. p \in Procs
  BY ArgsProcs DEF UpInv
<1>1. CASE Fails(p)
  BY <1>1, FailsKeeps
<1>2. CASE ~Fails(p)
  <2>1. /\ at[p] = "open"
        /\ Building(p, [NoBundle EXCEPT !.exists = TRUE, !.todo = InPathOrder(DOMAIN plan[p].selected)])
        /\ Goto(p, "check")
    BY <1>2 DEF OpenOutput, Requires
  <2>2. OfCommand(p)
    BY <1>0 DEF UpInv
  <2>3. Alone(p) /\ Still /\ at'[p] = "check" /\ run'[p] = run[p] /\ plan'[p] = plan[p]
    BY <1>0, <2>1, BuildAlone DEF Building
  <2>4. bundle'[p] = [NoBundle EXCEPT !.exists = TRUE, !.todo = InPathOrder(DOMAIN plan[p].selected)]
    BY <1>0, <2>1 DEF Building, UpInv
  <2>5. DOMAIN plan[p].selected \in SUBSET Files
    BY <2>2 DEF OfCommand, PlanTyped
  <2>6. PICK todo \in Seq(DOMAIN plan[p].selected) :
          todo = InPathOrder(DOMAIN plan[p].selected) /\ Range(todo) = DOMAIN plan[p].selected
    BY <2>5, InPathOrderFiles
  <2>7. /\ DOMAIN bundle'[p] = DOMAIN NoBundle
        /\ bundle'[p].todo = todo /\ bundle'[p].inventory = << >> /\ bundle'[p].archive = << >>
    BY <2>4, <2>6 DEF NoBundle
  <2>8. Flow(p)'
    BY <2>1, <2>2, <2>3 DEF OfCommand, Flow, IsCustom, Args, Still, Places, OfCustom, OfUp, Writing, Inspected
  <2>9. PlanTyped(p)' /\ AtWork(p)' /\ Excludes(p)' /\ Referred(p)'
    <3>1. HasPlan(p) /\ plan[p].todo = <<>>
      BY <2>1, <2>2 DEF HasPlan, Writing, OfCommand, AtWork, Chosen, Places, Choosing
    <3> QED BY <2>2, <2>3, <3>1, PlanFollows DEF OfCommand
  <2>10. Bundled(p)'
    <3>1. Copied(p)'
      BY <2>7, EmptyFunction DEF Copied, Copies
    <3>2. DOMAIN plan'[p].selected = DOMAIN bundle'[p].inventory \cup Range(bundle'[p].todo)
      BY <2>3, <2>6, <2>7, EmptyFunction
    <3>3. bundle'[p].todo \in Seq(DOMAIN plan'[p].selected)
      BY <2>3, <2>6, <2>7
    <3> QED BY <2>3, <2>7, <3>1, <3>2, <3>3 DEF Bundled, NoBundle
  <2>11. Payload(p)'
    BY <2>2, <2>3, PayloadFollows DEF OfCommand, Still, Inspected
  <2>12. OfCommand(p)'
    BY <2>8, <2>9, <2>10, <2>11 DEF OfCommand
  <2> QED BY <1>0, <2>1, <2>3, <2>12, StepKeeps DEF Built
<1> QED BY <1>1, <1>2

\* The elements of a sequence are its first one and those of the rest.
LEMMA HeadAndTail ==
  ASSUME NEW S, NEW s \in Seq(S), s # <<>>
  PROVE  Range(s) = {s[1]} \cup Range(Tail(s))
<1>1. PICK t \in Seq(S) : t = Tail(s)
  BY HeadTailProperties
<1>2. Len(s) \in Nat \ {0} /\ DOMAIN s = 1 .. Len(s)
  BY EmptySeq
<1>3. Len(t) = Len(s) - 1 /\ DOMAIN t = 1 .. Len(t) /\ \A i \in 1 .. Len(t) : t[i] = s[i + 1]
  BY <1>1, <1>2
<1>4. ASSUME NEW i \in 1 .. Len(s), i # 1 PROVE \E j \in 1 .. Len(t) : t[j] = s[i]
  <2>1. i - 1 \in 1 .. Len(t) /\ (i - 1) + 1 = i
    BY <1>2, <1>3, <1>4
  <2> QED BY <1>3, <2>1
<1>5. ASSUME NEW j \in 1 .. Len(t) PROVE \E i \in 1 .. Len(s) : s[i] = t[j]
  <2>1. j + 1 \in 1 .. Len(s)
    BY <1>2, <1>3
  <2> QED BY <1>3, <2>1
<1>6. 1 \in 1 .. Len(s)
  BY <1>2
<1>7. Range(s) = {s[i] : i \in 1 .. Len(s)} /\ Range(t) = {t[i] : i \in 1 .. Len(t)}
  BY <1>2, <1>3 DEF Range
<1>8. Range(s) \subseteq {s[1]} \cup Range(t)
  BY <1>4, <1>7
<1>9. {s[1]} \cup Range(t) \subseteq Range(s)
  BY <1>5, <1>6, <1>7
<1> QED BY <1>1, <1>8, <1>9

\* On an error the context goes and the command fails.
LEMMA CleanKeeps ==
  ASSUME UpInv, NEW p \in DOMAIN scene.args, CleanOutput(p), UNCHANGED <<scene, run, images, container>>
  PROVE  UpInv'
<1>0. p \in Procs
  BY ArgsProcs DEF UpInv
<1>1. Alone(p) /\ Still /\ at'[p] = "failed" /\ run'[p] = run[p] /\ plan' = plan
  BY <1>0, BuildAlone DEF CleanOutput, Building
<1>2. bundle'[p] = NoBundle
  BY <1>0 DEF CleanOutput, Building, UpInv
<1>3. OfCommand(p)'
  BY <1>0, <1>1, <1>2, FailKeeps DEF UpInv
<1> QED BY <1>0, <1>1, <1>3, StepKeeps DEF Built

\* A command that writes goes on writing: all but the bundle follows.
LEMMA WritingFollows ==
  ASSUME NEW p \in DOMAIN scene.args, OfCommand(p), Still,
         at[p] \in Writing, at'[p] \in Writing \cup {"archived", "done"}, at'[p] = "done" => Args(p).command # "up",
         plan'[p] = plan[p], run'[p] = run[p], Bundled(p)'
  PROVE  OfCommand(p)'
<1>1. Flow(p)'
  BY DEF OfCommand, Flow, IsCustom, Args, Still, Places, OfCustom, OfUp, Writing, Inspected
<1>2. PlanTyped(p)' /\ AtWork(p)' /\ Excludes(p)' /\ Referred(p)'
  <2>1. HasPlan(p) /\ plan[p].todo = <<>>
    BY DEF HasPlan, Writing, OfCommand, AtWork, Chosen, Places, Choosing
  <2>2. at'[p] \notin {"take", "chain"}
    BY DEF Writing
  <2> QED BY <2>1, <2>2, PlanFollows DEF OfCommand
<1>3. Payload(p)'
  <2>1. at'[p] \notin Inspected \cup {"compose", "run"}
    BY DEF Writing, Inspected
  <2> QED BY <2>1, PayloadFollows DEF OfCommand, Still
<1> QED BY <1>1, <1>2, <1>3 DEF OfCommand

\* A step of _write_bundle changes the bundle of its own command and nothing else.
LEMMA WritingKeeps ==
  ASSUME UpInv, NEW p \in DOMAIN scene.args, NEW place, Goto(p, place),
         at[p] \in Writing, place \in Writing \cup {"archived", "done"}, place = "done" => Args(p).command # "up",
         UNCHANGED <<project, plan, scene, run, images, container>>,
         bundle' = bundle \/ \E b : bundle' = [bundle EXCEPT ![p] = b],
         Bundled(p)'
  PROVE  UpInv'
<1>0. p \in Procs
  BY ArgsProcs DEF UpInv
<1>1. Alone(p) /\ Still /\ at'[p] = place /\ run'[p] = run[p] /\ plan'[p] = plan[p]
  BY <1>0, BuildAlone
<1>2. OfCommand(p)
  BY <1>0 DEF UpInv
<1>3. OfCommand(p)'
  BY <1>1, <1>2, WritingFollows
<1>4. at[p] \notin Built \cup {"wait", "done", "failed"}
  BY DEF Writing, Built
<1> QED BY <1>0, <1>1, <1>3, <1>4, StepKeeps

\* A source that has not moved: what it held when a directory was exchanged, was put back.
LEMMA CheckSourceKeeps ==
  ASSUME UpInv, NEW p \in DOMAIN scene.args, CheckSource(p), UNCHANGED <<scene, run, images, container>>
  PROVE  UpInv'
<1>0. p \in Procs
  BY ArgsProcs DEF UpInv
<1>1. CASE CleanOutput(p)
  BY <1>1, CleanKeeps
<1>2. CASE ~CleanOutput(p)
  <2> DEFINE f == Head(bundle[p].todo)
  <2>1. /\ at[p] = "check" /\ bundle[p].todo # <<>> /\ Unmoved(p, f)
        /\ Goto(p, "copy") /\ UNCHANGED <<project, plan, bundle>>
    BY <1>2 DEF CheckSource
  <2>2. OfCommand(p) /\ Project
    BY <1>0 DEF UpInv
  <2>3. at'[p] = "copy" /\ Still
    BY <1>0, <2>1, BuildAlone
  <2>4. bundle[p].todo \in Seq(DOMAIN plan[p].selected)
    BY <2>1, <2>2 DEF OfCommand, Bundled
  <2>5. f \in DOMAIN plan[p].selected
    BY <2>1, <2>4
  <2>6. f \in Files /\ FoundFor(f, plan[p].selected[f].data)
    BY <2>2, <2>5 DEF OfCommand, PlanTyped
  <2> HIDE DEF f
  <2>6a. PICK g : g = f
    OBVIOUS
  <2>7. ASSUME plan[p].selected[f].data = Outside PROVE ExchangedBack(g)'
    <3>1. Exchanged(f)
      <4>1. Outside.of # f
        BY <2>6, ProjectAssumption DEF Outside
      <4> QED BY <2>6, <2>7, <4>1 DEF FoundFor
    <3>2. \A d \in Above[f] \ {Root} : dirs[d].kind = "dir"
      BY <2>1 DEF Unmoved, SafeRegular, Real
    <3>3. ExchangedBack(f)
      BY <3>1, <3>2 DEF Exchanged, ExchangedBack
    <3>4. ExchangedBack(g)' <=> ExchangedBack(g)
      BY <2>3, ExchangesStay DEF Still
    <3> QED BY <2>6a, <3>3, <3>4
  <2>8. Bundled(p)'
    <3>1. Planned(p)' = Planned(p) /\ \A files : Copies(p, files)' <=> Copies(p, files)
      BY <2>1, SourcesStay
    <3>2. \A h : ExchangedAgain(h)' <=> ExchangedAgain(h)
      BY <2>3, ExchangesStay DEF Still
    <3>3. Copied(p)'
      BY <2>1, <2>2, <3>1, <3>2 DEF Copied, OfCommand, Bundled
    <3>4. plan'[p].selected[g].data = Outside => ExchangedBack(g)'
      BY <2>1, <2>6a, <2>7
    <3>5. Head(bundle'[p].todo) = g
      BY <2>1, <2>6a DEF f
    <3> QED BY <2>1, <2>2, <2>3, <3>1, <3>3, <3>4, <3>5 DEF OfCommand, Bundled, Archived
  <2> QED BY <2>1, <2>8, WritingKeeps DEF Writing
<1> QED BY <1>1, <1>2

\* Copying: the contents that were hashed then, and nothing else.
LEMMA CopySourceKeeps ==
  ASSUME UpInv, NEW p \in DOMAIN scene.args, CopySource(p), UNCHANGED <<scene, run, images, container>>
  PROVE  UpInv'
<1>0. p \in Procs
  BY ArgsProcs DEF UpInv
<1>1. CASE CleanOutput(p)
  BY <1>1, CleanKeeps
<1>2. CASE ~CleanOutput(p)
  <2> DEFINE f == Head(bundle[p].todo)
             e == Entry(f)
  <2>1. /\ at[p] = "copy" /\ bundle[p].exists /\ Unchanged(e, plan[p].selected[f])
        /\ Building(p, [bundle[p] EXCEPT !.todo = Tail(@), !.inventory = Put(@, f, e.data),
                                         !.context = Put(@, f, e.data)])
        /\ Goto(p, "check")
    BY <1>2 DEF CopySource
  <2>2. OfCommand(p) /\ Project
    BY <1>0 DEF UpInv
  <2>3. at'[p] = "check" /\ Still /\ plan'[p] = plan[p]
    BY <1>0, <2>1, BuildAlone DEF Building
  <2>4. /\ bundle[p].todo \in Seq(DOMAIN plan[p].selected) /\ bundle[p].todo # <<>>
        /\ DOMAIN plan[p].selected = DOMAIN bundle[p].inventory \cup Range(bundle[p].todo)
        /\ plan[p].selected[f].data = Outside => ExchangedBack(f)
        /\ Copied(p) /\ DOMAIN bundle[p] = DOMAIN NoBundle /\ bundle[p].archive = <<>>
    BY <2>1, <2>2 DEF OfCommand, Bundled, Archived
  <2>5. f \in DOMAIN plan[p].selected /\ f \in Files
    BY <2>2, <2>4 DEF OfCommand, PlanTyped
  <2>6. e.data = plan[p].selected[f].data
    BY <2>1 DEF Unchanged
  <2>7. PICK todo \in Seq(DOMAIN plan[p].selected) : todo = bundle[p].todo /\ todo # <<>> /\ f = todo[1]
    BY <2>4
  <2>8. ASSUME plan[p].selected[f].data = Outside PROVE ExchangedAgain(f)
    <3>1. PICK d \in Above[f] \ {Root} : dirs[d].moves > 1 /\ (dirs[d].kind = "dir" \/ dirs[d].moves > 2)
      BY <2>4, <2>8 DEF ExchangedBack
    <3>2. ~Real(Above[f])
      <4>1. disk[f].data # Outside
        BY <2>2, <2>5, ProjectAssumption DEF Project, Outside
      <4> QED BY <2>6, <2>8, <4>1 DEF Entry
    <3>3. PICK x \in Above[f] \ {Root} : dirs[x].kind # "dir"
      BY <3>2 DEF Real
    <3>4. x \in Dirs /\ d \in Dirs
      BY <2>5, ProjectAssumption
    <3>5. dirs[x].kind = "link" /\ dirs[x].moves # 0 /\ dirs[x].moves \in Nat /\ dirs[d].moves \in Nat
      BY <2>2, <3>3, <3>4, ProjectAssumption DEF Project
    <3>6. CASE x = d
      BY <3>1, <3>5, <3>6 DEF ExchangedAgain
    <3>7. CASE x # d
      BY <3>1, <3>5, <3>7 DEF ExchangedAgain
    <3> QED BY <3>6, <3>7
  <2> HIDE DEF e
  <2>9. /\ DOMAIN bundle'[p] = DOMAIN NoBundle /\ bundle'[p].todo = Tail(todo)
        /\ bundle'[p].inventory = Put(bundle[p].inventory, f, e.data)
        /\ bundle'[p].archive = <<>>
    BY <1>0, <2>1, <2>4, <2>7 DEF Building, UpInv, NoBundle
  <2> HIDE DEF f
  <2>10. /\ DOMAIN bundle'[p].inventory = {f} \cup DOMAIN bundle[p].inventory
         /\ bundle'[p].inventory[f] = plan[p].selected[f].data
         /\ \A g \in DOMAIN bundle[p].inventory : g # f => bundle'[p].inventory[g] = bundle[p].inventory[g]
         /\ bundle'[p].inventory = [g \in DOMAIN bundle'[p].inventory |-> bundle'[p].inventory[g]]
    BY <2>6, <2>9 DEF Put
  <2>11. Tail(todo) \in Seq(DOMAIN plan[p].selected) /\ Range(todo) = {f} \cup Range(Tail(todo))
    <3>1. PICK rest \in Seq(DOMAIN plan[p].selected) : rest = Tail(todo)
      BY <2>7, HeadTailProperties
    <3>2. Range(todo) = {f} \cup Range(rest)
      BY <2>7, <3>1, HeadAndTail
    <3> QED BY <3>1, <3>2
  <2>12. Copied(p)'
    <3>1. \A g : ExchangedAgain(g)' <=> ExchangedAgain(g)
      BY <2>3, ExchangesStay DEF Still
    <3>2. \A g \in DOMAIN bundle'[p].inventory : bundle'[p].inventory[g] = plan[p].selected[g].data
      BY <2>4, <2>10 DEF Copied, Copies
    <3>3. \A g \in DOMAIN bundle'[p].inventory : bundle'[p].inventory[g] = Outside => ExchangedAgain(g)
      BY <2>4, <2>8, <2>10 DEF Copied
    <3>4. DOMAIN bundle'[p].inventory \subseteq DOMAIN plan[p].selected
      BY <2>4, <2>5, <2>10 DEF Copied
    <3>5. Copies(p, bundle[p].inventory)'
      BY <2>3, <2>10, <3>2 DEF Copies
    <3> QED BY <2>3, <3>1, <3>3, <3>4, <3>5 DEF Copied
  <2>13. DOMAIN plan'[p].selected = DOMAIN bundle'[p].inventory \cup Range(bundle'[p].todo)
    BY <2>3, <2>4, <2>7, <2>9, <2>10, <2>11
  <2>14. Bundled(p)'
    BY <2>3, <2>9, <2>11, <2>12, <2>13 DEF Bundled
  <2>15. UNCHANGED <<project, plan>> /\ \E b : bundle' = [bundle EXCEPT ![p] = b]
    BY <2>1 DEF Building
  <2> QED BY <2>1, <2>14, <2>15, WritingKeeps DEF Writing
<1> QED BY <1>1, <1>2

\* All is copied: the inventory lists what the plan selected.
LEMMA WriteRestKeeps ==
  ASSUME UpInv, NEW p \in DOMAIN scene.args, WriteRest(p), UNCHANGED <<scene, run, images, container>>
  PROVE  UpInv'
<1>0. p \in Procs
  BY ArgsProcs DEF UpInv
<1>1. CASE CleanOutput(p)
  BY <1>1, CleanKeeps
<1>2. CASE ~CleanOutput(p)
  <2>1. /\ at[p] = "check" /\ bundle[p].todo = <<>>
        /\ Goto(p, "bundled") /\ UNCHANGED <<project, plan, bundle>>
    BY <1>2 DEF WriteRest
  <2>2. OfCommand(p)
    BY <1>0 DEF UpInv
  <2>3. at'[p] = "bundled" /\ Still
    BY <1>0, <2>1, BuildAlone
  <2>4. /\ DOMAIN plan[p].selected = DOMAIN bundle[p].inventory \cup Range(bundle[p].todo)
        /\ Copied(p) /\ DOMAIN bundle[p] = DOMAIN NoBundle /\ bundle[p].archive = <<>>
    BY <2>1, <2>2 DEF OfCommand, Bundled, Archived
  <2>5. Range(bundle[p].todo) = {}
    BY <2>1, EmptyFunction DEF Range
  <2>6. Copied(p)'
    <3>1. \A files : Copies(p, files)' <=> Copies(p, files)
      BY <2>1, SourcesStay
    <3>2. \A g : ExchangedAgain(g)' <=> ExchangedAgain(g)
      BY <2>3, ExchangesStay DEF Still
    <3> QED BY <2>1, <2>4, <3>1, <3>2 DEF Copied
  <2>7. Bundled(p)'
    BY <2>1, <2>3, <2>4, <2>5, <2>6 DEF Bundled
  <2> QED BY <2>1, <2>7, WritingKeeps DEF Writing
<1> QED BY <1>1, <1>2

\* What goes to the builder is what was planned: the context is compared with the inventory.
LEMMA ArchiveKeeps ==
  ASSUME UpInv, NEW p \in DOMAIN scene.args, ArchiveContext(p), UNCHANGED <<scene, run, images, container>>
  PROVE  UpInv'
<1>0. p \in Procs
  BY ArgsProcs DEF UpInv
<1>1. CASE Fails(p)
  BY <1>1, FailsKeeps
<1>2. CASE ~Fails(p)
  <2>1. /\ at[p] = "bundled" /\ bundle[p].context = bundle[p].inventory
        /\ Building(p, [bundle[p] EXCEPT !.archive = bundle[p].context])
        /\ Goto(p, "archived")
    BY <1>2 DEF ArchiveContext, Archive, Requires
  <2>2. OfCommand(p)
    BY <1>0 DEF UpInv
  <2>3. at'[p] = "archived" /\ Still /\ plan'[p] = plan[p]
    BY <1>0, <2>1, BuildAlone DEF Building
  <2>4. /\ Copied(p) /\ DOMAIN bundle[p] = DOMAIN NoBundle
        /\ DOMAIN bundle[p].inventory = DOMAIN plan[p].selected
    BY <2>1, <2>2 DEF OfCommand, Bundled
  <2>5. bundle[p].inventory = Planned(p)
    BY <2>4 DEF Copied, Copies, Planned
  <2>6. DOMAIN bundle'[p] = DOMAIN NoBundle /\ bundle'[p].archive = Planned(p)
    BY <1>0, <2>1, <2>4, <2>5 DEF Building, UpInv, NoBundle
  <2>7. Planned(p)' = Planned(p)
    BY <2>3, SourcesStay
  <2>8. \A g : ExchangedAgain(g)' <=> ExchangedAgain(g)
    BY <2>3, ExchangesStay DEF Still
  <2>9. \A f \in DOMAIN bundle'[p].archive : bundle'[p].archive[f] = Outside => ExchangedAgain(f)'
    BY <2>4, <2>5, <2>6, <2>8 DEF Copied
  <2>10. Bundled(p)'
    BY <2>3, <2>6, <2>7, <2>9 DEF Bundled, Archived
  <2>11. UNCHANGED <<project, plan>> /\ \E b : bundle' = [bundle EXCEPT ![p] = b]
    BY <2>1 DEF Building
  <2> QED BY <2>1, <2>10, <2>11, WritingKeeps DEF Writing
<1> QED BY <1>1, <1>2

\* `dockerfile` leaves the context where it is.
LEMMA WriteDoneKeeps ==
  ASSUME UpInv, NEW p \in DOMAIN scene.args, WriteDone(p), UNCHANGED <<scene, run, images, container>>
  PROVE  UpInv'
<1>0. p \in Procs
  BY ArgsProcs DEF UpInv
<1>1. /\ at[p] = "bundled" /\ Args(p).command = "dockerfile" /\ Goto(p, "done")
      /\ UNCHANGED <<project, plan, bundle>>
  BY DEF WriteDone
<1>2. at'[p] = "done" /\ Still
  BY <1>0, <1>1, BuildAlone
<1>3. Bundled(p)'
  <2>1. Bundled(p)
    BY <1>0 DEF UpInv, OfCommand
  <2> QED BY <1>1, <1>2, <2>1, BundleFollows DEF Archived
<1> QED BY <1>1, <1>3, WritingKeeps DEF Writing

(***************************************************************************)
(* Planning.                                                               *)
(***************************************************************************)

\* A planning step is right when it leaves the plan right and loses nothing that is to come.
LEMMA PlanningKeeps ==
  ASSUME UpInv, NEW p \in DOMAIN scene.args, NEW place,
         at[p] \in {"config"} \cup Choosing, place \in Choosing \cup {"planned", "open"}, at'[p] = place,
         Alone(p), UNCHANGED <<project, bundle, scene, run, images, container>>,
         plan'[p].final = plan[p].final,
         place = "planned" => ~plan[p].final, place = "open" => plan[p].final,
         plan[p].final => \A f : IsThere(p, f) => IsThere(p, f)',
         PlanTyped(p)', AtWork(p)', Excludes(p)', Referred(p)'
  PROVE  UpInv'
<1>0. p \in Procs /\ Still
  BY ArgsProcs DEF UpInv, project, Still
<1>1. bundle'[p] = bundle[p] /\ run'[p] = run[p]
  OBVIOUS
<1>2. OfCommand(p)
  BY <1>0 DEF UpInv
<1>3. (IsCustom(p)' <=> IsCustom(p)) /\ Args(p)' = Args(p) /\ AuthRefs' = AuthRefs
      /\ \A payload : ToCompose(p, payload)' = ToCompose(p, payload)
  BY DEF IsCustom, Args, AuthRefs, ToCompose
<1>4. ~IsCustom(p)
  BY <1>2 DEF OfCommand, Flow, OfCustom, OfUp, Inspected, Choosing
<1>5. Flow(p)'
  BY <1>0, <1>1, <1>2, <1>3, <1>4 DEF OfCommand, Flow, Places, OfCustom, OfUp, Writing, Inspected, Choosing
<1>6. Bundled(p)'
  BY <1>1, <1>2, <1>3 DEF OfCommand, Bundled, Archived, Choosing
<1>7. Payload(p)'
  <2>1. Authorised(p)'
    BY <1>1, <1>2, <1>3, <1>4 DEF OfCommand, Payload, Authorised
  <2> QED BY <1>1, <1>2, <1>3, <2>1 DEF OfCommand, Payload, Inspected, Choosing
<1>8. OfCommand(p)'
  BY <1>5, <1>6, <1>7 DEF OfCommand
<1>9. at[p] \notin Built
  BY DEF Built, Choosing
<1> QED BY <1>0, <1>8, <1>9, StepKeeps DEF Built

\* All but the first element of s is in u.
RestIn(s, u) == \A i \in DOMAIN s : i = 1 \/ \E j \in DOMAIN u : u[j] = s[i]

\* What comes after the first request comes also when others are put before it.
LEMMA RestComes ==
  ASSUME NEW S, NEW s \in Seq(S), s # <<>>, NEW front \in Seq(S), NEW u, u = front \o Tail(s)
  PROVE  u \in Seq(S) /\ RestIn(s, u)
<1>1. PICK t \in Seq(S) : t = Tail(s)
  BY HeadTailProperties
<1>2. Len(s) \in Nat \ {0} /\ DOMAIN s = 1 .. Len(s)
  BY EmptySeq
<1>3. Len(t) = Len(s) - 1 /\ \A i \in 1 .. Len(t) : t[i] = s[i + 1]
  BY <1>1, <1>2
<1>4. u \in Seq(S) /\ Len(u) = Len(front) + Len(t) /\ \A j \in 1 .. Len(t) : u[Len(front) + j] = t[j]
  <2>1. u = front \o t
    BY <1>1
  <2>2. Len(front) \in Nat /\ Len(t) \in Nat
    OBVIOUS
  <2>3. Len(u) = Len(front) + Len(t)
    BY <2>1, ConcatProperties
  <2>4. ASSUME NEW j \in 1 .. Len(t) PROVE u[Len(front) + j] = t[j]
    <3>1. Len(front) + j \in 1 .. (Len(front) + Len(t)) /\ ~(Len(front) + j <= Len(front))
          /\ (Len(front) + j) - Len(front) = j
      BY <2>2
    <3> QED BY <2>1, <2>3, <3>1, ConcatProperties
  <2> QED BY <2>1, <2>3, <2>4
<1>5. ASSUME NEW i \in 1 .. Len(s), i # 1 PROVE \E j \in 1 .. Len(u) : u[j] = s[i]
  <2>1. i - 1 \in 1 .. Len(t) /\ (i - 1) + 1 = i /\ Len(front) \in Nat
    BY <1>2, <1>3, <1>5
  <2>2. u[Len(front) + (i - 1)] = s[i]
    BY <1>3, <1>4, <2>1
  <2>3. Len(front) + (i - 1) \in 1 .. Len(u)
    BY <1>4, <2>1
  <2> QED BY <2>2, <2>3
<1>6. DOMAIN u = 1 .. Len(u)
  BY <1>4
<1> QED BY <1>2, <1>4, <1>5, <1>6 DEF RestIn

\* A step that looks at a request and puts others in its place.
LEMMA Advances ==
  ASSUME UpInv, NEW p \in Procs, at[p] = "select", plan[p].todo # <<>>,
         Head(plan[p].todo).how # "file",
         NEW front \in Seq(Wanted), Still, DOMAIN plan'[p] = DOMAIN NoPlan,
         plan'[p].todo = front \o Tail(plan[p].todo),
         plan'[p].selected = plan[p].selected, plan'[p].excluded = plan[p].excluded,
         plan'[p].settings = plan[p].settings,
         plan'[p].installs \cup plan'[p].roots \subseteq Dirs,
         at'[p] = "select"
  PROVE  /\ PlanTyped(p)' /\ AtWork(p)' /\ Excludes(p)' /\ Referred(p)'
         /\ \A f : IsThere(p, f) => IsThere(p, f)'
<1>0. OfCommand(p)
  BY DEF UpInv
<1>1. PICK todo \in Seq(Wanted) : todo = plan[p].todo /\ todo # <<>> /\ todo[1].how # "file"
  BY <1>0 DEF OfCommand, PlanTyped
<1>2. PICK u : u = front \o Tail(todo)
  OBVIOUS
<1>3. u \in Seq(Wanted) /\ RestIn(todo, u)
  BY <1>1, <1>2, RestComes
<1>4. plan'[p].todo = u
  BY <1>1, <1>2
<1>5. \A f : Coming(p, f) => Coming(p, f)'
  BY <1>1, <1>3, <1>4 DEF Coming, RestIn
<1>6. \A f : ComingAsSource(p, f) => ComingAsSource(p, f)'
  BY <1>1, <1>3, <1>4 DEF ComingAsSource, RestIn
<1>7. \A f : IsThere(p, f) => IsThere(p, f)'
  BY <1>5 DEF IsThere
<1>8. \A f : IsSource(p, f) => IsSource(p, f)'
  BY <1>6 DEF IsSource
<1>9. \A f, data : FoundFor(f, data)' <=> FoundFor(f, data)
  BY ExchangesStay DEF FoundFor, Still
<1>10. PlanTyped(p)'
  BY <1>0, <1>3, <1>4, <1>9 DEF OfCommand, PlanTyped
<1>11. AtWork(p)'
  BY DEF AtWork, Chosen, Choosing
<1>12. HasPlan(p) /\ HasPlan(p)'
  BY DEF HasPlan, Choosing
<1>13. Excludes(p)'
  <2>1. \A f : (Kept(p, f)' <=> Kept(p, f)) /\ (KeptHere(p, f)' <=> KeptHere(p, f))
    BY DEF Kept, KeptHere, Stayed, Still
  <2> QED BY <1>0, <1>12, <2>1 DEF OfCommand, Excludes, Still
<1>14. Referred(p)'
  <2>1. References(plan'[p].settings) = References(plan[p].settings)
    OBVIOUS
  <2>2. References(plan[p].settings)' = References(plan'[p].settings)
    BY DEF References
  <2> QED BY <1>0, <1>8, <1>12, <2>1, <2>2 DEF OfCommand, Referred
<1> QED BY <1>7, <1>10, <1>11, <1>13, <1>14

\* The sequences of no element and of one.
LEMMA ShortSequences ==
  ASSUME NEW S
  PROVE  <<>> \in Seq(S) /\ \A x \in S : <<x>> \in Seq(S)
OBVIOUS

\* A look that puts other requests in the place of one.
LEMMA SelectKeeps ==
  ASSUME UpInv, NEW p \in DOMAIN scene.args, at[p] = "select", plan[p].todo # <<>>,
         Head(plan[p].todo).how # "file",
         NEW front \in Seq(Wanted), NEW q, Planning(p, q), UNCHANGED <<at, scene, run, images, container>>,
         DOMAIN q = DOMAIN NoPlan, q.todo = front \o Tail(plan[p].todo), q.selected = plan[p].selected,
         q.excluded = plan[p].excluded, q.settings = plan[p].settings, q.final = plan[p].final,
         q.installs \cup q.roots \subseteq Dirs
  PROVE  UpInv'
<1>0. p \in Procs /\ Still
  BY ArgsProcs DEF UpInv, Planning, project, Still
<1>1. plan'[p] = q /\ at'[p] = "select" /\ Alone(p) /\ UNCHANGED <<project, bundle>>
  BY <1>0 DEF Planning, UpInv, Alone, Everywhere
<1>2. /\ PlanTyped(p)' /\ AtWork(p)' /\ Excludes(p)' /\ Referred(p)'
      /\ \A f : IsThere(p, f) => IsThere(p, f)'
  <2>1. /\ DOMAIN plan'[p] = DOMAIN NoPlan /\ plan'[p].todo = front \o Tail(plan[p].todo)
        /\ plan'[p].selected = plan[p].selected /\ plan'[p].excluded = plan[p].excluded
        /\ plan'[p].settings = plan[p].settings /\ plan'[p].installs \cup plan'[p].roots \subseteq Dirs
    BY <1>1
  <2> QED BY <1>0, <1>1, <2>1, Advances
<1> QED BY <1>1, <1>2, PlanningKeeps DEF Choosing

\* The state of a command that looks at its first request.
LEMMA Looking ==
  ASSUME UpInv, NEW p \in DOMAIN scene.args, at[p] \in Choosing, plan[p].todo # <<>>
  PROVE  /\ p \in Procs /\ OfCommand(p) /\ DOMAIN plan[p] = DOMAIN NoPlan
         /\ plan[p].todo \in Seq(Wanted) /\ Head(plan[p].todo) \in Wanted
         /\ plan[p].installs \subseteq Dirs /\ plan[p].roots \subseteq Dirs
<1>1. p \in Procs
  BY ArgsProcs DEF UpInv
<1>2. OfCommand(p)
  BY <1>1 DEF UpInv
<1>3. plan[p].todo \in Seq(Wanted) /\ DOMAIN plan[p] = DOMAIN NoPlan
      /\ plan[p].installs \subseteq Dirs /\ plan[p].roots \subseteq Dirs
  BY <1>2 DEF OfCommand, PlanTyped
<1>4. Head(plan[p].todo) \in Wanted
  BY <1>3, HeadTailProperties
<1> QED BY <1>1, <1>2, <1>3, <1>4

\* A request that finds nothing to select is dropped from the front.
LEMMA SkipKeeps ==
  ASSUME UpInv, NEW p \in DOMAIN scene.args, at[p] = "select", plan[p].todo # <<>>,
         Head(plan[p].todo).how # "file", Skip(p), UNCHANGED <<scene, run, images, container>>
  PROVE  UpInv'
<1>1. DOMAIN plan[p] = DOMAIN NoPlan /\ plan[p].todo \in Seq(Wanted)
      /\ plan[p].installs \subseteq Dirs /\ plan[p].roots \subseteq Dirs
  BY Looking DEF Choosing
<1>2. PICK q : q = [plan[p] EXCEPT !.todo = Tail(@)]
  OBVIOUS
<1>3. PICK front \in Seq(Wanted) : front = <<>>
  BY ShortSequences
<1>4. q.todo = front \o Tail(plan[p].todo)
  <2>1. PICK t \in Seq(Wanted) : t = Tail(plan[p].todo)
    BY <1>1, HeadTailProperties
  <2>2. <<>> \o t = t
    BY ConcatEmptySeq
  <2>3. q.todo = t
    BY <1>1, <1>2, <2>1 DEF NoPlan
  <2> QED BY <1>3, <2>1, <2>2, <2>3
<1>5. Planning(p, q) /\ UNCHANGED at
  BY <1>2 DEF Skip
<1>6. /\ DOMAIN q = DOMAIN NoPlan /\ q.selected = plan[p].selected /\ q.excluded = plan[p].excluded
      /\ q.settings = plan[p].settings /\ q.final = plan[p].final /\ q.installs \cup q.roots \subseteq Dirs
  BY <1>1, <1>2
<1> QED BY <1>4, <1>5, <1>6, SelectKeeps

\* The files of a directory become requests, each of a file.
LEMMA MembersWanted ==
  ASSUME NEW d, NEW reason \in Reasons
  PROVE  Members(d, reason) \in Seq(Wanted)
<1> DEFINE files == {f \in Files : d \in Above[f] /\ disk[f].kind # "none"}
<1>1. PICK found \in Seq(files) : found = InPathOrder(files)
  BY InPathOrderFiles
<1>2. Members(d, reason) = [i \in 1 .. Len(found) |-> Request(found[i], reason, "member")]
  BY <1>1 DEF Members
<1>3. \A i \in 1 .. Len(found) : found[i] \in Files
  OBVIOUS
<1>4. \A f \in Files : Request(f, reason, "member") \in Wanted
  BY DEF Request, Wanted, Looks
<1>5. Len(found) \in Nat
  OBVIOUS
<1> QED BY <1>2, <1>3, <1>4, <1>5

\* A package or a tree is replaced by requests for its files (_select_tree).
LEMMA ExpandKeeps ==
  ASSUME UpInv, NEW p \in DOMAIN scene.args, at[p] = "select", plan[p].todo # <<>>,
         Head(plan[p].todo).how # "file", Expand(p, Head(plan[p].todo)), UNCHANGED <<scene, run, images, container>>
  PROVE  UpInv'
<1> DEFINE r == Head(plan[p].todo)
<1>1. DOMAIN plan[p] = DOMAIN NoPlan /\ r \in Wanted
      /\ plan[p].installs \subseteq Dirs /\ plan[p].roots \subseteq Dirs
  BY Looking DEF Choosing
<1>2. CASE Fails(p)
  BY <1>2, FailsKeeps
<1>3. CASE ~Fails(p)
  <2>1. PICK front \in Seq(Wanted) : front = Members(r.what, r.reason)
    BY <1>1, MembersWanted DEF Wanted
  <2>2. PICK q : q = [plan[p] EXCEPT !.todo = Members(r.what, r.reason) \o Tail(@)]
    OBVIOUS
  <2>3. Planning(p, q) /\ UNCHANGED at
    BY <1>3, <2>2 DEF Expand, Requires
  <2>4. /\ DOMAIN q = DOMAIN NoPlan /\ q.todo = front \o Tail(plan[p].todo)
        /\ q.selected = plan[p].selected /\ q.excluded = plan[p].excluded
        /\ q.settings = plan[p].settings /\ q.final = plan[p].final /\ q.installs \cup q.roots \subseteq Dirs
    BY <1>1, <2>1, <2>2 DEF NoPlan
  <2> HIDE DEF r
  <2> QED BY <2>3, <2>4, SelectKeeps
<1> QED BY <1>2, <1>3

\* A local dependency is recorded as installed or as a root of the path, and its files requested.
LEMMA ClassifyKeeps ==
  ASSUME UpInv, NEW p \in DOMAIN scene.args, at[p] = "select", plan[p].todo # <<>>,
         Head(plan[p].todo).how = "local", Classify(p, Head(plan[p].todo)), UNCHANGED <<scene, run, images, container>>
  PROVE  UpInv'
<1> DEFINE r == Head(plan[p].todo)
<1>1. DOMAIN plan[p] = DOMAIN NoPlan /\ r \in Wanted
      /\ plan[p].installs \subseteq Dirs /\ plan[p].roots \subseteq Dirs
  BY Looking DEF Choosing
<1>2. CASE Fails(p)
  BY <1>2, FailsKeeps
<1>3. CASE ~Fails(p)
  <2>1. r.what \in Dirs /\ r.reason \in Reasons /\ r.how = "local"
    BY <1>1 DEF Wanted
  <2>2. PICK t : t = Request(r.what, r.reason, "tree")
    OBVIOUS
  <2>3. t \in Wanted
    BY <2>1, <2>2 DEF Request, Wanted, Looks
  <2>4. PICK front \in Seq(Wanted) : front = <<t>>
    BY <2>3, ShortSequences
  <2>5. PICK q : q = [plan[p] EXCEPT
                !.todo = <<Request(r.what, r.reason, "tree")>> \o Tail(@),
                !.installs = IF Exists(MetaOf[r.what]) THEN @ \cup {r.what} ELSE @,
                !.roots = IF Exists(MetaOf[r.what]) THEN @ ELSE @ \cup {r.what}]
    OBVIOUS
  <2>6. Planning(p, q) /\ UNCHANGED at
    BY <1>3, <2>5 DEF Classify, Requires
  <2>7. /\ DOMAIN q = DOMAIN NoPlan /\ q.todo = front \o Tail(plan[p].todo)
        /\ q.selected = plan[p].selected /\ q.excluded = plan[p].excluded
        /\ q.settings = plan[p].settings /\ q.final = plan[p].final
    BY <1>1, <2>2, <2>4, <2>5 DEF NoPlan
  <2>8. q.installs \cup q.roots \subseteq Dirs
    <3>1. q.installs \subseteq plan[p].installs \cup {r.what} /\ q.roots \subseteq plan[p].roots \cup {r.what}
      BY <1>1, <2>5 DEF NoPlan
    <3> QED BY <1>1, <2>1, <3>1
  <2>9. r.how # "file"
    BY <2>1
  <2> QED BY <2>6, <2>7, <2>8, <2>9, SelectKeeps
<1> QED BY <1>2, <1>3

\* A file that is wanted and not excluded is taken next.
LEMMA AdmitKeeps ==
  ASSUME UpInv, NEW p \in DOMAIN scene.args, at[p] = "select", plan[p].todo # <<>>,
         Head(plan[p].todo).how \in Looks, Head(plan[p].todo).what \in Files,
         Admit(p, Head(plan[p].todo)), UNCHANGED <<scene, run, images, container>>
  PROVE  UpInv'
<1> DEFINE r == Head(plan[p].todo)
<1>0. p \in Procs /\ OfCommand(p)
  BY Looking DEF Choosing
<1>1. CASE Fails(p)
  BY <1>1, FailsKeeps
<1>2. CASE ~Fails(p)
  <2>1. r.what \notin plan[p].excluded /\ Goto(p, "take") /\ UNCHANGED <<project, plan, bundle>>
    BY <1>2 DEF Admit, Requires
  <2>2. Alone(p) /\ Still /\ at'[p] = "take" /\ plan'[p] = plan[p]
    BY <1>0, <2>1, BuildAlone
  <2>3. PlanTyped(p)'
    BY <1>0, <2>2, PlanTypedStays DEF OfCommand, Still
  <2>4. AtWork(p)'
    BY <2>1, <2>2 DEF AtWork, Chosen, Choosing
  <2>5. HasPlan(p)
    BY DEF HasPlan, Choosing
  <2>6. Excludes(p)'
    BY <1>0, <2>2, <2>5, ExcludesStays DEF OfCommand
  <2>7. Referred(p)'
    BY <1>0, <2>2, <2>5, ReferredStays DEF OfCommand
  <2>8. \A f : IsThere(p, f) => IsThere(p, f)'
    BY <2>2, SourcesStay
  <2> HIDE DEF r
  <2> QED BY <2>1, <2>2, <2>3, <2>4, <2>6, <2>7, <2>8, PlanningKeeps DEF Choosing
<1> QED BY <1>1, <1>2

\* A look at the file requested first: refused, skipped, expanded or about to be taken.
LEMMA LookKeeps ==
  ASSUME UpInv, NEW p \in DOMAIN scene.args, Look(p), UNCHANGED <<scene, run, images, container>>
  PROVE  UpInv'
<1>1. at[p] = "select" /\ plan[p].todo # <<>>
  BY DEF Look
<1>2. PICK r : r = Head(plan[p].todo)
  OBVIOUS
<1>3. r \in Wanted
  BY <1>1, <1>2, Looking DEF Choosing
<1>4. \/ r.how = "tree" /\ Expand(p, r)
      \/ r.how = "local" /\ Classify(p, r)
      \/ r.how \in {"file", "package"} /\ Admit(p, r)
      \/ r.how = "maybe" /\ Exists(r.what) /\ Admit(p, r)
      \/ r.how = "maybe" /\ ~Exists(r.what) /\ Skip(p)
      \/ r.how = "member" /\ Skip(p)
      \/ r.how = "member" /\ Admit(p, r)
      \/ Fails(p)
  BY <1>2 DEF Look
<1>5. /\ r.how \in {"file", "package", "member"} => r.what \in Files
      /\ r.how = "maybe" /\ Exists(r.what) => r.what \in Files
  BY <1>3 DEF Wanted, Looks, Exists
<1>6. CASE r.how = "tree" /\ Expand(p, r)
  BY <1>1, <1>2, <1>6, ExpandKeeps
<1>7. CASE r.how = "local" /\ Classify(p, r)
  BY <1>1, <1>2, <1>7, ClassifyKeeps
<1>8. CASE Admit(p, r) /\ (r.how \in {"file", "package", "member"} \/ (r.how = "maybe" /\ Exists(r.what)))
  BY <1>1, <1>2, <1>5, <1>8, AdmitKeeps DEF Looks
<1>9. CASE Skip(p) /\ r.how \in {"maybe", "member"}
  BY <1>1, <1>2, <1>9, SkipKeeps
<1>10. CASE Fails(p)
  BY <1>10, FailsKeeps
<1> QED BY <1>4, <1>6, <1>7, <1>8, <1>9, <1>10

\* What is read of a file: its own contents, or those of an exchanged directory.
LEMMA ReadsFor ==
  ASSUME Project, NEW f \in Files
  PROVE  FoundFor(f, Entry(f).data)
<1>1. CASE Real(Above[f])
  BY <1>1 DEF Entry, Project, FoundFor
<1>2. CASE ~Real(Above[f])
  <2>1. PICK d \in Above[f] \ {Root} : dirs[d].kind # "dir"
    BY <1>2 DEF Real
  <2>2. d \in Dirs
    BY ProjectAssumption
  <2>3. dirs[d].kind = "link" /\ dirs[d].moves # 0 /\ dirs[d].moves \in 0 .. MaxEdits
    BY <2>1, <2>2 DEF Project
  <2>4. dirs[d].moves > 0
    BY <2>3, ProjectAssumption
  <2>5. Exchanged(f)
    BY <2>3, <2>4 DEF Exchanged
  <2>6. Outside \in Contents
    BY ProjectAssumption DEF Outside, Contents
  <2> QED BY <1>2, <2>5, <2>6 DEF Entry, Elsewhere, FoundFor
<1> QED BY <1>1, <1>2

\* A file is taken: identity and contents as they are.
LEMMA TakeKeeps ==
  ASSUME UpInv, NEW p \in DOMAIN scene.args, Take(p), UNCHANGED <<scene, run, images, container>>
  PROVE  UpInv'
<1>0. p \in Procs /\ Project /\ OfCommand(p)
  BY ArgsProcs DEF UpInv
<1>1. CASE Fails(p)
  BY <1>1, FailsKeeps
<1>2. CASE ~Fails(p)
  <2>1. PICK f : f = Head(plan[p].todo).what
    OBVIOUS
  <2>2. PICK t : t = [id |-> Identity(Entry(f)), data |-> Entry(f).data]
    OBVIOUS
  <2>3. /\ at[p] = "take" /\ Goto(p, "chain")
        /\ Planning(p, [plan[p] EXCEPT !.taken = t])
    BY <1>2, <2>1, <2>2 DEF Take, Requires
  <2>4. /\ plan[p].todo # <<>> /\ Head(plan[p].todo).how \in Looks /\ f \in Files \ plan[p].excluded
        /\ DOMAIN plan[p] = DOMAIN NoPlan
    BY <1>0, <2>1, <2>3 DEF OfCommand, AtWork, PlanTyped
  <2>5. Alone(p) /\ Still /\ at'[p] = "chain" /\ UNCHANGED <<project, bundle>>
    BY <1>0, <2>3, BuildAlone DEF Planning
  <2>6. plan'[p] = [plan[p] EXCEPT !.taken = t]
    BY <1>0, <2>3 DEF Planning, UpInv
  <2>7. /\ DOMAIN plan'[p] = DOMAIN NoPlan /\ plan'[p].taken = t
        /\ plan'[p].todo = plan[p].todo /\ plan'[p].selected = plan[p].selected
        /\ plan'[p].excluded = plan[p].excluded /\ plan'[p].settings = plan[p].settings
        /\ plan'[p].installs = plan[p].installs /\ plan'[p].roots = plan[p].roots
        /\ plan'[p].final = plan[p].final
    BY <2>4, <2>6 DEF NoPlan
  <2>8. \A g, data : FoundFor(g, data)' <=> FoundFor(g, data)
    BY <2>5, ExchangesStay DEF FoundFor, Still
  <2>9. PlanTyped(p)'
    BY <1>0, <2>7, <2>8 DEF OfCommand, PlanTyped
  <2>10. AtWork(p)'
    <3>1. FoundFor(f, t.data)
      BY <1>0, <2>2, <2>4, ReadsFor
    <3>2. FoundFor(Head(plan[p].todo).what, plan[p].taken.data)' <=> FoundFor(Head(plan[p].todo).what, plan'[p].taken.data)
      BY <2>1, <2>5, <2>7, ExchangesStay DEF FoundFor, Still
    <3> QED BY <2>1, <2>4, <2>5, <2>7, <3>1, <3>2 DEF AtWork, Chosen, Choosing
  <2>11. HasPlan(p) /\ HasPlan(p)'
    BY <2>3, <2>5 DEF HasPlan, Choosing
  <2>12. Excludes(p)'
    <3>1. \A g : (Kept(p, g)' <=> Kept(p, g)) /\ (KeptHere(p, g)' <=> KeptHere(p, g))
      BY <2>5, <2>7 DEF Kept, KeptHere, Stayed, Still
    <3> QED BY <1>0, <2>5, <2>7, <2>11, <3>1 DEF OfCommand, Excludes, Still
  <2>13. \A g : (IsThere(p, g)' <=> IsThere(p, g)) /\ (IsSource(p, g)' <=> IsSource(p, g))
    BY <2>7 DEF IsThere, IsSource, Coming, ComingAsSource
  <2>14. Referred(p)'
    <3>1. References(plan[p].settings)' = References(plan[p].settings)
      BY <2>7 DEF References
    <3> QED BY <1>0, <2>11, <2>13, <3>1 DEF OfCommand, Referred
  <2> QED BY <2>3, <2>5, <2>7, <2>9, <2>10, <2>12, <2>13, <2>14, PlanningKeeps DEF Choosing
<1> QED BY <1>1, <1>2

\* The file that was taken is selected: with one reason more, and nothing that was to come is lost.
LEMMA ChainKeeps ==
  ASSUME UpInv, NEW p \in DOMAIN scene.args, Chain(p), UNCHANGED <<scene, run, images, container>>
  PROVE  UpInv'
<1>0. p \in Procs /\ Project /\ OfCommand(p)
  BY ArgsProcs DEF UpInv
<1>1. CASE Fails(p)
  BY <1>1, FailsKeeps
<1>2. CASE ~Fails(p)
  <2>0. at[p] = "chain"
    BY DEF Chain
  <2>1. PICK r : r = Head(plan[p].todo)
    OBVIOUS
  <2>2. /\ plan[p].todo # <<>> /\ r.how \in Looks /\ r.what \in Files \ plan[p].excluded
        /\ FoundFor(r.what, plan[p].taken.data)
        /\ DOMAIN plan[p] = DOMAIN NoPlan /\ plan[p].todo \in Seq(Wanted) /\ r \in Wanted
    BY <1>0, <2>0, <2>1, Looking DEF OfCommand, AtWork, Choosing
  <2>3. PICK f : f = r.what
    OBVIOUS
  <2>4. PICK source : source =
          [id |-> plan[p].taken.id, data |-> plan[p].taken.data,
           chain |-> [d \in Above[f] |-> dirs[d].ino],
           reasons |-> {r.reason} \cup (IF f \in DOMAIN plan[p].selected
                                          THEN plan[p].selected[f].reasons ELSE {})]
    OBVIOUS
  <2>5. PICK package : package =
          IF r.reason \in {"graph", "graph-hook"} /\ r.how # "package" /\ Exists(InitOf[f])
            THEN <<Request(InitOf[f], r.reason, "package")>> ELSE <<>>
    OBVIOUS
  <2>6. /\ Goto(p, "select")
        /\ Planning(p, [plan[p] EXCEPT !.selected = Put(@, f, source), !.taken = <<>>, !.todo = package \o Tail(@)])
    BY <1>2, <2>1, <2>3, <2>4, <2>5 DEF Chain, Requires
  <2>7. Alone(p) /\ Still /\ at'[p] = "select" /\ UNCHANGED <<project, bundle>>
    BY <1>0, <2>6, BuildAlone DEF Planning
  <2>8. plan'[p] = [plan[p] EXCEPT !.selected = Put(@, f, source), !.taken = <<>>, !.todo = package \o Tail(@)]
    BY <1>0, <2>6 DEF Planning, UpInv
  <2>9. /\ DOMAIN plan'[p] = DOMAIN NoPlan
        /\ plan'[p].todo = package \o Tail(plan[p].todo)
        /\ plan'[p].selected = Put(plan[p].selected, f, source)
        /\ plan'[p].excluded = plan[p].excluded /\ plan'[p].settings = plan[p].settings
        /\ plan'[p].installs = plan[p].installs /\ plan'[p].roots = plan[p].roots
        /\ plan'[p].final = plan[p].final
    BY <2>2, <2>8 DEF NoPlan
  <2>10. package \in Seq(Wanted)
    <3>1. CASE package = <<>>
      BY <3>1, ShortSequences
    <3>2. CASE package # <<>>
      <4>1. package = <<Request(InitOf[f], r.reason, "package")>> /\ Exists(InitOf[f])
        BY <2>5, <3>2
      <4>2. InitOf[f] \in Files /\ r.reason \in Reasons
        BY <2>2, <2>3, <4>1, ProjectAssumption DEF Exists, Wanted
      <4>3. Request(InitOf[f], r.reason, "package") \in Wanted
        BY <4>2 DEF Request, Wanted, Looks
      <4> QED BY <4>1, <4>3, ShortSequences
    <3> QED BY <3>1, <3>2
  <2>11. PICK todo \in Seq(Wanted) : todo = plan[p].todo /\ todo # <<>> /\ todo[1] = r
    BY <2>1, <2>2
  <2>12. PICK u : u = package \o Tail(todo)
    OBVIOUS
  <2>13. u \in Seq(Wanted) /\ RestIn(todo, u)
    BY <2>10, <2>11, <2>12, RestComes
  <2>14. plan'[p].todo = u
    BY <2>9, <2>11, <2>12
  <2>15. /\ DOMAIN plan'[p].selected = DOMAIN plan[p].selected \cup {f}
         /\ plan'[p].selected[f] = source
         /\ \A g \in DOMAIN plan[p].selected : g # f => plan'[p].selected[g] = plan[p].selected[g]
    BY <2>9 DEF Put
  <2>16. /\ {"data", "reasons"} \subseteq DOMAIN source
         /\ r.reason \in source.reasons /\ r.reason \in Reasons /\ source.data = plan[p].taken.data
         /\ source.reasons \subseteq Reasons
         /\ f \in DOMAIN plan[p].selected => plan[p].selected[f].reasons \subseteq source.reasons
    BY <1>0, <2>2, <2>4 DEF Wanted, OfCommand, PlanTyped
  <2>17. \A g : IsThere(p, g) => IsThere(p, g)'
    <3>1. ASSUME NEW g, Coming(p, g), g # f PROVE Coming(p, g)'
      BY <2>3, <2>11, <2>13, <2>14, <3>1 DEF Coming, RestIn
    <3> QED BY <2>15, <3>1 DEF IsThere
  <2>18. ASSUME NEW g, IsSource(p, g) PROVE IsSource(p, g)'
    <3>1. CASE g \in DOMAIN plan[p].selected /\ ~(plan[p].selected[g].reasons \subseteq {"auth"})
      BY <2>15, <2>16, <3>1 DEF IsSource
    <3>2. CASE ComingAsSource(p, g)
      <4>1. PICK i \in DOMAIN todo : todo[i].what = g /\ todo[i].how = "file" /\ todo[i].reason # "auth"
        BY <2>11, <3>2 DEF ComingAsSource
      <4>2. CASE i = 1
        BY <2>3, <2>11, <2>15, <2>16, <4>1, <4>2 DEF IsSource
      <4>3. CASE i # 1
        <5>1. PICK j \in DOMAIN u : u[j] = todo[i]
          BY <2>13, <4>3 DEF RestIn
        <5> QED BY <2>14, <4>1, <5>1 DEF IsSource, ComingAsSource
      <4> QED BY <4>2, <4>3
    <3> QED BY <2>18, <3>1, <3>2 DEF IsSource
  <2>19. \A g, data : FoundFor(g, data)' <=> FoundFor(g, data)
    BY <2>7, ExchangesStay DEF FoundFor, Still
  <2>20. PlanTyped(p)'
    <3>1. ASSUME NEW g \in DOMAIN plan'[p].selected
          PROVE  /\ {"data", "reasons"} \subseteq DOMAIN plan'[p].selected[g]
                 /\ FoundFor(g, plan'[p].selected[g].data)
                 /\ plan'[p].selected[g].reasons \in (SUBSET Reasons) \ {{}}
      <4>1. CASE g = f
        BY <2>2, <2>3, <2>15, <2>16, <4>1
      <4>2. CASE g # f
        BY <1>0, <2>15, <4>2 DEF OfCommand, PlanTyped
      <4> QED BY <4>1, <4>2
    <3> QED BY <1>0, <2>2, <2>3, <2>9, <2>13, <2>14, <2>15, <2>19, <3>1 DEF OfCommand, PlanTyped
  <2>21. AtWork(p)'
    BY <2>7 DEF AtWork, Chosen, Choosing
  <2>22. HasPlan(p) /\ HasPlan(p)'
    BY <2>0, <2>7 DEF HasPlan, Choosing
  <2>23. Excludes(p)'
    <3>1. \A g : (Kept(p, g)' <=> Kept(p, g)) /\ (KeptHere(p, g)' <=> KeptHere(p, g))
      BY <2>7, <2>9 DEF Kept, KeptHere, Stayed, Still
    <3> QED BY <1>0, <2>2, <2>3, <2>7, <2>9, <2>15, <2>22, <3>1 DEF OfCommand, Excludes, Still
  <2>24. Referred(p)'
    <3>1. References(plan[p].settings)' = References(plan[p].settings)
      BY <2>9 DEF References
    <3> QED BY <1>0, <2>18, <2>22, <3>1 DEF OfCommand, Referred
  <2> QED BY <2>0, <2>7, <2>9, <2>17, <2>20, <2>21, <2>23, <2>24, PlanningKeeps DEF Choosing
<1> QED BY <1>1, <1>2

\* Nothing is left to look at.
LEMMA FinishPlanKeeps ==
  ASSUME UpInv, NEW p \in DOMAIN scene.args, FinishPlan(p), UNCHANGED <<scene, run, images, container>>
  PROVE  UpInv'
<1>0. p \in Procs /\ Project /\ OfCommand(p)
  BY ArgsProcs DEF UpInv
<1>1. CASE Fails(p)
  BY <1>1, FailsKeeps
<1>2. CASE ~Fails(p)
  <2>1. PICK place : place = IF plan[p].final THEN "open" ELSE "planned"
    OBVIOUS
  <2>2. PICK root : root = IF plan[p].final THEN plan[p].root ELSE dirs[Root].ino
    OBVIOUS
  <2>3. /\ at[p] = "select" /\ plan[p].todo = <<>> /\ Goto(p, place)
        /\ Planning(p, [plan[p] EXCEPT !.root = root])
    BY <1>2, <2>1, <2>2 DEF FinishPlan, Requires
  <2>4. Alone(p) /\ Still /\ at'[p] = place /\ UNCHANGED <<project, bundle>>
    BY <1>0, <2>3, BuildAlone DEF Planning
  <2>5. plan'[p] = [plan[p] EXCEPT !.root = root]
    BY <1>0, <2>3 DEF Planning, UpInv
  <2>6. /\ DOMAIN plan'[p] = DOMAIN NoPlan
        /\ plan'[p].todo = plan[p].todo /\ plan'[p].selected = plan[p].selected
        /\ plan'[p].excluded = plan[p].excluded /\ plan'[p].settings = plan[p].settings
        /\ plan'[p].installs = plan[p].installs /\ plan'[p].roots = plan[p].roots
        /\ plan'[p].final = plan[p].final
    BY <1>0, <2>5 DEF NoPlan, OfCommand, PlanTyped
  <2>7. \A g, data : FoundFor(g, data)' <=> FoundFor(g, data)
    BY <2>4, ExchangesStay DEF FoundFor, Still
  <2>8. PlanTyped(p)'
    BY <1>0, <2>6, <2>7 DEF OfCommand, PlanTyped
  <2>9. AtWork(p)'
    BY <2>1, <2>3, <2>4, <2>6 DEF AtWork
  <2>10. HasPlan(p) /\ HasPlan(p)'
    BY <2>1, <2>3, <2>4 DEF HasPlan, Choosing, Writing
  <2>11. Excludes(p)'
    <3>1. \A g : (Kept(p, g)' <=> Kept(p, g)) /\ (KeptHere(p, g)' <=> KeptHere(p, g))
      BY <2>4, <2>6 DEF Kept, KeptHere, Stayed, Still
    <3> QED BY <1>0, <2>4, <2>6, <2>10, <3>1 DEF OfCommand, Excludes, Still
  <2>12. \A g : (IsThere(p, g)' <=> IsThere(p, g)) /\ (IsSource(p, g)' <=> IsSource(p, g))
    BY <2>6 DEF IsThere, IsSource, Coming, ComingAsSource
  <2>13. Referred(p)'
    <3>1. References(plan[p].settings)' = References(plan[p].settings)
      BY <2>6 DEF References
    <3> QED BY <1>0, <2>10, <2>12, <3>1 DEF OfCommand, Referred
  <2> QED BY <2>1, <2>3, <2>4, <2>6, <2>8, <2>9, <2>11, <2>12, <2>13, PlanningKeeps DEF Choosing
<1> QED BY <1>1, <1>2

\* The config that is read is one of the scene's.
LEMMA ReadingIs ==
  ASSUME Project
  PROVE  Reading \in Range(configs) /\ IsConfig(Reading)
<1>1. PICK c : c = scene.configs
  OBVIOUS
<1>2. c \in Seq(Range(c)) /\ c # <<>> /\ \A i \in DOMAIN c : IsConfig(c[i])
  BY <1>1, ArgsProcs DEF IsScene
<1>3. Len(c) \in Nat \ {0} /\ DOMAIN c = 1 .. Len(c)
  BY <1>2, EmptySeq
<1>4. disk[Config].data.version \in Nat
  BY ProjectAssumption DEF Project, Contents
<1>5. PICK v \in Nat : v = disk[Config].data.version
  BY <1>4
<1>6. PICK i : i = IF v < Len(c) THEN v + 1 ELSE Len(c)
  OBVIOUS
<1>7. i \in 1 .. Len(c)
  <2>1. PICK n \in Nat \ {0} : n = Len(c)
    BY <1>3
  <2>2. i = IF v < n THEN v + 1 ELSE n
    BY <1>6, <2>1
  <2>3. i \in 1 .. n
    BY <1>5, <2>1, <2>2
  <2> QED BY <2>1, <2>3
<1>8. Reading = c[i]
  BY <1>1, <1>5, <1>6 DEF Reading, Project
<1> QED BY <1>1, <1>2, <1>3, <1>7, <1>8 DEF Range, Project

\* Every reference by path is requested, as a source unless it is the auth module's.
ByPathIn(ref, s) == \E i \in DOMAIN s : s[i].what = ref.file /\ s[i].how = "file" /\ s[i].reason # "auth"

\* A reference by path becomes a request for just this file; a dotted one none.
LEMMA ByPathWanted ==
  ASSUME NEW ref \in Refs, NEW reason \in Reasons
  PROVE  /\ ByPath(ref, reason) \in Seq(Wanted)
         /\ ref.dotted \/ (ref.file \in Files /\ Range(ByPath(ref, reason)) = {Request(ref.file, reason, "file")})
<1>1. CASE ref.dotted
  BY <1>1, ShortSequences DEF ByPath
<1>2. CASE ~ref.dotted
  <2>1. ref.file \in Files
    BY <1>2 DEF Refs
  <2>2. PICK r : r = Request(ref.file, reason, "file")
    OBVIOUS
  <2>3. r \in Wanted
    BY <2>1, <2>2 DEF Request, Wanted, Looks
  <2>4. ByPath(ref, reason) = <<r>>
    BY <1>2, <2>1, <2>2, ProjectAssumption DEF ByPath
  <2>5. Range(<<r>>) = {r}
    BY DEF Range
  <2> QED BY <2>1, <2>2, <2>3, <2>4, <2>5, ShortSequences
<1> QED BY <1>1, <1>2

IsJoint(u, s, t) == Range(u) = Range(s) \cup Range(t)

\* What sequences that are put together hold.
LEMMA Joined ==
  ASSUME NEW S, NEW s \in Seq(S), NEW t \in Seq(S), NEW u, u = s \o t
  PROVE  u \in Seq(S) /\ IsJoint(u, s, t)
<1>1. s \o t \in Seq(S)
  BY ConcatProperties
<1>2. Range(s \o t) = Range(s) \cup Range(t)
  BY RangeConcatenation
<1> QED BY <1>1, <1>2 DEF IsJoint

\* The requests of a config are for files of the project, and each of its references by path is among them.
LEMMA RequestsWanted ==
  ASSUME NEW s, IsConfig(s)
  PROVE  /\ Requests(s) \in Seq(Wanted)
         /\ \A ref \in References(s) : ref.dotted \/ ByPathIn(ref, Requests(s))
<1> DEFINE G == [ref : Refs, reason : {"graph", "graph-hook"}]
           includes == [i \in 1 .. Len(s.includes) |->
                          Request(s.includes[i], "build-include", IF s.includes[i] \in Dirs THEN "tree" ELSE "file")]
           dependencies == [i \in 1 .. Len(s.dependencies) |-> Request(s.dependencies[i], "dependency", "local")]
<1>0. /\ s.graphs \in Seq(G) /\ s.embed \in Refs /\ s.app \in Refs /\ s.auth \in Refs
      /\ s.includes \in Seq(Files \cup Dirs) /\ s.dependencies \in Seq(Dirs)
  BY DEF IsConfig
<1>0a. {"graph", "graph-hook", "store-hook", "http-app", "auth", "build-include", "dependency"} \subseteq Reasons
  BY DEF Reasons
<1>1. PICK a : a = GraphRequests(s)
  OBVIOUS
<1>2. /\ a \in Seq(Wanted)
      /\ DOMAIN a = 1 .. Len(s.graphs) /\ Len(s.graphs) \in Nat
      /\ \A i \in 1 .. Len(s.graphs) :
           /\ s.graphs[i] \in G
           /\ a[i] = Request(s.graphs[i].ref.file, s.graphs[i].reason,
                             IF s.graphs[i].ref.dotted THEN "maybe" ELSE "file")
  <2>1. PICK g \in Seq(G) : g = s.graphs
    BY <1>0
  <2>2. Len(g) \in Nat /\ \A i \in 1 .. Len(g) : g[i] \in G
    <3> HIDE DEF G
    <3> QED OBVIOUS
  <2>3. a = [i \in 1 .. Len(g) |-> Request(g[i].ref.file, g[i].reason, IF g[i].ref.dotted THEN "maybe" ELSE "file")]
    BY <1>1, <2>1 DEF GraphRequests
  <2>4. ASSUME NEW i \in 1 .. Len(g)
        PROVE  Request(g[i].ref.file, g[i].reason, IF g[i].ref.dotted THEN "maybe" ELSE "file") \in Wanted
    <3>1. PICK e \in G : e = g[i]
      BY <2>2
    <3>2. e.ref \in Refs /\ e.reason \in Reasons
      BY <1>0a
    <3>3. CASE e.ref.dotted
      BY <3>1, <3>2, <3>3 DEF Refs, Request, Wanted, Looks
    <3>4. CASE ~e.ref.dotted
      BY <3>1, <3>2, <3>4 DEF Refs, Request, Wanted, Looks
    <3> QED BY <3>3, <3>4
  <2> HIDE DEF G
  <2> QED BY <2>1, <2>2, <2>3, <2>4
<1>3. PICK b : b = ByPath(s.embed, "store-hook")
  OBVIOUS
<1>4. PICK c : c = ByPath(s.app, "http-app")
  OBVIOUS
<1>5. PICK d : d = ByPath(s.auth, "auth")
  OBVIOUS
<1>6. /\ b \in Seq(Wanted) /\ (s.embed.dotted \/ Range(b) = {Request(s.embed.file, "store-hook", "file")})
      /\ c \in Seq(Wanted) /\ (s.app.dotted \/ Range(c) = {Request(s.app.file, "http-app", "file")})
      /\ d \in Seq(Wanted)
  BY <1>0, <1>0a, <1>3, <1>4, <1>5, ByPathWanted
<1>7. PICK e : e = includes
  OBVIOUS
<1>8. e \in Seq(Wanted)
  <2>1. PICK n \in Seq(Files \cup Dirs) : n = s.includes
    BY <1>0
  <2>2. Len(n) \in Nat /\ \A i \in 1 .. Len(n) : n[i] \in Files \cup Dirs
    OBVIOUS
  <2>3. \A i \in 1 .. Len(n) : Request(n[i], "build-include", IF n[i] \in Dirs THEN "tree" ELSE "file") \in Wanted
    BY <1>0a, <2>2 DEF Request, Wanted, Looks
  <2> QED BY <1>7, <2>1, <2>2, <2>3
<1>9. PICK f : f = dependencies
  OBVIOUS
<1>10. f \in Seq(Wanted)
  <2>1. PICK n \in Seq(Dirs) : n = s.dependencies
    BY <1>0
  <2>2. Len(n) \in Nat /\ \A i \in 1 .. Len(n) : n[i] \in Dirs
    OBVIOUS
  <2>3. \A i \in 1 .. Len(n) : Request(n[i], "dependency", "local") \in Wanted
    BY <1>0a, <2>2 DEF Request, Wanted, Looks
  <2> QED BY <1>9, <2>1, <2>2, <2>3
<1>11. Requests(s) = a \o b \o c \o d \o e \o f
  BY <1>1, <1>3, <1>4, <1>5, <1>7, <1>9 DEF Requests
<1> HIDE DEF G, includes, dependencies
<1>12. PICK ab : ab = a \o b
  OBVIOUS
<1>12b. ab \in Seq(Wanted) /\ IsJoint(ab, a, b)
  BY <1>2, <1>6, <1>12, Joined
<1>13. PICK abc : abc = ab \o c
  OBVIOUS
<1>13b. abc \in Seq(Wanted) /\ IsJoint(abc, ab, c)
  BY <1>6, <1>12b, <1>13, Joined
<1>14. PICK abcd : abcd = abc \o d
  OBVIOUS
<1>14b. abcd \in Seq(Wanted) /\ IsJoint(abcd, abc, d)
  BY <1>6, <1>13b, <1>14, Joined
<1>15. PICK abcde : abcde = abcd \o e
  OBVIOUS
<1>15b. abcde \in Seq(Wanted) /\ IsJoint(abcde, abcd, e)
  BY <1>8, <1>14b, <1>15, Joined
<1>16. PICK all : all = abcde \o f
  OBVIOUS
<1>16b. all \in Seq(Wanted) /\ IsJoint(all, abcde, f)
  BY <1>10, <1>15b, <1>16, Joined
<1>17. Requests(s) = all /\ Range(a) \cup Range(b) \cup Range(c) \subseteq Range(all)
  BY <1>11, <1>12, <1>13, <1>14, <1>15, <1>16, <1>12b, <1>13b, <1>14b, <1>15b, <1>16b DEF IsJoint
<1>18. ASSUME NEW ref, NEW reason, reason # "auth", Request(ref.file, reason, "file") \in Range(all)
       PROVE  ByPathIn(ref, all)
  <2>1. PICK i \in DOMAIN all : all[i] = Request(ref.file, reason, "file")
    BY <1>18 DEF Range
  <2>2. all[i].what = ref.file /\ all[i].how = "file" /\ all[i].reason = reason
    BY <2>1 DEF Request
  <2> QED BY <1>18, <2>2 DEF ByPathIn
<1>19. ASSUME NEW ref \in References(s), ~ref.dotted PROVE ByPathIn(ref, all)
  <2>1. CASE ref = s.embed
    BY <1>6, <1>17, <1>18, <1>19, <2>1
  <2>2. CASE ref = s.app
    BY <1>6, <1>17, <1>18, <1>19, <2>2
  <2>3. CASE \E i \in 1 .. Len(s.graphs) : ref = s.graphs[i].ref
    <3>1. PICK i \in 1 .. Len(s.graphs) : ref = s.graphs[i].ref
      BY <2>3
    <3>2. PICK g : g = s.graphs[i]
      OBVIOUS
    <3>3. g.reason # "auth" /\ a[i] = Request(ref.file, g.reason, "file")
      BY <1>2, <1>19, <3>1, <3>2 DEF G
    <3>4. Request(ref.file, g.reason, "file") \in Range(a)
      BY <1>2, <3>3 DEF Range
    <3> QED BY <1>17, <1>18, <3>3, <3>4
  <2> QED BY <2>1, <2>2, <2>3 DEF References
<1> QED BY <1>16b, <1>17, <1>19

\* Reading the config: the plan starts with all it refers to, and with what stays out.
LEMMA ReadConfigKeeps ==
  ASSUME UpInv, NEW p \in DOMAIN scene.args, ReadConfig(p), UNCHANGED <<scene, run, images, container>>
  PROVE  UpInv'
<1>0. p \in Procs /\ Project /\ OfCommand(p)
  BY ArgsProcs DEF UpInv
<1>1. CASE Fails(p)
  BY <1>1, FailsKeeps
<1>2. CASE ~Fails(p)
  <2>1. PICK s : s = Reading
    OBVIOUS
  <2>2. s \in Range(configs) /\ IsConfig(s)
    BY <1>0, <2>1, ReadingIs
  <2>3. PICK dotenvs : dotenvs = {s.dotenv, s.cliDotenv} \ {NoFile}
    OBVIOUS
  <2>4. PICK pip : pip = IF s.pip = NoFile THEN <<>>
                         ELSE [here |-> SafeRegular(s.pip), id |-> Identity(Entry(s.pip))]
    OBVIOUS
  <2>5. PICK excluded :
          excluded = {Config} \cup {f \in dotenvs \cup ({s.pip} \ {NoFile}) : SafeRegular(f)}
    OBVIOUS
  <2>6. PICK todo : todo = Requests(s)
    OBVIOUS
  <2>7. todo \in Seq(Wanted) /\ \A ref \in References(s) : ref.dotted \/ ByPathIn(ref, todo)
    BY <2>2, <2>6, RequestsWanted
  <2>8. PICK q : q = [NoPlan EXCEPT !.settings = s, !.todo = todo, !.pip = pip, !.excluded = excluded]
    OBVIOUS
  <2>9. /\ at[p] = "config" /\ \A f \in dotenvs : Exists(f)
        /\ s.pip # NoFile => Entry(s.pip).kind = "file"
        /\ Planning(p, q) /\ Goto(p, "select")
    BY <1>2, <2>1, <2>3, <2>4, <2>5, <2>6, <2>8 DEF ReadConfig, Requires
  <2>10. Alone(p) /\ Still /\ at'[p] = "select" /\ UNCHANGED <<project, bundle>>
    BY <1>0, <2>9, BuildAlone DEF Planning
  <2>11. plan'[p] = q
    BY <1>0, <2>9 DEF Planning, UpInv
  <2>12. /\ DOMAIN plan'[p] = DOMAIN NoPlan
         /\ plan'[p].todo = todo /\ plan'[p].selected = <<>> /\ plan'[p].excluded = excluded
         /\ plan'[p].settings = s /\ plan'[p].installs = {} /\ plan'[p].roots = {}
         /\ plan'[p].final = FALSE
    BY <2>8, <2>11 DEF NoPlan
  <2>13. DOMAIN plan'[p].selected = {}
    BY <2>12
  <2>14. plan[p].final = FALSE
    BY <1>0, <2>9 DEF OfCommand, Flow
  <2>15. /\ {s.dotenv, s.cliDotenv, s.pip} \subseteq Files \cup {NoFile}
         /\ excluded \subseteq Files
    BY <2>2, <2>3, <2>5, ProjectAssumption DEF IsConfig
  <2>16. PlanTyped(p)'
    BY <2>7, <2>12, <2>13, <2>15 DEF PlanTyped
  <2>17. AtWork(p)'
    BY <2>10 DEF AtWork, Chosen, Choosing
  <2>21. ASSUME NEW f \in Files, ~Real(Above[f]) PROVE ~Stayed(f)'
    <3>1. PICK d \in Above[f] \ {Root} : dirs[d].kind # "dir"
      BY <2>21 DEF Real
    <3>2. d \in Dirs
      BY ProjectAssumption
    <3>3. dirs[d].moves # 0
      BY <1>0, <3>1, <3>2 DEF Project
    <3> QED BY <2>10, <3>3 DEF Stayed, Still
  <2>22. KeptHere(p, s.pip)'
    <3>1. CASE s.pip = NoFile
      BY <3>1 DEF KeptHere
    <3>2. CASE s.pip # NoFile /\ SafeRegular(s.pip)
      BY <2>5, <2>12, <3>2 DEF KeptHere
    <3>3. CASE s.pip # NoFile /\ ~SafeRegular(s.pip)
      <4>1. s.pip \in Files /\ ~Real(Above[s.pip])
        BY <2>9, <2>15, <3>3 DEF SafeRegular, Entry
      <4>2. PICK f \in Files : f = s.pip
        BY <4>1
      <4>3. KeptHere(p, f)'
        BY <2>21, <4>1, <4>2 DEF KeptHere
      <4> QED BY <4>2, <4>3
    <3> QED BY <3>1, <3>2, <3>3
  <2>18. ASSUME NEW f \in {s.dotenv, s.cliDotenv} PROVE Kept(p, f)'
    <3>1. CASE f = NoFile
      BY <3>1 DEF Kept
    <3>2. CASE f # NoFile
      <4>1. f \in Files /\ f \in dotenvs /\ Entry(f).kind # "none"
        BY <2>3, <2>9, <2>15, <3>2 DEF Exists
      <4>2. CASE SafeRegular(f)
        BY <2>5, <2>12, <4>1, <4>2 DEF Kept
      <4>3. CASE ~Real(Above[f])
        BY <2>21, <4>1, <4>3 DEF Kept
      <4>4. CASE Real(Above[f]) /\ disk[f].kind # "file"
        <5>1. disk[f].kind \in Kinds /\ disk[f].kind # "none"
          BY <1>0, <4>1, <4>4 DEF Entry, Project
        <5>2. disk[f].ino # 0
          BY <1>0, <4>1, <4>4, <5>1 DEF Project, Kinds
        <5> QED BY <2>10, <5>2 DEF Kept, Still
      <4> QED BY <4>2, <4>3, <4>4 DEF SafeRegular
    <3> QED BY <3>1, <3>2
  <2>19. Excludes(p)'
    <3>1. Config \in plan'[p].excluded
      BY <2>5, <2>12
    <3>2. Kept(p, s.dotenv)' /\ Kept(p, s.cliDotenv)'
      <4>1. PICK f1 : f1 = s.dotenv
        OBVIOUS
      <4>2. PICK f2 : f2 = s.cliDotenv
        OBVIOUS
      <4>3. f1 \in {s.dotenv, s.cliDotenv} /\ f2 \in {s.dotenv, s.cliDotenv}
        BY <4>1, <4>2
      <4>4. Kept(p, f1)' /\ Kept(p, f2)'
        BY <2>18, <4>3
      <4> QED BY <4>1, <4>2, <4>4
    <3>3. /\ Kept(p, plan[p].settings.dotenv)' /\ Kept(p, plan[p].settings.cliDotenv)'
          /\ KeptHere(p, plan[p].settings.pip)'
      BY <2>12, <2>22, <3>2 DEF Kept, KeptHere
    <3> QED BY <2>2, <2>10, <2>12, <2>13, <3>1, <3>3 DEF Excludes, Still
  <2>20. Referred(p)'
    <3>1. References(plan[p].settings)' = References(s)
      BY <2>12 DEF References
    <3>2. ASSUME NEW ref \in References(s), ~ref.dotted PROVE IsSource(p, ref.file)'
      BY <2>7, <2>12, <3>2 DEF ByPathIn, IsSource, ComingAsSource
    <3> QED BY <3>1, <3>2 DEF Referred
  <2> QED BY <2>9, <2>10, <2>12, <2>14, <2>16, <2>17, <2>19, <2>20, PlanningKeeps DEF Choosing
<1> QED BY <1>1, <1>2

\* A command that goes on without doing anything to its plan, its bundle or its payload.
LEMMA OnwardKeeps ==
  ASSUME UpInv, NEW p \in DOMAIN scene.args, NEW place, Continue(p, place, run[p]), OfCommand(p)',
         at[p] \in Built /\ ~IsCustom(p) => place \in Built,
         at[p] \in {"wait", "done", "failed"} => place \in {"wait", "done", "failed"}
  PROVE  UpInv'
<1>0. p \in Procs
  BY ArgsProcs DEF UpInv
<1>1. at'[p] = place /\ Everywhere' /\ \A q \in Procs \ {p} : at'[q] = at[q]
  BY <1>0, GotoDoes DEF Continue
<1>2. DOMAIN run' = Procs /\ run'[p] = run[p] /\ \A q \in Procs \ {p} : run'[q] = run[q]
  BY <1>0 DEF Continue, UpInv
<1>3. Alone(p) /\ Still /\ UNCHANGED <<plan, bundle, images, container>>
  BY <1>1, <1>2 DEF Alone, Still, Continue, project, UpInv
<1> QED BY <1>0, <1>1, <1>2, <1>3, StepKeeps

\* `build` and `dockerfile` read the config at once.
LEMMA StartBuildKeeps ==
  ASSUME UpInv, NEW p \in DOMAIN scene.args, StartBuild(p)
  PROVE  UpInv'
<1>0. p \in Procs /\ OfCommand(p)
  BY ArgsProcs DEF UpInv
<1>1. at[p] = "start" /\ Args(p).command # "up" /\ Continue(p, "config", run[p])
  BY DEF StartBuild
<1>2. at'[p] = "config" /\ Still /\ UNCHANGED <<plan, bundle>> /\ run'[p] = run[p]
  BY <1>0, <1>1, GotoDoes DEF Continue, Still, project, UpInv
<1>3. Flow(p)'
  BY <1>0, <1>1, <1>2 DEF OfCommand, Flow, IsCustom, Args, Still, Places, OfCustom, OfUp, Writing, Inspected
<1>4. PlanTyped(p)' /\ AtWork(p)' /\ Excludes(p)' /\ Referred(p)'
  <2>1. ~HasPlan(p)'
    BY <1>2 DEF HasPlan, Choosing, Writing
  <2>2. plan[p].todo = <<>>
    BY <1>0, <1>1 DEF OfCommand, AtWork, Chosen, Choosing, Places
  <2> QED BY <1>0, <1>2, <2>1, <2>2, PlanFollows DEF OfCommand
<1>5. Bundled(p)'
  BY <1>0, <1>1, <1>2, BundleFollows DEF OfCommand, Archived
<1>6. Payload(p)'
  BY <1>0, <1>2, PayloadFollows DEF OfCommand, Still, Inspected
<1>7. OfCommand(p)'
  BY <1>3, <1>4, <1>5, <1>6 DEF OfCommand
<1> QED BY <1>1, <1>7, OnwardKeeps DEF Built

\* They write the context with the plan as it is.
LEMMA RenderOnlyKeeps ==
  ASSUME UpInv, NEW p \in DOMAIN scene.args, RenderOnly(p)
  PROVE  UpInv'
<1>0. p \in Procs /\ OfCommand(p)
  BY ArgsProcs DEF UpInv
<1>1. at[p] = "planned" /\ Args(p).command # "up" /\ Continue(p, "open", run[p])
  BY DEF RenderOnly
<1>2. at'[p] = "open" /\ Still /\ UNCHANGED <<plan, bundle>> /\ run'[p] = run[p]
  BY <1>0, <1>1, GotoDoes DEF Continue, Still, project, UpInv
<1>3. Flow(p)'
  BY <1>0, <1>1, <1>2 DEF OfCommand, Flow, IsCustom, Args, Still, Places, OfCustom, OfUp, Writing, Inspected
<1>4. PlanTyped(p)' /\ AtWork(p)' /\ Excludes(p)' /\ Referred(p)'
  <2>1. HasPlan(p) /\ plan[p].todo = <<>>
    BY <1>0, <1>1 DEF HasPlan, OfCommand, AtWork, Chosen, Choosing, Places
  <2> QED BY <1>0, <1>2, <2>1, PlanFollows DEF OfCommand
<1>5. Bundled(p)'
  BY <1>0, <1>1, <1>2, BundleFollows DEF OfCommand, Archived
<1>6. Payload(p)'
  BY <1>0, <1>2, PayloadFollows DEF OfCommand, Still, Inspected
<1>7. OfCommand(p)'
  BY <1>3, <1>4, <1>5, <1>6 DEF OfCommand
<1> QED BY <1>1, <1>7, OnwardKeeps DEF Built

(***************************************************************************)
(* The environment.                                                        *)
(***************************************************************************)
NoBindings(ambient) == [context |-> ambient, values |-> <<>>, unresolved |-> {}]

\* A document, one binding after the other.
LEMMA BindingSteps ==
  ASSUME NEW S, NEW document \in Seq(S), NEW ambient, NEW source
  PROVE  \E g : /\ g[Len(document)] = ResolveDocument(document, ambient, source) /\ g[0] = NoBindings(ambient)
                /\ \A k \in 1 .. Len(document) : g[k] = Bind(g[k - 1], document[k], source)
<1> DEFINE n == Len(document)
<1>1. n \in Nat /\ DOMAIN document = 1 .. n
  OBVIOUS
<1> DEFINE it == CHOOSE f : Folds("binding", f, n, document, NoBindings(ambient), source)
<1>2. ResolveDocument(document, ambient, source) = it[1 .. n]
  BY <1>1 DEF ResolveDocument, NoBindings, FoldLeft, MapThenFoldSet, Folds, StepOf
<1>3. Folds("binding", it, n, document, NoBindings(ambient), source)
  BY <1>1, FoldExists
<1> HIDE DEF it, n
<1>4. PICK g : /\ g[n] = it[1 .. n] /\ g[0] = NoBindings(ambient)
               /\ \A k \in 1 .. n : g[k] = StepOf("binding", g[k - 1], document[k], source)
  BY <1>1, <1>3, FoldSteps
<1>5. \A k \in 1 .. n : g[k] = Bind(g[k - 1], document[k], source)
  BY <1>4 DEF StepOf
<1> QED BY <1>2, <1>4, <1>5 DEF n

\* The assignments of a command, one after the other.
LEMMA AssignmentSteps ==
  ASSUME NEW S, NEW assignments \in Seq(S), NEW layers, NEW target
  PROVE  \E g : /\ g[Len(assignments)] = WithAssignments(layers, assignments, target) /\ g[0] = layers
                /\ \A k \in 1 .. Len(assignments) : g[k] = Commanding(g[k - 1], assignments[k], target)
<1> DEFINE n == Len(assignments)
<1>1. n \in Nat /\ DOMAIN assignments = 1 .. n
  OBVIOUS
<1> DEFINE it == CHOOSE f : Folds("assignment", f, n, assignments, layers, target)
<1>2. WithAssignments(layers, assignments, target) = it[1 .. n]
  BY <1>1 DEF WithAssignments, Commanding, FoldLeft, MapThenFoldSet, Folds, StepOf
<1>3. Folds("assignment", it, n, assignments, layers, target)
  BY <1>1, FoldExists
<1> HIDE DEF it, n
<1>4. PICK g : /\ g[n] = it[1 .. n] /\ g[0] = layers
               /\ \A k \in 1 .. n : g[k] = StepOf("assignment", g[k - 1], assignments[k], target)
  BY <1>1, <1>3, FoldSteps
<1>5. \A k \in 1 .. n : g[k] = Commanding(g[k - 1], assignments[k], target)
  BY <1>4 DEF StepOf
<1> QED BY <1>2, <1>4, <1>5 DEF n

\* No text of the shell but of the names in eligible; AUTH_MODULE_PATH unset or one text of some origin.
Clean(values, eligible) ==
  \A n \in DOMAIN values : \A atom \in values[n] : atom.from = "launch" => atom.key \in eligible
AuthIs(values, origins) ==
  Auth \in DOMAIN values => values[Auth] = Unset \/ \E o \in origins : values[Auth] = Text(o, Auth)
AuthIsSet(values, origins) ==
  Auth \in DOMAIN values => \E o \in origins : values[Auth] = Text(o, Auth)

Origins == {"config-dotenv", "config-mapping", "auth", "cli-dotenv", "launch"}

\* What is left of values when only some names pass (filtering in resolve_environment).
LEMMA OnlyIs ==
  ASSUME NEW values, NEW names
  PROVE  /\ DOMAIN Only(values, names) = names \cap DOMAIN values
         /\ \A n \in names \cap DOMAIN values : Only(values, names)[n] = values[n]
BY DEF Only

\* An assignment is of one name.
LEMMA AssignIs ==
  ASSUME NEW name, NEW value
  PROVE  DOMAIN Assign(name, value) = {name} /\ Assign(name, value)[name] = value
BY DEF Assign

\* A missing value has nothing of the shell.
LEMMA NothingOfLaunch ==
  \A atom \in Unset : atom.from # "launch"
<1> TAKE atom \in Unset
<1>1. atom = [from |-> "unset", key |-> ""]
  BY DEF Unset
<1>2. atom.from = "unset"
  BY <1>1
<1> QED BY <1>2

\* One value over others: clean if both are.
LEMMA OverClean ==
  ASSUME NEW upper, NEW lower, NEW eligible, Clean(upper, eligible), Clean(lower, eligible)
  PROVE  Clean(Over(upper, lower), eligible)
<1>1. PICK o : o = Over(upper, lower)
  OBVIOUS
<1>2. /\ DOMAIN o = DOMAIN upper \cup DOMAIN lower
      /\ \A n \in DOMAIN upper : o[n] = upper[n]
      /\ \A n \in DOMAIN lower : n \notin DOMAIN upper => o[n] = lower[n]
  BY <1>1 DEF Over
<1>3. Clean(o, eligible)
  BY <1>2 DEF Clean
<1> QED BY <1>1, <1>3

\* Filtering brings in nothing that was not eligible.
LEMMA OnlyClean ==
  ASSUME NEW values, NEW names, NEW eligible, Clean(values, eligible)
  PROVE  Clean(Only(values, names), eligible)
<1>1. PICK o : o = Only(values, names)
  OBVIOUS
<1>2. DOMAIN o = names \cap DOMAIN values /\ \A n \in names \cap DOMAIN values : o[n] = values[n]
  BY <1>1, OnlyIs
<1>3. Clean(o, eligible)
  BY <1>2 DEF Clean
<1> QED BY <1>1, <1>3

\* A text of any place but the shell, or an unset one, is clean under any name.
LEMMA AssignClean ==
  ASSUME NEW name, NEW value, NEW eligible,
         \A atom \in value : atom.from = "launch" => atom.key \in eligible
  PROVE  Clean(Assign(name, value), eligible)
<1>1. PICK a : a = Assign(name, value)
  OBVIOUS
<1>2. DOMAIN a = {name} /\ a[name] = value
  BY <1>1, AssignIs
<1>3. Clean(a, eligible)
  BY <1>2 DEF Clean
<1> QED BY <1>1, <1>3

\* What python-dotenv makes of a binding.
ValueOf(binding, context, source) == UNION {PartValue(q, binding, context, source) : q \in binding.parts}

\* Interpolation takes from its context, which is clean, or from the document itself.
LEMMA ValueClean ==
  ASSUME NEW binding, NEW context, NEW source, NEW eligible, source # "launch", Clean(context, eligible)
  PROVE  \A atom \in ValueOf(binding, context, source) : atom.from = "launch" => atom.key \in eligible
<1> SUFFICES ASSUME NEW q \in binding.parts, NEW atom \in PartValue(q, binding, context, source),
                    atom.from = "launch"
             PROVE  atom.key \in eligible
  BY DEF ValueOf
<1>1. ASSUME NEW key PROVE atom \notin Text(source, key)
  BY DEF Text
<1>2. ASSUME NEW key PROVE atom \notin Gap(key)
  BY DEF Gap
<1>3. Present(context, q.name) /\ atom \in context[q.name]
  BY <1>1, <1>2 DEF PartValue
<1> QED BY <1>3 DEF Present, Clean

IsState(state) == DOMAIN state = {"context", "values", "unresolved"}

\* A binding of a dotenv document puts one value over what was read before.
LEMMA BindResult ==
  ASSUME NEW state, NEW binding, NEW source, IsState(state)
  PROVE  \E value :
           /\ value = IF binding.assigned THEN ValueOf(binding, state.context, source) ELSE Unset
           /\ IsState(Bind(state, binding, source))
           /\ Bind(state, binding, source).values = Over(Assign(binding.key, value), state.values)
           /\ Bind(state, binding, source).context = Over(Assign(binding.key, value), state.context)
<1>1. CASE binding.assigned
  BY <1>1 DEF Bind, ValueOf, IsState
<1>2. CASE ~binding.assigned
  BY <1>2 DEF Bind, IsState
<1> QED BY <1>1, <1>2

RightState(state, eligible, source) ==
  IsState(state) /\ Clean(state.context, eligible) /\ Clean(state.values, eligible) /\ AuthIs(state.values, {source})

\* A binding keeps the values read so far clean, and AUTH_MODULE_PATH one text.
LEMMA BindRight ==
  ASSUME NEW state, NEW binding \in Bindings, NEW source, NEW eligible, source # "launch",
         RightState(state, eligible, source), binding.key = Auth => binding.parts = {Literal}
  PROVE  RightState(Bind(state, binding, source), eligible, source)
<1>1. PICK value :
           /\ value = IF binding.assigned THEN ValueOf(binding, state.context, source) ELSE Unset
           /\ IsState(Bind(state, binding, source))
           /\ Bind(state, binding, source).values = Over(Assign(binding.key, value), state.values)
           /\ Bind(state, binding, source).context = Over(Assign(binding.key, value), state.context)
  BY BindResult DEF RightState
<1>2. \A atom \in value : atom.from = "launch" => atom.key \in eligible
  <2>1. CASE binding.assigned
    BY <1>1, <2>1, ValueClean DEF RightState
  <2>2. CASE ~binding.assigned
    <3>1. value = Unset
      BY <1>1, <2>2
    <3> QED BY <3>1, NothingOfLaunch
  <2> QED BY <2>1, <2>2
<1>3. PICK a : a = Assign(binding.key, value)
  OBVIOUS
<1>4. Clean(a, eligible) /\ DOMAIN a = {binding.key} /\ a[binding.key] = value
  BY <1>2, <1>3, AssignClean, AssignIs
<1>5. Clean(Over(a, state.values), eligible) /\ Clean(Over(a, state.context), eligible)
  BY <1>4, OverClean DEF RightState
<1>6. AuthIs(Over(a, state.values), {source})
  <2>0. PICK o : o = Over(a, state.values)
    OBVIOUS
  <2>1. CASE binding.key # Auth
    <3>1. Auth \in DOMAIN o => Auth \in DOMAIN state.values /\ o[Auth] = state.values[Auth]
      BY <1>4, <2>0, <2>1 DEF Over
    <3> QED BY <2>0, <3>1 DEF RightState, AuthIs
  <2>2. CASE binding.key = Auth
    <3>1. o[Auth] = value
      BY <1>4, <2>0, <2>2 DEF Over
    <3>2. binding.assigned => value = Text(source, Auth)
      <4>1. ValueOf(binding, state.context, source) = PartValue(Literal, binding, state.context, source)
        BY <2>2 DEF ValueOf
      <4> QED BY <1>1, <2>2, <4>1 DEF PartValue
    <3> QED BY <1>1, <2>0, <3>1, <3>2 DEF AuthIs
  <2> QED BY <2>1, <2>2
<1> QED BY <1>1, <1>3, <1>5, <1>6 DEF RightState

\* A document: clean if what it may refer to is.
LEMMA DocumentRight ==
  ASSUME NEW document, IsDocument(document), NEW ambient, NEW source, NEW eligible,
         source # "launch", Clean(ambient, eligible)
  PROVE  /\ Clean(ResolveDocument(document, ambient, source).values, eligible)
         /\ AuthIs(ResolveDocument(document, ambient, source).values, {source})
<1>1. document \in Seq(Bindings) /\ \A i \in DOMAIN document : document[i].key = Auth => document[i].parts = {Literal}
  BY DEF IsDocument
<1>2. PICK n \in Nat : n = Len(document) /\ DOMAIN document = 1 .. n
  BY <1>1
<1>3. PICK g : /\ g[n] = ResolveDocument(document, ambient, source) /\ g[0] = NoBindings(ambient)
               /\ \A k \in 1 .. n : g[k] = Bind(g[k - 1], document[k], source)
  BY <1>1, <1>2, BindingSteps
<1> DEFINE T == {k \in 0 .. n : ~RightState(g[k], eligible, source)}
<1>4. T \in SUBSET (0 .. n)
  OBVIOUS
<1>5. 0 \notin T
  <2>1. Clean(<<>>, eligible) /\ AuthIs(<<>>, {source})
    BY EmptyFunction DEF Clean, AuthIs
  <2>2. RightState(NoBindings(ambient), eligible, source)
    BY <2>1 DEF NoBindings, RightState, IsState
  <2> QED BY <1>3, <2>2
<1>6. ASSUME NEW k \in 1 .. n, k - 1 \notin T PROVE k \notin T
  <2>1. k - 1 \in 0 .. n
    BY <1>2
  <2>2. PICK s : s = g[k - 1]
    OBVIOUS
  <2>3. RightState(s, eligible, source)
    BY <1>6, <2>1, <2>2
  <2>4. PICK b \in Bindings : b = document[k] /\ (b.key = Auth => b.parts = {Literal})
    BY <1>1, <1>2
  <2>5. RightState(Bind(s, b, source), eligible, source)
    BY <2>3, <2>4, BindRight
  <2>6. g[k] = Bind(s, b, source)
    BY <1>3, <2>2, <2>4
  <2> QED BY <2>5, <2>6
<1>7. T = {}
  <2> HIDE DEF T
  <2> QED BY <1>2, <1>4, <1>5, <1>6, NoCounterexample
<1>8. RightState(g[n], eligible, source)
  BY <1>2, <1>7
<1> QED BY <1>3, <1>8 DEF RightState

\* A layer over what there is: clean if both are, and AUTH_MODULE_PATH one text.
RightLayers(layers, eligible) == Clean(layers.values, eligible) /\ AuthIsSet(layers.values, Origins)

\* A layer merged into the others (_merge_values) brings in nothing ineligible.
LEMMA MergeRight ==
  ASSUME NEW into, NEW values, NEW unresolved, NEW source, NEW eligible, NEW origins \in SUBSET Origins,
         RightLayers(into, eligible), Clean(values, eligible), AuthIs(values, origins)
  PROVE  RightLayers(MergeValues(into, values, unresolved, source), eligible)
<1>1. PICK upper : upper = Only(values, Assigned(values))
  OBVIOUS
<1>2. PICK o : o = Over(upper, into.values)
  OBVIOUS
<1>3. MergeValues(into, values, unresolved, source).values = o
  BY <1>1, <1>2 DEF MergeValues
<1>4. Clean(o, eligible)
  BY <1>1, <1>2, OnlyClean, OverClean DEF RightLayers
<1>5. AuthIsSet(o, Origins)
  <2>1. DOMAIN upper = DOMAIN values \cap Assigned(values) /\ \A n \in DOMAIN upper : upper[n] = values[n] /\ upper[n] # Unset
    BY <1>1 DEF Only, Assigned
  <2>2. CASE Auth \in DOMAIN upper
    <3>1. o[Auth] = values[Auth] /\ values[Auth] # Unset /\ Auth \in DOMAIN values
      BY <1>2, <2>1, <2>2 DEF Over
    <3>2. \E s \in origins : values[Auth] = Text(s, Auth)
      BY <3>1 DEF AuthIs
    <3> QED BY <3>1, <3>2 DEF AuthIsSet
  <2>3. CASE Auth \notin DOMAIN upper
    <3>1. Auth \in DOMAIN o => Auth \in DOMAIN into.values /\ o[Auth] = into.values[Auth]
      BY <1>2, <2>3 DEF Over
    <3> QED BY <3>1 DEF RightLayers, AuthIsSet
  <2> QED BY <2>2, <2>3
<1> QED BY <1>3, <1>4, <1>5 DEF RightLayers

\* What a command assigns is of no shell, and not AUTH_MODULE_PATH.
LEMMA AssignmentsRight ==
  ASSUME NEW S, NEW assignments \in Seq(S), NEW layers, NEW target, NEW eligible, RightLayers(layers, eligible),
         \A a \in S : Clean(a.values, eligible) /\ Auth \notin DOMAIN a.values
  PROVE  RightLayers(WithAssignments(layers, assignments, target), eligible)
<1>2. PICK n \in Nat : n = Len(assignments) /\ DOMAIN assignments = 1 .. n
  OBVIOUS
<1>3. PICK g : /\ g[n] = WithAssignments(layers, assignments, target) /\ g[0] = layers
               /\ \A k \in 1 .. n : g[k] = Commanding(g[k - 1], assignments[k], target)
  BY <1>2, AssignmentSteps
<1> DEFINE T == {k \in 0 .. n : ~RightLayers(g[k], eligible)}
<1>4. T \in SUBSET (0 .. n)
  OBVIOUS
<1>5. 0 \notin T
  BY <1>3
<1>6. ASSUME NEW k \in 1 .. n, k - 1 \notin T PROVE k \notin T
  <2>1. k - 1 \in 0 .. n
    BY <1>2
  <2>2. PICK s : s = g[k - 1]
    OBVIOUS
  <2>3. RightLayers(s, eligible)
    BY <1>6, <2>1, <2>2
  <2>4. PICK a \in S : a = assignments[k]
    BY <1>2
  <2>5. Clean(a.values, eligible) /\ AuthIs(a.values, Origins)
    BY <2>4 DEF AuthIs
  <2>6. RightLayers(MergeValues(s, a.values, {}, "command"), eligible)
    BY <2>3, <2>5, MergeRight
  <2>7. g[k] = s \/ g[k] = MergeValues(s, a.values, {}, "command")
    BY <1>3, <2>2, <2>4 DEF Commanding
  <2> QED BY <2>3, <2>6, <2>7
<1>7. T = {}
  <2> HIDE DEF T
  <2> QED BY <1>2, <1>4, <1>5, <1>6, NoCounterexample
<1>8. RightLayers(g[n], eligible)
  BY <1>2, <1>7
<1> QED BY <1>3, <1>8

\* The plan of `up`: its layers are those of the config, of --env-file, of the shell and of the command.
LEMMA AppRight ==
  ASSUME Project, NEW p, NEW planned, planned = EnvironmentPlan(p)
  PROVE  RightLayers(ResolveEnvironment(planned, AppContainerPolicy), EligibleNames(planned, AppContainerPolicy))
<1>1. PICK eligible : eligible = EligibleNames(planned, AppContainerPolicy)
  OBVIOUS
<1>2. PICK s : s = Reading
  OBVIOUS
<1>3. IsConfig(s) /\ IsScene(scene)
  BY <1>2, ReadingIs, ArgsProcs
<1>4. /\ planned.configDotenv = scene.documents.config /\ planned.cliDotenv = scene.documents.cli
      /\ planned.configMapping = s.mapping /\ planned.authPath = s.authPath
      /\ planned.launch = Only(scene.inherited, DOMAIN scene.inherited \ {Graphs})
  BY <1>2 DEF EnvironmentPlan, ContainerPlan, HostPlan
<1> DEFINE A == [targets : {{"app-container"}}, values : {Assign(Graphs, Text("command", "config")),
                                                           Assign("METADATA_DB_URL", Text("command", "postgres"))}]
<1>5. planned.assignments \in Seq(A)
  <2>1. PICK a \in A : a = [targets |-> {"app-container"}, values |-> Assign(Graphs, Text("command", "config"))]
    OBVIOUS
  <2>2. PICK b \in A : b = [targets |-> {"app-container"}, values |-> Assign("METADATA_DB_URL", Text("command", "postgres"))]
    OBVIOUS
  <2>3. planned.assignments = <<a>> \o (IF Args(p).postgres THEN <<b>> ELSE <<>>)
    BY <2>1, <2>2 DEF EnvironmentPlan, ContainerPlan, HostPlan
  <2> HIDE DEF A
  <2>4. PICK x \in Seq(A) : x = <<a>>
    BY ShortSequences
  <2>5. PICK y \in Seq(A) : y = IF Args(p).postgres THEN <<b>> ELSE <<>>
    BY ShortSequences
  <2>6. x \o y \in Seq(A)
    BY <2>4, <2>5, ConcatProperties
  <2> QED BY <2>3, <2>4, <2>5, <2>6
<1>6. \A a \in A : Clean(a.values, eligible) /\ Auth \notin DOMAIN a.values
  <2>1. ASSUME NEW name, NEW key, name # Auth
        PROVE  Clean(Assign(name, Text("command", key)), eligible) /\ Auth \notin DOMAIN Assign(name, Text("command", key))
    <3>1. \A atom \in Text("command", key) : atom.from # "launch"
      BY DEF Text
    <3>2. Clean(Assign(name, Text("command", key)), eligible)
      BY <3>1, AssignClean
    <3>3. DOMAIN Assign(name, Text("command", key)) = {name}
      BY DEF Assign
    <3> QED BY <2>1, <3>2, <3>3
  <2>2. Graphs # Auth /\ "METADATA_DB_URL" # Auth
    BY DEF Graphs, Auth
  <2>3. /\ Clean(Assign(Graphs, Text("command", "config")), eligible)
        /\ Auth \notin DOMAIN Assign(Graphs, Text("command", "config"))
    BY <2>1, <2>2
  <2>4. /\ Clean(Assign("METADATA_DB_URL", Text("command", "postgres")), eligible)
        /\ Auth \notin DOMAIN Assign("METADATA_DB_URL", Text("command", "postgres"))
    BY <2>1, <2>2
  <2> QED BY <2>3, <2>4
<1> HIDE DEF A
<1>7. PICK launch : launch = Only(planned.launch, eligible)
  OBVIOUS
<1>8. AllowedAmbient(planned, AppContainerPolicy) = launch /\ LaunchValues(planned, AppContainerPolicy) = launch
  BY <1>1, <1>7 DEF AllowedAmbient, LaunchValues, AppContainerPolicy
<1>9. \A n \in DOMAIN launch : n \in eligible /\ launch[n] = Text("launch", n)
  BY <1>3, <1>4, <1>7 DEF Only, IsScene
<1>10. Clean(launch, eligible) /\ AuthIs(launch, Origins)
  <2>1. \A n : \A atom \in Text("launch", n) : atom.key = n
    BY DEF Text
  <2> QED BY <1>9, <2>1 DEF Clean, AuthIs, Origins
<1>11. PICK config : config = ResolveDocument(planned.configDotenv, launch, "config-dotenv")
  OBVIOUS
<1>12. PICK cli : cli = ResolveDocument(planned.cliDotenv, launch, "cli-dotenv")
  OBVIOUS
<1>13. Clean(config.values, eligible) /\ AuthIs(config.values, Origins)
  <2>1. IsDocument(planned.configDotenv)
    BY <1>3, <1>4 DEF IsScene
  <2>2. Clean(config.values, eligible) /\ AuthIs(config.values, {"config-dotenv"})
    BY <1>10, <1>11, <2>1, DocumentRight
  <2> QED BY <2>2 DEF AuthIs, Origins
<1>14. Clean(cli.values, eligible) /\ AuthIs(cli.values, Origins)
  <2>1. IsDocument(planned.cliDotenv)
    BY <1>3, <1>4 DEF IsScene
  <2>2. Clean(cli.values, eligible) /\ AuthIs(cli.values, {"cli-dotenv"})
    BY <1>10, <1>12, <2>1, DocumentRight
  <2> QED BY <2>2 DEF AuthIs, Origins
<1>15. Clean(planned.configMapping, eligible) /\ AuthIs(planned.configMapping, Origins)
  <2>1. \A n : \A atom \in Text("config-mapping", n) : atom.from # "launch"
    BY DEF Text
  <2>2. \A n \in DOMAIN planned.configMapping : planned.configMapping[n] = Text("config-mapping", n)
    BY <1>3, <1>4 DEF IsConfig
  <2> QED BY <2>1, <2>2 DEF Clean, AuthIs, Origins
<1>16. PICK auth : auth = Assign(Auth, planned.authPath)
  OBVIOUS
<1>17. Clean(auth, eligible) /\ AuthIs(auth, Origins)
  <2>1. planned.authPath = Unset \/ planned.authPath = Text("auth", Auth)
    BY <1>3, <1>4 DEF IsConfig
  <2>2. \A atom \in Text("auth", Auth) : atom.from # "launch"
    BY DEF Text
  <2>3. \A atom \in planned.authPath : atom.from # "launch"
    BY <2>1, <2>2, NothingOfLaunch
  <2>4. Clean(auth, eligible)
    BY <1>16, <2>3, AssignClean
  <2>5. auth[Auth] = planned.authPath
    BY <1>16 DEF Assign
  <2> QED BY <2>1, <2>4, <2>5 DEF AuthIs, Origins
<1>18. PICK L0 : L0 = [values |-> <<>>, origins |-> <<>>, unresolved |-> {}]
  OBVIOUS
<1>19. RightLayers(L0, eligible)
  BY <1>18, EmptyFunction DEF RightLayers, Clean, AuthIsSet
<1>20. PICK L1 : L1 = MergeValues(L0, config.values, config.unresolved, "config-dotenv")
  OBVIOUS
<1>21. PICK L2 : L2 = MergeValues(L1, planned.configMapping, {}, "config-mapping")
  OBVIOUS
<1>22. PICK L3 : L3 = MergeValues(L2, auth, {}, "auth")
  OBVIOUS
<1>23. PICK L4 : L4 = MergeValues(L3, cli.values, cli.unresolved, "cli-dotenv")
  OBVIOUS
<1>24. PICK L5 : L5 = MergeValues(L4, launch, {}, "launch")
  OBVIOUS
<1>25. RightLayers(L1, eligible)
  BY <1>13, <1>19, <1>20, MergeRight
<1>26. RightLayers(L2, eligible)
  BY <1>15, <1>21, <1>25, MergeRight
<1>27. RightLayers(L3, eligible)
  BY <1>17, <1>22, <1>26, MergeRight
<1>28. RightLayers(L4, eligible)
  BY <1>14, <1>23, <1>27, MergeRight
<1>29. RightLayers(L5, eligible)
  BY <1>10, <1>24, <1>28, MergeRight
<1>30. ResolveEnvironment(planned, AppContainerPolicy) = WithAssignments(L5, planned.assignments, AppContainerPolicy.target)
  BY <1>8, <1>11, <1>12, <1>16, <1>18, <1>20, <1>21, <1>22, <1>23, <1>24 DEF ResolveEnvironment
<1>31. RightLayers(WithAssignments(L5, planned.assignments, AppContainerPolicy.target), eligible)
  BY <1>5, <1>6, <1>29, AssignmentsRight
<1> QED BY <1>1, <1>30, <1>31

\* A layer that assigns nothing changes nothing that matters.
IsEmptyLayer(layers) == DOMAIN layers.values = {} /\ layers.unresolved = {}

\* A layer without assignments changes nothing.
LEMMA MergeNothing ==
  ASSUME NEW into, NEW values, NEW source, IsEmptyLayer(into), Assigned(values) = {}
  PROVE  IsEmptyLayer(MergeValues(into, values, {}, source))
<1>1. PICK o : o = Over(Only(values, {}), into.values)
  OBVIOUS
<1>2. DOMAIN o = {}
  BY <1>1 DEF Over, Only, IsEmptyLayer
<1>3. /\ MergeValues(into, values, {}, source).values = o
      /\ MergeValues(into, values, {}, source).unresolved = {}
  BY <1>1 DEF MergeValues, IsEmptyLayer
<1> QED BY <1>2, <1>3 DEF IsEmptyLayer

\* A container takes its environment as it is.
LEMMA PreloadedIs ==
  ASSUME NEW payload, NEW resolved, resolved = ResolveEnvironment(PreloadedPlan(payload), PreloadedPolicy)
  PROVE  /\ ~Refused(resolved, PreloadedPolicy)
         /\ \A n \in DOMAIN resolved.values : n \in DOMAIN payload /\ resolved.values[n] = payload[n]
         /\ \A n \in DOMAIN payload : payload[n] # Unset => n \in DOMAIN resolved.values
<1>1. PICK planned : planned = PreloadedPlan(payload)
  OBVIOUS
<1>2. /\ planned.configDotenv = <<>> /\ planned.cliDotenv = <<>> /\ planned.configMapping = <<>>
      /\ planned.authPath = Unset /\ planned.launch = payload /\ planned.assignments = <<>>
  BY <1>1 DEF PreloadedPlan
<1>3. LaunchValues(planned, PreloadedPolicy) = payload
  BY <1>2 DEF LaunchValues, PreloadedPolicy
<1>4. PICK ambient : ambient = AllowedAmbient(planned, PreloadedPolicy)
  OBVIOUS
<1>5. ASSUME NEW source PROVE ResolveDocument(<<>>, ambient, source) = NoBindings(ambient)
  <2>1. <<>> \in Seq({}) /\ Len(<<>>) = 0
    OBVIOUS
  <2>2. PICK e \in Seq({}) : e = <<>> /\ Len(e) = 0
    BY <2>1
  <2>3. \E g : g[Len(e)] = ResolveDocument(e, ambient, source) /\ g[0] = NoBindings(ambient)
    BY BindingSteps
  <2> QED BY <2>2, <2>3
<1>6. PICK none : none = NoBindings(ambient)
  OBVIOUS
<1>7. none.values = <<>> /\ none.unresolved = {} /\ Assigned(<<>>) = {}
  BY <1>6, EmptyFunction DEF NoBindings, Assigned
<1>8. PICK auth : auth = Assign(Auth, Unset)
  OBVIOUS
<1>9. Assigned(auth) = {}
  BY <1>8 DEF Assigned, Assign
<1>10. PICK L0 : L0 = [values |-> <<>>, origins |-> <<>>, unresolved |-> {}]
  OBVIOUS
<1>11. PICK L1 : L1 = MergeValues(L0, none.values, none.unresolved, "config-dotenv")
  OBVIOUS
<1>12. PICK L2 : L2 = MergeValues(L1, planned.configMapping, {}, "config-mapping")
  OBVIOUS
<1>13. PICK L3 : L3 = MergeValues(L2, auth, {}, "auth")
  OBVIOUS
<1>14. PICK L4 : L4 = MergeValues(L3, none.values, none.unresolved, "cli-dotenv")
  OBVIOUS
<1>15. PICK L5 : L5 = MergeValues(L4, payload, {}, "launch")
  OBVIOUS
<1>16. IsEmptyLayer(L0)
  BY <1>10, EmptyFunction DEF IsEmptyLayer
<1>17. IsEmptyLayer(L1)
  BY <1>7, <1>11, <1>16, MergeNothing
<1>18. IsEmptyLayer(L2)
  BY <1>2, <1>7, <1>12, <1>17, MergeNothing
<1>19. IsEmptyLayer(L3)
  BY <1>9, <1>13, <1>18, MergeNothing
<1>20. IsEmptyLayer(L4)
  BY <1>7, <1>14, <1>19, MergeNothing
<1>21. PICK upper : upper = Only(payload, Assigned(payload))
  OBVIOUS
<1>22. L5.values = Over(upper, L4.values) /\ L5.unresolved = {}
  BY <1>15, <1>20, <1>21 DEF MergeValues, IsEmptyLayer
<1>23. resolved = WithAssignments(L5, <<>>, PreloadedPolicy.target)
  BY <1>1, <1>2, <1>3, <1>4, <1>5, <1>6, <1>8, <1>10, <1>11, <1>12, <1>13, <1>14, <1>15 DEF ResolveEnvironment
<1>24. WithAssignments(L5, <<>>, PreloadedPolicy.target) = L5
  <2>1. <<>> \in Seq({}) /\ Len(<<>>) = 0
    OBVIOUS
  <2>2. PICK e \in Seq({}) : e = <<>> /\ Len(e) = 0
    BY <2>1
  <2>3. \E g : g[Len(e)] = WithAssignments(L5, e, PreloadedPolicy.target) /\ g[0] = L5
    BY AssignmentSteps
  <2> QED BY <2>2, <2>3
<1>25. resolved.values = Over(upper, L4.values) /\ resolved.unresolved = {}
  BY <1>22, <1>23, <1>24
<1>26. PICK o : o = Over(upper, L4.values)
  OBVIOUS
<1>27. DOMAIN o = DOMAIN upper /\ \A n \in DOMAIN upper : o[n] = upper[n]
  BY <1>20, <1>26 DEF Over, IsEmptyLayer
<1>28. /\ \A n \in DOMAIN upper : n \in DOMAIN payload /\ upper[n] = payload[n]
       /\ \A n \in DOMAIN payload : payload[n] # Unset => n \in DOMAIN upper
  BY <1>21 DEF Only, Assigned
<1>29. ~Refused(resolved, PreloadedPolicy)
  BY <1>25 DEF Refused
<1> QED BY <1>25, <1>26, <1>27, <1>28, <1>29

(***************************************************************************)
(* The steps of `up`.                                                      *)
(***************************************************************************)
\* A step that only goes on, with new locals of the command.
LEMMA ContinueDoes ==
  ASSUME UpInv, NEW p \in Procs, NEW place, NEW command, Continue(p, place, command)
  PROVE  /\ at'[p] = place /\ run'[p] = command /\ Alone(p) /\ Still
         /\ UNCHANGED <<plan, bundle, scene, images, container>>
<1>1. at'[p] = place /\ Everywhere' /\ \A q \in Procs \ {p} : at'[q] = at[q]
  BY GotoDoes DEF Continue
<1>2. DOMAIN run' = Procs /\ run'[p] = command /\ \A q \in Procs \ {p} : run'[q] = run[q]
  BY DEF Continue, UpInv
<1> QED BY <1>1, <1>2 DEF Alone, Still, Continue, project, UpInv

\* One text names one module.
LEMMA OneReference ==
  ASSUME NEW value, NEW atom, value = {atom}
  PROVE  RefOf(value) = IF atom.from \in DOMAIN AuthRefs THEN AuthRefs[atom.from] ELSE NoRef
<1>1. CASE atom.from \in DOMAIN AuthRefs
  <2>1. \E a \in value : a.from \in DOMAIN AuthRefs
    BY <1>1
  <2>2. (CHOOSE a \in value : a.from \in DOMAIN AuthRefs) = atom
    BY <1>1
  <2> QED BY <1>1, <2>1, <2>2 DEF RefOf
<1>2. CASE atom.from \notin DOMAIN AuthRefs
  BY <1>2 DEF RefOf
<1> QED BY <1>1, <1>2

\* The application's environment is resolved: nothing of the shell but what was declared.
LEMMA ResolveUpKeeps ==
  ASSUME UpInv, NEW p \in DOMAIN scene.args, ResolveUp(p)
  PROVE  UpInv'
<1>0. p \in Procs /\ OfCommand(p) /\ Project /\ at[p] = "start" /\ Args(p).command = "up"
  BY ArgsProcs DEF UpInv, ResolveUp
<1>1. CASE Aborts(p)
  BY <1>1, AbortsKeeps
<1>2. CASE ~Aborts(p)
  <2>1. PICK planned : planned = EnvironmentPlan(p)
    OBVIOUS
  <2>2. PICK resolved : resolved = ResolveEnvironment(planned, AppContainerPolicy)
    OBVIOUS
  <2>3. PICK payload : payload = SelectApplicationPayload(planned, resolved, Args(p).passEnv)
    OBVIOUS
  <2>4. PICK eligible : eligible = EligibleNames(planned, AppContainerPolicy)
    OBVIOUS
  <2>5. PICK place : place = IF Args(p).custom THEN "payload" ELSE "config"
    OBVIOUS
  <2>6. /\ Args(p).custom => FinalAuth(payload).dotted
        /\ Continue(p, place, [run[p] EXCEPT !.payload = payload, !.eligible = eligible])
    BY <1>2, <2>1, <2>2, <2>3, <2>4, <2>5 DEF ResolveUp
  <2>7. Clean(payload, eligible) /\ AuthIsSet(payload, Origins)
    <3>1. RightLayers(resolved, eligible)
      BY <1>0, <2>1, <2>2, <2>4, AppRight
    <3>2. PICK names : names = SelectedNames(planned, Args(p).passEnv)
      OBVIOUS
    <3>3. payload = Only(resolved.values, names)
      BY <2>3, <3>2 DEF SelectApplicationPayload
    <3>4. Clean(payload, eligible)
      BY <3>1, <3>3, OnlyClean DEF RightLayers
    <3>5. Auth \in DOMAIN payload => Auth \in DOMAIN resolved.values /\ payload[Auth] = resolved.values[Auth]
      BY <3>3 DEF Only
    <3> QED BY <3>1, <3>4, <3>5 DEF RightLayers, AuthIsSet
  <2>8. /\ at'[p] = place /\ run'[p] = [run[p] EXCEPT !.payload = payload, !.eligible = eligible]
        /\ Alone(p) /\ Still /\ UNCHANGED <<plan, bundle, scene, images, container>>
    BY <1>0, <2>6, ContinueDoes
  <2>9. run[p] = NoCommand /\ ~plan[p].final
    BY <1>0 DEF OfCommand, Flow
  <2>10. DOMAIN run'[p] = DOMAIN NoCommand /\ run'[p].payload = payload /\ run'[p].eligible = eligible
    BY <2>8, <2>9 DEF NoCommand
  <2>11. place \in {"payload", "config"} /\ (place = "payload" <=> IsCustom(p))
    <3>1. Args(p).custom \in BOOLEAN
      BY <1>0, ArgsProcs DEF IsScene, IsCommand, Args
    <3> QED BY <1>0, <2>5, <3>1 DEF IsCustom
  <2>12. Flow(p)'
    BY <1>0, <2>8, <2>9, <2>11 DEF OfCommand, Flow, IsCustom, Args, Still, Places, OfCustom, OfUp, Writing, Inspected
  <2>13. PlanTyped(p)' /\ AtWork(p)' /\ Excludes(p)' /\ Referred(p)'
    <3>1. ~HasPlan(p)' /\ at'[p] \notin {"take", "chain"}
      BY <2>8, <2>11 DEF HasPlan, Choosing, Writing
    <3>2. plan[p].todo = <<>>
      BY <1>0 DEF OfCommand, AtWork, Chosen, Choosing, Places
    <3> QED BY <1>0, <2>8, <3>1, <3>2, PlanFollows DEF OfCommand
  <2>14. Bundled(p)'
    <3>1. at'[p] \notin {"check", "copy", "bundled", "archived", "build", "compose"} /\ at[p] \notin Archived
      BY <1>0, <2>8, <2>11 DEF Archived
    <3> QED BY <1>0, <2>8, <3>1, BundleFollows DEF OfCommand
  <2>15. Authorised(p)'
    <3>1. SUFFICES ASSUME Auth \in DOMAIN payload
                   PROVE  \E atom \in payload[Auth] :
                            /\ payload[Auth] = {atom} /\ atom.from # "container"
                            /\ atom.from \in DOMAIN AuthRefs /\ IsCustom(p) => AuthRefs[atom.from].dotted
      BY <2>8, <2>9, <2>10 DEF Authorised, AuthRefs, IsCustom, Args
    <3>2. PICK o \in Origins : payload[Auth] = Text(o, Auth)
      BY <2>7, <3>1 DEF AuthIsSet
    <3>3. PICK atom : atom = [from |-> o, key |-> Auth]
      OBVIOUS
    <3>4. payload[Auth] = {atom} /\ atom.from = o
      BY <3>2, <3>3 DEF Text
    <3>5. atom.from # "container"
      BY <3>2, <3>4 DEF Origins
    <3>6. IsCustom(p) /\ atom.from \in DOMAIN AuthRefs => AuthRefs[atom.from].dotted
      <4>1. FinalAuth(payload) = IF atom.from \in DOMAIN AuthRefs THEN AuthRefs[atom.from] ELSE NoRef
        BY <3>1, <3>4, OneReference DEF FinalAuth
      <4> QED BY <2>6, <4>1 DEF IsCustom
    <3> QED BY <3>4, <3>5, <3>6
  <2>16. Payload(p)'
    <3>1. at'[p] \notin Inspected \cup {"compose", "run"}
      BY <2>8, <2>11 DEF Inspected
    <3>2. \A n \in DOMAIN payload : \A atom \in payload[n] : atom.from = "launch" => atom.key \in eligible
      BY <2>7 DEF Clean
    <3> QED BY <2>10, <2>15, <3>1, <3>2 DEF Payload
  <2>17. OfCommand(p)'
    BY <2>12, <2>13, <2>14, <2>16 DEF OfCommand
  <2> QED BY <1>0, <2>8, <2>17, StepKeeps DEF Built
<1> QED BY <1>1, <1>2

\* What is put over a payload leaves it clean and AUTH_MODULE_PATH as it is.
LEMMA IsolatedIs ==
  ASSUME NEW payload, NEW eligible, Clean(payload, eligible)
  PROVE  /\ Clean(Isolated(payload), eligible)
         /\ Auth \in DOMAIN Isolated(payload) => Auth \in DOMAIN payload /\ Isolated(payload)[Auth] = payload[Auth]
<1>1. PICK upper : upper = [n \in Isolation |-> Text("command", n)]
  OBVIOUS
<1>2. PICK lower : lower = Only(payload, DOMAIN payload \ {"PYTHONPATH", "PYTHONHOME"})
  OBVIOUS
<1>3. PICK o : o = Over(upper, lower)
  OBVIOUS
<1>4. Isolated(payload) = o
  BY <1>1, <1>2, <1>3 DEF Isolated
<1>5. Clean(upper, eligible)
  <2>1. \A n : \A atom \in Text("command", n) : atom.from # "launch"
    BY DEF Text
  <2> QED BY <1>1, <2>1 DEF Clean
<1>6. Clean(o, eligible)
  BY <1>2, <1>3, <1>5, OnlyClean, OverClean
<1>7. Auth \notin DOMAIN upper
  BY <1>1 DEF Isolation, Auth
<1>8. Auth \in DOMAIN o => Auth \in DOMAIN payload /\ o[Auth] = payload[Auth]
  BY <1>2, <1>3, <1>7 DEF Over, Only
<1> QED BY <1>4, <1>6, <1>8

\* The manifest sets the graphs of the image and leaves AUTH_MODULE_PATH alone.
LEMMA ManifestIs ==
  ASSUME NEW payload, NEW eligible, Clean(payload, eligible)
  PROVE  /\ Clean(WithManifest(payload), eligible)
         /\ Auth \in DOMAIN WithManifest(payload) =>
              Auth \in DOMAIN payload /\ WithManifest(payload)[Auth] = payload[Auth]
         /\ Graphs \in DOMAIN WithManifest(payload) /\ WithManifest(payload)[Graphs] = Text("image", Graphs)
<1>1. PICK upper : upper = Assign(Graphs, Text("image", Graphs))
  OBVIOUS
<1>2. PICK o : o = Over(upper, payload)
  OBVIOUS
<1>3. WithManifest(payload) = o
  BY <1>1, <1>2 DEF WithManifest
<1>4. Clean(upper, eligible)
  <2>1. \A atom \in Text("image", Graphs) : atom.from # "launch"
    BY DEF Text
  <2> QED BY <1>1, <2>1, AssignClean
<1>5. Clean(o, eligible)
  BY <1>2, <1>4, OverClean
<1>6. DOMAIN upper = {Graphs} /\ upper[Graphs] = Text("image", Graphs)
  BY <1>1 DEF Assign
<1>7. Auth # Graphs
  BY DEF Auth, Graphs
<1>8. Auth \in DOMAIN o => Auth \in DOMAIN payload /\ o[Auth] = payload[Auth]
  BY <1>2, <1>6, <1>7 DEF Over
<1>9. Graphs \in DOMAIN o /\ o[Graphs] = Text("image", Graphs)
  BY <1>2, <1>6 DEF Over
<1> QED BY <1>3, <1>5, <1>8, <1>9

\* The payload names the module that the image is built with: its file is requested.
LEMMA PatchedIs ==
  ASSUME UpInv, NEW p \in DOMAIN scene.args, at[p] = "planned", NEW ref, ref = FinalAuth(run[p].payload),
         NEW payload, payload = Patched(run[p].payload, ref)
  PROVE  /\ Clean(payload, run[p].eligible)
         /\ Auth \in DOMAIN payload =>
              \E atom \in payload[Auth] :
                /\ payload[Auth] = {atom}
                /\ atom.from = "container" => ByPath(ref, "auth") = <<Request(atom.key, "auth", "file")>>
                /\ atom.from \in DOMAIN AuthRefs => AuthRefs[atom.from].dotted
<1>0. p \in Procs /\ OfCommand(p) /\ Project
  BY ArgsProcs DEF UpInv
<1>1. PICK old : old = run[p].payload
  OBVIOUS
<1>2. Clean(old, run[p].eligible)
  BY <1>0, <1>1 DEF OfCommand, Payload, Clean
<1>3. ~plan[p].final
  BY <1>0 DEF OfCommand, Flow
<1>4. \A o \in DOMAIN AuthRefs : AuthRefs[o] \in Refs /\ o # "container"
  BY <1>0, ArgsProcs DEF IsScene, AuthRefs
<1>5. CASE Auth \notin DOMAIN old
  BY <1>1, <1>2, <1>5 DEF Patched
<1>6. CASE Auth \in DOMAIN old
  <2>1. PICK atom \in old[Auth] : old[Auth] = {atom} /\ atom.from # "container"
    BY <1>0, <1>1, <1>3, <1>6 DEF OfCommand, Payload, Authorised
  <2>2. ref = IF atom.from \in DOMAIN AuthRefs THEN AuthRefs[atom.from] ELSE NoRef
    BY <1>1, <1>6, <2>1, OneReference DEF FinalAuth
  <2>3. CASE ref.file = NoFile \/ ref.dotted
    <3>1. payload = old
      BY <1>1, <2>3 DEF Patched
    <3>2. atom.from \in DOMAIN AuthRefs => AuthRefs[atom.from].dotted
      BY <1>4, <2>2, <2>3, ProjectAssumption DEF Refs
    <3> QED BY <1>2, <2>1, <3>1, <3>2
  <2>4. CASE ref.file # NoFile /\ ~ref.dotted
    <3>1. payload = [old EXCEPT ![Auth] = Text("container", ref.file)]
      BY <1>1, <1>6, <2>4 DEF Patched
    <3>2. PICK new : new = [from |-> "container", key |-> ref.file]
      OBVIOUS
    <3>3. payload[Auth] = {new} /\ new.from = "container" /\ new.key = ref.file
      BY <1>6, <3>1, <3>2 DEF Text
    <3>4. DOMAIN payload = DOMAIN old /\ \A n \in DOMAIN old : n # Auth => payload[n] = old[n]
      BY <3>1
    <3>5. Clean(payload, run[p].eligible)
      BY <1>2, <3>3, <3>4 DEF Clean
    <3>6. ByPath(ref, "auth") = <<Request(new.key, "auth", "file")>>
      BY <2>4, <3>3 DEF ByPath
    <3> QED BY <1>4, <3>3, <3>5, <3>6
  <2> QED BY <2>3, <2>4
<1> QED BY <1>5, <1>6

\* No source that something else than auth asked for goes with the static auth.
LEMMA WithoutAuthIs ==
  ASSUME NEW selected, NEW rest, rest = WithoutAuthReasons(selected),
         \A f \in DOMAIN selected : {"data", "reasons"} \subseteq DOMAIN selected[f]
  PROVE  /\ DOMAIN rest \subseteq DOMAIN selected
         /\ \A f \in DOMAIN rest :
              /\ {"data", "reasons"} \subseteq DOMAIN rest[f]
              /\ rest[f].data = selected[f].data
              /\ rest[f].reasons = selected[f].reasons \ {"auth"} /\ selected[f].reasons # {"auth"}
         /\ \A f \in DOMAIN selected : ~(selected[f].reasons \subseteq {"auth"}) => f \in DOMAIN rest
<1>1. PICK kept : kept = {f \in DOMAIN selected : selected[f].reasons # {"auth"}}
  OBVIOUS
<1>2. rest = [f \in kept |-> [selected[f] EXCEPT !.reasons = @ \ {"auth"}]]
  BY <1>1 DEF WithoutAuthReasons
<1>3. DOMAIN rest = kept /\ \A f \in kept : rest[f] = [selected[f] EXCEPT !.reasons = @ \ {"auth"}]
  BY <1>2
<1>4. ASSUME NEW f \in kept
      PROVE  /\ {"data", "reasons"} \subseteq DOMAIN rest[f]
             /\ rest[f].data = selected[f].data
             /\ rest[f].reasons = selected[f].reasons \ {"auth"}
  <2>1. PICK s : s = selected[f]
    OBVIOUS
  <2>2. {"data", "reasons"} \subseteq DOMAIN s
    BY <1>1, <2>1
  <2>3. rest[f] = [s EXCEPT !.reasons = @ \ {"auth"}]
    BY <1>3, <2>1
  <2> QED BY <2>1, <2>2, <2>3
<1> QED BY <1>1, <1>3, <1>4

\* The final auth: the image is planned once more, with the module that the payload names.
LEMMA PlanUpAuthKeeps ==
  ASSUME UpInv, NEW p \in DOMAIN scene.args, PlanUpAuth(p)
  PROVE  UpInv'
<1>0. p \in Procs /\ OfCommand(p) /\ Project /\ at[p] = "planned" /\ Args(p).command = "up"
  BY ArgsProcs DEF UpInv, PlanUpAuth
<1>1. PICK ref : ref = FinalAuth(run[p].payload)
  OBVIOUS
<1>2. PICK patched : patched = Patched(run[p].payload, ref)
  OBVIOUS
<1>3. PICK manifest : manifest = WithManifest(patched)
  OBVIOUS
<1>4. PICK payload : payload = Isolated(manifest)
  OBVIOUS
<1>5. PICK compose : compose = Composed(p, payload)
  OBVIOUS
<1>6. PICK place : place = IF ComposeRefuses(p, payload) THEN "failed" ELSE "select"
  OBVIOUS
<1>7. PICK rest : rest = WithoutAuthReasons(plan[p].selected)
  OBVIOUS
<1>8. PICK todo : todo = ByPath(ref, "auth")
  OBVIOUS
<1>9. /\ run' = [run EXCEPT ![p].payload = payload, ![p].compose = compose]
      /\ plan' = [plan EXCEPT ![p] = [@ EXCEPT !.selected = rest, !.todo = todo, !.final = TRUE]]
      /\ Goto(p, place) /\ UNCHANGED <<project, bundle, scene, images, container>>
  <2>1. /\ PlanAuth(p, ref)
        /\ UNCHANGED <<project, bundle, scene, images, container>>
    BY <1>1 DEF PlanUpAuth
  <2>2. Goto(p, place)
    BY <1>1, <1>2, <1>3, <1>4, <1>6 DEF PlanUpAuth
  <2>3. run' = [run EXCEPT ![p].payload = payload, ![p].compose = compose]
    BY <1>1, <1>2, <1>3, <1>4, <1>5 DEF PlanUpAuth
  <2>4. plan' = [plan EXCEPT ![p] = [@ EXCEPT !.selected = rest, !.todo = todo, !.final = TRUE]]
    BY <1>7, <1>8, <2>1 DEF PlanAuth
  <2> QED BY <2>1, <2>2, <2>3, <2>4
<1>10. at'[p] = place /\ place \in {"failed", "select"} /\ Still /\ Alone(p)
  <2>1. at'[p] = place /\ Everywhere' /\ \A q \in Procs \ {p} : at'[q] = at[q]
    BY <1>0, <1>9, GotoDoes
  <2>2. DOMAIN plan' = Procs /\ \A q \in Procs \ {p} : plan'[q] = plan[q]
    BY <1>0, <1>9 DEF UpInv
  <2>3. DOMAIN run' = Procs /\ \A q \in Procs \ {p} : run'[q] = run[q]
    BY <1>0, <1>9 DEF UpInv
  <2> QED BY <1>6, <1>9, <2>1, <2>2, <2>3 DEF Alone, Still, project, UpInv
<1>11. /\ DOMAIN run'[p] = DOMAIN NoCommand
       /\ run'[p].payload = payload /\ run'[p].eligible = run[p].eligible
  <2>1. DOMAIN run[p] = DOMAIN NoCommand
    BY <1>0 DEF OfCommand, Payload
  <2>2. run'[p] = [run[p] EXCEPT !.payload = payload, !.compose = compose]
    BY <1>0, <1>9 DEF UpInv
  <2> QED BY <2>1, <2>2 DEF NoCommand
<1>12. /\ DOMAIN plan'[p] = DOMAIN NoPlan
       /\ plan'[p].selected = rest /\ plan'[p].todo = todo /\ plan'[p].final = TRUE
       /\ plan'[p].excluded = plan[p].excluded /\ plan'[p].settings = plan[p].settings
       /\ plan'[p].installs = plan[p].installs /\ plan'[p].roots = plan[p].roots
  <2>1. DOMAIN plan[p] = DOMAIN NoPlan
    BY <1>0 DEF OfCommand, PlanTyped
  <2>2. plan'[p] = [plan[p] EXCEPT !.selected = rest, !.todo = todo, !.final = TRUE]
    BY <1>0, <1>9 DEF UpInv
  <2> QED BY <2>1, <2>2 DEF NoPlan
<1>13. /\ DOMAIN rest \subseteq DOMAIN plan[p].selected
       /\ \A f \in DOMAIN rest :
            /\ {"data", "reasons"} \subseteq DOMAIN rest[f]
            /\ rest[f].data = plan[p].selected[f].data
            /\ rest[f].reasons = plan[p].selected[f].reasons \ {"auth"} /\ plan[p].selected[f].reasons # {"auth"}
       /\ \A f \in DOMAIN plan[p].selected : ~(plan[p].selected[f].reasons \subseteq {"auth"}) => f \in DOMAIN rest
  <2>1. \A f \in DOMAIN plan[p].selected : {"data", "reasons"} \subseteq DOMAIN plan[p].selected[f]
    BY <1>0 DEF OfCommand, PlanTyped
  <2> QED BY <1>7, <2>1, WithoutAuthIs
<1>14. ~IsCustom(p) /\ ~plan[p].final /\ HasPlan(p) /\ plan[p].todo = <<>>
  BY <1>0 DEF OfCommand, Flow, AtWork, OfCustom, OfUp, Inspected, HasPlan, Chosen, Choosing, Places
<1>15. todo \in Seq(Wanted)
  <2>1. ref \in Refs
    <3>1. NoRef \in Refs
      BY DEF NoRef, Refs
    <3>2. CASE Auth \notin DOMAIN run[p].payload
      BY <1>1, <3>1, <3>2 DEF FinalAuth
    <3>3. CASE Auth \in DOMAIN run[p].payload
      <4>1. PICK atom \in run[p].payload[Auth] : run[p].payload[Auth] = {atom}
        BY <1>0, <3>3 DEF OfCommand, Payload, Authorised
      <4>2. ref = IF atom.from \in DOMAIN AuthRefs THEN AuthRefs[atom.from] ELSE NoRef
        BY <1>1, <3>3, <4>1, OneReference DEF FinalAuth
      <4>3. \A o \in DOMAIN AuthRefs : AuthRefs[o] \in Refs
        BY <1>0, ArgsProcs DEF IsScene, AuthRefs
      <4> QED BY <3>1, <4>2, <4>3
    <3> QED BY <3>2, <3>3
  <2> QED BY <1>8, <2>1, ByPathWanted DEF Reasons
<1>16. Flow(p)'
  BY <1>0, <1>10, <1>14 DEF OfCommand, Flow, IsCustom, Args, Still, Places, OfCustom, OfUp, Writing, Inspected
<1>17. PlanTyped(p)'
  <2>1. \A g, data : FoundFor(g, data)' <=> FoundFor(g, data)
    BY <1>10, ExchangesStay DEF FoundFor, Still
  <2>2. ASSUME NEW g \in DOMAIN rest
        PROVE  /\ {"data", "reasons"} \subseteq DOMAIN rest[g]
               /\ FoundFor(g, rest[g].data)
               /\ rest[g].reasons \in (SUBSET Reasons) \ {{}}
    <3>1. FoundFor(g, plan[p].selected[g].data) /\ plan[p].selected[g].reasons \in (SUBSET Reasons) \ {{}}
      BY <1>0, <1>13 DEF OfCommand, PlanTyped
    <3> QED BY <1>13, <3>1
  <2> QED BY <1>0, <1>12, <1>13, <1>15, <2>1, <2>2 DEF OfCommand, PlanTyped
<1>18. AtWork(p)'
  BY <1>10 DEF AtWork, Chosen, Choosing
<1>19. Excludes(p)'
  <2>1. \A g : (Kept(p, g)' <=> Kept(p, g)) /\ (KeptHere(p, g)' <=> KeptHere(p, g))
    BY <1>10, <1>12 DEF Kept, KeptHere, Stayed, Still
  <2> QED BY <1>0, <1>10, <1>12, <1>13, <1>14, <2>1 DEF OfCommand, Excludes, Still
<1>20. Referred(p)'
  <2>1. References(plan[p].settings)' = References(plan[p].settings)
    BY <1>12 DEF References
  <2>2. ASSUME NEW g, IsSource(p, g) PROVE IsSource(p, g)'
    <3>1. g \in DOMAIN plan[p].selected /\ ~(plan[p].selected[g].reasons \subseteq {"auth"})
      <4>1. ~ComingAsSource(p, g)
        BY <1>14 DEF ComingAsSource
      <4> QED BY <2>2, <4>1 DEF IsSource
    <3>2. g \in DOMAIN rest /\ ~(rest[g].reasons \subseteq {"auth"})
      BY <1>13, <3>1
    <3> QED BY <1>12, <3>2 DEF IsSource
  <2> QED BY <1>0, <1>14, <2>1, <2>2 DEF OfCommand, Referred
<1>21. Bundled(p)'
  <2>1. bundle[p].archive = <<>> /\ DOMAIN bundle[p] = DOMAIN NoBundle /\ bundle'[p] = bundle[p]
    BY <1>0, <1>9 DEF OfCommand, Bundled, Archived
  <2> QED BY <1>10, <2>1 DEF Bundled
<1>22. Clean(payload, run[p].eligible)
  BY <1>0, <1>1, <1>2, <1>3, <1>4, PatchedIs, ManifestIs, IsolatedIs
<1>23. Authorised(p)'
  <2>1. SUFFICES ASSUME Auth \in DOMAIN payload
                 PROVE  \E atom \in payload[Auth] :
                          /\ payload[Auth] = {atom}
                          /\ atom.from = "container" => IsThere(p, atom.key)'
                          /\ atom.from \in DOMAIN AuthRefs => AuthRefs[atom.from].dotted
    BY <1>10, <1>11, <1>12 DEF Authorised, AuthRefs, Still
  <2>2. Clean(patched, run[p].eligible) /\ Clean(manifest, run[p].eligible)
    BY <1>0, <1>1, <1>2, <1>3, PatchedIs, ManifestIs
  <2>3. Auth \in DOMAIN manifest /\ payload[Auth] = manifest[Auth]
    BY <1>4, <2>1, <2>2, IsolatedIs
  <2>4. Auth \in DOMAIN patched /\ payload[Auth] = patched[Auth]
    BY <1>3, <2>2, <2>3, ManifestIs
  <2>5. PICK atom \in payload[Auth] :
          /\ payload[Auth] = {atom}
          /\ atom.from = "container" => ByPath(ref, "auth") = <<Request(atom.key, "auth", "file")>>
          /\ atom.from \in DOMAIN AuthRefs => AuthRefs[atom.from].dotted
    BY <1>0, <1>1, <1>2, <2>4, PatchedIs
  <2>6. atom.from = "container" => IsThere(p, atom.key)'
    <3>1. SUFFICES ASSUME atom.from = "container" PROVE Coming(p, atom.key)'
      BY DEF IsThere
    <3>2. todo = <<Request(atom.key, "auth", "file")>>
      BY <1>8, <2>5, <3>1
    <3>3. 1 \in DOMAIN todo /\ todo[1].what = atom.key /\ todo[1].how = "file"
      BY <3>2 DEF Request
    <3> QED BY <1>12, <3>3 DEF Coming
  <2> QED BY <2>5, <2>6
<1>24. Payload(p)'
  BY <1>10, <1>11, <1>22, <1>23 DEF Payload, Inspected, Clean
<1>25. OfCommand(p)'
  BY <1>16, <1>17, <1>18, <1>19, <1>20, <1>21, <1>24 DEF OfCommand
<1> QED BY <1>0, <1>9, <1>10, <1>25, StepKeeps DEF Built

\* Behind the archive a command leaves its plan and its bundle as they are.
LEMMA RestKeeps ==
  ASSUME NEW p, OfCommand(p), Still, UNCHANGED <<plan, bundle>>, Flow(p)', Payload(p)',
         at[p] \in {"payload"} \cup (Archived \ {"failed"}), at'[p] \in Archived,
         at'[p] \in {"archived", "build"} \/ (at'[p] = "compose" /\ ~IsCustom(p)) =>
           at[p] \in {"archived", "build"} \/ (at[p] = "compose" /\ ~IsCustom(p))
  PROVE  OfCommand(p)'
<1>1. at[p] \in Chosen /\ plan[p].todo = <<>>
  BY DEF OfCommand, AtWork, Chosen, Choosing, Archived, Places
<1>2. at'[p] \notin {"take", "chain", "check", "copy", "bundled"}
  BY DEF Archived
<1>3. HasPlan(p)' => HasPlan(p)
  <2>1. IsCustom(p)' <=> IsCustom(p)
    BY DEF IsCustom, Args, Still
  <2> QED BY <2>1 DEF HasPlan, Archived, Choosing, Writing
<1>4. PlanTyped(p)' /\ AtWork(p)' /\ Excludes(p)' /\ Referred(p)'
  BY <1>1, <1>2, <1>3, PlanFollows DEF OfCommand
<1>5. Bundled(p)'
  BY <1>2, BundleFollows DEF OfCommand
<1> QED BY <1>4, <1>5 DEF OfCommand

\* AUTH_MODULE_PATH is what it was, or gone.
LEMMA AuthorisedFollows ==
  ASSUME NEW p, Authorised(p), UNCHANGED <<scene, plan>>,
         Auth \in DOMAIN run'[p].payload => Auth \in DOMAIN run[p].payload /\ run'[p].payload[Auth] = run[p].payload[Auth]
  PROVE  Authorised(p)'
<1>1. \A f : IsThere(p, f)' <=> IsThere(p, f)
  BY SourcesStay
<1>2. (IsCustom(p)' <=> IsCustom(p)) /\ AuthRefs' = AuthRefs
  BY DEF IsCustom, Args, AuthRefs
<1> QED BY <1>1, <1>2 DEF Authorised

\* A command of the scene, with its arguments.
LEMMA CommandIs ==
  ASSUME UpInv, NEW p \in DOMAIN scene.args
  PROVE  /\ p \in Procs /\ OfCommand(p) /\ Project
         /\ {Args(p).custom, Args(p).recreate, Args(p).wait, Args(p).compose} \subseteq BOOLEAN
         /\ Args(p).tag \in Tags
BY ArgsProcs DEF UpInv, IsScene, IsCommand, Args

\* `up --image` resolves its payload without any plan.
LEMMA CustomPayloadKeeps ==
  ASSUME UpInv, NEW p \in DOMAIN scene.args, CustomPayload(p)
  PROVE  UpInv'
<1>0. p \in Procs /\ OfCommand(p) /\ at[p] = "payload" /\ IsCustom(p) /\ Args(p).command = "up"
  BY CommandIs DEF CustomPayload, OfCommand, Flow, OfUp
<1>1. CASE Aborts(p)
  BY <1>1, AbortsKeeps
<1>2. CASE ~Aborts(p)
  <2>1. PICK payload : payload = Isolated(run[p].payload)
    OBVIOUS
  <2>2. PICK compose : compose = Composed(p, payload)
    OBVIOUS
  <2>3. Continue(p, "inspect", [run[p] EXCEPT !.payload = payload, !.compose = compose])
    BY <1>2, <2>1, <2>2 DEF CustomPayload
  <2>4. /\ at'[p] = "inspect" /\ run'[p] = [run[p] EXCEPT !.payload = payload, !.compose = compose]
        /\ Alone(p) /\ Still /\ UNCHANGED <<plan, bundle, scene, images, container>>
    BY <1>0, <2>3, ContinueDoes
  <2>5. DOMAIN run'[p] = DOMAIN NoCommand /\ run'[p].payload = payload /\ run'[p].eligible = run[p].eligible
    BY <1>0, <2>4 DEF NoCommand, OfCommand, Payload
  <2>6. Clean(run[p].payload, run[p].eligible)
    BY <1>0 DEF OfCommand, Payload, Clean
  <2>7. /\ Clean(payload, run[p].eligible)
        /\ Auth \in DOMAIN payload => Auth \in DOMAIN run[p].payload /\ payload[Auth] = run[p].payload[Auth]
    BY <2>1, <2>6, IsolatedIs
  <2>8. Flow(p)'
    BY <1>0, <2>4 DEF OfCommand, Flow, IsCustom, Args, Still, Places, OfCustom, OfUp, Writing, Inspected
  <2>9. Authorised(p)'
    BY <1>0, <2>4, <2>5, <2>7, AuthorisedFollows DEF OfCommand, Payload
  <2>10. Payload(p)'
    BY <2>4, <2>5, <2>7, <2>9 DEF Payload, Inspected, Clean
  <2>11. OfCommand(p)'
    BY <1>0, <2>4, <2>8, <2>10, RestKeeps DEF Archived
  <2> QED BY <1>0, <2>4, <2>11, StepKeeps DEF Built
<1> QED BY <1>1, <1>2

\* Once the context is archived the command builds, or checks Compose first.
LEMMA AfterArchiveKeeps ==
  ASSUME UpInv, NEW p \in DOMAIN scene.args, AfterArchive(p)
  PROVE  UpInv'
<1>0. p \in Procs /\ OfCommand(p) /\ at[p] = "archived" /\ ~IsCustom(p)
  BY CommandIs DEF AfterArchive, OfCommand, Flow, OfCustom, OfUp, Inspected
<1>1. PICK place : place = IF Args(p).command = "up" /\ Args(p).compose THEN "compose" ELSE "build"
  OBVIOUS
<1>2. Continue(p, place, run[p])
  BY <1>1 DEF AfterArchive
<1>3. /\ at'[p] = place /\ run'[p] = run[p] /\ Still /\ UNCHANGED <<plan, bundle>>
  BY <1>0, <1>2, ContinueDoes
<1>4. Flow(p)'
  BY <1>0, <1>1, <1>3 DEF OfCommand, Flow, IsCustom, Args, Still, Places, OfCustom, OfUp, Writing, Inspected
<1>5. Payload(p)'
  BY <1>0, <1>1, <1>3, PayloadFollows DEF OfCommand, Still, Inspected
<1>6. OfCommand(p)'
  BY <1>0, <1>1, <1>3, <1>4, <1>5, RestKeeps DEF Archived
<1> QED BY <1>0, <1>1, <1>2, <1>6, OnwardKeeps DEF Built

\* The Compose payload is made from the payload of the container and compared with it.
LEMMA CheckComposeKeeps ==
  ASSUME UpInv, NEW p \in DOMAIN scene.args, CheckCompose(p)
  PROVE  UpInv'
<1>0. p \in Procs /\ OfCommand(p) /\ at[p] = "compose" /\ Args(p).command = "up"
  BY CommandIs DEF CheckCompose, OfCommand, Flow, OfUp
<1>1. CASE Aborts(p)
  BY <1>1, AbortsKeeps
<1>2. CASE ~Aborts(p)
  <2>1. PICK place : place = IF Args(p).custom THEN "clear" ELSE "build"
    OBVIOUS
  <2>2. Continue(p, place, run[p])
    BY <1>2, <2>1 DEF CheckCompose
  <2>3. /\ at'[p] = place /\ run'[p] = run[p] /\ Still /\ UNCHANGED <<plan, bundle>>
    BY <1>0, <2>2, ContinueDoes
  <2>4. Args(p).custom <=> IsCustom(p)
    BY <1>0, CommandIs DEF IsCustom
  <2>5. Flow(p)'
    BY <1>0, <2>1, <2>3, <2>4 DEF OfCommand, Flow, IsCustom, Args, Still, Places, OfCustom, OfUp, Writing, Inspected
  <2>6. Payload(p)'
    BY <1>0, <2>1, <2>3, <2>4, PayloadFollows DEF OfCommand, Still, Inspected
  <2>7. OfCommand(p)'
    BY <1>0, <2>1, <2>3, <2>4, <2>5, <2>6, RestKeeps DEF Archived
  <2> QED BY <1>0, <2>1, <2>2, <2>7, OnwardKeeps DEF Built
<1> QED BY <1>1, <1>2

\* The image is there: the payload names its manifest, and Compose gets what it selects of that.
LEMMA InspectImageKeeps ==
  ASSUME UpInv, NEW p \in DOMAIN scene.args, InspectImage(p)
  PROVE  UpInv'
<1>0. p \in Procs /\ OfCommand(p) /\ at[p] = "inspect" /\ Args(p).command = "up"
  BY CommandIs DEF InspectImage, OfCommand, Flow, OfUp
<1>1. CASE Aborts(p)
  BY <1>1, AbortsKeeps
<1>2. CASE ~Aborts(p)
  <2>1. PICK payload : payload = WithManifest(run[p].payload)
    OBVIOUS
  <2>2. PICK compose : compose = Composed(p, payload)
    OBVIOUS
  <2>3. PICK place : place = IF Args(p).custom /\ Args(p).compose THEN "compose" ELSE "clear"
    OBVIOUS
  <2>4. Continue(p, place, [run[p] EXCEPT !.payload = payload, !.compose = compose])
    BY <1>2, <2>1, <2>2, <2>3 DEF InspectImage
  <2>5. /\ at'[p] = place /\ run'[p] = [run[p] EXCEPT !.payload = payload, !.compose = compose]
        /\ Alone(p) /\ Still /\ UNCHANGED <<plan, bundle, scene, images, container>>
    BY <1>0, <2>4, ContinueDoes
  <2>6. /\ DOMAIN run'[p] = DOMAIN NoCommand
        /\ run'[p].payload = payload /\ run'[p].eligible = run[p].eligible /\ run'[p].compose = compose
    BY <1>0, <2>5 DEF NoCommand, OfCommand, Payload
  <2>7. Clean(run[p].payload, run[p].eligible)
    BY <1>0 DEF OfCommand, Payload, Clean
  <2>8. /\ Clean(payload, run[p].eligible)
        /\ Auth \in DOMAIN payload => Auth \in DOMAIN run[p].payload /\ payload[Auth] = run[p].payload[Auth]
        /\ Graphs \in DOMAIN payload /\ payload[Graphs] = Text("image", Graphs)
    BY <2>1, <2>7, ManifestIs
  <2>9. Args(p).custom <=> IsCustom(p)
    BY <1>0, CommandIs DEF IsCustom
  <2>10. Flow(p)'
    BY <1>0, <2>3, <2>5, <2>9 DEF OfCommand, Flow, IsCustom, Args, Still, Places, OfCustom, OfUp, Writing, Inspected
  <2>11. Authorised(p)'
    BY <1>0, <2>5, <2>6, <2>8, AuthorisedFollows DEF OfCommand, Payload
  <2>12. Args(p).compose => compose = ToCompose(p, payload)
    BY <2>2 DEF Composed, SelectComposePayload, ToCompose
  <2>13. Args(p)' = Args(p) /\ ToCompose(p, payload)' = ToCompose(p, payload)
    BY <2>5 DEF ToCompose, Args
  <2>14. Payload(p)'
    <3>1. ToCompose(p, run[p].payload)' = ToCompose(p, payload)
      BY <2>5, <2>6 DEF ToCompose, Args
    <3> QED BY <2>3, <2>5, <2>6, <2>8, <2>11, <2>12, <2>13, <3>1 DEF Payload, Clean
  <2>15. OfCommand(p)'
    BY <1>0, <2>3, <2>5, <2>9, <2>10, <2>14, RestKeeps DEF Archived
  <2>16. ~IsCustom(p) => place \in Built
    BY <2>3, <2>9 DEF Built
  <2> QED BY <1>0, <2>5, <2>6, <2>8, <2>15, <2>16, StepKeeps
<1> QED BY <1>1, <1>2

\* Compose starts the services with the payload that was checked, or fails.
LEMMA ComposeUpKeeps ==
  ASSUME UpInv, NEW p \in DOMAIN scene.args, ComposeUp(p)
  PROVE  UpInv'
<1>0. p \in Procs /\ OfCommand(p) /\ at[p] = "services" /\ Args(p).command = "up"
  BY CommandIs DEF ComposeUp, OfCommand, Flow, OfUp, Inspected
<1>1. CASE Aborts(p)
  BY <1>1, AbortsKeeps
<1>2. CASE ~Aborts(p)
  <2>1. Continue(p, "run", [run[p] EXCEPT !.posted = run[p].compose])
    BY <1>2 DEF ComposeUp
  <2>2. /\ at'[p] = "run" /\ run'[p] = [run[p] EXCEPT !.posted = run[p].compose]
        /\ Alone(p) /\ Still /\ UNCHANGED <<plan, bundle, scene, images, container>>
    BY <1>0, <2>1, ContinueDoes
  <2>3. /\ DOMAIN run'[p] = DOMAIN NoCommand
        /\ run'[p].payload = run[p].payload /\ run'[p].eligible = run[p].eligible
        /\ run'[p].compose = run[p].compose /\ run'[p].posted = run[p].compose
    BY <1>0, <2>2 DEF NoCommand, OfCommand, Payload
  <2>4. Flow(p)'
    BY <1>0, <2>2 DEF OfCommand, Flow, IsCustom, Args, Still, Places, OfCustom, OfUp, Writing, Inspected
  <2>5. Authorised(p)'
    BY <1>0, <2>2, <2>3, AuthorisedFollows DEF OfCommand, Payload
  <2>6. Args(p)' = Args(p) /\ ToCompose(p, run[p].payload)' = ToCompose(p, run[p].payload)
    BY <2>2, <2>3 DEF ToCompose, Args
  <2>7. Payload(p)'
    BY <1>0, <2>2, <2>3, <2>5, <2>6 DEF OfCommand, Payload, Inspected
  <2>8. OfCommand(p)'
    BY <1>0, <2>2, <2>4, <2>7, RestKeeps DEF Archived
  <2> QED BY <1>0, <2>2, <2>3, <2>8, StepKeeps DEF Built
<1> QED BY <1>1, <1>2

\* `up --wait` returns when the container is healthy, and fails when it is not.
LEMMA WaitReadyKeeps ==
  ASSUME UpInv, NEW p \in DOMAIN scene.args, WaitReady(p)
  PROVE  UpInv'
<1>0. p \in Procs /\ OfCommand(p) /\ at[p] = "wait"
  BY CommandIs DEF WaitReady
<1>1. CASE Aborts(p)
  BY <1>1, AbortsKeeps
<1>2. CASE ~Aborts(p)
  <2>1. Continue(p, "done", run[p])
    BY <1>2 DEF WaitReady
  <2>2. at'[p] = "done" /\ run'[p] = run[p] /\ Still /\ UNCHANGED <<plan, bundle>>
    BY <1>0, <2>1, ContinueDoes
  <2>3. Flow(p)'
    BY <1>0, <2>2 DEF OfCommand, Flow, IsCustom, Args, Still, Places, OfCustom, OfUp, Writing, Inspected
  <2>4. Payload(p)'
    BY <1>0, <2>2, PayloadFollows DEF OfCommand, Still, Inspected
  <2>5. OfCommand(p)'
    BY <1>0, <2>2, <2>3, <2>4, RestKeeps DEF Archived
  <2> QED BY <1>0, <2>1, <2>5, OnwardKeeps DEF Built
<1> QED BY <1>1, <1>2

(***************************************************************************)
(* The daemon.                                                             *)
(***************************************************************************)
\* A step of one command that leaves the project alone and the daemon right.
LEMMA DaemonKeeps ==
  ASSUME UpInv, NEW p \in Procs, Alone(p), Still, OfCommand(p)', ImagesOk', ContainerOk'
  PROVE  UpInv'
<1>1. Project'
  BY ProjectStays DEF UpInv
<1>2. \A q \in Procs \ {p} : OfCommand(q)'
  BY CommandStays DEF UpInv, Alone
<1> QED BY <1>1, <1>2 DEF UpInv, Alone

\* The name is free, or freed.
LEMMA ClearNameKeeps ==
  ASSUME UpInv, NEW p \in DOMAIN scene.args, ClearName(p)
  PROVE  UpInv'
<1>0. p \in Procs /\ OfCommand(p) /\ at[p] = "clear" /\ Args(p).command = "up" /\ Args(p).compose \in BOOLEAN
  BY CommandIs DEF ClearName, OfCommand, Flow, OfUp, Inspected
<1>1. PICK place : place = IF Args(p).compose THEN "services" ELSE "run"
  OBVIOUS
<1>2. ASSUME at'[p] = place, run'[p] = run[p], Still, UNCHANGED <<plan, bundle>> PROVE OfCommand(p)'
  <2>1. Flow(p)'
    BY <1>0, <1>1, <1>2 DEF OfCommand, Flow, IsCustom, Args, Still, Places, OfCustom, OfUp, Writing, Inspected
  <2>2. Authorised(p)'
    BY <1>0, <1>2, AuthorisedFollows DEF OfCommand, Payload, Still
  <2>3. Args(p)' = Args(p) /\ ToCompose(p, run[p].payload)' = ToCompose(p, run[p].payload)
    BY <1>2 DEF ToCompose, Args, Still
  <2>4. Payload(p)'
    BY <1>0, <1>1, <1>2, <2>2, <2>3 DEF OfCommand, Payload, Inspected, Still
  <2> QED BY <1>0, <1>1, <1>2, <2>1, <2>4, RestKeeps DEF Archived
<1>3. CASE Aborts(p)
  BY <1>3, AbortsKeeps
<1>4. CASE Continue(p, place, run[p])
  <2>1. at'[p] = place /\ run'[p] = run[p] /\ Still /\ UNCHANGED <<plan, bundle>>
    BY <1>0, <1>4, ContinueDoes
  <2> QED BY <1>0, <1>1, <1>2, <1>4, <2>1, OnwardKeeps DEF Built
<1>5. CASE container' = Nothing /\ Goto(p, place) /\ UNCHANGED <<project, plan, bundle, scene, run, images>>
  <2>1. at'[p] = place /\ Everywhere' /\ \A q \in Procs \ {p} : at'[q] = at[q]
    BY <1>0, <1>5, GotoDoes
  <2>2. Alone(p) /\ Still
    BY <1>5, <2>1 DEF Alone, Still, project, UpInv
  <2>3. OfCommand(p)'
    BY <1>2, <1>5, <2>1, <2>2
  <2>4. ImagesOk'
    BY <1>0, <1>1, <1>5, <2>1, <2>2, ImagesStay DEF UpInv, Built
  <2>5. ContainerOk'
    BY <1>5 DEF ContainerOk, Nothing
  <2> QED BY <1>0, <2>2, <2>3, <2>4, <2>5, DaemonKeeps
<1> QED BY <1>1, <1>3, <1>4, <1>5 DEF ClearName

\* The image holds what the archive of its command has, and all that is referred to is there.
LEMMA BuiltRight ==
  ASSUME UpInv, NEW p \in DOMAIN scene.args, at[p] = "build", UNCHANGED <<scene, plan, run>>,
         images'[Tag(p)] = ImageOf(p), at'[p] \in Built
  PROVE  ImageOk(Tag(p))'
<1>0. p \in Procs /\ OfCommand(p) /\ Project
  BY CommandIs
<1>1. PICK t : t = Tag(p)
  OBVIOUS
<1>2. PICK i : i = ImageOf(p)
  OBVIOUS
<1>3. /\ i.by = p /\ i.files = bundle[p].archive /\ i.manifest = References(plan[p].settings)
  BY <1>2 DEF ImageOf
<1>4. images'[t] = i /\ Tag(p)' = t
  BY <1>1, <1>2 DEF Tag, Args, UpTag
<1>5. ~IsCustom(p) /\ HasPlan(p) /\ plan[p].todo = <<>>
  BY <1>0 DEF OfCommand, Flow, AtWork, OfCustom, OfUp, Inspected, HasPlan, Chosen, Choosing, Places
<1>6. i.files = Planned(p) /\ DOMAIN i.files = DOMAIN plan[p].selected
  BY <1>0, <1>3 DEF OfCommand, Bundled, Planned
<1>7. \A f : ~Coming(p, f) /\ ~ComingAsSource(p, f)
  BY <1>5 DEF Coming, ComingAsSource
<1>8. \A ref \in i.manifest : Loads(ref, i.files)
  <2>1. ASSUME NEW ref \in i.manifest, ~ref.dotted PROVE ref.file \in DOMAIN i.files
    <3>1. IsSource(p, ref.file)
      BY <1>0, <1>3, <1>5, <2>1 DEF OfCommand, Referred
    <3> QED BY <1>6, <1>7, <3>1 DEF IsSource
  <2> QED BY <2>1 DEF Loads
<1>9. Auth \in DOMAIN run[p].payload =>
        \A atom \in run[p].payload[Auth] : atom.from = "container" => atom.key \in DOMAIN i.files
  <2>1. SUFFICES ASSUME Auth \in DOMAIN run[p].payload, NEW atom \in run[p].payload[Auth], atom.from = "container"
                 PROVE  atom.key \in DOMAIN i.files
    OBVIOUS
  <2>2. IsThere(p, atom.key)
    BY <1>0, <2>1 DEF OfCommand, Payload, Authorised
  <2> QED BY <1>6, <1>7, <2>2 DEF IsThere
<1>10. Planned(p)' = Planned(p) /\ IsCustom(p)' = IsCustom(p)
  BY DEF Planned, IsCustom, Args
<1>11. \A ref, files : Loads(ref, files)' <=> Loads(ref, files)
  BY DEF Loads
<1>12. ImageOk(t)'
  BY <1>0, <1>3, <1>4, <1>5, <1>6, <1>8, <1>9, <1>10, <1>11, ScenesAssumption DEF ImageOk
<1> QED BY <1>1, <1>4, <1>12

\* The tag of a command is one the daemon knows.
LEMMA TagIs ==
  ASSUME UpInv, NEW p \in DOMAIN scene.args
  PROVE  Tag(p) \in Tags
BY CommandIs DEF Tag, Tags, UpTag

\* Buildx moves the tag.
LEMMA DockerBuildKeeps ==
  ASSUME UpInv, NEW p \in DOMAIN scene.args, DockerBuild(p)
  PROVE  UpInv'
<1>0. p \in Procs /\ OfCommand(p) /\ at[p] = "build" /\ ~IsCustom(p)
  BY CommandIs DEF DockerBuild, OfCommand, Flow, OfCustom, OfUp, Inspected
<1>1. CASE Aborts(p)
  BY <1>1, AbortsKeeps
<1>2. CASE ~Aborts(p)
  <2>1. PICK place : place = IF Args(p).command = "up" THEN "inspect" ELSE "done"
    OBVIOUS
  <2>2. /\ images' = [images EXCEPT ![Tag(p)] = ImageOf(p)]
        /\ Goto(p, place) /\ UNCHANGED <<project, plan, bundle, scene, run, container>>
    BY <1>2, <2>1 DEF DockerBuild
  <2>3. at'[p] = place /\ Everywhere' /\ \A q \in Procs \ {p} : at'[q] = at[q]
    BY <1>0, <2>2, GotoDoes
  <2>4. Alone(p) /\ Still
    BY <2>2, <2>3 DEF Alone, Still, project, UpInv
  <2>5. Flow(p)'
    BY <1>0, <2>1, <2>2, <2>3 DEF OfCommand, Flow, IsCustom, Args, Places, OfCustom, OfUp, Writing, Inspected
  <2>6. Payload(p)'
    BY <1>0, <2>1, <2>2, <2>3, PayloadFollows DEF OfCommand, Inspected
  <2>7. OfCommand(p)'
    BY <1>0, <2>1, <2>2, <2>3, <2>4, <2>5, <2>6, RestKeeps DEF Archived
  <2>8. ImagesOk'
    <3>1. images = [t \in Tags |-> images[t]] /\ \A t \in Tags : ImageOk(t)
      BY DEF UpInv, ImagesOk
    <3>2. Tag(p) \in Tags
      BY TagIs
    <3>3. /\ images' = [t \in Tags |-> images'[t]]
          /\ images'[Tag(p)] = ImageOf(p)
          /\ \A t \in Tags : t # Tag(p) => images'[t] = images[t]
      BY <2>2, <3>1, <3>2
    <3>4. ImageOk(Tag(p))'
      BY <1>0, <2>1, <2>2, <2>3, <3>3, BuiltRight DEF Built
    <3>5. Tag(p)' = Tag(p)
      BY <2>2 DEF Tag, Args, UpTag
    <3>6. ASSUME NEW t \in Tags PROVE ImageOk(t)'
      <4>1. CASE t = Tag(p)
        <5>1. PICK u : u = Tag(p)
          OBVIOUS
        <5>2. ImageOk(u)'
          BY <3>4, <3>5, <5>1 DEF ImageOk
        <5> QED BY <4>1, <5>1, <5>2
      <4>2. CASE t # Tag(p)
        BY <1>0, <2>2, <2>4, <3>1, <3>3, <4>2, ImageStays DEF Built
      <4> QED BY <4>1, <4>2
    <3> QED BY <3>3, <3>6 DEF ImagesOk
  <2>9. ContainerOk'
    BY <1>0, <2>2, <2>4, CommandIs, ArgsProcs, ContainerStays DEF UpInv
  <2> QED BY <1>0, <2>4, <2>7, <2>8, <2>9, DaemonKeeps
<1> QED BY <1>1, <1>2

\* What a container of the image finds: its manifest, its modules and its environment.
LEMMA RunBoots ==
  ASSUME UpInv, NEW p \in DOMAIN scene.args, at[p] = "run",
         NEW c, c.payload = run[p].payload, c.image = images[Tag(p)], c.image.by \in {p, "baked"}
  PROVE  Boots(c)
<1>0. p \in Procs /\ OfCommand(p) /\ Project /\ Args(p).command = "up"
  BY CommandIs DEF OfCommand, Flow, OfUp, Inspected
<1>1. PICK resolved : resolved = ResolveEnvironment(PreloadedPlan(c.payload), PreloadedPolicy)
  OBVIOUS
<1>2. /\ ~Refused(resolved, PreloadedPolicy)
      /\ \A n \in DOMAIN resolved.values : n \in DOMAIN c.payload /\ resolved.values[n] = c.payload[n]
      /\ \A n \in DOMAIN c.payload : c.payload[n] # Unset => n \in DOMAIN resolved.values
  BY <1>1, PreloadedIs
<1>3. Graphs \in DOMAIN c.payload /\ c.payload[Graphs] = Text("image", Graphs)
  BY <1>0 DEF OfCommand, Payload, Inspected
<1>4. Text("image", Graphs) # Unset
  <2>1. PICK a : a = [from |-> "image", key |-> Graphs]
    OBVIOUS
  <2>2. PICK b : b = [from |-> "unset", key |-> ""]
    OBVIOUS
  <2>3. a # b
    BY <2>1, <2>2
  <2> QED BY <2>1, <2>2, <2>3 DEF Text, Unset
<1>5. resolved.values[Graphs] = Text("image", Graphs)
  BY <1>2, <1>3, <1>4
<1>6. PICK i : i = images[Tag(p)]
  OBVIOUS
<1>7. /\ i.by = "baked" => Tag(p) # UpTag /\ i.manifest = {}
      /\ i.by = p =>
           /\ \A ref \in i.manifest : Loads(ref, i.files)
           /\ Auth \in DOMAIN run[p].payload =>
                \A atom \in run[p].payload[Auth] : atom.from = "container" => atom.key \in DOMAIN i.files
  <2>1. ImageOk(Tag(p))
    BY TagIs DEF UpInv, ImagesOk
  <2> QED BY <1>0, <1>6, <2>1 DEF ImageOk
<1>8. \A ref \in i.manifest : Loads(ref, i.files)
  BY <1>6, <1>7
<1>9. AuthLoads(resolved.values, i.files)
  <2>1. SUFFICES ASSUME Auth \in DOMAIN run[p].payload, NEW atom \in run[p].payload[Auth]
                 PROVE  /\ atom.from = "container" => atom.key \in DOMAIN i.files
                        /\ atom.from \in DOMAIN AuthRefs => AuthRefs[atom.from].dotted
    BY <1>2 DEF AuthLoads
  <2>2. /\ atom.from = "container" => plan[p].final
        /\ atom.from \in DOMAIN AuthRefs /\ (plan[p].final \/ IsCustom(p)) => AuthRefs[atom.from].dotted
    BY <1>0, <2>1 DEF OfCommand, Payload, Authorised
  <2>3. (IsCustom(p) => ~plan[p].final) /\ (plan[p].final \/ IsCustom(p))
    BY <1>0 DEF OfCommand, Flow, OfUp, Inspected
  <2>4. CASE i.by = p
    BY <1>7, <2>1, <2>2, <2>3, <2>4
  <2>5. CASE i.by = "baked"
    <3>1. IsCustom(p)
      BY <1>0, <1>7, <2>5 DEF Tag, IsCustom
    <3> QED BY <2>2, <2>3, <3>1
  <2> QED BY <1>6, <2>4, <2>5
<1> QED BY <1>1, <1>2, <1>5, <1>6, <1>8, <1>9 DEF Boots

\* The container is started from what the tag names now.
LEMMA DockerRunKeeps ==
  ASSUME UpInv, NEW p \in DOMAIN scene.args, DockerRun(p)
  PROVE  UpInv'
<1>0. p \in Procs /\ OfCommand(p) /\ at[p] = "run" /\ Args(p).command = "up"
  BY CommandIs DEF DockerRun, OfCommand, Flow, OfUp, Inspected
<1>1. CASE Aborts(p)
  BY <1>1, AbortsKeeps
<1>2. CASE ~Aborts(p)
  <2>1. PICK place : place = IF Args(p).wait THEN "wait" ELSE "done"
    OBVIOUS
  <2>2. PICK c : c = [state |-> "starting", by |-> p, image |-> images[Tag(p)], payload |-> run[p].payload]
    OBVIOUS
  <2>3. /\ container' = c /\ Goto(p, place)
        /\ UNCHANGED <<project, plan, bundle, scene, run, images>>
    BY <1>2, <2>1, <2>2 DEF DockerRun
  <2>4. at'[p] = place /\ Everywhere' /\ \A q \in Procs \ {p} : at'[q] = at[q]
    BY <1>0, <2>3, GotoDoes
  <2>5. Alone(p) /\ Still
    BY <2>3, <2>4 DEF Alone, Still, project, UpInv
  <2>6. Flow(p)'
    BY <1>0, <2>1, <2>3, <2>4 DEF OfCommand, Flow, IsCustom, Args, Places, OfCustom, OfUp, Writing, Inspected
  <2>7. Payload(p)'
    BY <1>0, <2>1, <2>3, <2>4, PayloadFollows DEF OfCommand, Inspected
  <2>8. OfCommand(p)'
    BY <1>0, <2>1, <2>3, <2>4, <2>5, <2>6, <2>7, RestKeeps DEF Archived
  <2>9. ImagesOk'
    BY <1>0, <2>1, <2>3, <2>4, <2>5, ImagesStay DEF UpInv, Built
  <2>10. ContainerOk'
    <3>1. /\ DOMAIN c = {"state", "by", "image", "payload"} /\ c.state = "starting" /\ c.by = p
          /\ c.image = images[Tag(p)] /\ c.payload = run[p].payload
      BY <2>2
    <3>2. c.image.by \in {p, "baked"} => Boots(c)
      BY <1>0, <3>1, RunBoots
    <3>3. Boots(c)' <=> Boots(c)
      BY <2>3, BootsStays
    <3>4. Args(p).compose => run[p].posted = ToCompose(p, run[p].payload)
      BY <1>0 DEF OfCommand, Payload
    <3>5. Args(p)' = Args(p) /\ ToCompose(p, run[p].payload)' = ToCompose(p, run[p].payload)
      BY <2>3 DEF ToCompose, Args
    <3>6. Running'
      BY <2>1, <2>3, <2>4, <3>1, <3>2, <3>3, <3>4, <3>5 DEF Running
    <3> QED BY <3>6 DEF ContainerOk
  <2> QED BY <1>0, <2>5, <2>8, <2>9, <2>10, DaemonKeeps
<1> QED BY <1>1, <1>2

\* The application in the container starts, or does not.
LEMMA BootKeeps ==
  ASSUME UpInv, Boot
  PROVE  UpInv'
<1>1. Running /\ container.state = "starting"
  BY DEF UpInv, ContainerOk, Boot, Nothing
<1>2. PICK p \in Procs : p = container.by /\ p \in DOMAIN scene.args
  BY <1>1, CommandIs DEF Running
<1>3. Alone(p) /\ Still /\ UNCHANGED <<at, plan, bundle, run, images, scene>>
  BY DEF Boot, Alone, Still, buildVars, project, UpInv, Everywhere
<1>4. OfCommand(p)'
  BY <1>3, CommandStays DEF UpInv
<1>5. ImagesOk'
  BY <1>3, ImagesStay DEF UpInv
<1>6. PICK state : state = IF Boots(container) THEN "healthy" ELSE "crashed"
  OBVIOUS
<1>7. container' = [container EXCEPT !.state = state]
  BY <1>6 DEF Boot
<1>8. /\ DOMAIN container' = DOMAIN container /\ container'.state = state
      /\ container'.by = container.by /\ container'.image = container.image /\ container'.payload = container.payload
  BY <1>1, <1>7 DEF Running
<1>9. Boots(container)' <=> Boots(container)
  <2>1. PICK c : c = container'
    OBVIOUS
  <2>2. Boots(c)' <=> Boots(container)
    BY <1>3, <1>8, <2>1, BootsStays
  <2> QED BY <2>1, <2>2 DEF Boots
<1>10. Args(p)' = Args(p) /\ ToCompose(p, run[p].payload)' = ToCompose(p, run[p].payload)
  BY <1>3 DEF ToCompose, Args
<1>11. Running'
  BY <1>1, <1>2, <1>3, <1>6, <1>8, <1>9, <1>10 DEF Running
<1> QED BY <1>3, <1>4, <1>5, <1>11, DaemonKeeps DEF ContainerOk

(***************************************************************************)
(* The world.                                                              *)
(***************************************************************************)
\* A change of the project takes nothing back that was said of exchanged directories and links.
Forward ==
  /\ \A f \in Files :
       /\ Exchanged(f) => Exchanged(f)'
       /\ ExchangedBack(f) => ExchangedBack(f)'
       /\ ExchangedAgain(f) => ExchangedAgain(f)'
  /\ \A f \in Files : disk[f].ino # 0 => disk'[f].ino # 0
  /\ \A f \in Files : \A d \in Above[f] : dirs[d].moves # 0 => dirs'[d].moves # 0

\* A bundle that others write to keeps what its command knows of it.
Known(p) ==
  /\ DOMAIN bundle'[p] = DOMAIN bundle[p]
  /\ bundle'[p].todo = bundle[p].todo /\ bundle'[p].inventory = bundle[p].inventory
  /\ bundle'[p].archive = bundle[p].archive

\* What a command knows of its bundle survives what others do to the project.
LEMMA BundleWithstands ==
  ASSUME NEW p, PlanTyped(p), Bundled(p), Forward, Known(p), UNCHANGED <<scene, at, plan>>
  PROVE  Bundled(p)'
<1>1. Planned(p)' = Planned(p) /\ \A files : Copies(p, files)' <=> Copies(p, files)
  BY SourcesStay
<1>2. DOMAIN plan[p].selected \subseteq Files
  BY DEF PlanTyped
<1>3. Copied(p) => Copied(p)'
  <2>1. SUFFICES ASSUME Copied(p), NEW f \in DOMAIN bundle[p].inventory, bundle[p].inventory[f] = Outside
                 PROVE  ExchangedAgain(f)'
    BY <1>1 DEF Copied, Known
  <2> QED BY <1>2, <2>1 DEF Copied, Forward
<1>4. IsCustom(p)' <=> IsCustom(p)
  BY DEF IsCustom, Args
<1>5. PICK h : h = Head(bundle[p].todo)
  OBVIOUS
<1>6. at[p] = "copy" => bundle[p].todo # <<>> /\ (plan[p].selected[h].data = Outside => ExchangedBack(h)')
  <2>1. SUFFICES ASSUME at[p] = "copy" PROVE h \in Files
    BY <1>5 DEF Bundled, Forward
  <2>2. PICK todo \in Seq(DOMAIN plan[p].selected) : todo = bundle[p].todo /\ todo # <<>>
    BY <2>1 DEF Bundled
  <2>3. Head(todo) \in DOMAIN plan[p].selected
    BY <2>2, HeadTailProperties
  <2> QED BY <1>2, <1>5, <2>2, <2>3
<1>7. ExchangedBack(Head(bundle[p].todo))' <=> ExchangedBack(h)'
  BY <1>5 DEF ExchangedBack, Known
<1>8. \/ bundle[p].archive = <<>>
      \/ /\ at[p] \in Archived
         /\ bundle[p].archive = Planned(p)
         /\ \A f \in DOMAIN bundle[p].archive : bundle[p].archive[f] = Outside => ExchangedAgain(f)'
  <2>1. SUFFICES ASSUME bundle[p].archive # <<>>, NEW f \in DOMAIN bundle[p].archive, bundle[p].archive[f] = Outside
                 PROVE  ExchangedAgain(f)'
    BY DEF Bundled
  <2>2. ExchangedAgain(f) /\ f \in DOMAIN Planned(p)
    BY <2>1 DEF Bundled
  <2> QED BY <1>2, <2>2 DEF Planned, Forward
<1> QED BY <1>1, <1>3, <1>4, <1>5, <1>6, <1>7, <1>8 DEF Bundled, Known

\* A change of the project by others leaves every command, image and container right.
LEMMA WorldKeeps ==
  ASSUME UpInv, Project', Forward, UNCHANGED <<configs, scene, at, plan, run, images, container>>,
         DOMAIN bundle' = Procs, \A p \in Procs : Known(p)
  PROVE  UpInv'
<1>1. ASSUME NEW p \in Procs PROVE OfCommand(p)'
  <2>0. OfCommand(p) /\ Project
    BY DEF UpInv
  <2>1. Flow(p)'
    BY <2>0, FlowStays DEF OfCommand
  <2>2. \A f \in Files : \A data : FoundFor(f, data) => FoundFor(f, data)'
    BY DEF Forward, FoundFor
  <2>3. PlanTyped(p)'
    BY <2>0, <2>2 DEF OfCommand, PlanTyped
  <2>4. AtWork(p)'
    <3>1. at[p] = "chain" => FoundFor(Head(plan[p].todo).what, plan[p].taken.data)'
      BY <2>0, <2>2 DEF OfCommand, AtWork
    <3> QED BY <2>0, <3>1 DEF OfCommand, AtWork
  <2>5. HasPlan(p)' <=> HasPlan(p)
    BY HasPlanStays
  <2>6. Excludes(p)'
    <3>1. ASSUME NEW f \in Files \cup {NoFile}
          PROVE  (Kept(p, f) => Kept(p, f)') /\ (KeptHere(p, f) => KeptHere(p, f)')
      BY DEF Kept, KeptHere, Stayed, Forward
    <3>2. Config \in plan[p].excluded =>
            /\ plan[p].settings.dotenv \in Files \cup {NoFile}
            /\ plan[p].settings.cliDotenv \in Files \cup {NoFile}
            /\ plan[p].settings.pip \in Files \cup {NoFile}
      <4>1. SUFFICES ASSUME Config \in plan[p].excluded PROVE IsConfig(plan[p].settings)
        BY DEF IsConfig
      <4>2. PICK i \in DOMAIN configs : plan[p].settings = configs[i]
        BY <2>0, <4>1 DEF OfCommand, Excludes, Range
      <4> QED BY <2>0, <4>2, ArgsProcs DEF IsScene, Project
    <3>3. Config \in plan[p].excluded =>
            /\ Kept(p, plan[p].settings.dotenv)' /\ Kept(p, plan[p].settings.cliDotenv)'
            /\ KeptHere(p, plan[p].settings.pip)'
      <4>1. PICK f1 : f1 = plan[p].settings.dotenv
        OBVIOUS
      <4>2. PICK f2 : f2 = plan[p].settings.cliDotenv
        OBVIOUS
      <4>3. PICK f3 : f3 = plan[p].settings.pip
        OBVIOUS
      <4>4. Config \in plan[p].excluded => Kept(p, f1)' /\ Kept(p, f2)' /\ KeptHere(p, f3)'
        BY <2>0, <3>1, <3>2, <4>1, <4>2, <4>3 DEF OfCommand, Excludes
      <4> QED BY <4>1, <4>2, <4>3, <4>4 DEF Kept, KeptHere
    <3> QED BY <2>0, <2>5, <3>3 DEF OfCommand, Excludes
  <2>7. Referred(p)'
    BY <2>0, <2>5, ReferredStays DEF OfCommand
  <2>8. Bundled(p)'
    BY <2>0, BundleWithstands DEF OfCommand
  <2>9. Payload(p)'
    BY <2>0, PayloadStays DEF OfCommand
  <2> QED BY <2>1, <2>3, <2>4, <2>6, <2>7, <2>8, <2>9 DEF OfCommand
<1>2. ASSUME NEW t \in Tags PROVE ImageOk(t)'
  <2>1. ImageOk(t)
    BY DEF UpInv, ImagesOk
  <2>2. \A p : (IsCustom(p)' <=> IsCustom(p)) /\ Planned(p)' = Planned(p)
    BY DEF IsCustom, Args, Planned
  <2>3. \A ref, files : Loads(ref, files)' <=> Loads(ref, files)
    BY DEF Loads
  <2> QED BY <2>1, <2>2, <2>3 DEF ImageOk
<1>3. ContainerOk'
  <2>1. CASE container = Nothing
    BY <2>1 DEF ContainerOk, Nothing
  <2>2. CASE container # Nothing
    <3>1. Running
      BY <2>2 DEF UpInv, ContainerOk
    <3>2. Boots(container)' <=> Boots(container)
      BY BootsStays
    <3>3. \A q : Args(q)' = Args(q) /\ \A payload : ToCompose(q, payload)' = ToCompose(q, payload)
      BY DEF Args, ToCompose
    <3> QED BY <3>1, <3>2, <3>3 DEF Running, ContainerOk
  <2> QED BY <2>1, <2>2
<1> QED BY <1>1, <1>2, <1>3 DEF UpInv, ImagesOk, Everywhere

\* A file is rewritten, replaced, erased or linked.
LEMMA EditKeeps ==
  ASSUME UpInv, NEW f \in Files, NEW entry, Edit(f, entry), UNCHANGED <<scene, run, images, container>>,
         entry \in [kind : Kinds, ino : 0..MaxEdits, stamp : 0..MaxEdits, data : Contents],
         entry.data.of = f, entry.kind = "link" => entry.ino # 0, disk[f].ino # 0 => entry.ino # 0
  PROVE  UpInv'
<1>1. /\ disk' = [disk EXCEPT ![f] = entry] /\ edits < MaxEdits /\ edits' = edits + 1
      /\ UNCHANGED <<configs, dirs, at, plan, bundle>>
  BY DEF Edit
<1>2. Project
  BY DEF UpInv
<1>3. /\ disk' \in [Files -> [kind : Kinds, ino : 0..MaxEdits, stamp : 0..MaxEdits, data : Contents]]
      /\ disk'[f] = entry /\ \A g \in Files : g # f => disk'[g] = disk[g]
  BY <1>1, <1>2 DEF Project
<1>4. edits \in Nat /\ MaxEdits \in Nat /\ edits' \in 0..MaxEdits
  BY <1>1, <1>2, ProjectAssumption DEF Project
<1>5. \A d \in Dirs : dirs'[d].moves <= edits'
  <2>1. \A d \in Dirs : dirs[d].moves \in Nat /\ dirs[d].moves <= edits
    BY <1>2, ProjectAssumption DEF Project
  <2> QED BY <1>1, <1>4, <2>1
<1>6. Project'
  BY <1>1, <1>2, <1>3, <1>4, <1>5 DEF Project
<1>7. Forward
  <2>1. \A g \in Files : disk[g].ino # 0 => disk'[g].ino # 0
    BY <1>3
  <2>2. \A g : /\ Exchanged(g) => Exchanged(g)'
               /\ ExchangedBack(g) => ExchangedBack(g)'
               /\ ExchangedAgain(g) => ExchangedAgain(g)'
    BY <1>1, ExchangesStay
  <2> QED BY <1>1, <2>1, <2>2 DEF Forward
<1> QED BY <1>1, <1>6, <1>7, WorldKeeps DEF UpInv, Known

\* Editing, replacing, erasing and linking a file are such changes.
LEMMA FilesKeep ==
  ASSUME UpInv, NEW f \in Files, UNCHANGED <<scene, run, images, container>>,
         Rewrite(f) \/ RewriteQuietly(f) \/ Replace(f) \/ Erase(f) \/ Link(f)
  PROVE  UpInv'
<1>1. PICK e : e = disk[f]
  OBVIOUS
<1>2. /\ e \in [kind : Kinds, ino : 0..MaxEdits, stamp : 0..MaxEdits, data : Contents]
      /\ e.data.of = f /\ (e.kind = "link" => e.ino # 0)
  BY <1>1 DEF UpInv, Project
<1>3. edits < MaxEdits
  BY DEF Rewrite, RewriteQuietly, Replace, Erase, Link, Edit
<1>4. PICK n \in 1..MaxEdits : n = edits + 1 /\ n \in 0..MaxEdits
  BY <1>3, ProjectAssumption DEF UpInv, Project
<1>5. PICK data : data = New(f) /\ data \in Contents /\ data.of = f
  <2>1. PICK data : data = [of |-> f, version |-> n]
    OBVIOUS
  <2>2. data \in Contents /\ data.of = f
    BY <1>4, <2>1 DEF Contents
  <2> QED BY <1>4, <2>1, <2>2 DEF New
<1>6. CASE Rewrite(f)
  <2>1. PICK entry : entry = [e EXCEPT !.stamp = n, !.data = data]
    OBVIOUS
  <2>2. Edit(f, entry) /\ e.kind = "file"
    BY <1>1, <1>4, <1>5, <1>6, <2>1 DEF Rewrite
  <2>3. /\ entry \in [kind : Kinds, ino : 0..MaxEdits, stamp : 0..MaxEdits, data : Contents]
        /\ entry.data = data /\ entry.kind = e.kind /\ entry.ino = e.ino
    BY <1>2, <1>4, <1>5, <2>1
  <2> QED BY <1>1, <1>2, <1>5, <2>2, <2>3, EditKeeps
<1>7. CASE RewriteQuietly(f)
  <2>1. PICK entry : entry = [e EXCEPT !.data = data]
    OBVIOUS
  <2>2. Edit(f, entry) /\ e.kind = "file"
    BY <1>1, <1>5, <1>7, <2>1 DEF RewriteQuietly
  <2>3. /\ entry \in [kind : Kinds, ino : 0..MaxEdits, stamp : 0..MaxEdits, data : Contents]
        /\ entry.data = data /\ entry.kind = e.kind /\ entry.ino = e.ino
    BY <1>2, <1>5, <2>1
  <2> QED BY <1>1, <1>2, <1>5, <2>2, <2>3, EditKeeps
<1>8. CASE Replace(f)
  <2>1. PICK entry : entry = [kind |-> "file", ino |-> n, stamp |-> n, data |-> data]
    OBVIOUS
  <2>2. Edit(f, entry)
    BY <1>4, <1>5, <1>8, <2>1 DEF Replace
  <2>3. /\ entry \in [kind : Kinds, ino : 0..MaxEdits, stamp : 0..MaxEdits, data : Contents]
        /\ entry.data = data /\ entry.kind = "file" /\ entry.ino = n
    BY <1>4, <1>5, <2>1 DEF Kinds
  <2> QED BY <1>4, <1>5, <2>2, <2>3, EditKeeps
<1>9. CASE Erase(f)
  <2>1. PICK entry : entry = [e EXCEPT !.kind = "none"]
    OBVIOUS
  <2>2. Edit(f, entry)
    BY <1>1, <1>9, <2>1 DEF Erase
  <2>3. /\ entry \in [kind : Kinds, ino : 0..MaxEdits, stamp : 0..MaxEdits, data : Contents]
        /\ entry.data = e.data /\ entry.kind = "none" /\ entry.ino = e.ino
    BY <1>2, <2>1 DEF Kinds
  <2> QED BY <1>1, <1>2, <2>2, <2>3, EditKeeps
<1>10. CASE Link(f)
  <2>1. PICK entry : entry = [e EXCEPT !.kind = "link", !.ino = n]
    OBVIOUS
  <2>2. Edit(f, entry)
    BY <1>1, <1>4, <1>10, <2>1 DEF Link
  <2>3. /\ entry \in [kind : Kinds, ino : 0..MaxEdits, stamp : 0..MaxEdits, data : Contents]
        /\ entry.data = e.data /\ entry.kind = "link" /\ entry.ino = n
    BY <1>2, <1>4, <2>1 DEF Kinds
  <2> QED BY <1>2, <1>4, <2>2, <2>3, EditKeeps
<1> QED BY <1>6, <1>7, <1>8, <1>9, <1>10

\* A directory is exchanged for a link, for another one, or back.
LEMMA ExchangeKeeps ==
  ASSUME UpInv, NEW d \in Dirs, ExchangeDir(d), UNCHANGED <<scene, run, images, container>>
  PROVE  UpInv'
<1>1. PICK entry \in {[kind |-> "link", ino |-> edits + 1], [kind |-> "dir", ino |-> edits + 1],
                      [kind |-> "dir", ino |-> 0]} :
        dirs' = [dirs EXCEPT ![d] = [kind |-> entry.kind, ino |-> entry.ino, moves |-> @.moves + 1]]
  BY DEF ExchangeDir
<1>2. Project /\ edits < MaxEdits /\ edits' = edits + 1 /\ UNCHANGED <<configs, disk, at, plan, bundle>>
  BY DEF UpInv, ExchangeDir
<1>3. edits \in Nat /\ MaxEdits \in Nat /\ edits' \in 0..MaxEdits
  BY <1>2, ProjectAssumption DEF Project
<1>4. PICK new : new = [kind |-> entry.kind, ino |-> entry.ino, moves |-> dirs[d].moves + 1]
  OBVIOUS
<1>5. \A e \in Dirs : dirs[e].moves \in Nat /\ dirs[e].moves <= edits
  BY <1>2, <1>3 DEF Project
<1>6. /\ new \in [kind : {"dir", "link"}, ino : 0..MaxEdits, moves : 0..MaxEdits]
      /\ new.moves = dirs[d].moves + 1
  <2>1. entry.kind \in {"dir", "link"} /\ entry.ino \in 0..MaxEdits
    BY <1>2, <1>3
  <2>2. dirs[d].moves + 1 \in 0..MaxEdits
    BY <1>2, <1>3, <1>5
  <2> QED BY <1>4, <2>1, <2>2
<1>7. /\ dirs' \in [Dirs -> [kind : {"dir", "link"}, ino : 0..MaxEdits, moves : 0..MaxEdits]]
      /\ dirs'[d] = new /\ \A e \in Dirs : e # d => dirs'[e] = dirs[e]
  BY <1>1, <1>2, <1>4, <1>6 DEF Project
<1>8. \A e \in Dirs : dirs'[e].moves \in Nat /\ dirs'[e].moves >= dirs[e].moves
                       /\ (e # d => dirs'[e] = dirs[e]) /\ (e = d => dirs'[e].moves = dirs[e].moves + 1)
  BY <1>5, <1>6, <1>7
<1>9. Project'
  <2>1. \A e \in Dirs : dirs'[e].moves <= edits' /\ (dirs'[e].kind = "link" => dirs'[e].moves # 0)
    BY <1>2, <1>3, <1>5, <1>8 DEF Project
  <2> QED BY <1>2, <1>3, <1>7, <2>1 DEF Project
<1>10. Forward
  <2>1. SUFFICES ASSUME NEW f \in Files
                 PROVE  /\ Exchanged(f) => Exchanged(f)'
                        /\ ExchangedBack(f) => ExchangedBack(f)'
                        /\ ExchangedAgain(f) => ExchangedAgain(f)'
                        /\ \A e \in Above[f] : dirs[e].moves # 0 => dirs'[e].moves # 0
    BY <1>2 DEF Forward
  <2>2. Above[f] \subseteq Dirs
    BY <2>1, ProjectAssumption
  <2>3. Exchanged(f) => Exchanged(f)'
    <3>1. ASSUME NEW e \in Above[f] \ {Root}, dirs[e].moves > 0, dirs[e].kind = "link" \/ dirs[e].moves > 1
          PROVE  dirs'[e].moves > 0 /\ (dirs'[e].kind = "link" \/ dirs'[e].moves > 1)
      BY <1>5, <1>8, <2>2, <3>1
    <3> QED BY <3>1 DEF Exchanged
  <2>4. ExchangedBack(f) => ExchangedBack(f)'
    <3>1. ASSUME NEW e \in Above[f] \ {Root}, dirs[e].moves > 1, dirs[e].kind = "dir" \/ dirs[e].moves > 2
          PROVE  dirs'[e].moves > 1 /\ (dirs'[e].kind = "dir" \/ dirs'[e].moves > 2)
      BY <1>5, <1>8, <2>2, <3>1
    <3> QED BY <3>1 DEF ExchangedBack
  <2>5. ExchangedAgain(f) => ExchangedAgain(f)'
    <3>1. ASSUME NEW e \in Above[f] \ {Root}, NEW g \in Above[f] \ {Root},
                 dirs[e].moves > (IF e = g THEN 2 ELSE 1), dirs[g].moves > 0
          PROVE  dirs'[e].moves > (IF e = g THEN 2 ELSE 1) /\ dirs'[g].moves > 0
      BY <1>5, <1>8, <2>2, <3>1
    <3> QED BY <3>1 DEF ExchangedAgain
  <2>6. \A e \in Above[f] : dirs[e].moves # 0 => dirs'[e].moves # 0
    BY <1>5, <1>8, <2>2
  <2> QED BY <2>3, <2>4, <2>5, <2>6
<1> QED BY <1>2, <1>9, <1>10, WorldKeeps DEF UpInv, Known

\* Something else writes to a context or sweeps it away.
LEMMA TamperKeeps ==
  ASSUME UpInv, NEW q \in Procs, Tamper(q), UNCHANGED <<scene, run, images, container>>
  PROVE  UpInv'
<1>1. Project /\ edits < MaxEdits /\ edits' = edits + 1 /\ UNCHANGED <<configs, disk, dirs, at, plan>>
  BY DEF UpInv, Tamper
<1>2. edits \in Nat /\ MaxEdits \in Nat /\ edits' \in 0..MaxEdits
  BY <1>1, ProjectAssumption DEF Project
<1>3. \A e \in Dirs : dirs[e].moves \in Nat /\ dirs[e].moves <= edits'
  BY <1>1, <1>2 DEF Project
<1>4. Project'
  BY <1>1, <1>2, <1>3 DEF Project
<1>5. Forward
  <2>1. \A g : /\ Exchanged(g) => Exchanged(g)'
               /\ ExchangedBack(g) => ExchangedBack(g)'
               /\ ExchangedAgain(g) => ExchangedAgain(g)'
    BY <1>1, ExchangesStay
  <2> QED BY <1>1, <2>1 DEF Forward
<1>6. DOMAIN bundle = Procs /\ DOMAIN bundle[q] = {"todo", "inventory", "context", "archive", "exists"}
  BY DEF UpInv, OfCommand, Bundled, NoBundle
<1>7. DOMAIN bundle' = Procs /\ \A p \in Procs : Known(p)
  <2>1. CASE bundle' = [bundle EXCEPT ![q].context = <<>>, ![q].exists = FALSE]
    BY <1>6, <2>1 DEF Known
  <2>2. CASE \E f \in DOMAIN bundle[q].context \cup {"stray"} :
               bundle' = [bundle EXCEPT ![q].context = Put(@, f, Outside)]
    <3>1. PICK f : bundle' = [bundle EXCEPT ![q].context = Put(@, f, Outside)]
      BY <2>2
    <3>2. PICK context : context = Put(bundle[q].context, f, Outside)
      OBVIOUS
    <3>3. bundle' = [bundle EXCEPT ![q] = [bundle[q] EXCEPT !.context = context]]
      BY <3>1, <3>2
    <3> QED BY <1>6, <3>3 DEF Known
  <2> QED BY <2>1, <2>2 DEF Tamper
<1> QED BY <1>1, <1>4, <1>5, <1>7, WorldKeeps

(***************************************************************************)
(* The invariant.                                                          *)
(***************************************************************************)
\* A command that has not begun.
LEMMA BeginsRight ==
  ASSUME Init, NEW p \in Procs
  PROVE  OfCommand(p)
<1>1. /\ plan[p] = NoPlan /\ bundle[p] = NoBundle /\ run[p] = NoCommand
      /\ at[p] = IF p \in DOMAIN scene.args THEN "start" ELSE "done"
  BY DEF Init, BuildInit
<1>2. /\ plan[p].excluded = {} /\ plan[p].todo = <<>> /\ plan[p].selected = <<>>
      /\ plan[p].installs = {} /\ plan[p].roots = {} /\ plan[p].final = FALSE
  BY <1>1 DEF NoPlan
<1>3. bundle[p].archive = <<>> /\ run[p].payload = <<>> /\ DOMAIN <<>> = {} /\ <<>> \in Seq(Wanted)
  BY <1>1 DEF NoBundle, NoCommand
<1>4. at[p] \in {"start", "done"} /\ ~HasPlan(p)
  BY <1>1 DEF HasPlan, Choosing, Writing
<1>5. Flow(p)
  BY <1>1, <1>2 DEF Flow, Places, OfCustom, OfUp, Inspected, Writing
<1>6. PlanTyped(p) /\ AtWork(p)
  BY <1>1, <1>2, <1>3, <1>4 DEF PlanTyped, AtWork
<1>7. Excludes(p) /\ Referred(p)
  BY <1>2, <1>3, <1>4 DEF Excludes, Referred
<1>8. Bundled(p)
  BY <1>1, <1>3, <1>4 DEF Bundled
<1>9. Payload(p)
  BY <1>1, <1>3, <1>4 DEF Payload, Authorised, Inspected
<1> QED BY <1>5, <1>6, <1>7, <1>8, <1>9 DEF OfCommand

\* Nothing is planned, built or started at first.
LEMMA InitRight ==
  Init => UpInv
<1> SUFFICES ASSUME Init PROVE UpInv
  OBVIOUS
<1>1. scene.edits \in 0..MaxEdits /\ MaxEdits \in Nat
  BY ScenesAssumption, ProjectAssumption DEF Init, IsScene
<1>2. edits \in 0..MaxEdits
  BY <1>1 DEF Init, BuildInit
<1>3. /\ \A f \in Files : Text0(f) \in Contents /\ Text0(f).of = f
      /\ disk \in [Files -> [kind : Kinds, ino : 0..MaxEdits, stamp : 0..MaxEdits, data : Contents]]
      /\ \A f \in Files : disk[f].data.of = f /\ disk[f].kind # "link"
  <2>1. \A f \in Files : Text0(f) \in Contents /\ Text0(f).of = f
    BY <1>1 DEF Text0, Contents
  <2> QED BY <1>1, <2>1 DEF Init, BuildInit, Kinds
<1>4. /\ dirs \in [Dirs -> [kind : {"dir", "link"}, ino : 0..MaxEdits, moves : 0..MaxEdits]]
      /\ \A d \in Dirs : dirs[d].moves <= edits /\ dirs[d].kind # "link"
  BY <1>1, <1>2 DEF Init, BuildInit
<1>5. Project
  BY <1>2, <1>3, <1>4 DEF Init, Project
<1>6. Everywhere /\ DOMAIN plan = Procs /\ DOMAIN bundle = Procs /\ DOMAIN run = Procs
  BY DEF Init, BuildInit, Everywhere
<1>7. ImagesOk
  <2>1. images = [t \in Tags |-> images[t]]
    BY DEF Init
  <2>2. ASSUME NEW t \in Tags PROVE ImageOk(t)
    <3>1. CASE t = "baked"
      <4>1. images[t].by = "baked" /\ images[t].manifest = {}
        BY <3>1 DEF Init
      <4> QED BY <3>1, <4>1, ScenesAssumption DEF ImageOk, UpTag
    <3>2. CASE t # "baked"
      <4>1. images[t].by = "nobody"
        BY <3>2 DEF Init, NoImage
      <4> QED BY <4>1, ScenesAssumption DEF ImageOk
    <3> QED BY <3>1, <3>2
  <2> QED BY <2>1, <2>2 DEF ImagesOk
<1>8. ContainerOk
  BY DEF Init, ContainerOk
<1> QED BY <1>5, <1>6, <1>7, <1>8, BeginsRight DEF UpInv

\* A step of one command on its plan, its bundle or the context keeps the invariant.
LEMMA BuildStepKeeps ==
  ASSUME UpInv, NEW p \in DOMAIN scene.args, BuildStep(p), UNCHANGED <<scene, run, images, container>>
  PROVE  UpInv'
<1>1. CASE ReadConfig(p)
  BY <1>1, ReadConfigKeeps
<1>2. CASE Look(p)
  BY <1>2, LookKeeps
<1>3. CASE Take(p)
  BY <1>3, TakeKeeps
<1>4. CASE Chain(p)
  BY <1>4, ChainKeeps
<1>5. CASE FinishPlan(p)
  BY <1>5, FinishPlanKeeps
<1>6. CASE OpenOutput(p)
  BY <1>6, OpenOutputKeeps
<1>7. CASE CheckSource(p)
  BY <1>7, CheckSourceKeeps
<1>8. CASE CopySource(p)
  BY <1>8, CopySourceKeeps
<1>9. CASE WriteRest(p)
  BY <1>9, WriteRestKeeps
<1>10. CASE ArchiveContext(p)
  BY <1>10, ArchiveKeeps
<1>11. CASE WriteDone(p)
  BY <1>11, WriteDoneKeeps
<1> QED BY <1>1, <1>2, <1>3, <1>4, <1>5, <1>6, <1>7, <1>8, <1>9, <1>10, <1>11 DEF BuildStep, PlanStep, WriteStep

\* So does a step with its environment, its image or its container.
LEMMA CommandKeeps ==
  ASSUME UpInv, NEW p \in DOMAIN scene.args, Command(p)
  PROVE  UpInv'
<1>1. CASE ResolveUp(p)
  BY <1>1, ResolveUpKeeps
<1>2. CASE StartBuild(p)
  BY <1>2, StartBuildKeeps
<1>3. CASE PlanUpAuth(p)
  BY <1>3, PlanUpAuthKeeps
<1>4. CASE CustomPayload(p)
  BY <1>4, CustomPayloadKeeps
<1>5. CASE RenderOnly(p)
  BY <1>5, RenderOnlyKeeps
<1>6. CASE AfterArchive(p)
  BY <1>6, AfterArchiveKeeps
<1>7. CASE CheckCompose(p)
  BY <1>7, CheckComposeKeeps
<1>8. CASE DockerBuild(p)
  BY <1>8, DockerBuildKeeps
<1>9. CASE InspectImage(p)
  BY <1>9, InspectImageKeeps
<1>10. CASE ClearName(p)
  BY <1>10, ClearNameKeeps
<1>11. CASE ComposeUp(p)
  BY <1>11, ComposeUpKeeps
<1>12. CASE DockerRun(p)
  BY <1>12, DockerRunKeeps
<1>13. CASE WaitReady(p)
  BY <1>13, WaitReadyKeeps
<1> QED BY <1>1, <1>2, <1>3, <1>4, <1>5, <1>6, <1>7, <1>8, <1>9, <1>10, <1>11, <1>12, <1>13 DEF Command

\* Every step keeps the invariant.
LEMMA NextKeeps ==
  UpInv /\ [Next]_upVars => UpInv'
<1> SUFFICES ASSUME UpInv, [Next]_upVars PROVE UpInv'
  OBVIOUS
<1>1. CASE \E p \in DOMAIN scene.args : Command(p)
  BY <1>1, CommandKeeps
<1>2. CASE \E p \in DOMAIN scene.args : BuildStep(p) /\ UNCHANGED <<scene, run, images, container>>
  BY <1>2, BuildStepKeeps
<1>3. CASE World /\ UNCHANGED <<scene, run, images, container>>
  BY <1>3, FilesKeep, ExchangeKeeps, TamperKeeps DEF World
<1>4. CASE Boot
  BY <1>4, BootKeeps
<1>5. CASE UNCHANGED upVars
  <2>1. UNCHANGED <<configs, disk, dirs, edits, at, plan, bundle, scene, run, images, container>>
    BY <1>5 DEF upVars, buildVars, project
  <2>2. Project'
    BY <2>1 DEF UpInv, Project
  <2>3. \A g : /\ Exchanged(g) => Exchanged(g)'
               /\ ExchangedBack(g) => ExchangedBack(g)'
               /\ ExchangedAgain(g) => ExchangedAgain(g)'
    BY <2>1, ExchangesStay
  <2> QED BY <2>1, <2>2, <2>3, WorldKeeps DEF Forward, Known, UpInv
<1> QED BY <1>1, <1>2, <1>3, <1>4, <1>5 DEF Next

\* Whatever happens to a project while its commands run, their plans, bundles,
\* payloads, images and containers are what the invariant says.
THEOREM UpInvariant == Spec => []UpInv
<1>1. Init => UpInv
  BY InitRight
<1>2. UpInv /\ [Next]_upVars => UpInv'
  BY NextKeeps
<1> QED BY <1>1, <1>2, PTL DEF Spec

(***************************************************************************)
(* What the invariant promises.                                            *)
(***************************************************************************)
\* The invariant holds all types.
LEMMA UpTyped ==
  UpInv => TypeOK
<1> SUFFICES ASSUME UpInv PROVE TypeOK
  OBVIOUS
<1>1. /\ scene \in Scenes /\ configs = scene.configs
      /\ disk \in [Files -> [kind : {"file", "link", "none"}, ino : 0..MaxEdits, stamp : 0..MaxEdits, data : Contents]]
      /\ dirs \in [Dirs -> [kind : {"dir", "link"}, ino : 0..MaxEdits, moves : 0..MaxEdits]]
      /\ edits \in 0..MaxEdits
  BY DEF UpInv, Project, Kinds
<1>2. \A p \in Procs : at[p] \in Places
  BY DEF UpInv, OfCommand, Flow
<1>3. at \in [Procs -> Places]
  <2>1. at = [p \in Procs |-> at[p]]
    BY DEF UpInv, Everywhere
  <2> QED BY <1>2, <2>1
<1>4. ASSUME NEW p \in Procs
      PROVE  /\ DOMAIN plan[p] = DOMAIN NoPlan /\ plan[p].excluded \subseteq Files
             /\ \A f \in DOMAIN plan[p].selected :
                  /\ f \in Files /\ plan[p].selected[f].data \in Contents
                  /\ plan[p].selected[f].reasons \in (SUBSET Reasons) \ {{}}
             /\ plan[p].installs \cup plan[p].roots \subseteq Dirs
  BY DEF UpInv, OfCommand, PlanTyped, FoundFor
<1>5. ASSUME NEW p \in Procs
      PROVE  DOMAIN bundle[p] = DOMAIN NoBundle /\ DOMAIN bundle[p].archive \subseteq Files
  <2>1. DOMAIN bundle[p] = DOMAIN NoBundle /\ (bundle[p].archive = <<>> \/ bundle[p].archive = Planned(p))
    BY DEF UpInv, OfCommand, Bundled
  <2>2. DOMAIN Planned(p) \subseteq Files
    BY <1>4 DEF Planned
  <2> QED BY <2>1, <2>2
<1>6. \A p \in Procs : DOMAIN run[p] = DOMAIN NoCommand
  BY DEF UpInv, OfCommand, Payload
<1>7. DOMAIN images = Tags
  <2>1. images = [t \in Tags |-> images[t]]
    BY DEF UpInv, ImagesOk
  <2> QED BY <2>1
<1>8. container.state \in {"none", "starting", "healthy", "crashed"}
  BY DEF UpInv, ContainerOk, Running, Nothing
<1> QED BY <1>1, <1>3, <1>4, <1>5, <1>6, <1>7, <1>8 DEF TypeOK

\* What is excluded, and what kept out of it, is in no archive.
LEMMA UpSecret ==
  UpInv => SecretsStayOut
<1> SUFFICES ASSUME UpInv, NEW p \in Procs, NEW f \in DOMAIN bundle[p].archive
             PROVE  LET contents == bundle[p].archive[f]
                    IN  /\ contents.of \notin Secrets(plan[p].settings)
                        /\ contents = Outside =>
                             \E d, e \in Above[f] \ {Root} :
                               dirs[d].moves > (IF d = e THEN 2 ELSE 1) /\ dirs[e].moves > 0
  BY DEF SecretsStayOut
<1>1. PICK contents : contents = bundle[p].archive[f]
  OBVIOUS
<1>2. PICK s : s = plan[p].settings
  OBVIOUS
<1>3. OfCommand(p) /\ Project
  BY DEF UpInv
<1>4. bundle[p].archive # <<>>
  OBVIOUS
<1>5. bundle[p].archive = Planned(p) /\ (contents = Outside => ExchangedAgain(f))
  BY <1>1, <1>3, <1>4 DEF OfCommand, Bundled
<1>6. f \in DOMAIN plan[p].selected /\ contents = plan[p].selected[f].data
  BY <1>1, <1>5 DEF Planned
<1>7. f \in Files /\ f \notin plan[p].excluded /\ FoundFor(f, contents)
  BY <1>3, <1>6 DEF OfCommand, PlanTyped, Excludes
<1>8. /\ Config \in plan[p].excluded /\ s \in Range(configs)
      /\ KeptHere(p, s.pip)
      /\ Kept(p, s.dotenv) /\ Kept(p, s.cliDotenv)
  BY <1>2, <1>3, <1>6 DEF OfCommand, Excludes
<1>9. {s.dotenv, s.cliDotenv, s.pip} \subseteq Files \cup {NoFile}
  <2>1. PICK i \in DOMAIN configs : s = configs[i]
    BY <1>8 DEF Range
  <2> QED BY <1>3, <2>1, ArgsProcs DEF IsScene, IsConfig, Project
<1>10. contents.of \notin Secrets(s)
  <2>1. CASE contents.of = f
    <3>1. f # Config /\ f \notin {g \in {s.pip} \ {NoFile} : Stayed(g)}
      BY <1>7, <1>8, ProjectAssumption DEF KeptHere
    <3>2. f \notin {g \in {s.dotenv, s.cliDotenv} \ {NoFile} : disk[g].ino = 0 /\ Stayed(g)}
      BY <1>7, <1>8 DEF Kept
    <3> QED BY <2>1, <3>1, <3>2 DEF Secrets
  <2>2. CASE contents = Outside
    <3>1. contents.of = "outside"
      BY <2>2 DEF Outside
    <3>2. "outside" # Config /\ "outside" \notin {s.dotenv, s.cliDotenv, s.pip}
      BY <1>9, ProjectAssumption
    <3> QED BY <3>1, <3>2 DEF Secrets
  <2> QED BY <1>7, <2>1, <2>2 DEF FoundFor
<1> QED BY <1>1, <1>2, <1>5, <1>10 DEF ExchangedAgain

\* An image holds what its plan selected.
LEMMA UpPlanned ==
  UpInv => ImageAsPlanned
<1> SUFFICES ASSUME UpInv, NEW t \in DOMAIN images, images[t].by \in Procs
             PROVE  images[t].files = Planned(images[t].by)
  BY DEF ImageAsPlanned, Planned
<1>1. t \in Tags
  <2>1. images = [u \in Tags |-> images[u]]
    BY DEF UpInv, ImagesOk
  <2> QED BY <2>1
<1> QED BY <1>1 DEF UpInv, ImagesOk, ImageOk

\* A container started from an image that is right starts, and Compose was told the same.
LEMMA UpWorks ==
  UpInv => ContainerWorks
<1> SUFFICES ASSUME UpInv PROVE ContainerWorks
  OBVIOUS
<1>1. CASE container = Nothing
  BY <1>1 DEF ContainerWorks, ContainerBoots, ComposeSeesApp, Nothing
<1>2. CASE container # Nothing
  BY <1>2 DEF UpInv, ContainerOk, Running, ContainerWorks, ContainerBoots, ComposeSeesApp, ToCompose
<1> QED BY <1>1, <1>2

\* A payload has of the shell only what was eligible.
LEMMA UpClean ==
  UpInv => NoStowaway
BY DEF UpInv, OfCommand, Payload, NoStowaway

\* The state of the commands, of the project they work on and of the daemon has its type.
THEOREM TypesHold == Spec => []TypeOK
BY UpInvariant, UpTyped, PTL

\* DockerBuild: an image holds what its plan selected, as it was hashed then,
\* for every way in which files, directories and contexts change meanwhile.
THEOREM ImagesHold == Spec => []ImageAsPlanned
BY UpInvariant, UpPlanned, PTL

\* ReadConfig, Admit and Archive: the config is in no archive, nor are the pip
\* config and dotenv files that no link led to when the config was read, nor is
\* what lies behind a directory that was not exchanged three times.
THEOREM SecretsHold == Spec => []SecretsStayOut
BY UpInvariant, UpSecret, PTL

\* DockerRun and Boot: a container that `up` started from its own image, or
\* from a baked one, does not crash, and Compose was given what it has.
THEOREM ContainersWork == Spec => []ContainerWorks
BY UpInvariant, UpWorks, PTL

\* ResolveUp: no variable of the shell that was not declared or passed is in
\* a payload, for every document, every mapping and every set of names.
THEOREM PayloadsClean == Spec => []NoStowaway
BY UpInvariant, UpClean, PTL

===============================================================================
