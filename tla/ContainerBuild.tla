---------------------------- MODULE ContainerBuild ----------------------------
(***************************************************************************)
(* How container_build.py plans an image and writes its build context.     *)
(* Planning and copying read the files of a project one after the other,   *)
(* while an editor, a version control system or another command changes    *)
(* them; each action is one look at the file system.                       *)
(***************************************************************************)
EXTENDS Naturals, Sequences, FiniteSets, SequencesExt

CONSTANTS
  Procs,      \* commands that run at the same time
  Dirs,       \* the directories of the project, Root among them
  Root,
  Above,      \* for each file the directories on its path
  InitOf,     \* for each file the __init__.py beside it, or NoFile
  MetaOf,     \* for each directory its pyproject.toml, or NoFile
  Order,      \* the files in the order of their paths
  Config,     \* the file that is the config
  NoFile,
  Edited,     \* files and directories that are changed meanwhile
  MaxEdits    \* bound on such changes

Files == DOMAIN Above

ASSUME ProjectAssumption ==
  /\ Root \in Dirs /\ Config \in Files /\ NoFile \notin Files
  /\ Above \in [Files -> SUBSET Dirs] /\ \A f \in Files : Root \in Above[f]
  /\ InitOf \in [Files -> Files \cup {NoFile}]
  /\ MetaOf \in [Dirs -> Files \cup {NoFile}]
  /\ Order \in Seq(Files) /\ Range(Order) = Files /\ Len(Order) = Cardinality(Files)
  /\ "outside" \notin Files \cup {NoFile}
  /\ MaxEdits \in Nat

VARIABLES
  configs,    \* what the versions of the config say, a sequence
  disk,       \* each file: its kind, inode, size and time as a stamp, contents
  dirs,       \* each directory: its kind, inode, how often it was exchanged
  edits,      \* how many changes there were
  at,         \* where a command is
  plan,       \* its ContainerBuildPlan, with the locals of planning
  bundle      \* its ContainerBuildBundle, with the locals of copying

project   == <<configs, disk, dirs, edits>>
buildVars == <<project, at, plan, bundle>>

(***************************************************************************)
(* A reference names a module: by its path, or dotted, or there is none.   *)
(***************************************************************************)
NoRef     == [file |-> NoFile, dotted |-> TRUE, symbol |-> TRUE]
PathRef(f)   == [file |-> f, dotted |-> FALSE, symbol |-> TRUE]
DottedRef(f) == [file |-> f, dotted |-> TRUE, symbol |-> TRUE]

Reasons == {"graph", "graph-hook", "store-hook", "http-app", "auth",
            "build-include", "dependency"}

NoPlan == [settings |-> <<>>, excluded |-> {}, pip |-> <<>>, todo |-> <<>>,
           taken |-> <<>>, selected |-> <<>>, installs |-> {}, roots |-> {},
           root |-> 0, final |-> FALSE]
NoBundle == [todo |-> <<>>, inventory |-> <<>>, context |-> <<>>, archive |-> <<>>,
             exists |-> FALSE]

\* A function with one more value, or another one in its place.
Put(function, x, value) ==
  [y \in DOMAIN function \cup {x} |-> IF y = x THEN value ELSE function[y]]

-----------------------------------------------------------------------------
(* The file system.  A directory that was exchanged for a link leads to    *)
(* another one with files of the same names.                               *)

Text0(f)    == [of |-> f, version |-> 0]
Outside     == [of |-> "outside", version |-> 0]
Identity(e) == <<e.ino, e.stamp>>

Real(ds)  == \A d \in ds \ {Root} : dirs[d].kind = "dir"
Elsewhere == [kind |-> "file", ino |-> MaxEdits + 1, stamp |-> 0, data |-> Outside]
Entry(f)  == IF Real(Above[f]) THEN disk[f] ELSE Elsewhere

(* What _safe_regular and _safe_directory let pass.                        *)
SafeRegular(f)   == Real(Above[f]) /\ disk[f].kind = "file"
SafeDirectory(d) == dirs[d].kind = "dir" \/ d = Root
Exists(f)        == f # NoFile /\ Entry(f).kind # "none"

Reading == configs[IF disk[Config].data.version < Len(configs)
                     THEN disk[Config].data.version + 1 ELSE Len(configs)]

BuildInit(present, budget) ==
  /\ disk = [f \in Files |-> [kind |-> IF f \in present THEN "file" ELSE "none", ino |-> 0, stamp |-> 0,
                         data |-> Text0(f)]]
  /\ dirs = [d \in Dirs |-> [kind |-> "dir", ino |-> 0, moves |-> 0]]
  /\ edits = MaxEdits - budget
  /\ plan = [p \in Procs |-> NoPlan]
  /\ bundle = [p \in Procs |-> NoBundle]

-----------------------------------------------------------------------------
(* Control of one command.                                                 *)

Goto(p, place) == at' = [at EXCEPT ![p] = place]
Fails(p)  == Goto(p, "failed") /\ UNCHANGED <<project, plan, bundle>>

Planning(p, update) == plan' = [plan EXCEPT ![p] = update] /\ UNCHANGED <<project, bundle>>

(* A step that goes on if what it sees is as it must be, and fails if not.  *)
Requires(p, condition, step) == (condition /\ step) \/ (~condition /\ Fails(p))

-----------------------------------------------------------------------------
(* plan_container_image.                                                   *)

Request(what, reason, how) == [what |-> what, reason |-> reason, how |-> how]

ByPath(ref, reason) ==
  IF ref.file = NoFile \/ ref.dotted THEN <<>> ELSE <<Request(ref.file, reason, "file")>>

(* _parse_graphs: also a dotted name is looked for beside the config.       *)
GraphRequests(s) ==
  [i \in 1..Len(s.graphs) |->
     Request(s.graphs[i].ref.file, s.graphs[i].reason,
             IF s.graphs[i].ref.dotted THEN "maybe" ELSE "file")]

Requests(s) ==
  GraphRequests(s) \o ByPath(s.embed, "store-hook") \o ByPath(s.app, "http-app")
    \o ByPath(s.auth, "auth")
    \o [i \in 1..Len(s.includes) |->
          Request(s.includes[i], "build-include", IF s.includes[i] \in Dirs THEN "tree" ELSE "file")]
    \o [i \in 1..Len(s.dependencies) |-> Request(s.dependencies[i], "dependency", "local")]

(* The config, the dotenv files and the pip config stay out of the image,  *)
(* the last two under the paths they resolve to now: what a link leads to  *)
(* is excluded there, not here.                                            *)
ReadConfig(p) ==
  /\ at[p] = "config"
  /\ LET s == Reading
         dotenvs == {s.dotenv, s.cliDotenv} \ {NoFile}
     IN  Requires(p,
           SafeRegular(Config) /\ (\A f \in dotenvs : Exists(f))
             /\ (s.pip # NoFile => Entry(s.pip).kind = "file"),
           /\ Planning(p, [NoPlan EXCEPT
                !.settings = s, !.todo = Requests(s),
                !.pip = IF s.pip = NoFile THEN <<>>
                        ELSE [here |-> SafeRegular(s.pip), id |-> Identity(Entry(s.pip))],
                !.excluded = {Config} \cup {f \in dotenvs \cup ({s.pip} \ {NoFile}) : SafeRegular(f)}])
           /\ Goto(p, "select"))

Skip(p) == Planning(p, [plan[p] EXCEPT !.todo = Tail(@)]) /\ UNCHANGED at

(* The paths of a directory and of a plan are sorted.                      *)
InPathOrder(files) ==
  FoldLeft(LAMBDA found, f : IF f \in files THEN Append(found, f) ELSE found, <<>>, Order)

(* _select_tree lists a directory and takes its files one by one.          *)
Members(d, reason) ==
  LET found == InPathOrder({f \in Files : d \in Above[f] /\ disk[f].kind # "none"})
  IN  [i \in 1..Len(found) |-> Request(found[i], reason, "member")]

Expand(p, r) ==
  Requires(p, SafeDirectory(r.what),
    /\ Planning(p, [plan[p] EXCEPT !.todo = Members(r.what, r.reason) \o Tail(@)])
    /\ UNCHANGED at)

(* _classify_local_dependency: installed as a project, or put on the path.  *)
Classify(p, r) ==
  Requires(p, SafeDirectory(r.what),
    /\ Planning(p, [plan[p] EXCEPT
         !.todo = <<Request(r.what, r.reason, "tree")>> \o Tail(@),
         !.installs = IF Exists(MetaOf[r.what]) THEN @ \cup {r.what} ELSE @,
         !.roots = IF Exists(MetaOf[r.what]) THEN @ ELSE @ \cup {r.what}])
    /\ UNCHANGED at)

(* Mutant: the files that must stay out are not looked for.                *)
AdmitAny(p, r) == Requires(p, SafeRegular(r.what),
                           Goto(p, "take") /\ UNCHANGED <<project, plan, bundle>>)

(* _select_file up to its checks.                                          *)
Admit(p, r) == Requires(p, SafeRegular(r.what) /\ r.what \notin plan[p].excluded,
                        Goto(p, "take") /\ UNCHANGED <<project, plan, bundle>>)

Look(p) ==
  /\ at[p] = "select" /\ plan[p].todo # <<>>
  /\ LET r == Head(plan[p].todo)
     IN  \/ r.how = "tree"  /\ Expand(p, r)
         \/ r.how = "local" /\ Classify(p, r)
         \/ r.how \in {"file", "package"} /\ Admit(p, r)
         \/ r.how = "maybe" /\ Exists(r.what) /\ Admit(p, r)
         \/ r.how = "maybe" /\ ~Exists(r.what) /\ Skip(p)
         \/ r.how = "member" /\ Entry(r.what).kind = "file" /\ r.what \in plan[p].excluded
              /\ Skip(p)
         \/ r.how = "member" /\ Entry(r.what).kind = "file" /\ r.what \notin plan[p].excluded
              /\ Admit(p, r)
         \/ r.how = "member" /\ Entry(r.what).kind # "file" /\ Fails(p)

(* _add_selected: identity and contents, read without following a link in  *)
(* the last component.                                                     *)
Take(p) ==
  /\ at[p] = "take"
  /\ LET e == Entry(Head(plan[p].todo).what)
     IN  Requires(p, e.kind = "file",
           Planning(p, [plan[p] EXCEPT !.taken = [id |-> Identity(e), data |-> e.data]])
             /\ Goto(p, "chain"))

(* Then the identities of the directories above it, as they are now.       *)
Chain(p) ==
  /\ at[p] = "chain"
  /\ LET r == Head(plan[p].todo)
         f == r.what
         selected == plan[p].selected
         source == [id |-> plan[p].taken.id, data |-> plan[p].taken.data,
                    chain |-> [d \in Above[f] |-> dirs[d].ino],
                    reasons |-> {r.reason} \cup (IF f \in DOMAIN selected
                                                   THEN selected[f].reasons ELSE {})]
         package == IF r.reason \in {"graph", "graph-hook"} /\ r.how # "package"
                       /\ Exists(InitOf[f])
                      THEN <<Request(InitOf[f], r.reason, "package")>> ELSE <<>>
     IN  Requires(p,
           f \in DOMAIN selected =>
             [source EXCEPT !.reasons = {}] = [selected[f] EXCEPT !.reasons = {}],
           /\ Planning(p, [plan[p] EXCEPT !.selected = Put(@, f, source), !.taken = <<>>,
                                          !.todo = package \o Tail(@)])
           /\ Goto(p, "select"))

(* The manifest is parsed once more as the container will parse it: every   *)
(* reference needs its symbol.                                             *)
References(s) == {s.graphs[i].ref : i \in 1..Len(s.graphs)} \cup ({s.embed, s.app} \ {NoRef})
ManifestAccepted(s) == \A ref \in References(s) : ref.symbol

FinishPlan(p) ==
  /\ at[p] = "select" /\ plan[p].todo = <<>>
  /\ Requires(p, ManifestAccepted(plan[p].settings),
       /\ Planning(p, [plan[p] EXCEPT !.root = IF plan[p].final THEN @ ELSE dirs[Root].ino])
       /\ Goto(p, IF plan[p].final THEN "open" ELSE "planned"))

(* Mutants: no source goes, or all go that the auth module shares.         *)
EmptiedReasons(selected) ==
  [f \in DOMAIN selected |-> [selected[f] EXCEPT !.reasons = @ \ {"auth"}]]

WithoutAuthFiles(selected) ==
  [f \in {g \in DOMAIN selected : "auth" \notin selected[g].reasons} |-> selected[f]]

(* plan_generated_up_auth: a source selected for the static auth alone goes, *)
(* the module of the final one comes.                                      *)
WithoutAuthReasons(selected) ==
  LET kept == {f \in DOMAIN selected : selected[f].reasons # {"auth"}}
  IN  [f \in kept |-> [selected[f] EXCEPT !.reasons = @ \ {"auth"}]]

PlanAuth(p, ref) ==
  plan' = [plan EXCEPT ![p] = [plan[p] EXCEPT !.selected = WithoutAuthReasons(@),
                                              !.todo = ByPath(ref, "auth"), !.final = TRUE]]

-----------------------------------------------------------------------------
(* materialize_build_bundle.                                               *)

Building(p, update) == bundle' = [bundle EXCEPT ![p] = update] /\ UNCHANGED <<project, plan>>

(* On an error the context goes, and the root if it was created.           *)
CleanOutput(p) == Building(p, NoBundle) /\ Goto(p, "failed")

OpenOutput(p) ==
  /\ at[p] = "open"
  /\ Requires(p, dirs[Root].ino = plan[p].root,
       /\ Building(p, [NoBundle EXCEPT !.exists = TRUE,
            !.todo = InPathOrder(DOMAIN plan[p].selected)])
       /\ Goto(p, "check"))

Unmoved(p, f) ==
  /\ SafeRegular(f)
  /\ plan[p].selected[f].chain = [d \in Above[f] |-> dirs[d].ino]

CheckSource(p) ==
  /\ at[p] = "check" /\ bundle[p].todo # <<>>
  /\ \/ Unmoved(p, Head(bundle[p].todo)) /\ Goto(p, "copy") /\ UNCHANGED <<project, plan, bundle>>
     \/ ~Unmoved(p, Head(bundle[p].todo)) /\ CleanOutput(p)

(* Mutant: the contents are not hashed again.                              *)
SameIdentity(e, source) == e.kind = "file" /\ Identity(e) = source.id

(* _read_regular_source with the planned identity, then the planned hash.  *)
Unchanged(e, source) == e.kind = "file" /\ Identity(e) = source.id /\ e.data = source.data

CopySource(p) ==
  /\ at[p] = "copy"
  /\ LET f == Head(bundle[p].todo)
         e == Entry(f)
         good == bundle[p].exists /\ Unchanged(e, plan[p].selected[f])
     IN  \/ /\ good
            /\ Building(p, [bundle[p] EXCEPT !.todo = Tail(@),
                              !.inventory = Put(@, f, e.data),
                              !.context = Put(@, f, e.data)])
            /\ Goto(p, "check")
         \/ ~good /\ CleanOutput(p)

(* Manifest, constraints, Dockerfile and inventory.                        *)
WriteRest(p) ==
  /\ at[p] = "check" /\ bundle[p].todo = <<>>
  /\ \/ bundle[p].exists /\ Goto(p, "bundled") /\ UNCHANGED <<project, plan, bundle>>
     \/ ~bundle[p].exists /\ CleanOutput(p)

(* build_image_invocation: the archive takes what the inventory lists, and  *)
(* the pip config must be the one of the plan, where that resolved to.      *)
PipUnchanged(p) ==
  LET pip == plan[p].settings.pip
      e   == IF plan[p].pip.here THEN Entry(pip) ELSE Elsewhere
  IN  pip # NoFile => e.kind = "file" /\ Identity(e) = plan[p].pip.id

Archive(p) ==
  /\ at[p] = "bundled"
  /\ Requires(p, bundle[p].context = bundle[p].inventory /\ PipUnchanged(p),
       Building(p, [bundle[p] EXCEPT !.archive = bundle[p].context])
         /\ Goto(p, "archived"))

-----------------------------------------------------------------------------
(* The world.                                                              *)

Edit(f, entry) ==
  /\ f \in Edited /\ edits < MaxEdits /\ \E p \in Procs : at[p] \notin {"failed", "done"}
  /\ disk' = [disk EXCEPT ![f] = entry]
  /\ edits' = edits + 1
  /\ UNCHANGED <<configs, dirs, at, plan, bundle>>

New(f) == [of |-> f, version |-> edits + 1]

Rewrite(f)        == disk[f].kind = "file"
                       /\ Edit(f, [disk[f] EXCEPT !.stamp = edits + 1, !.data = New(f)])
\* The size stays, and the clock of the file system has not moved on.
RewriteQuietly(f) == disk[f].kind = "file" /\ Edit(f, [disk[f] EXCEPT !.data = New(f)])
Replace(f)        == Edit(f, [kind |-> "file", ino |-> edits + 1, stamp |-> edits + 1, data |-> New(f)])
Erase(f)          == disk[f].kind # "none" /\ Edit(f, [disk[f] EXCEPT !.kind = "none"])
Link(f)           == Edit(f, [disk[f] EXCEPT !.kind = "link", !.ino = edits + 1])

(* A directory is moved away and back, or another one takes its place.     *)
ExchangeDir(d) ==
  /\ d \in Edited /\ edits < MaxEdits
  /\ \E entry \in {[kind |-> "link", ino |-> edits + 1], [kind |-> "dir", ino |-> edits + 1],
                   [kind |-> "dir", ino |-> 0]} :
       /\ [kind |-> dirs[d].kind, ino |-> dirs[d].ino] # entry
       /\ dirs' = [dirs EXCEPT ![d] = [kind |-> entry.kind, ino |-> entry.ino, moves |-> @.moves + 1]]
  /\ edits' = edits + 1
  /\ UNCHANGED <<configs, disk, at, plan, bundle>>

(* Something else writes to the build context, or sweeps it away.          *)
Tamper(p) ==
  /\ bundle[p].exists /\ at[p] \in {"check", "copy", "bundled"} /\ edits < MaxEdits
  /\ edits' = edits + 1
  /\ \/ bundle' = [bundle EXCEPT ![p].context = <<>>, ![p].exists = FALSE]
     \/ \E f \in DOMAIN bundle[p].context \cup {"stray"} :
          bundle' = [bundle EXCEPT ![p].context = Put(@, f, Outside)]
  /\ UNCHANGED <<configs, disk, dirs, at, plan>>

PlanStep(p)  == ReadConfig(p) \/ Look(p) \/ Take(p) \/ Chain(p) \/ FinishPlan(p)
WriteStep(p) == OpenOutput(p) \/ CheckSource(p) \/ CopySource(p) \/ WriteRest(p)

World ==
  \/ \E f \in Files : Rewrite(f) \/ RewriteQuietly(f) \/ Replace(f) \/ Erase(f) \/ Link(f)
  \/ \E d \in Dirs : ExchangeDir(d)
  \/ \E p \in Procs : Tamper(p)

=============================================================================
