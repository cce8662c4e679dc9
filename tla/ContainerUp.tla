----------------------------- MODULE ContainerUp -----------------------------
(***************************************************************************)
(* The commands dockerfile, build and up (cli.py with docker_runtime.py):  *)
(* an environment is resolved, a context planned and written, an image     *)
(* built or inspected, and a container started.  Several commands share    *)
(* one Docker daemon, whose images are found by tag and whose containers   *)
(* by name.                                                                *)
(***************************************************************************)
EXTENDS ContainerBuild, Environment

CONSTANTS
  Scenes      \* projects, each with the commands run on it

VARIABLES
  scene,      \* the member of Scenes
  run,        \* the locals of a command: payload, Compose payload, final auth
  images,     \* the images of the daemon by tag
  container   \* the one named after the port, or none

upVars == <<buildVars, scene, run, images, container>>

Args(p)   == scene.args[p]
AuthRefs  == scene.authRefs
UpTag     == "agentseek-up"
Tag(p)    == IF Args(p).command = "up" /\ ~Args(p).custom THEN UpTag ELSE Args(p).tag
NoImage   == [by |-> "nobody"]
Nothing   == [state |-> "none"]
Isolation == {"PYTHONSAFEPATH", "PYTHONNOUSERSITE"}
Tags      == {UpTag, "mine", "baked"}

-----------------------------------------------------------------------------
(* What a scene may be.  A reference by path names a file of the project;  *)
(* the mapping of a config holds texts and no references; and the reference *)
(* in AUTH_MODULE_PATH is one text, for pieces would not tell what module   *)
(* they name together.                                                     *)

Refs == {ref \in [file : Files \cup {NoFile}, dotted : BOOLEAN, symbol : BOOLEAN] :
           ref.dotted \/ ref.file \in Files}

IsConfig(s) ==
  /\ s.graphs \in Seq([ref : Refs, reason : {"graph", "graph-hook"}])
  /\ {s.embed, s.app, s.auth} \subseteq Refs
  /\ s.includes \in Seq(Files \cup Dirs) /\ s.dependencies \in Seq(Dirs)
  /\ {s.dotenv, s.cliDotenv, s.pip} \subseteq Files \cup {NoFile}
  /\ \A n \in DOMAIN s.mapping : s.mapping[n] = Text("config-mapping", n)
  /\ s.authPath \in {Unset, Text("auth", Auth)}

Bindings == [key : STRING, assigned : BOOLEAN, parts : SUBSET [name : STRING, default : BOOLEAN]]
IsDocument(document) ==
  /\ document \in Seq(Bindings)
  /\ \A i \in DOMAIN document : document[i].key = Auth => document[i].parts = {Literal}

IsCommand(a) ==
  /\ a.command \in {"up", "build", "dockerfile"} /\ a.tag \in Tags
  /\ {a.custom, a.recreate, a.wait, a.compose, a.postgres} \subseteq BOOLEAN

IsScene(s) ==
  /\ s.configs \in Seq(Range(s.configs)) \ {<<>>}
  /\ \A i \in DOMAIN s.configs : IsConfig(s.configs[i])
  /\ IsDocument(s.documents.config) /\ IsDocument(s.documents.cli)
  /\ \A n \in DOMAIN s.inherited : s.inherited[n] = Text("launch", n)
  /\ DOMAIN s.authRefs \subseteq {"auth", "config-mapping", "config-dotenv", "cli-dotenv", "launch"}
  /\ \A origin \in DOMAIN s.authRefs : s.authRefs[origin] \in Refs
  /\ DOMAIN s.args \subseteq Procs /\ \A p \in DOMAIN s.args : IsCommand(s.args[p])
  /\ s.edits \in 0..MaxEdits

ASSUME ScenesAssumption ==
  /\ \A s \in Scenes : IsScene(s)
  /\ {"baked", "nobody"} \cap Procs = {}

NoCommand == [payload |-> <<>>, eligible |-> {}, compose |-> <<>>, posted |-> <<>>]

Init ==
  /\ scene \in Scenes
  /\ BuildInit(scene.present, scene.edits)
  /\ configs = scene.configs
  /\ at = [p \in Procs |-> IF p \in DOMAIN scene.args THEN "start" ELSE "done"]
  /\ run = [p \in Procs |-> NoCommand]
  /\ images = [t \in Tags |->
                 IF t = "baked"
                   THEN [by |-> "baked", files |-> <<>>, manifest |-> {},
                         preloaded |-> scene.baked]
                   ELSE NoImage]
  /\ container = Nothing

-----------------------------------------------------------------------------
\* The command goes on with what it computed, or ends with an error.
Continue(p, place, command) ==
  /\ run' = [run EXCEPT ![p] = command]
  /\ Goto(p, place)
  /\ UNCHANGED <<project, plan, bundle, scene, images, container>>

Aborts(p) == Fails(p) /\ UNCHANGED <<scene, run, images, container>>

-----------------------------------------------------------------------------
(* The environment of an application container.                            *)

EnvironmentPlan(p) ==
  LET s == Reading
  IN  ContainerPlan([dotenv |-> scene.documents.config, mapping |-> s.mapping,
                     authPath |-> s.authPath],
                    scene.documents.cli, scene.inherited,
                    Args(p).passEnv, Args(p).postgres)

Control == DockerControlEnvironment(scene.inherited)

\* The reference in the final AUTH_MODULE_PATH; an empty one names nothing.
RefOf(value) ==
  IF \E atom \in value : atom.from \in DOMAIN AuthRefs
    THEN AuthRefs[(CHOOSE atom \in value : atom.from \in DOMAIN AuthRefs).from]
    ELSE NoRef
FinalAuth(payload) == IF Auth \in DOMAIN payload THEN RefOf(payload[Auth]) ELSE NoRef

Isolated(payload) ==
  Over([n \in Isolation |-> Text("command", n)], Only(payload, DOMAIN payload \ {"PYTHONPATH", "PYTHONHOME"}))

ResolveUp(p) ==
  /\ at[p] = "start" /\ Args(p).command = "up"
  /\ LET planned == EnvironmentPlan(p)
         resolved == ResolveEnvironment(planned, AppContainerPolicy)
         payload == SelectApplicationPayload(planned, resolved, Args(p).passEnv)
         accepted == /\ Exists(Config)
                     /\ ~Refused(resolved, AppContainerPolicy)
                     /\ ~PayloadRefused(planned, resolved, Args(p).passEnv)
                     /\ Args(p).custom => FinalAuth(payload).dotted
     IN  IF accepted
           THEN Continue(p, IF Args(p).custom THEN "payload" ELSE "config",
                  [run[p] EXCEPT !.payload = payload,
                                 !.eligible = EligibleNames(planned, AppContainerPolicy)])
           ELSE Aborts(p)

\* build and dockerfile take no application environment.
StartBuild(p) ==
  /\ at[p] = "start" /\ Args(p).command # "up"
  /\ Continue(p, "config", run[p])

-----------------------------------------------------------------------------
(* The auth module of the payload is the one the image is built with.      *)

Patched(payload, ref) ==
  IF Auth \notin DOMAIN payload THEN payload
  ELSE IF ref.file = NoFile \/ ref.dotted THEN payload
  ELSE [payload EXCEPT ![Auth] = Text("container", ref.file)]

WithManifest(payload) == Over(Assign(Graphs, Text("image", Graphs)), payload)

Composed(p, payload) ==
  IF Args(p).compose THEN SelectComposePayload(payload, Args(p).composeEnv) ELSE <<>>
ComposeRefuses(p, payload) ==
  Args(p).compose /\ ComposeRefused(payload, Args(p).composeEnv, Control)

PlanUpAuth(p) ==
  /\ at[p] = "planned" /\ Args(p).command = "up"
  /\ LET ref == FinalAuth(run[p].payload)
         payload == Isolated(WithManifest(Patched(run[p].payload, ref)))
     IN  /\ run' = [run EXCEPT ![p].payload = payload, ![p].compose = Composed(p, payload)]
         /\ PlanAuth(p, ref)
         /\ Goto(p, IF ComposeRefuses(p, payload) THEN "failed" ELSE "select")
  /\ UNCHANGED <<project, bundle, scene, images, container>>

\* A custom image brings its own manifest; what Compose gets is selected
\* again once its path is known.
CustomPayload(p) ==
  /\ at[p] = "payload"
  /\ LET payload == Isolated(run[p].payload)
     IN  IF ComposeRefuses(p, payload) THEN Aborts(p)
         ELSE Continue(p, "inspect", [run[p] EXCEPT !.payload = payload,
                                                    !.compose = Composed(p, payload)])

RenderOnly(p) ==
  /\ at[p] = "planned" /\ Args(p).command # "up"
  /\ Continue(p, "open", run[p])

-----------------------------------------------------------------------------
(* Docker.                                                                 *)

AfterArchive(p) ==
  /\ at[p] = "archived"
  /\ Continue(p, IF Args(p).command = "up" /\ Args(p).compose THEN "compose" ELSE "build", run[p])

\* The Compose plugin is too old, or its environment file is written.
CheckCompose(p) ==
  /\ at[p] = "compose"
  /\ \/ Continue(p, IF Args(p).custom THEN "clear" ELSE "build", run[p])
     \/ Aborts(p)

\* Buildx gets the archive on its standard input and moves the tag.  A
\* project is installed from its own metadata, which has to be there.
ImageOf(p) == [by |-> p, files |-> bundle[p].archive,
               manifest |-> References(plan[p].settings), preloaded |-> TRUE]
Installable(p) == \A d \in plan[p].installs : MetaOf[d] \in DOMAIN bundle[p].archive

DockerBuild(p) ==
  /\ at[p] = "build"
  /\ \/ /\ Installable(p)
        /\ images' = [images EXCEPT ![Tag(p)] = ImageOf(p)]
        /\ Goto(p, IF Args(p).command = "up" THEN "inspect" ELSE "done")
        /\ UNCHANGED <<project, plan, bundle, scene, run, container>>
     \/ Aborts(p)

\* The labels make an image preloaded-v1; it is found by its tag.
InspectImage(p) ==
  /\ at[p] = "inspect"
  /\ LET payload == WithManifest(run[p].payload)
         compose == Composed(p, payload)
         accepted == /\ images[Tag(p)] # NoImage /\ images[Tag(p)].preloaded
                     /\ ~ComposeRefuses(p, payload)
                     /\ ~Args(p).custom => compose = run[p].compose
     IN  IF accepted
           THEN Continue(p, IF Args(p).custom /\ Args(p).compose THEN "compose" ELSE "clear",
                         [run[p] EXCEPT !.payload = payload, !.compose = compose])
           ELSE Aborts(p)

ClearName(p) ==
  /\ at[p] = "clear"
  /\ \/ /\ Args(p).recreate
        /\ container' = Nothing
        /\ Goto(p, IF Args(p).compose THEN "services" ELSE "run")
        /\ UNCHANGED <<project, plan, bundle, scene, run, images>>
     \/ /\ ~Args(p).recreate /\ container = Nothing
        /\ Continue(p, IF Args(p).compose THEN "services" ELSE "run", run[p])
     \/ ~Args(p).recreate /\ container # Nothing /\ Aborts(p)

ComposeUp(p) ==
  /\ at[p] = "services"
  /\ \/ Continue(p, "run", [run[p] EXCEPT !.posted = run[p].compose])
     \/ Aborts(p)

DockerRun(p) ==
  /\ at[p] = "run"
  /\ \/ /\ container = Nothing
        /\ container' = [state |-> "starting", by |-> p, image |-> images[Tag(p)],
                         payload |-> run[p].payload]
        /\ Goto(p, IF Args(p).wait THEN "wait" ELSE "done")
        /\ UNCHANGED <<project, plan, bundle, scene, run, images>>
     \/ Aborts(p)

WaitReady(p) ==
  /\ at[p] = "wait"
  /\ \/ container.state = "healthy" /\ Continue(p, "done", run[p])
     \/ Aborts(p)

-----------------------------------------------------------------------------
(* serve --environment-mode preloaded-v1 in the container: the environment *)
(* is taken as it is, the manifest's references and the auth module load.  *)

Loads(ref, files) == ref.dotted \/ ref.file \in DOMAIN files
AuthLoads(payload, files) ==
  Auth \in DOMAIN payload =>
    \A atom \in payload[Auth] :
      /\ atom.from = "container" => atom.key \in DOMAIN files
      /\ atom.from \in DOMAIN AuthRefs => AuthRefs[atom.from].dotted

Boots(c) ==
  LET resolved == ResolveEnvironment(PreloadedPlan(c.payload), PreloadedPolicy)
  IN  /\ ~Refused(resolved, PreloadedPolicy)
      /\ resolved.values[Graphs] = Text("image", Graphs)
      /\ \A ref \in c.image.manifest : Loads(ref, c.image.files)
      /\ AuthLoads(resolved.values, c.image.files)

Boot ==
  /\ container.state = "starting"
  /\ container' = [container EXCEPT !.state = IF Boots(container) THEN "healthy" ELSE "crashed"]
  /\ UNCHANGED <<buildVars, scene, run, images>>

-----------------------------------------------------------------------------
ArchiveContext(p) == Args(p).command # "dockerfile" /\ Archive(p)
WriteDone(p) == /\ at[p] = "bundled" /\ Args(p).command = "dockerfile"
                /\ Goto(p, "done") /\ UNCHANGED <<project, plan, bundle>>

Command(p) ==
  \/ ResolveUp(p) \/ StartBuild(p) \/ PlanUpAuth(p) \/ CustomPayload(p) \/ RenderOnly(p)
  \/ AfterArchive(p) \/ CheckCompose(p) \/ DockerBuild(p) \/ InspectImage(p)
  \/ ClearName(p) \/ ComposeUp(p) \/ DockerRun(p) \/ WaitReady(p)

BuildStep(p) == PlanStep(p) \/ WriteStep(p) \/ ArchiveContext(p) \/ WriteDone(p)

Next ==
  \/ \E p \in DOMAIN scene.args : Command(p)
  \/ \E p \in DOMAIN scene.args :
       BuildStep(p) /\ UNCHANGED <<scene, run, images, container>>
  \/ World /\ UNCHANGED <<scene, run, images, container>>
  \/ Boot

Spec == Init /\ [][Next]_upVars

-----------------------------------------------------------------------------
(* Properties.                                                             *)

Places == {"start", "config", "select", "take", "chain", "planned", "open", "check", "copy",
           "bundled", "archived", "payload", "compose", "build", "inspect", "clear",
           "services", "run", "wait", "done", "failed"}
Contents == [of : Files \cup {"outside"}, version : 0..MaxEdits]

TypeOK ==
  /\ scene \in Scenes /\ configs = scene.configs
  /\ disk \in [Files -> [kind : {"file", "link", "none"}, ino : 0..MaxEdits, stamp : 0..MaxEdits,
                         data : Contents]]
  /\ dirs \in [Dirs -> [kind : {"dir", "link"}, ino : 0..MaxEdits, moves : 0..MaxEdits]]
  /\ edits \in 0..MaxEdits
  /\ at \in [Procs -> Places]
  /\ \A p \in Procs :
       /\ DOMAIN plan[p] = DOMAIN NoPlan /\ plan[p].excluded \subseteq Files
       /\ \A f \in DOMAIN plan[p].selected :
            /\ f \in Files /\ plan[p].selected[f].data \in Contents
            /\ plan[p].selected[f].reasons \in (SUBSET Reasons) \ {{}}
       /\ plan[p].installs \cup plan[p].roots \subseteq Dirs
       /\ DOMAIN bundle[p] = DOMAIN NoBundle
       /\ DOMAIN bundle[p].archive \subseteq Files
       /\ DOMAIN run[p] = DOMAIN NoCommand
  /\ DOMAIN images = Tags
  /\ container.state \in {"none", "starting", "healthy", "crashed"}

(* An image holds exactly what its plan selected, with the contents that   *)
(* were hashed then, whatever happened to the project or to the context    *)
(* between planning, copying and archiving.                                *)
ImageAsPlanned ==
  \A t \in DOMAIN images :
    LET p == images[t].by
    IN  p \in Procs => images[t].files = [f \in DOMAIN plan[p].selected |-> plan[p].selected[f].data]

(* The config, the pip config and a dotenv file are in no archive, also    *)
(* when they lie in a directory that is copied whole - the pip config only *)
(* as long as no directory above it was exchanged, and a dotenv file as    *)
(* long as it was not either: what a link leads to when planning starts is *)
(* excluded in its place, and the project's file no more.  Nor is there a  *)
(* file of another directory that a link led to, unless a directory above  *)
(* was exchanged for it and back, and it or another one again, between     *)
(* single looks.                                                           *)
Stayed(f)  == \A d \in Above[f] : dirs[d].moves = 0
Secrets(s) ==
  {Config} \cup {f \in {s.pip} \ {NoFile} : Stayed(f)}
           \cup {f \in {s.dotenv, s.cliDotenv} \ {NoFile} : disk[f].ino = 0 /\ Stayed(f)}

SecretsStayOut ==
  \A p \in Procs : \A f \in DOMAIN bundle[p].archive :
    LET contents == bundle[p].archive[f]
    IN  /\ contents.of \notin Secrets(plan[p].settings)
        /\ contents = Outside =>
             \E d, e \in Above[f] \ {Root} :
               dirs[d].moves > (IF d = e THEN 2 ELSE 1) /\ dirs[e].moves > 0

(* A container finds in its image all that its manifest and its payload    *)
(* name by path - unless another command for the same port moved the tag   *)
(* between the build and the run.                                          *)
ContainerBoots ==
  container.state = "crashed" => container.image.by \notin {container.by, "baked"}

(* A variable of the caller's shell gets into a payload only under or      *)
(* inside a name that was declared, is an application setting or was       *)
(* passed explicitly - also by interpolation and over several files.       *)
NoStowaway ==
  \A p \in Procs : \A n \in DOMAIN run[p].payload : \A atom \in run[p].payload[n] :
    atom.from = "launch" => atom.key \in run[p].eligible

(* The services of Compose and the application container are started with  *)
(* the same values of the names selected for both.                         *)
ComposeSeesApp ==
  container # Nothing /\ Args(container.by).compose =>
    run[container.by].posted = Only(container.payload, Args(container.by).composeEnv)

\* What `up` starts boots from its own image, and compose posts what that application names.
ContainerWorks ==
  /\ ContainerBoots
  /\ ComposeSeesApp

=============================================================================
