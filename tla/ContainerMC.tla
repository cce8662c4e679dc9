----------------------------- MODULE ContainerMC -----------------------------
(* The instance of ContainerUp that TLC checks: a set of scenes, each        *)
(* a project, an environment and one or two commands.                       *)
EXTENDS ContainerUp

CONSTANTS p1, p2

ProjectPath == [f \in {"config"} |-> {"root"}]
                 @@ [f \in {"env", "pip", "auth", "graph", "init", "meta"} |-> {"root", "app"}]
PackageInit == [f \in DOMAIN ProjectPath |-> IF f \in {"graph", "auth"} THEN "init" ELSE NoFile]
Metadata    == "app" :> "meta" @@ "root" :> NoFile
PathOrder   == <<"auth", "config", "env", "graph", "init", "meta", "pip">>
EditedHere  == {"config", "env", "graph", "auth", "pip", "app", "root"}

Base == [graphs |-> <<[ref |-> PathRef("graph"), reason |-> "graph"]>>,
         embed |-> NoRef, app |-> NoRef, auth |-> NoRef, includes |-> <<>>,
         dependencies |-> <<>>, dotenv |-> NoFile, cliDotenv |-> NoFile, pip |-> NoFile,
         mapping |-> <<>>, authPath |-> Unset]

Up == [command |-> "up", custom |-> FALSE, recreate |-> FALSE, wait |-> FALSE,
       compose |-> FALSE, passEnv |-> {}, composeEnv |-> {}, postgres |-> FALSE, tag |-> "mine"]
Build == [Up EXCEPT !.command = "build"]
File  == [Up EXCEPT !.command = "dockerfile"]

Plain == [configs |-> <<Base>>, documents |-> [config |-> <<>>, cli |-> <<>>],
          inherited |-> <<>>, authRefs |-> <<>>, args |-> (p1 :> Build), baked |-> TRUE,
          present |-> DOMAIN ProjectPath, edits |-> 0]

\* Three changes to a small project, two to a larger one.
Small == [Base EXCEPT !.includes = <<"app">>, !.dotenv = "env"]
Large == [Base EXCEPT !.dependencies = <<"app">>, !.auth = PathRef("auth"), !.dotenv = "env",
                      !.pip = "pip"]
BuildScenes == {
  [Plain EXCEPT !.configs = <<Small, Base>>, !.present = {"config", "env", "graph"}, !.edits = 3],
  [Plain EXCEPT !.configs = <<Large, Base>>, !.edits = 2],
  [Plain EXCEPT !.configs = <<[Large EXCEPT !.embed = PathRef("auth"), !.app = PathRef("graph"),
                                 !.includes = <<"auth">>]>>],
  [Plain EXCEPT !.configs = <<[Small EXCEPT !.includes = <<"env">>]>>],
  [Plain EXCEPT !.args = (p1 :> File), !.edits = 2,
                !.configs = <<[Base EXCEPT !.graphs = <<[ref |-> DottedRef("graph"), reason |-> "graph"]>>]>>],
  [Plain EXCEPT !.configs = <<[Base EXCEPT !.graphs =
       <<[ref |-> [PathRef("graph") EXCEPT !.symbol = FALSE], reason |-> "graph"]>>]>>] }

\* Where AUTH_MODULE_PATH comes from, and what the image is.
Binding(key, parts) == [key |-> key, assigned |-> TRUE, parts |-> parts]
Refer(name) == [name |-> name, default |-> FALSE]
AuthRefsHere == [o \in {"auth", "launch"} |-> PathRef("auth")]
                  @@ [o \in {"config-mapping", "cli-dotenv"} |-> DottedRef("auth")]
Documents == { <<>>,
               <<Binding("DSN", {Literal, Refer("SECRET")})>>,
               <<Binding("DSN", {Refer("PORT")}), Binding("URL", {Refer("DSN")})>>,
               <<Binding("AUTH_MODULE_PATH", {Literal})>> }
Shells == { <<>>, [n \in {"SECRET", "PORT", "DOCKER_HOST"} |-> Text("launch", n)],
            [n \in {"AUTH_MODULE_PATH", "SECRET"} |-> Text("launch", n)] }
EnvScenes ==
  { [Plain EXCEPT
       !.configs = <<[Base EXCEPT
                        !.graphs = @ \o (IF declared THEN <<[ref |-> PathRef("auth"), reason |-> "graph"]>>
                                           ELSE <<>>),
                        !.auth = IF declared THEN PathRef("auth") ELSE NoRef,
                        !.authPath = IF declared THEN Text("auth", "AUTH_MODULE_PATH") ELSE Unset]>>,
       !.documents = [config |-> <<>>, cli |-> document], !.inherited = shell,
       !.authRefs = AuthRefsHere,
       !.args = (p1 :> [Up EXCEPT !.custom = custom, !.compose = TRUE, !.wait = TRUE, !.passEnv = passed,
                          !.composeEnv = {"AGENTSEEK_GRAPHS"}, !.postgres = custom,
                          !.tag = IF custom THEN "baked" ELSE "mine"])] :
    document \in Documents, shell \in Shells, passed \in {{}, {"SECRET"}},
    custom \in BOOLEAN, declared \in BOOLEAN }

\* Two commands for one port.
Tiny == [Plain EXCEPT !.present = {"config", "graph", "auth"}, !.authRefs = AuthRefsHere]
TwoScenes ==
  { [Tiny EXCEPT !.configs = <<[Base EXCEPT !.mapping = Assign("PORT", Text("config-mapping", "PORT"))]>>,
                 !.args = (p1 :> [Up EXCEPT !.wait = TRUE]) @@ (p2 :> other)] :
    other \in {[Up EXCEPT !.recreate = TRUE], [Up EXCEPT !.custom = TRUE, !.tag = "baked"], Build} }
    \cup { [Tiny EXCEPT !.args = (p1 :> [Up EXCEPT !.custom = TRUE, !.tag = "baked"]), !.baked = FALSE] }

\* The module of the config serves nothing else, and another one may come in its place.
AuthScenes ==
  { [Tiny EXCEPT !.configs = <<[Base EXCEPT !.auth = PathRef("auth"),
                                            !.authPath = Text("auth", "AUTH_MODULE_PATH")]>>,
                 !.documents = [config |-> <<>>, cli |-> document],
                 !.args = (p1 :> [Up EXCEPT !.wait = TRUE])] :
    document \in {<<>>, <<Binding("AUTH_MODULE_PATH", {Literal})>>} }

AllScenes == BuildScenes \cup EnvScenes \cup TwoScenes \cup AuthScenes

==============================================================================
