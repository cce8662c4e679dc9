---------------------------- MODULE Environment ----------------------------
(***************************************************************************)
(* How the command line composes an environment: environment.py,           *)
(* dotenv_adapter.py, container_policy.py and the plans of cli.py.         *)
(*                                                                         *)
(* A value is the set of places its text comes from, so that it can be     *)
(* said which variables of the host a value was made of.  The order of the *)
(* pieces of a value is left out: no branch looks at it.  Names are        *)
(* compared exactly, as on POSIX.                                          *)
(***************************************************************************)
EXTENDS Sequences, FiniteSets, SequencesExt

CONSTANTS
    Compatibility,   \* APPLICATION_COMPATIBILITY_KEYS
    DockerControl    \* the names in DOCKER_CONTROL_KEYS_BY_PLATFORM

Auth == "AUTH_MODULE_PATH"
Graphs == "AGENTSEEK_GRAPHS"

(***************************************************************************)
(* Values.  Text(s, n) is text that source s gives for name n, a gap is    *)
(* the empty text of a reference that nothing resolves.  Unset is the None *)
(* of a bare KEY, not the empty text of KEY=.                              *)
(***************************************************************************)
Text(source, name) == {[from |-> source, key |-> name]}
Gap(name) == {[from |-> "gap", key |-> name]}
Unset == {[from |-> "unset", key |-> ""]}

Assign(name, value) == [n \in {name} |-> value]
Assigned(values) == {n \in DOMAIN values : values[n] # Unset}
Over(upper, lower) ==
    [n \in DOMAIN upper \cup DOMAIN lower |-> IF n \in DOMAIN upper THEN upper[n] ELSE lower[n]]
Only(values, names) == [n \in names \cap DOMAIN values |-> values[n]]

(***************************************************************************)
(* A dotenv document: a sequence of bindings [key, assigned, parts] whose  *)
(* parts are literals or variables [name, default].  A default is text of  *)
(* the document.                                                           *)
(***************************************************************************)
Literal == [name |-> "", default |-> TRUE]
Names(document) == {document[i].key : i \in {j \in 1..Len(document) : document[j].assigned}}

Present(context, name) == name \in DOMAIN context /\ context[name] # Unset

\* Variable.resolve and Literal.resolve of python-dotenv.
PartValue(part, binding, context, source) ==
    IF part = Literal THEN Text(source, binding.key)
    ELSE IF Present(context, part.name) THEN context[part.name]
    ELSE IF part.name \in DOMAIN context THEN {}
    ELSE IF part.default THEN Text(source, binding.key)
    ELSE Gap(part.name)

\* The references of a binding that have neither a value nor a default.
Missing(binding, context) ==
    {part.name : part \in {q \in binding.parts : q # Literal /\ ~q.default
                                                 /\ ~Present(context, q.name)}}

\* One binding after the others: what it gives is context for the next.
Bind(state, binding, source) ==
    IF ~binding.assigned
    THEN [state EXCEPT !.values = Over(Assign(binding.key, Unset), @),
                       !.context = Over(Assign(binding.key, Unset), @)]
    ELSE LET value == UNION {PartValue(q, binding, state.context, source) : q \in binding.parts}
             missing == Missing(binding, state.context)
         IN  [state EXCEPT
                !.values = Over(Assign(binding.key, value), @),
                !.context = Over(Assign(binding.key, value), @),
                !.unresolved = IF missing # {} THEN @ \cup {binding.key} ELSE @ \ {binding.key}]

ResolveDocument(document, ambient, source) ==
    FoldLeft(LAMBDA s, b : Bind(s, b, source),
             [context |-> ambient, values |-> <<>>, unresolved |-> {}], document)

(***************************************************************************)
(* Layers.  A later layer replaces what it assigns, and with it the mark   *)
(* of an unresolved reference.                                             *)
(***************************************************************************)
MergeValues(into, values, unresolved, source) ==
    LET assigned == Assigned(values)
    IN  [values |-> Over(Only(values, assigned), into.values),
         origins |-> Over([n \in assigned |-> source], into.origins),
         unresolved |-> (into.unresolved \ assigned) \cup (unresolved \cap assigned)]

AppContainerPolicy ==
    [target |-> "app-container", interpolation |-> "container-eligible",
     assignment |-> "container-eligible", unresolved |-> "error"]
PreloadedPolicy ==
    [target |-> "host-runtime", interpolation |-> "none", assignment |-> "all", unresolved |-> "error"]

(***************************************************************************)
(* A plan: the documents and the mapping of the config, its auth.path (or  *)
(* Unset), the document of --env-file, the inherited environment, what the *)
(* command assigns and the names selected with --pass-env.                 *)
(***************************************************************************)
DeclaredNames(plan) ==
    Names(plan.configDotenv) \cup DOMAIN plan.configMapping \cup Names(plan.cliDotenv)
        \cup (IF plan.authPath = Unset THEN {} ELSE {Auth})

EligibleNames(plan, policy) ==
    plan.explicit \cup DeclaredNames(plan)
        \cup (IF policy.interpolation = "container-eligible" THEN Compatibility ELSE {})

\* Mutant: every variable of the shell may be referred to.
WholeShell(plan, policy) == plan.launch

AllowedAmbient(plan, policy) ==
    CASE policy.interpolation = "all" -> plan.launch
      [] policy.interpolation = "container-eligible" -> Only(plan.launch, EligibleNames(plan, policy))
      [] OTHER -> <<>>

LaunchValues(plan, policy) ==
    CASE policy.assignment = "all" -> plan.launch
      [] policy.assignment = "container-eligible" -> Only(plan.launch, EligibleNames(plan, policy))
      [] OTHER -> <<>>

\* What the command assigns for this target comes last.
WithAssignments(layers, assignments, target) ==
    FoldLeft(LAMBDA s, a : IF target \in a.targets THEN MergeValues(s, a.values, {}, "command") ELSE s,
             layers, assignments)

ResolveEnvironment(plan, policy) ==
    LET ambient == AllowedAmbient(plan, policy)
        config == ResolveDocument(plan.configDotenv, ambient, "config-dotenv")
        cli == ResolveDocument(plan.cliDotenv, ambient, "cli-dotenv")
        L0 == [values |-> <<>>, origins |-> <<>>, unresolved |-> {}]
        L1 == MergeValues(L0, config.values, config.unresolved, "config-dotenv")
        L2 == MergeValues(L1, plan.configMapping, {}, "config-mapping")
        L3 == MergeValues(L2, Assign(Auth, plan.authPath), {}, "auth")
        L4 == MergeValues(L3, cli.values, cli.unresolved, "cli-dotenv")
        L5 == MergeValues(L4, LaunchValues(plan, policy), {}, "launch")
    IN  WithAssignments(L5, plan.assignments, policy.target)

\* The error of a policy that accepts no unresolved reference.
Refused(resolved, policy) ==
    policy.unresolved = "error" /\ resolved.unresolved \cap DOMAIN resolved.values # {}

(***************************************************************************)
(* The plans of the commands.                                              *)
(***************************************************************************)
HostPlan(config, cliDotenv, inherited) ==
    [configDotenv |-> config.dotenv, configMapping |-> config.mapping, authPath |-> config.authPath,
     cliDotenv |-> cliDotenv,
     launch |-> Only(inherited, DOMAIN inherited \ {Graphs}),
     assignments |->
        <<[targets |-> {"host-runtime"}, values |-> Assign(Graphs, Text("command", "config"))]>>,
     explicit |-> {}]

ContainerPlan(config, cliDotenv, inherited, passEnv, postgres) ==
    [HostPlan(config, cliDotenv, inherited) EXCEPT
        !.explicit = passEnv,
        !.assignments =
            <<[targets |-> {"app-container"}, values |-> Assign(Graphs, Text("command", "config"))]>>
            \o (IF postgres
                THEN <<[targets |-> {"app-container"},
                        values |-> Assign("METADATA_DB_URL", Text("command", "postgres"))]>>
                ELSE <<>>)]

\* What a container does with its environment: it is taken as it is.
PreloadedPlan(inherited) ==
    [configDotenv |-> <<>>, configMapping |-> <<>>, authPath |-> Unset, cliDotenv |-> <<>>,
     launch |-> inherited, assignments |-> <<>>, explicit |-> {}]

(***************************************************************************)
(* Payloads.                                                               *)
(***************************************************************************)
DockerControlEnvironment(inherited) == Only(inherited, DockerControl)

SelectedNames(plan, passEnv) == DeclaredNames(plan) \cup Compatibility \cup passEnv

\* select_application_payload raises for a selected name that is absent and
\* for one of Docker's own.
PayloadRefused(plan, resolved, passEnv) ==
    \/ ~passEnv \subseteq DOMAIN resolved.values
    \/ SelectedNames(plan, passEnv) \cap DOMAIN resolved.values \cap DockerControl # {}

SelectApplicationPayload(plan, resolved, passEnv) ==
    Only(resolved.values, SelectedNames(plan, passEnv))

ComposeRefused(application, names, control) ==
    ~names \subseteq DOMAIN application \/ names \cap DOMAIN control # {}

SelectComposePayload(application, names) == Only(application, names)
=============================================================================
