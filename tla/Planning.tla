------------------------------ MODULE Planning ------------------------------
(***************************************************************************)
(* From references to a run: the loader resolves modules, the composition  *)
(* builder makes a plan of them, and the plan's run definition is          *)
(* validated, built into a runtime and, after a restart, held against the  *)
(* identity in the durable store.  A host may enter at any point: with a   *)
(* catalog ("load"), with registrations ("compose") or with a definition   *)
(* ("define").  All of it runs in the host's thread; the graph searches it *)
(* makes are those of CyclePath.                                           *)
(***************************************************************************)
EXTENDS ModuleLoader, CompositionBuilder, ModulePlan

CONSTANTS
    Inputs,     \* what hosts come with
    Restarts    \* the definitions a host may come back with

ASSUME PlanningAssumption ==
    /\ Restarts \subseteq RunDefinitions
    /\ DOMAIN IdOf \subseteq Nat /\ IsFiniteSet(DOMAIN IdOf) /\ IdOf \in [DOMAIN IdOf -> Nat]
    /\ \A i \in Inputs :
          /\ i.mode \in {"load", "compose", "define"}
          /\ i.definition \in RunDefinitions
          /\ i.modules \in Seq(Registrations)
          /\ i.roots \in Seq(DOMAIN IdOf)
          /\ DOMAIN i.catalog \subseteq DOMAIN IdOf
          /\ \A r \in DOMAIN i.catalog :
                i.catalog[r] \in [deps : Seq(DOMAIN IdOf), makes : Registrations \cup {None}]

\* Identities of the first format begin with it.
LegacyFormat == "kernis-run-definition-v1"
Legacy == <<LegacyFormat>>

VARIABLES
    input,      \* [mode, catalog, roots, modules, definition, factories, config]
    stage,      \* where the pipeline is
    modules,    \* the builder: module identifier |-> registration
    ready,      \* Kahn's loop: the modules that wait for nothing,
    indegree,   \* what every module still waits for, counted, and
    placed,     \* the activation order so far
    purpose,    \* what a validation is for: "plan", "start" or "restore"
    definition, \* the run definition under validation
    factories,  \* the process's factory registry
    construction, \* the capabilities in construction order
    identity,   \* the canonical identity of the validated definition
    planned,    \* whether a plan was accepted
    durable,    \* [identity, of]: the identity in the store and, as a history,
                \* the definition it was made from
    refusal     \* which check ended the pipeline, with its path

kahnVars == <<ready, indegree, placed>>
pipelineVars == <<input, stage, modules, kahnVars, purpose, definition, factories,
                  construction, identity, planned, durable, refusal>>
vars == <<pipelineVars, loaderVars, searchVars>>

Init ==
    /\ input \in Inputs
    /\ LoaderInit(input.catalog, input.roots)
    /\ SearchInit
    /\ stage = CASE input.mode = "load" -> "load"
                 [] input.mode = "compose" -> "register"
                 [] input.mode = "define" -> "definition"
    /\ modules = <<>>
    /\ ready = {} /\ indegree = <<>> /\ placed = <<>>
    /\ purpose = "start"
    /\ definition = input.definition
    /\ factories = input.factories
    /\ construction = <<>>
    /\ identity = <<>>
    /\ planned = FALSE
    /\ durable = [identity |-> <<>>, of |-> None]
    /\ refusal = [by |-> "none", path |-> <<>>]

Refuse(by, p) ==
    /\ stage' = "refused"
    /\ refusal' = [by |-> by, path |-> p]

----------------------------------------------------------------------------
(* Loading and planning *)

Load ==
    /\ stage = "load"
    /\ LoaderStep
    /\ UNCHANGED pipelineVars

EndLoad ==
    /\ stage = "load"
    /\ \/ /\ loading = "loaded"
          /\ stage' = "register"
          /\ UNCHANGED refusal
       \/ /\ loading = "refused"
          /\ Refuse(loadError.by, loadError.path)
    /\ UNCHANGED <<input, modules, kahnVars, purpose, definition, factories, construction,
                   identity, planned, durable, loaderVars, searchVars>>

\* The registrations go into a builder, which refuses a second module of the
\* same identifier.
Register ==
    /\ stage = "register"
    /\ LET regs == IF input.mode = "load" THEN loaded ELSE input.modules
       IN  IF UniqueIds(regs)
           THEN /\ modules' = [m \in ToSet(Ids(regs)) |->
                                  CHOOSE r \in ToSet(regs) : r.id = m]
                /\ stage' = "build"
                /\ UNCHANGED refusal
           ELSE Refuse("duplicate_module", <<>>) /\ UNCHANGED modules
    /\ UNCHANGED <<input, kahnVars, purpose, definition, factories, construction,
                   identity, planned, durable, loaderVars, searchVars>>

\* Every dependency is a registered module; the loop starts with the modules
\* that have none.
StartOrder ==
    /\ stage = "build"
    /\ LET deps == DependencySets(modules)
       IN  IF DependenciesKnown(modules)
           THEN /\ ready' = {m \in DOMAIN modules : deps[m] = {}}
                /\ indegree' = [m \in DOMAIN modules |-> Cardinality(deps[m])]
                /\ stage' = "order"
                /\ UNCHANGED refusal
           ELSE Refuse("module_dependencies", <<>>) /\ UNCHANGED <<ready, indegree>>
    /\ UNCHANGED <<input, modules, placed, purpose, definition, factories, construction,
                   identity, planned, durable, loaderVars, searchVars>>

\* Mutant: the ready modules are taken as they come.
TakeLargest(s) == Max(s)

\* The ready module that is placed next.
TakeSmallest(s) == Min(s)

\* One turn: the module is placed, and what waited only for it becomes ready.
PlaceModule ==
    /\ stage = "order"
    /\ ready # {}
    /\ LET m == TakeSmallest(ready)
           waiting == {d \in DOMAIN modules : m \in ToSet(modules[d].deps)}
       IN  /\ placed' = Append(placed, m)
           /\ indegree' = [d \in DOMAIN modules |->
                              IF d \in waiting THEN indegree[d] - 1 ELSE indegree[d]]
           /\ ready' = (ready \ {m}) \cup {d \in waiting : indegree[d] = 1}
    /\ UNCHANGED <<input, stage, modules, purpose, definition, factories, construction,
                   identity, planned, durable, refusal, loaderVars, searchVars>>

\* Modules that were never ready are on a cycle or depend on one.  Otherwise
\* the contributions are checked, and their definition remains to be.
Build ==
    /\ stage = "order"
    /\ ready = {}
    /\ LET remaining == DOMAIN modules \ ToSet(placed)
           by == RefusedContributions(modules)
       IN  \/ /\ remaining # {}
              /\ Refuse("module_cycle", CycleAmong(remaining, DependencySets(modules)))
              /\ UNCHANGED <<definition, factories, purpose>>
           \/ /\ remaining = {} /\ by # "none"
              /\ Refuse(by, <<>>)
              /\ UNCHANGED <<definition, factories, purpose>>
           \/ /\ remaining = {} /\ by = "none"
              /\ definition' = MergeDefinition(modules, placed)
              /\ factories' = Contributions(modules, "factories")
              /\ purpose' = "plan"
              /\ stage' = "definition"
              /\ UNCHANGED refusal
    /\ UNCHANGED <<input, modules, kahnVars, construction, identity, planned, durable, loaderVars,
                   searchVars>>

----------------------------------------------------------------------------
(* Validation of a run definition *)

\* The declarations are checked and completed; the capability graph is next.
ValidateDeclarations ==
    /\ stage = "definition"
    /\ LET by == RefusedDefinition(definition)
       IN  IF by = "none"
           THEN /\ StartSearch({c.id : c \in Materialized(definition)},
                               CapabilityEdges(definition))
                /\ stage' = "capabilities"
                /\ UNCHANGED refusal
           ELSE Refuse(by, <<>>) /\ UNCHANGED searchVars
    /\ UNCHANGED <<input, modules, kahnVars, purpose, definition, factories, construction,
                   identity, planned, durable, loaderVars>>

Search ==
    /\ stage \in {"load", "capabilities", "workflow"}
    /\ SearchStep
    /\ UNCHANGED <<pipelineVars, loaderVars>>

\* The resolver's verdict and its construction order; the workflow is next.
EndCapabilities ==
    /\ stage = "capabilities"
    /\ \/ /\ result = "cyclic"
          /\ Refuse("capability_cycle", path)
          /\ UNCHANGED <<construction, searchVars>>
       \/ /\ result = "acyclic"
          /\ construction' = order
          /\ StartSearch(ToSet(Ids(definition.tasks)), TaskEdges(definition))
          /\ stage' = "workflow"
          /\ UNCHANGED refusal
    /\ UNCHANGED <<input, modules, kahnVars, purpose, definition, factories, identity, planned, durable,
                   loaderVars>>

EndWorkflow ==
    /\ stage = "workflow"
    /\ \/ /\ result = "cyclic"
          /\ Refuse("workflow_cycle", path)
          /\ UNCHANGED <<identity, planned>>
       \/ /\ result = "acyclic"
          /\ identity' = CanonicalIdentity(definition)
          /\ planned' = (planned \/ purpose = "plan")
          /\ stage' = IF purpose = "plan" THEN "planned" ELSE "validated"
          /\ UNCHANGED refusal
    /\ UNCHANGED <<input, modules, kahnVars, purpose, definition, factories, construction,
                   durable, loaderVars, searchVars>>

----------------------------------------------------------------------------
(* Construction of the runtime *)

\* A plan is started when the configuration has every required key; its
\* definition is validated again.
StartPlan ==
    /\ stage = "planned"
    /\ IF \A c \in Contributions(modules, "config") : c[2] => c[1] \in input.config
       THEN stage' = "definition" /\ UNCHANGED refusal
       ELSE Refuse("missing_configuration", <<>>)
    /\ purpose' = "start"
    /\ UNCHANGED <<input, modules, kahnVars, definition, factories, construction, identity, planned,
                   durable, loaderVars, searchVars>>

FactoryFor(c) == <<c.id, c.identity>> \in factories

\* The durable identity is of this format and the one of the definition.
Restorable ==
    /\ durable.identity # <<>>
    /\ Head(durable.identity) # LegacyFormat
    /\ durable.identity = identity

\* What construction needs, in the code's order.
RefusedConstruction == FirstRefusal(<<
    <<"missing_factory", \A c \in Materialized(definition) : FactoryFor(c)>>,
    <<"identity", purpose = "restore" => Restorable>>,
    <<"publication", \A c \in Materialized(definition) : \A r \in ToSet(c.deps) :
        SelectInSeq(construction, LAMBDA n : n = r[1])
            < SelectInSeq(construction, LAMBDA n : n = c.id)>> >>)

\* The workflow and the scope are built, each capability after those it depends
\* on, unless a factory fails; a fresh run stores its identity.
ConstructRuntime ==
    /\ stage = "validated"
    /\ LET by == RefusedConstruction
       IN  \/ /\ by = "none"
              /\ stage' = IF purpose = "start" THEN "running" ELSE "restored"
              /\ durable' = IF purpose = "start"
                            THEN [identity |-> identity, of |-> definition]
                            ELSE durable
              /\ UNCHANGED refusal
           \/ /\ by = "none"
              /\ Materialized(definition) # {}
              /\ Refuse("factory_failed", <<>>)
              /\ UNCHANGED durable
           \/ /\ by # "none"
              /\ Refuse(by, <<>>)
              /\ UNCHANGED durable
    /\ UNCHANGED <<input, modules, kahnVars, purpose, definition, factories, construction,
                   identity, planned, loaderVars, searchVars>>

\* The process ends and a new one comes back, with any definition to the store
\* of the run, or with the same one to a store that has the run under an
\* identity of the first format or under none.
Restart ==
    /\ stage = "running"
    /\ input.mode = "define"
    /\ \/ definition' \in Restarts /\ UNCHANGED durable
       \/ /\ UNCHANGED definition
          /\ durable' \in {[durable EXCEPT !.identity = i] : i \in {Legacy, <<>>}}
    /\ purpose' = "restore"
    /\ stage' = "definition"
    /\ construction' = <<>>
    /\ UNCHANGED <<input, modules, kahnVars, factories, identity, planned, refusal, loaderVars, searchVars>>

----------------------------------------------------------------------------

\* The host's call goes on until it has an answer.
Step ==
    \/ Load \/ EndLoad \/ Register \/ StartOrder \/ PlaceModule \/ Build
    \/ ValidateDeclarations \/ Search \/ EndCapabilities \/ EndWorkflow \/ StartPlan \/ ConstructRuntime

Next == Step \/ Restart

Spec == Init /\ [][Next]_vars /\ WF_vars(Step)

----------------------------------------------------------------------------

\* The modules of a plan are activated in the promised order, dependencies
\* first and among the available ones the smallest; a module cycle is reported
\* by a closed walk of dependencies; and what the loader passed on is never
\* refused for a missing module or a cycle, which resolve.rs:13 promises to
\* have classified before.
OrderIsTopological ==
    LET deps == DependencySets(modules)
    IN  /\ stage = "planned" =>
              /\ ToSet(placed) = DOMAIN modules
              /\ placed = ActivationOrder(DOMAIN modules, deps)
        /\ refusal.by = "module_cycle" =>
              IsCycleOf(refusal.path, UNION {{<<m, d>> : d \in deps[m]} : m \in DOMAIN modules})
        /\ input.mode = "load" => refusal.by \notin {"module_dependencies", "module_cycle"}

\* An accepted plan can be started: nothing the builder could have known makes
\* the construction of its runtime fail, and no plugin of it publishes into a
\* slot that the run definition or another plugin fills.
PlanSuffices ==
    /\ planned => refusal.by \in {"none", "missing_configuration", "factory_failed"}
    /\ planned /\ stage = "running" =>
          \A p, q \in Contributions(modules, "plugins") :
              /\ p.capability \notin ToSet(construction)
              /\ p # q => p.capability # q.capability /\ p.id # q.id

\* A run is restored from a definition exactly when that definition means what
\* the run was started with, however it is ordered and labelled, and never
\* from an identity of the first format (ADR 0008).
RestoreIffSame ==
    LET Continues == /\ durable.identity \notin {<<>>, Legacy}
                     /\ Meaning(definition) = Meaning(durable.of)
    IN  /\ stage = "restored" => Continues
        /\ refusal.by = "identity" => ~Continues

\* Every call of the host is answered, also on cyclic input.
AlwaysAnswered == []<>(stage \in {"running", "restored", "refused"})
=============================================================================
