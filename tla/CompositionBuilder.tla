------------------------- MODULE CompositionBuilder -------------------------
(***************************************************************************)
(* Validation of a set of module registrations and the plan made of them.  *)
(* A registration is a record                                              *)
(*   [id, deps, tasks, capabilities, factories, plugins, config]           *)
(* of sequences: a capability contribution is [id, ownership, kind,        *)
(* identity, deps], a factory <<capability, identity>>, a plugin [id,      *)
(* capability, kind, identity, deps] and a configuration requirement       *)
(* <<key, required>>.  The builder maps identifiers to registrations.      *)
(***************************************************************************)
EXTENDS RunDefinition, FiniteSetsExt

\* What a host or a factory of a catalog may hand over.
Registrations ==
    [id : Nat, deps : Seq(Nat), tasks : Seq(TaskDeclarations),
     capabilities : Seq([id : Nat, ownership : {"declarative", "reactive"}, kind : Nat,
                         identity : Nat, deps : Requirements]),
     factories : Requirements,
     plugins : Seq([id : Nat, capability : Nat, kind : Nat, identity : Nat, deps : Seq(Nat)]),
     config : Seq(Nat \X BOOLEAN)]

\* All contributions of one sort.
Contributions(ms, sort) == UNION {ToSet(ms[m][sort]) : m \in DOMAIN ms}

\* No two contributions of a sort have the same key, of whichever modules.
OneOwner(ms, sort, Key(_)) ==
    \A m, n \in DOMAIN ms : \A i \in DOMAIN ms[m][sort], j \in DOMAIN ms[n][sort] :
        Key(ms[m][sort][i]) = Key(ms[n][sort][j]) => m = n /\ i = j

DependencySets(ms) == [m \in DOMAIN ms |-> ToSet(ms[m].deps)]
DependenciesKnown(ms) == \A m \in DOMAIN ms : ToSet(ms[m].deps) \subseteq DOMAIN ms

\* The cycle reported when Kahn's loop has left modules out: the walk from the
\* smallest of them to a smallest dependency that is left out too, from where
\* it first comes back to.
CycleAmong(remaining, deps) ==
    LET walk[k \in 1..(Cardinality(remaining) + 1)] ==
            IF k = 1 THEN Min(remaining) ELSE Min(deps[walk[k - 1]] \cap remaining)
        Again(k) == {i \in 1..(k - 1) : walk[i] = walk[k]}
        last == Min({k \in DOMAIN walk : Again(k) # {}})
    IN  SubSeq(walk, Min(Again(last)), last)

TasksOwned(ms) == OneOwner(ms, "tasks", LAMBDA t : t.id)
SlotsOwned(ms) == OneOwner(ms, "capabilities", LAMBDA c : c.id)

\* The slots of the composition.
SlotsOf(ms) == Contributions(ms, "capabilities")
SlotOf(ms, id) == CHOOSE s \in SlotsOf(ms) : s.id = id
HasSlot(ms, id) == \E s \in SlotsOf(ms) : s.id = id

\* Mutant: a requirement is met by whatever owns the slot.
MetByAnyOwner(ms, r) ==
    HasSlot(ms, r[1]) /\ SlotOf(ms, r[1]).identity = r[2]

\* A requirement of a task or declaration is met by a declarative slot of the
\* identity it names.
RequirementMet(ms, r) ==
    /\ HasSlot(ms, r[1])
    /\ SlotOf(ms, r[1]).ownership = "declarative"
    /\ SlotOf(ms, r[1]).identity = r[2]

RequirementsMet(ms) ==
    /\ \A t \in Contributions(ms, "tasks") :
          \A r \in ToSet(t.requires) : RequirementMet(ms, r)
    /\ \A s \in SlotsOf(ms) : s.ownership = "declarative" =>
          \A r \in ToSet(s.deps) : RequirementMet(ms, r)

\* Every factory is for a declarative slot and its identity, no two are for
\* the same one, and every declarative slot has its factory.
FactoriesFit(ms) ==
    LET factories == Contributions(ms, "factories")
    IN  /\ \A f \in factories : f[2] # Blank /\ RequirementMet(ms, f)
        /\ OneOwner(ms, "factories", LAMBDA f : f)
        /\ \A s \in SlotsOf(ms) : s.ownership = "declarative" =>
              <<s.id, s.identity>> \in factories

\* Every plugin publishes into the reactive slot of its kind and identity, no
\* two into the same one, every reactive slot has its plugin, and a plugin
\* depends on slots of the composition only.
PluginsFit(ms) ==
    LET plugins == Contributions(ms, "plugins")
    IN  /\ OneOwner(ms, "plugins", LAMBDA p : p.id)
        /\ \A p \in plugins :
              /\ \A d \in ToSet(p.deps) : HasSlot(ms, d)
              /\ HasSlot(ms, p.capability)
              /\ LET slot == SlotOf(ms, p.capability)
                 IN  /\ slot.ownership = "reactive"
                     /\ p.kind = slot.kind
                     /\ p.identity = slot.identity
        /\ OneOwner(ms, "plugins", LAMBDA p : p.capability)
        /\ \A s \in SlotsOf(ms) : s.ownership = "reactive" =>
              \E p \in plugins : p.capability = s.id

\* No key is both required and optional.
ConfigurationAgrees(ms) ==
    \A c, e \in Contributions(ms, "config") : c[1] = e[1] => c[2] = e[2]

\* What is checked once there is an order.
RefusedContributions(ms) == FirstRefusal(<<
    <<"slots",         SlotsOwned(ms)>>,
    <<"task_owners",   TasksOwned(ms)>>,
    <<"requirements",  RequirementsMet(ms)>>,
    <<"factories",     FactoriesFit(ms)>>,
    <<"plugins",       PluginsFit(ms)>>,
    <<"configuration", ConfigurationAgrees(ms)>> >>)

\* The tasks in the activation order by, the declared capabilities by identifier.
MergeDefinition(ms, by) ==
    LET declared == InOrder(SetToSeq({s \in SlotsOf(ms) : s.ownership = "declarative"}))
    IN  [tasks |-> FlattenSeq([i \in DOMAIN by |-> ms[by[i]].tasks]),
         capabilities |-> [i \in DOMAIN declared |->
             [id |-> declared[i].id, kind |-> declared[i].kind,
              identity |-> declared[i].identity, deps |-> declared[i].deps]]]
=============================================================================
