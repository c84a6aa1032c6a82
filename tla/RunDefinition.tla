--------------------------- MODULE RunDefinition ---------------------------
(***************************************************************************)
(* The declarative definition of a run, its validation and its canonical   *)
(* identity.  A definition is a record of a sequence of tasks and one of   *)
(* capability declarations, in authoring order:                            *)
(*   task         [id, label, deps, requires, effect]                      *)
(*   declaration  [id, kind, identity, deps]                               *)
(* where a requirement is a pair <<capability, identity>> and an effect is *)
(* <<>> or <<operation, semantics>>.  All names are numbers: the code      *)
(* keeps them in ordered maps.                                             *)
(***************************************************************************)
EXTENDS Naturals, Sequences, FiniteSets, SequencesExt

DefaultKind == 0  \* the kind "capability" of an implicit declaration
Blank == 0        \* a definition identity of nothing but white space

\* Definitions as they are authored: any order, repetitions allowed.
Requirements == Seq(Nat \X Nat)
TaskDeclarations ==
    [id : Nat, label : Nat, deps : Seq(Nat), requires : Requirements,
     effect : {<<>>} \cup (Nat \X {"idempotent", "non_idempotent"})]
CapabilityDeclarations == [id : Nat, kind : Nat, identity : Nat, deps : Requirements]
RunDefinitions == [tasks : Seq(TaskDeclarations), capabilities : Seq(CapabilityDeclarations)]

Ids(s) == [i \in DOMAIN s |-> s[i].id]
Slots(requirements) == [i \in DOMAIN requirements |-> requirements[i][1]]

\* A sequence sorted by a key that differs at every position.
ByKey(s, key) ==
    LET Before(j) == {k \in DOMAIN s : key[k] < key[j]}
    IN  [i \in DOMAIN s |-> s[CHOOSE j \in DOMAIN s : Cardinality(Before(j)) = i - 1]]

\* The elements of a map by identifier, in the order the map is iterated.
InOrder(s) == ByKey(s, Ids(s))

UniqueIds(s) == IsInjective(Ids(s))

ValidRequirements(rs) ==
    IsInjective(Slots(rs)) /\ \A r \in ToSet(rs) : r[2] # Blank

ValidTasks(tasks) ==
    /\ \A t \in ToSet(tasks) :
          /\ IsInjective(t.deps)
          /\ ToSet(t.deps) \subseteq ToSet(Ids(tasks))
          /\ ValidRequirements(t.requires)
    /\ \A t, u \in ToSet(tasks) :
          t.id # u.id /\ t.effect # <<>> /\ u.effect # <<>> => t.effect[1] # u.effect[1]

ValidCapabilities(caps) ==
    \A c \in caps : c.identity # Blank /\ ValidRequirements(c.deps)

\* What the tasks and the declared capabilities require.
Required(d) ==
    UNION ({ToSet(t.requires) : t \in ToSet(d.tasks)}
           \cup {ToSet(c.deps) : c \in ToSet(d.capabilities)})

\* Every requirement agrees with the declaration of its slot, which for an
\* undeclared slot is the one its first requirement implies.
IdentitiesAgree(d) ==
    LET claimed == Required(d) \cup {<<c.id, c.identity>> : c \in ToSet(d.capabilities)}
    IN  \A r, q \in claimed : r[1] = q[1] => r[2] = q[2]

Implicit(r) == [id |-> r[1], kind |-> DefaultKind, identity |-> r[2], deps |-> <<>>]

\* The declarations of a valid definition: those made, and a leaf for every
\* slot that is required and not declared.
Materialized(d) ==
    ToSet(d.capabilities) \cup
        {Implicit(r) : r \in {q \in Required(d) : q[1] \notin ToSet(Ids(d.capabilities))}}

CapabilityEdges(d) == UNION {{<<c.id, r[1]>> : r \in ToSet(c.deps)} : c \in Materialized(d)}
TaskEdges(d) == UNION {{<<t.id, p>> : p \in ToSet(t.deps)} : t \in ToSet(d.tasks)}

\* The name of the first check that fails, of a sequence of <<name, holds>>.
FirstRefusal(checks) ==
    LET i == SelectInSeq(checks, LAMBDA c : ~c[2])
    IN  IF i = 0 THEN "none" ELSE checks[i][1]

\* Validation up to the two graphs, which are searched afterwards.
RefusedDefinition(d) == FirstRefusal(<<
    <<"unique_tasks",        UniqueIds(d.tasks)>>,
    <<"unique_capabilities", UniqueIds(d.capabilities)>>,
    <<"tasks",               ValidTasks(d.tasks)>>,
    <<"capabilities",        ValidCapabilities(ToSet(d.capabilities))>>,
    <<"identities",          IdentitiesAgree(d)>>,
    <<"materialized",        ValidCapabilities(Materialized(d))>> >>)

----------------------------------------------------------------------------
(* The canonical identity: one flat sequence of tokens.  A structural token *)
(* cannot be mistaken for a count or for data; that a value is delimited by *)
(* its length makes it one token.                                           *)

RunDefinitionFormat == "kernis-run-definition-v2"
Tag(name) == <<"#", name>>
Count(n) == <<"[", n>>
Value(v) == <<"%", v>>

\* Mutant: the requirements are written in authoring order.
PushAsAuthored(rs) ==
    <<Tag("requires"), Count(Len(rs))>>
        \o FlattenSeq([i \in DOMAIN rs |-> <<Value(rs[i][1]), Value(rs[i][2])>>])
        \o <<Tag("end")>>

PushRequirements(rs) ==
    LET sorted == ByKey(rs, Slots(rs))
    IN  <<Tag("requires"), Count(Len(sorted))>>
            \o FlattenSeq([i \in DOMAIN sorted |-> <<Value(sorted[i][1]), Value(sorted[i][2])>>])
            \o <<Tag("end")>>

PushCapability(c) ==
    <<Tag("capability"), Value(c.id), Value(c.kind), Value(c.identity)>>
        \o PushRequirements(c.deps)

PushTask(t) ==
    LET deps == ByKey(t.deps, t.deps)
    IN  <<Tag("task"), Value(t.id), Tag("depends"), Count(Len(deps))>>
            \o [i \in DOMAIN deps |-> Value(deps[i])]
            \o <<Tag("end")>>
            \o PushRequirements(t.requires)
            \o <<Tag("effect")>>
            \o IF t.effect = <<>> THEN <<Tag("absent")>>
               ELSE <<Tag("present"), Value(t.effect[1]), Tag(t.effect[2])>>

CanonicalIdentity(d) ==
    LET caps == InOrder(SetToSeq(Materialized(d)))
        tasks == InOrder(d.tasks)
    IN  <<RunDefinitionFormat, Tag("capabilities"), Count(Len(caps))>>
            \o FlattenSeq([i \in DOMAIN caps |-> PushCapability(caps[i])])
            \o <<Tag("end"), Tag("tasks"), Count(Len(tasks))>>
            \o FlattenSeq([i \in DOMAIN tasks |-> PushTask(tasks[i])])
            \o <<Tag("end")>>

\* What a definition means, whatever order and labels it was written with.
Meaning(d) ==
    [tasks |-> {[id |-> t.id, deps |-> ToSet(t.deps), requires |-> ToSet(t.requires),
                 effect |-> t.effect] : t \in ToSet(d.tasks)},
     capabilities |-> {[id |-> c.id, kind |-> c.kind, identity |-> c.identity,
                        deps |-> ToSet(c.deps)] : c \in Materialized(d)}]
============================================================================
