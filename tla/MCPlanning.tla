----------------------------- MODULE MCPlanning -----------------------------
(***************************************************************************)
(* Instances of Planning for TLC, in five families:                        *)
(*   - catalogs of three references, the last two of them versions of one  *)
(*     module, with every choice of entries and dependencies;              *)
(*   - catalogs whose factory fails or disagrees with its entry;           *)
(*   - module graphs a host registers itself;                              *)
(*   - contributions of two modules: any of a pool for the first, at most  *)
(*     one of another pool for the second;                                 *)
(*   - task graphs, and run definitions for starts and restarts.           *)
(***************************************************************************)
EXTENDS Planning

MCIdOf == <<1, 2, 2>>

Host == [mode |-> "define", catalog |-> <<>>, roots |-> <<>>, modules |-> <<>>,
         definition |-> [tasks |-> <<>>, capabilities |-> <<>>],
         factories |-> {}, config |-> {}]

Module(id, deps) ==
    [id |-> id, deps |-> SetToSeq(deps), tasks |-> <<>>, capabilities |-> <<>>,
     factories |-> <<>>, plugins |-> <<>>, config |-> <<>>]

----------------------------------------------------------------------------
(* Catalogs *)

Refs == DOMAIN MCIdOf
Entry(r, deps) == [deps |-> SetToSeq(deps), makes |-> Module(MCIdOf[r], {MCIdOf[d] : d \in deps})]
Roots == {<<>>, <<1>>, <<2>>, <<3>>, <<1, 1>>, <<2, 1>>, <<3, 2>>, <<1, 3>>}

Catalogs ==
    UNION {{[r \in present |-> Entry(r, deps[r])] : deps \in [present -> SUBSET Refs]}
           : present \in SUBSET Refs}

Loads == {[Host EXCEPT !.mode = "load", !.catalog = c, !.roots = rs]
          : c \in Catalogs, rs \in Roots}

FaultyLoads ==
    {[Host EXCEPT !.mode = "load", !.roots = <<1>>,
                  !.catalog = 1 :> Entry(1, {2}) @@ 2 :> [Entry(2, {}) EXCEPT !.makes = bad]]
     : bad \in {None, Module(1, {}), Module(2, {3})}}

----------------------------------------------------------------------------
(* Registrations *)

Composes(ms) == [Host EXCEPT !.mode = "compose", !.modules = ms]

ModuleGraphs ==
    {Composes(<<Module(3, deps[3]), Module(1, deps[1]), Module(2, deps[2])>>)
     : deps \in [1..3 -> SUBSET (1..3)]}
    \cup {Composes(<<Module(1, {4})>>), Composes(<<Module(1, {}), Module(1, {})>>)}

Declarative(id, ident, deps) ==
    <<"capabilities", [id |-> id, ownership |-> "declarative", kind |-> 0,
                       identity |-> ident, deps |-> deps]>>
Reactive(id) ==
    <<"capabilities", [id |-> id, ownership |-> "reactive", kind |-> 0,
                       identity |-> 1, deps |-> <<>>]>>
Plugin(id, capability, kind, ident, deps) ==
    <<"plugins", [id |-> id, capability |-> capability, kind |-> kind,
                  identity |-> ident, deps |-> deps]>>
Factory(id, ident) == <<"factories", <<id, ident>> >>
Task(id, deps, requires, effect) ==
    [id |-> id, label |-> 1, deps |-> deps, requires |-> requires, effect |-> effect]
TaskItem(id, deps, requires) == <<"tasks", Task(id, deps, requires, <<>>)>>
Config(key, required) == <<"config", <<key, required>> >>

With(m, items) ==
    LET Of(sort) == SetToSeq({i[2] : i \in {j \in items : j[1] = sort}})
    IN  [m EXCEPT !.capabilities = Of("capabilities"), !.plugins = Of("plugins"),
                  !.factories = Of("factories"), !.tasks = Of("tasks"), !.config = Of("config")]

Pool == {Declarative(1, 1, <<>>), Declarative(3, 1, << <<1, 1>> >>), Reactive(2),
         Plugin(1, 2, 0, 1, <<1>>), Factory(1, 1), Factory(3, 1),
         TaskItem(1, <<>>, << <<1, 1>> >>), TaskItem(2, <<1>>, << <<2, 1>> >>),
         Config(1, TRUE)}

OtherPool == {Declarative(1, 1, <<>>), Declarative(4, 0, <<>>), Declarative(4, 1, << <<4, 1>> >>),
              Reactive(2), Plugin(1, 2, 0, 1, <<>>), Plugin(2, 1, 0, 1, <<>>),
              Plugin(2, 2, 0, 1, <<>>), Plugin(2, 2, 1, 1, <<>>), Plugin(2, 2, 0, 2, <<>>),
              Plugin(2, 5, 0, 1, <<>>), Factory(1, 1), Factory(1, 2), Factory(2, 1),
              Factory(4, 1), TaskItem(1, <<>>, <<>>), TaskItem(3, <<9>>, <<>>),
              TaskItem(3, <<1>>, << <<1, 2>> >>), TaskItem(3, <<1>>, << <<5, 1>> >>),
              Config(1, FALSE)}

Contributed ==
    {[Composes(<<With(Module(2, {1}), other), With(Module(1, {}), items)>>)
        EXCEPT !.config = {1}]
     : items \in SUBSET Pool, other \in {{}} \cup {{o} : o \in OtherPool}}
    \cup {Composes(<<With(Module(1, {}), {Config(1, required)})>>) : required \in BOOLEAN}

\* A declared capability that depends on itself, with its factory.
SelfDependent ==
    {Composes(<<With(Module(1, {}), {Declarative(4, 1, << <<4, 1>> >>), Factory(4, 1)})>>)}

----------------------------------------------------------------------------
(* Task graphs and definitions *)

WithTasks(n, es) ==
    [Module(1, {}) EXCEPT !.tasks = [t \in 1..n |->
        Task(t, SetToSeq({e[2] : e \in {f \in es : f[1] = t}}), <<>>, <<>>)]]

TaskGraphs ==
    {Composes(<<WithTasks(3, es)>>) : es \in SUBSET ((1..3) \X (1..3))}
    \cup {Composes(<<WithTasks(4, es)>>)
          : es \in UNION {kSubset(k, {e \in (1..4) \X (1..4) : e[1] # e[2]}) : k \in 4..5}}

R1 == <<1, 1>>
R2 == <<2, 1>>
TaskLists == {
    <<Task(1, <<>>, <<R1, R2>>, <<>>)>>,
    <<Task(1, <<>>, <<R2, R1>>, <<>>)>>,
    <<[Task(1, <<>>, <<R1, R2>>, <<>>) EXCEPT !.label = 2]>>,
    <<Task(1, <<>>, <<R1>>, <<>>)>>,
    <<Task(1, <<>>, <<R1, <<2, 2>> >>, <<>>)>>,
    <<Task(1, <<>>, <<R1>>, <<1, "idempotent">>)>>,
    <<Task(1, <<>>, <<R1>>, <<1, "non_idempotent">>)>>,
    <<Task(1, <<>>, <<R1>>, <<>>), Task(2, <<>>, <<>>, <<>>), Task(3, <<1, 2>>, <<>>, <<>>)>>,
    <<Task(3, <<2, 1>>, <<>>, <<>>), Task(2, <<>>, <<>>, <<>>), Task(1, <<>>, <<R1>>, <<>>)>>,
    <<Task(1, <<>>, <<>>, <<>>), Task(2, <<>>, <<R1>>, <<>>), Task(3, <<1, 2>>, <<>>, <<>>)>>,
    <<Task(1, <<>>, <<R1>>, <<>>), Task(2, <<1>>, <<>>, <<>>), Task(3, <<2>>, <<>>, <<>>)>> }

Cap(id, kind, deps) == [id |-> id, kind |-> kind, identity |-> 1, deps |-> deps]
CapLists == {
    <<>>,
    <<Cap(1, 0, <<>>)>>,
    <<Cap(1, 1, <<>>)>>,
    <<Cap(1, 0, <<R2>>)>>,
    <<Cap(1, 0, <<>>), Cap(2, 0, <<>>)>>,
    <<Cap(2, 0, <<>>), Cap(1, 0, <<R2>>)>> }

MCRestarts == {[tasks |-> ts, capabilities |-> cs] : ts \in TaskLists, cs \in CapLists}

Invalid == {
    [tasks |-> <<Task(1, <<>>, <<R1>>, <<>>), Task(1, <<>>, <<R1>>, <<>>)>>, capabilities |-> <<>>],
    [tasks |-> <<>>, capabilities |-> <<Cap(1, 0, <<>>), Cap(1, 0, <<>>)>>],
    [tasks |-> <<Task(1, <<>>, <<R1, R1>>, <<>>)>>, capabilities |-> <<>>],
    [tasks |-> <<Task(1, <<>>, << <<1, Blank>> >>, <<>>)>>, capabilities |-> <<>>],
    [tasks |-> <<Task(1, <<>>, <<>>, <<1, "idempotent">>), Task(2, <<>>, <<>>, <<1, "idempotent">>)>>,
     capabilities |-> <<>>],
    [tasks |-> <<>>, capabilities |-> <<Cap(1, 0, <<R2>>), Cap(2, 0, <<R1>>)>>],
    [tasks |-> <<>>, capabilities |-> <<Cap(3, 0, <<>>)>>] }

Defines == {[Host EXCEPT !.definition = d, !.factories = {R1, R2}]
            : d \in Invalid \cup {e \in MCRestarts :
                                   e.capabilities \in {<<>>, <<Cap(1, 0, <<R2>>)>>}}}

MCInputs == Loads \cup FaultyLoads \cup ModuleGraphs \cup Contributed \cup SelfDependent
                \cup TaskGraphs \cup Defines
=============================================================================
