-------------------------- MODULE CapabilityScope --------------------------
(***************************************************************************)
(* A tree of capability scopes.  Publishing takes three steps: admission   *)
(* under the shared topology lock, construction without it, publication    *)
(* under it again; whatever others do in between happens between the first *)
(* and the last.  Withdrawal and teardown are one step each.               *)
(*                                                                         *)
(* An entry is known by its entry_id, its place in the history published.  *)
(* Entries keep the exact entries they were built with, so the history is  *)
(* also what snapshots refer to.  0 stands for no entry and generation 0   *)
(* for "none expected".                                                    *)
(***************************************************************************)
EXTENDS Integers, Sequences, FiniteSets, SequencesExt, Dag

CONSTANTS
    Scopes,
    Path,          \* scope -> the scopes from it up to the root
    Capabilities,  \* capability identifiers, 1..n as they are ordered
    Definitions,   \* scope -> the definitions hosts may publish in it
    Publishers,
    MaxEntries,    \* bound on publications
    MaxWithdrawn,  \* bound on withdrawals
    None

Definition == [id : Capabilities, dependencies : SUBSET Capabilities]

ASSUME ScopeAssumption ==
    /\ IsFiniteSet(Capabilities) /\ Capabilities = 1..Cardinality(Capabilities)
    /\ Definitions \in [Scopes -> SUBSET Definition]
    /\ Path \in [Scopes -> Seq(Scopes)]
    /\ \A s \in Scopes : Path[s] # <<>> /\ Path[s][1] = s
    /\ \A s \in Scopes : Len(Path[s]) > 1 => Path[Path[s][2]] = Tail(Path[s])
    /\ MaxEntries \in Nat /\ MaxWithdrawn \in Nat

VARIABLES
    lifecycle,   \* scope -> its lifecycle, "New" before child() makes it
    entries,     \* scope -> capability -> the local entry
    published,   \* entry_id -> CapabilityEntry
    publisher,   \* publisher -> the publication it is constructing
    withdrawn,   \* history: the entries that were withdrawn
    poisoned     \* a teardown panicked and poisoned the topology lock

vars == <<lifecycle, entries, published, publisher, withdrawn, poisoned>>

EntryIds == 0..MaxEntries
Snapshot == [Capabilities -> EntryIds]
Entry == [scope : Scopes, definition : Definition, dependencies : Snapshot,
          generation : 1..MaxEntries]
Publication == [scope : Scopes, definition : Definition, dependencies : Snapshot,
                expected : 0..MaxEntries]

Roots == {s \in Scopes : Len(Path[s]) = 1}

Init ==
    /\ lifecycle = [s \in Scopes |-> IF s \in Roots THEN "Open" ELSE "New"]
    /\ entries = [s \in Scopes |-> [c \in Capabilities |-> 0]]
    /\ published = <<>>
    /\ publisher = [p \in Publishers |-> None]
    /\ withdrawn = {}
    /\ poisoned = FALSE
----------------------------------------------------------------------------
(* Graphs of definitions, one definition for each capability *)

Requires(D) == UNION {{d.id} \X d.dependencies : d \in D}

\* resolve() succeeds: no dependency is missing and there is no cycle.
Resolves(D) ==
    /\ \A d \in D : d.dependencies \subseteq {x.id : x \in D}
    /\ ~HasCycle(Requires(D))

validate_candidate(D, definition) ==
    Resolves({d \in D : d.id # definition.id} \cup {definition})
----------------------------------------------------------------------------
(* What a scope sees *)

is_open(s) == lifecycle[s] = "Open"

\* get(): the nearest entry, unless a scope on the way is closed.
get(s, c) ==
    LET path == Path[s]
        owners == {i \in 1..Len(path) : entries[path[i]][c] # 0}
        nearest == CHOOSE i \in owners : \A j \in owners : i <= j
    IN  IF owners # {} /\ \A i \in 1..nearest : is_open(path[i])
        THEN entries[path[nearest]][c] ELSE 0

visible_definitions(s) ==
    {published[e].definition : e \in {get(s, c) : c \in Capabilities} \ {0}}

resolve_dependencies(s, definition) ==
    [c \in Capabilities |-> IF c \in definition.dependencies THEN get(s, c) ELSE 0]

Descendants(s) ==
    {d \in Scopes \ {s} : lifecycle[d] # "New" /\ \E i \in 1..Len(Path[d]) : Path[d][i] = s}

\* No scope from d up to s, without s, is closed or has its own entry for c.
candidate_affects(s, d, c) ==
    LET path == Path[d]
        up == CHOOSE i \in 1..Len(path) : path[i] = s
    IN  \A i \in 1..(up - 1) : is_open(path[i]) /\ entries[path[i]][c] = 0

\* Mutant: descendants are not asked.
validate_no_descendant(s, definition) == definition.id \in Capabilities

validate_descendant_admission(s, definition) ==
    \A d \in Descendants(s) :
        is_open(d) /\ candidate_affects(s, d, definition.id)
            => validate_candidate(visible_definitions(d), definition)

\* check_expectation: expected is 0 for a new entry.
check_expectation(s, c, expected) ==
    /\ is_open(s)
    /\ IF expected = 0 THEN entries[s][c] = 0
       ELSE entries[s][c] # 0 /\ published[entries[s][c]].generation = expected
----------------------------------------------------------------------------
(* The graph of a teardown *)

Owned(s) == {entries[s][c] : c \in Capabilities} \ {0}

\* The snapshot entries in the order insert_snapshot meets them: capability by
\* capability, each before its own dependencies, none that s owns.
Snapshots(s) ==
    LET Below(e, walk) ==
            FlattenSeq([c \in Capabilities |-> walk[published[e].dependencies[c]]])
        walk[e \in 0..Len(published)] ==
            IF e = 0 \/ e \in Owned(s) THEN <<>> ELSE <<e>> \o Below(e, walk)
    IN  FlattenSeq([c \in Capabilities |->
            IF entries[s][c] = 0 THEN <<>> ELSE Below(entries[s][c], walk)])

\* runtime_graph: the entries of s, and for other capabilities the snapshot
\* that is met first.
runtime_graph(s) ==
    LET snapshots == Snapshots(s)
        Id(i) == published[snapshots[i]].definition.id
        first == {i \in 1..Len(snapshots) :
                    entries[s][Id(i)] = 0 /\ \A j \in 1..(i - 1) : Id(j) # Id(i)}
    IN  {published[e].definition : e \in Owned(s) \cup {snapshots[i] : i \in first}}
----------------------------------------------------------------------------
(* Operations *)

child(s) ==
    /\ lifecycle[s] = "New"
    /\ lifecycle[Path[s][2]] # "New"
    /\ lifecycle' = [lifecycle EXCEPT ![s] = IF is_open(Path[s][2]) THEN "Open" ELSE "Closed"]
    /\ UNCHANGED <<entries, published, publisher, withdrawn, poisoned>>

\* The first part of provide (expected = 0) and replace, up to construction.
publish(p, s, definition, expected) ==
    LET c == definition.id
        dependencies == resolve_dependencies(s, definition)
    IN  /\ publisher[p] = None
        /\ check_expectation(s, c, expected)
        /\ validate_candidate(visible_definitions(s), definition)
        /\ \A d \in definition.dependencies : dependencies[d] # 0
        /\ publisher' = [publisher EXCEPT ![p] =
              [scope |-> s, definition |-> definition, dependencies |-> dependencies,
               expected |-> expected]]
        /\ UNCHANGED <<lifecycle, entries, published, withdrawn, poisoned>>

\* Mutant: the dependencies are not read again.
Unchanged_unchecked(s, x) == \A c \in x.definition.dependencies : x.dependencies[c] # 0

\* The dependencies a publication was built with are still what s sees.
DependenciesUnchanged(s, x) == resolve_dependencies(s, x.definition) = x.dependencies

\* Mutant: the graph is validated before construction only.
StillResolves_unchecked(s, definition) == is_open(s)

StillResolves(s, definition) == validate_candidate(visible_definitions(s), definition)

\* publish_preconstructed: everything is checked again under the lock.
publish_preconstructed(p) ==
    LET x == publisher[p]
        s == x.scope
        c == x.definition.id
        entry == [scope |-> s, definition |-> x.definition, dependencies |-> x.dependencies,
                  generation |-> x.expected + 1]
        e == Len(published) + 1
        admitted == /\ DependenciesUnchanged(s, x)
                    /\ validate_descendant_admission(s, x.definition)
                    /\ check_expectation(s, c, x.expected)
                    /\ StillResolves(s, x.definition)
    IN  /\ x # None
        /\ publisher' = [publisher EXCEPT ![p] = None]
        /\ \/ /\ admitted
              /\ e <= MaxEntries
              /\ published' = Append(published, entry)
              /\ entries' = [entries EXCEPT ![s][c] = e]
           \/ /\ ~admitted
              /\ UNCHANGED <<published, entries>>
        /\ UNCHANGED <<lifecycle, withdrawn, poisoned>>

\* The factory refuses.
construction_fails(p) ==
    /\ publisher[p] # None
    /\ publisher' = [publisher EXCEPT ![p] = None]
    /\ UNCHANGED <<lifecycle, entries, published, withdrawn, poisoned>>

\* withdraw and remove_local, by a host that took the generation from its
\* handle to the entry e.  Handles can be copied and kept.
withdraw(e) ==
    LET s == published[e].scope
        c == published[e].definition.id
    IN  /\ check_expectation(s, c, published[e].generation)
        /\ Cardinality(withdrawn) < MaxWithdrawn
        /\ withdrawn' = withdrawn \cup {entries[s][c]}
        /\ entries' = [entries EXCEPT ![s][c] = 0]
        /\ UNCHANGED <<lifecycle, published, publisher, poisoned>>

\* teardown of s and its descendants, children first.  Where a scope's graph
\* does not resolve the expect panics: the scope stays Closing, those before
\* it are closed, and the lock held is poisoned.
teardown(s) ==
    LET closing == {d \in Descendants(s) \cup {s} : is_open(d)}
        failing == {d \in closing : ~Resolves(runtime_graph(d))}
        ChildFirst(D, d) == \A b \in D \cup {d} :
            Descendants(b) \cap closing \subseteq D /\ d \notin Descendants(b)
        Clear(D) == entries' = [d \in Scopes |-> IF d \in D THEN [c \in Capabilities |-> 0]
                                                  ELSE entries[d]]
        Closed(D) == [d \in Scopes |-> IF d \in D THEN "Closed" ELSE lifecycle[d]]
    IN  /\ is_open(s)
        /\ \/ /\ failing = {}
              /\ lifecycle' = Closed(closing)
              /\ Clear(closing)
              /\ UNCHANGED poisoned
           \/ \E d \in failing, before \in SUBSET (closing \ failing) :
              /\ ChildFirst(before, d)
              /\ lifecycle' = [Closed(before) EXCEPT ![d] = "Closing"]
              /\ Clear(before \cup {d})
              /\ poisoned' = TRUE
        /\ UNCHANGED <<published, publisher, withdrawn>>

Next ==
    /\ ~poisoned
    /\ \/ \E s \in Scopes : child(s) \/ teardown(s)
       \/ \E p \in Publishers :
            \/ \E s \in Scopes : \E definition \in Definitions[s] :
                 LET current == entries[s][definition.id]
                 IN  \/ publish(p, s, definition, 0)
                     \/ current # 0 /\ publish(p, s, definition, published[current].generation)
            \/ publish_preconstructed(p)
            \/ construction_fails(p)
       \/ \E e \in 1..Len(published) : withdraw(e)

Spec == Init /\ [][Next]_vars
----------------------------------------------------------------------------
(* Properties *)

\* Every variable has the shape of the field it stands for.
TypeOK ==
    /\ lifecycle \in [Scopes -> {"New", "Open", "Closing", "Closed"}]
    /\ published \in Seq(Entry) /\ Len(published) <= MaxEntries
    /\ entries \in [Scopes -> [Capabilities -> 0..Len(published)]]
    /\ publisher \in [Publishers -> Publication \cup {None}]
    /\ withdrawn \subseteq 1..Len(published)
    /\ poisoned \in BOOLEAN

\* "An async initializer can never publish an old epoch after a concurrent
\* replacement": the entries a new one was built with are those its scope sees.
NoStalePublication ==
    [][Len(published') > Len(published) =>
          LET entry == published'[Len(published')]
          IN  \A c \in entry.definition.dependencies :
                entry.dependencies[c] # 0 /\ entry.dependencies[c] = get(entry.scope, c)]_vars

\* As long as nothing is withdrawn, what every open scope sees resolves,
\* however publications in it and above it interleave.
VisibleGraphsResolve ==
    withdrawn = {} => \A s \in Scopes : is_open(s) => Resolves(visible_definitions(s))

\* As long as nothing is withdrawn, a root scope can be torn down.
RootTeardownFindsOrder ==
    withdrawn = {} => \A s \in Roots : is_open(s) => Resolves(runtime_graph(s))
----------------------------------------------------------------------------
(* What the documentation says and the code does not keep *)

\* "Published capability topology must remain valid during teardown": the
\* expect in runtime_teardown_order never fails.
TeardownNeverPanics == ~poisoned
============================================================================
