--------------------------- MODULE WorkflowGraph ---------------------------
(***************************************************************************)
(* The workflow graph of crates/workflow-graph: a topology (tasks and      *)
(* dependency edges) that planners grow by revision-checked batches, and   *)
(* the execution facts (completed tasks) that the scheduler adds to it.    *)
(*                                                                         *)
(* A rejected operation returns an error and leaves the graph as it was,   *)
(* so a rejection is a stuttering step: each action below is the accepted  *)
(* operation, and its guard is the conjunction of the code's checks.       *)
(***************************************************************************)
EXTENDS Naturals, Sequences, Dag

CONSTANTS
    Tasks,         \* task identities a planner may use
    Planners,      \* independent planners, each with its own snapshot
    Batches,       \* the mutation batches a planner may submit
    MaxRevision,   \* the revision from which checked_next() fails
    NoView         \* a planner that holds no snapshot

AddTask(t) == <<"AddTask", t>>
AddDependency(t, d) == <<"AddDependency", t, d>>

Mutation == {AddTask(t) : t \in Tasks}
              \cup {AddDependency(e[1], e[2]) : e \in Tasks \X Tasks}

\* What a planner reads, and what a committed batch leaves in the log.
Snapshot == [revision : Nat, tasks : SUBSET Tasks, edges : SUBSET (Tasks \X Tasks)]
Record == [base_revision : Nat, resulting_revision : Nat, mutations : Batches]

ASSUME GraphAssumption ==
    /\ MaxRevision \in Nat
    /\ Batches \subseteq Seq(Mutation)
    /\ NoView \notin Snapshot

VARIABLES
    tasks,              \* topology.tasks (keys)
    edges,              \* topology.dependencies as pairs <<task, dependency>>
    completed,          \* facts.completed
    completion_log,     \* facts.completion_log
    topology_revision,
    mutation_log,
    view                \* the topology snapshot each planner plans against

topology == <<tasks, edges, topology_revision, mutation_log>>
facts == <<completed, completion_log>>
vars == <<tasks, edges, completed, completion_log, topology_revision,
          mutation_log, view>>

----------------------------------------------------------------------------
(* A batch, applied to a clone of the graph.  CyclePath.tla checks the     *)
(* depth-first search behind the code's cycle test against HasCycle.       *)

\* The candidate's tasks and edges after the first n mutations of batch b.
TasksAfter(ts, b, n) ==
    ts \cup {t \in Tasks : \E i \in 1..n : b[i] = AddTask(t)}
EdgesAfter(es, b, n) ==
    es \cup {e \in Tasks \X Tasks : \E i \in 1..n : b[i] = AddDependency(e[1], e[2])}

AddTaskOK(ts, t) == t \notin ts

\* Mutant: completed tasks may still be given prerequisites.
AddDependencyToCompletedOK(ts, es, done, t, d) ==
    /\ t \in ts
    /\ d \in ts
    /\ <<t, d>> \notin es
    /\ ~HasCycle(es \cup {<<t, d>>})

AddDependencyOK(ts, es, done, t, d) ==
    /\ t \in ts
    /\ d \in ts
    /\ t \notin done
    /\ <<t, d>> \notin es
    /\ ~HasCycle(es \cup {<<t, d>>})

\* Mutation i of batch b is accepted by the candidate that the mutations
\* before it have built.
MutationOK(ts, es, done, b, i) ==
    LET ts0 == TasksAfter(ts, b, i - 1)
        es0 == EdgesAfter(es, b, i - 1)
    IN  /\ \A t \in Tasks : b[i] = AddTask(t) => AddTaskOK(ts0, t)
        /\ \A e \in Tasks \X Tasks :
              b[i] = AddDependency(e[1], e[2])
                => AddDependencyOK(ts0, es0, done, e[1], e[2])

BatchOK(ts, es, done, b) ==
    /\ b # <<>>
    /\ \A i \in 1..Len(b) : MutationOK(ts, es, done, b, i)
    /\ ~HasCycle(EdgesAfter(es, b, Len(b)))

----------------------------------------------------------------------------
(* Completion facts *)

Dependencies(es, t) == {d \in Tasks : <<t, d>> \in es}

CompleteOK(ts, es, done, t) ==
    /\ t \in ts
    /\ t \notin done
    /\ Dependencies(es, t) \subseteq done

ready_tasks == {t \in tasks : t \notin completed /\ Dependencies(edges, t) \subseteq completed}

----------------------------------------------------------------------------
(* replay_with_facts: topology records first, against a graph that has no  *)
(* facts, and then the whole completion log on the final topology.         *)

\* Mutant: the revision counter has no end.
checked_next_unchecked(r) == r \in Nat

\* Revision::checked_next returns a next revision.
checked_next(r) == r < MaxRevision

ReplayTasks(log, n) ==
    {t \in Tasks : \E i \in 1..n : \E j \in 1..Len(log[i].mutations) :
                      log[i].mutations[j] = AddTask(t)}
ReplayEdges(log, n) ==
    {e \in Tasks \X Tasks : \E i \in 1..n : \E j \in 1..Len(log[i].mutations) :
                      log[i].mutations[j] = AddDependency(e[1], e[2])}

ReplayRecordOK(log, i) ==
    /\ log[i].base_revision = i - 1
    /\ checked_next(i - 1)
    /\ log[i].resulting_revision = i
    /\ BatchOK(ReplayTasks(log, i - 1), ReplayEdges(log, i - 1), {}, log[i].mutations)

ReplayCompletionOK(log, completions, i) ==
    CompleteOK(ReplayTasks(log, Len(log)), ReplayEdges(log, Len(log)),
               {completions[j] : j \in 1..(i - 1)}, completions[i])

ReplaySucceeds(log, completions) ==
    /\ \A i \in 1..Len(log) : ReplayRecordOK(log, i)
    /\ \A i \in 1..Len(completions) : ReplayCompletionOK(log, completions, i)

----------------------------------------------------------------------------
(* The operations *)

Init ==
    /\ tasks = {}
    /\ edges = {}
    /\ completed = {}
    /\ completion_log = <<>>
    /\ topology_revision = 0
    /\ mutation_log = <<>>
    /\ view = [p \in Planners |-> NoView]

\* A planner reads topology() and revision() to plan against.
ReadTopology(p) ==
    /\ view' = [view EXCEPT ![p] = [revision |-> topology_revision,
                                    tasks    |-> tasks,
                                    edges    |-> edges]]
    /\ UNCHANGED <<topology, facts>>

\* Mutant: any snapshot that is not from the future is accepted.
StaleRevisionOK(expected_revision) == expected_revision <= topology_revision

\* The compare-and-swap of apply_batch.
RevisionOK(expected_revision) == expected_revision = topology_revision

apply_batch(p, b) ==
    /\ view[p] # NoView
    /\ RevisionOK(view[p].revision)
    /\ checked_next(topology_revision)
    /\ BatchOK(tasks, edges, completed, b)
    /\ tasks' = TasksAfter(tasks, b, Len(b))
    /\ edges' = EdgesAfter(edges, b, Len(b))
    /\ topology_revision' = topology_revision + 1
    /\ mutation_log' = Append(mutation_log,
                              [base_revision      |-> topology_revision,
                               resulting_revision |-> topology_revision + 1,
                               mutations          |-> b])
    /\ UNCHANGED <<facts, view>>

complete(t) ==
    /\ CompleteOK(tasks, edges, completed, t)
    /\ completed' = completed \cup {t}
    /\ completion_log' = Append(completion_log, t)
    /\ UNCHANGED <<topology, view>>

Next ==
    \/ \E p \in Planners : ReadTopology(p)
    \/ \E p \in Planners, b \in Batches : apply_batch(p, b)
    \/ \E t \in Tasks : complete(t)

Spec == Init /\ [][Next]_vars

----------------------------------------------------------------------------
(* Properties *)

\* Every variable of the graph has the shape of the Rust struct it stands for.
TypeOK ==
    /\ tasks \subseteq Tasks
    /\ edges \subseteq Tasks \X Tasks
    /\ completed \subseteq Tasks
    /\ completion_log \in Seq(Tasks)
    /\ topology_revision \in 0..MaxRevision
    /\ mutation_log \in Seq(Record)
    /\ view \in [Planners -> Snapshot \cup {NoView}]

\* Restart safety: at every moment replay_with_facts, run on the two logs the
\* graph has written, accepts every record and every completion and rebuilds
\* exactly the live graph, although it applies all topology first and the
\* completions only afterwards, on a topology that has grown since.
ReplayReproducesGraph ==
    /\ ReplaySucceeds(mutation_log, completion_log)
    /\ tasks = ReplayTasks(mutation_log, Len(mutation_log))
    /\ edges = ReplayEdges(mutation_log, Len(mutation_log))
    /\ topology_revision = Len(mutation_log)
    /\ completed = {completion_log[i] : i \in 1..Len(completion_log)}

\* The scheduler never starves on a valid graph: while some task is
\* unfinished, ready_tasks offers at least one, so tasks cannot all wait on
\* each other.
ReadyUnlessDone == completed # tasks => ready_tasks # {}

\* Optimistic concurrency: a batch is committed only when some planner's
\* snapshot is the very topology it lands on, so a planner that lost a race
\* cannot apply a plan made for another graph.
CommitsOnSeenTopology ==
    [][mutation_log' # mutation_log =>
         \E p \in Planners : /\ view[p] # NoView
                             /\ view[p].tasks = tasks
                             /\ view[p].edges = edges]_vars

============================================================================
