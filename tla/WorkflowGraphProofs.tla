------------------------ MODULE WorkflowGraphProofs ------------------------
(***************************************************************************)
(* Theorems about WorkflowGraph, for every set of tasks, planners and      *)
(* batches and every revision bound.                                       *)
(***************************************************************************)
EXTENDS WorkflowGraph, TLAPS

\* A snapshot with the current revision is a snapshot of the current topology.
RevisionIdentifiesTopology ==
    \A p \in Planners :
        view[p] # NoView /\ view[p].revision = topology_revision
          => view[p].tasks = tasks /\ view[p].edges = edges

\* Snapshots never come from the future.
ViewsArePast ==
    \A p \in Planners : view[p] # NoView => view[p].revision <= topology_revision

TopologyInv ==
    /\ ~HasCycle(edges)
    /\ edges \subseteq tasks \X tasks

\* The inductive invariant.
IInv ==
    /\ TypeOK
    /\ TopologyInv
    /\ ReplayReproducesGraph
    /\ RevisionIdentifiesTopology
    /\ ViewsArePast

----------------------------------------------------------------------------
(* What a batch does to tasks and edges *)

\* A batch only uses known tasks and only gives new prerequisites to tasks that
\* are not completed.
LEMMA BatchFacts ==
    ASSUME NEW ts \in SUBSET Tasks, NEW es \in SUBSET (ts \X ts),
           NEW done, NEW b \in Seq(Mutation), BatchOK(ts, es, done, b)
    PROVE  LET nts == TasksAfter(ts, b, Len(b))
               nes == EdgesAfter(es, b, Len(b))
           IN  /\ nts \in SUBSET Tasks
               /\ ts \subseteq nts
               /\ es \subseteq nes
               /\ nes \subseteq nts \X nts
               /\ ~HasCycle(nes)
               /\ \A t \in done : Dependencies(nes, t) = Dependencies(es, t)
<1> DEFINE nts == TasksAfter(ts, b, Len(b))
           nes == EdgesAfter(es, b, Len(b))
<1>1. nts \in SUBSET Tasks /\ ts \subseteq nts /\ es \subseteq nes
  BY DEF TasksAfter, EdgesAfter
<1>2. ASSUME NEW e \in nes \ es
      PROVE  e \in nts \X nts /\ e[1] \notin done
  <2>1. e \in Tasks \X Tasks /\ \E i \in 1..Len(b) : b[i] = AddDependency(e[1], e[2])
    BY <1>2 DEF EdgesAfter
  <2>2. PICK i \in 1..Len(b) : b[i] = AddDependency(e[1], e[2])
    BY <2>1
  <2>3. AddDependencyOK(TasksAfter(ts, b, i - 1), EdgesAfter(es, b, i - 1), done, e[1], e[2])
    BY <2>1, <2>2 DEF BatchOK, MutationOK
  <2>4. TasksAfter(ts, b, i - 1) \subseteq nts
    <3>1. Len(b) \in Nat /\ 1..(i - 1) \subseteq 1..Len(b)
      BY <2>2
    <3> QED BY <3>1 DEF TasksAfter
  <2> QED BY <2>1, <2>3, <2>4 DEF AddDependencyOK
<1>3. nes \subseteq nts \X nts
  BY <1>1, <1>2
<1>4. ~HasCycle(nes)
  BY DEF BatchOK
<1>5. \A t \in done : Dependencies(nes, t) = Dependencies(es, t)
  <2> SUFFICES ASSUME NEW t \in done, NEW d \in Tasks
               PROVE  <<t, d>> \in nes <=> <<t, d>> \in es
    BY DEF Dependencies
  <2> QED BY <1>1, <1>2
<1> QED BY <1>1, <1>3, <1>4, <1>5

\* The checks of a batch are weaker on a graph with no facts: what the live
\* graph accepted, replay accepts.
LEMMA BatchOKWithoutFacts ==
    ASSUME NEW ts, NEW es, NEW done, NEW b, BatchOK(ts, es, done, b)
    PROVE  BatchOK(ts, es, {}, b)
BY DEF BatchOK, MutationOK, AddDependencyOK

----------------------------------------------------------------------------
(* Replay of an extended log *)

\* Appending a record does not change what the earlier records replay to.
LEMMA ReplayPrefix ==
    ASSUME NEW log \in Seq(Record), NEW r \in Record, NEW n \in 0..Len(log)
    PROVE  /\ ReplayTasks(Append(log, r), n) = ReplayTasks(log, n)
           /\ ReplayEdges(Append(log, r), n) = ReplayEdges(log, n)
<1>1. \A i \in 1..n : Append(log, r)[i] = log[i]
  OBVIOUS
<1> QED BY <1>1 DEF ReplayTasks, ReplayEdges

\* The appended record adds exactly what its batch adds.
LEMMA ReplayAppend ==
    ASSUME NEW log \in Seq(Record), NEW r \in Record
    PROVE  /\ ReplayTasks(Append(log, r), Len(log) + 1)
                = TasksAfter(ReplayTasks(log, Len(log)), r.mutations, Len(r.mutations))
           /\ ReplayEdges(Append(log, r), Len(log) + 1)
                = EdgesAfter(ReplayEdges(log, Len(log)), r.mutations, Len(r.mutations))
<1> DEFINE log2 == Append(log, r)
           L == Len(log)
<1>1. /\ L \in Nat
      /\ \A i \in 1..L : log2[i] = log[i]
      /\ log2[L + 1] = r
      /\ 1..(L + 1) = (1..L) \cup {L + 1}
  OBVIOUS
<1> HIDE DEF log2, L
<1>2. ReplayTasks(log2, L + 1) = TasksAfter(ReplayTasks(log, L), r.mutations, Len(r.mutations))
  BY <1>1, SMTT(30) DEF ReplayTasks, TasksAfter
<1>3. ReplayEdges(log2, L + 1) = EdgesAfter(ReplayEdges(log, L), r.mutations, Len(r.mutations))
  BY <1>1, SMTT(30) DEF ReplayEdges, EdgesAfter
<1> QED BY <1>2, <1>3 DEF log2, L

----------------------------------------------------------------------------
(* The invariant *)

\* A new graph satisfies the invariant.
LEMMA InitIInv == Init => IInv
<1> SUFFICES ASSUME Init PROVE IInv
  OBVIOUS
<1>1. TypeOK
  BY GraphAssumption DEF Init, TypeOK
<1>2. TopologyInv
  BY DEF Init, TopologyInv, HasCycle
<1>3. ReplayReproducesGraph
  BY DEF Init, ReplayReproducesGraph, ReplaySucceeds, ReplayTasks, ReplayEdges
<1>4. RevisionIdentifiesTopology /\ ViewsArePast
  BY DEF Init, RevisionIdentifiesTopology, ViewsArePast
<1> QED BY <1>1, <1>2, <1>3, <1>4 DEF IInv

\* topology() only replaces a view by the present revision and edges.
LEMMA ReadTopologyIInv ==
    ASSUME IInv, NEW p \in Planners, ReadTopology(p)
    PROVE  IInv'
<1> USE DEF IInv, ReadTopology, topology, facts
<1>1. TypeOK'
  <2>1. [revision |-> topology_revision, tasks |-> tasks, edges |-> edges] \in Snapshot
    BY GraphAssumption DEF TypeOK, Snapshot
  <2> QED BY <2>1 DEF TypeOK
<1>2. TopologyInv'
  BY DEF TopologyInv
<1>3. ReplayReproducesGraph'
  BY DEF ReplayReproducesGraph
<1>4. RevisionIdentifiesTopology' /\ ViewsArePast'
  BY GraphAssumption DEF RevisionIdentifiesTopology, ViewsArePast, TypeOK
<1> QED BY <1>1, <1>2, <1>3, <1>4

\* complete() accepts ready tasks only, so the log still replays.
LEMMA CompleteIInv ==
    ASSUME IInv, NEW t \in Tasks, complete(t)
    PROVE  IInv'
<1> USE DEF IInv, complete, topology
<1>1. TypeOK'
  BY DEF TypeOK
<1>2. TopologyInv'
  BY DEF TopologyInv
<1>3. ReplayReproducesGraph'
  <2> DEFINE C == completion_log
             M == mutation_log
  <2>1. /\ completion_log' = Append(C, t)
        /\ C \in Seq(Tasks)
        /\ Len(C) \in Nat
        /\ Len(Append(C, t)) = Len(C) + 1
        /\ \A i \in 1..Len(C) : Append(C, t)[i] = C[i]
        /\ Append(C, t)[Len(C) + 1] = t
        /\ 1..(Len(C) + 1) = (1..Len(C)) \cup {Len(C) + 1}
    BY DEF TypeOK
  <2> HIDE DEF C
  <2>2. completed = {C[i] : i \in 1..Len(C)}
    BY DEF ReplayReproducesGraph, C
  <2>3. \A i \in 1..Len(C) : ReplayCompletionOK(M, Append(C, t), i)
    <3> SUFFICES ASSUME NEW i \in 1..Len(C) PROVE ReplayCompletionOK(M, Append(C, t), i)
      OBVIOUS
    <3>1. ReplayCompletionOK(M, C, i)
      BY DEF ReplayReproducesGraph, ReplaySucceeds, C
    <3>2. {Append(C, t)[j] : j \in 1..(i - 1)} = {C[j] : j \in 1..(i - 1)}
      <4>1. 1..(i - 1) \subseteq 1..Len(C)
        BY <2>1
      <4> QED BY <2>1, <4>1
    <3> QED BY <2>1, <3>1, <3>2 DEF ReplayCompletionOK
  <2>4. ReplayCompletionOK(M, Append(C, t), Len(C) + 1)
    <3>1. {Append(C, t)[j] : j \in 1..((Len(C) + 1) - 1)} = completed
      BY <2>1, <2>2
    <3>2. CompleteOK(ReplayTasks(M, Len(M)), ReplayEdges(M, Len(M)), completed, t)
      BY DEF ReplayReproducesGraph
    <3> QED BY <2>1, <3>1, <3>2 DEF ReplayCompletionOK
  <2>5. completed' = {Append(C, t)[i] : i \in 1..(Len(C) + 1)}
    BY <2>1, <2>2
  <2>6. ReplaySucceeds(M, Append(C, t))
    BY <2>1, <2>3, <2>4 DEF ReplayReproducesGraph, ReplaySucceeds
  <2> QED BY <2>1, <2>5, <2>6 DEF ReplayReproducesGraph
<1>4. RevisionIdentifiesTopology' /\ ViewsArePast'
  BY DEF RevisionIdentifiesTopology, ViewsArePast
<1> QED BY <1>1, <1>2, <1>3, <1>4

\* apply_batch commits only an acyclic candidate that keeps every fact.
LEMMA ApplyBatchIInv ==
    ASSUME IInv, NEW p \in Planners, NEW b \in Batches, apply_batch(p, b)
    PROVE  IInv'
<1> DEFINE r == [base_revision      |-> topology_revision,
                 resulting_revision |-> topology_revision + 1,
                 mutations          |-> b]
           M == mutation_log
           C == completion_log
<1>1. /\ b \in Seq(Mutation)
      /\ BatchOK(tasks, edges, completed, b)
      /\ topology_revision \in Nat
      /\ MaxRevision \in Nat
      /\ topology_revision < MaxRevision
  BY GraphAssumption DEF apply_batch, IInv, TypeOK, checked_next
<1>2. r \in Record
  BY <1>1 DEF Record
<1>3. /\ tasks \in SUBSET Tasks
      /\ edges \in SUBSET (tasks \X tasks)
      /\ M \in Seq(Record)
      /\ Len(M) \in Nat
      /\ C \in Seq(Tasks)
  BY DEF IInv, TypeOK, TopologyInv
<1>4. /\ tasks' \in SUBSET Tasks
      /\ tasks \subseteq tasks'
      /\ edges \subseteq edges'
      /\ edges' \subseteq tasks' \X tasks'
      /\ ~HasCycle(edges')
      /\ \A t \in completed : Dependencies(edges', t) = Dependencies(edges, t)
  <2> DEFINE nts == TasksAfter(tasks, b, Len(b))
             nes == EdgesAfter(edges, b, Len(b))
  <2>1. /\ nts \in SUBSET Tasks
        /\ tasks \subseteq nts
        /\ edges \subseteq nes
        /\ nes \subseteq nts \X nts
        /\ ~HasCycle(nes)
        /\ \A t \in completed : Dependencies(nes, t) = Dependencies(edges, t)
    BY <1>1, <1>3, BatchFacts
  <2>2. tasks' = nts /\ edges' = nes
    BY DEF apply_batch
  <2> QED BY <2>1, <2>2
<1>5. TypeOK'
  BY <1>1, <1>2, <1>3, <1>4 DEF IInv, TypeOK, apply_batch, facts
<1>6. TopologyInv'
  BY <1>4 DEF TopologyInv
<1>7. ReplayReproducesGraph'
  <2> HIDE DEF r, M, C
  <2>1. /\ mutation_log' = Append(M, r)
        /\ completion_log' = C
        /\ completed' = completed
        /\ r.mutations = b
        /\ r.base_revision = topology_revision
        /\ r.resulting_revision = topology_revision + 1
        /\ topology_revision' = topology_revision + 1
        /\ tasks' = TasksAfter(tasks, b, Len(b))
        /\ edges' = EdgesAfter(edges, b, Len(b))
    BY DEF apply_batch, facts, r, M, C
  <2>2. /\ Len(Append(M, r)) = Len(M) + 1
        /\ \A i \in 1..Len(M) : Append(M, r)[i] = M[i]
        /\ Append(M, r)[Len(M) + 1] = r
    BY <1>2, <1>3
  <2>3. /\ ReplaySucceeds(M, C)
        /\ tasks = ReplayTasks(M, Len(M))
        /\ edges = ReplayEdges(M, Len(M))
        /\ topology_revision = Len(M)
        /\ completed = {C[i] : i \in 1..Len(C)}
    BY DEF IInv, ReplayReproducesGraph, M, C
  <2>4. /\ tasks' = ReplayTasks(Append(M, r), Len(M) + 1)
        /\ edges' = ReplayEdges(Append(M, r), Len(M) + 1)
    BY <1>2, <1>3, <2>1, <2>3, ReplayAppend
  <2>5. ASSUME NEW i \in 1..Len(M) PROVE ReplayRecordOK(Append(M, r), i)
    <3>1. ReplayRecordOK(M, i)
      BY <2>3 DEF ReplaySucceeds
    <3>2. i - 1 \in 0..Len(M)
      BY <1>3
    <3>3. /\ ReplayTasks(Append(M, r), i - 1) = ReplayTasks(M, i - 1)
          /\ ReplayEdges(Append(M, r), i - 1) = ReplayEdges(M, i - 1)
      BY <1>2, <1>3, <3>2, ReplayPrefix
    <3> QED BY <2>2, <3>1, <3>3 DEF ReplayRecordOK
  <2>6. ReplayRecordOK(Append(M, r), Len(M) + 1)
    <3>1. Len(M) \in 0..Len(M) /\ (Len(M) + 1) - 1 = Len(M)
      BY <1>3
    <3>2. /\ ReplayTasks(Append(M, r), Len(M)) = tasks
          /\ ReplayEdges(Append(M, r), Len(M)) = edges
      BY <1>2, <1>3, <2>3, <3>1, ReplayPrefix
    <3>3. BatchOK(tasks, edges, {}, b)
      BY <1>1, BatchOKWithoutFacts
    <3> QED BY <1>1, <2>1, <2>2, <2>3, <3>1, <3>2, <3>3 DEF ReplayRecordOK, checked_next
  <2>7. ASSUME NEW i \in 1..Len(C) PROVE ReplayCompletionOK(Append(M, r), C, i)
    <3>1. CompleteOK(tasks, edges, {C[j] : j \in 1..(i - 1)}, C[i])
      BY <2>3 DEF ReplaySucceeds, ReplayCompletionOK
    <3>2. C[i] \in completed
      BY <2>3
    <3>3. CompleteOK(tasks', edges', {C[j] : j \in 1..(i - 1)}, C[i])
      BY <1>4, <3>1, <3>2 DEF CompleteOK
    <3> QED BY <2>2, <2>4, <3>3 DEF ReplayCompletionOK
  <2>8. ReplaySucceeds(Append(M, r), C)
    <3>1. 1..(Len(M) + 1) = (1..Len(M)) \cup {Len(M) + 1}
      BY <1>3
    <3> QED BY <2>2, <2>5, <2>6, <2>7, <3>1 DEF ReplaySucceeds
  <2> QED BY <2>1, <2>2, <2>3, <2>4, <2>8 DEF ReplayReproducesGraph
<1>8. RevisionIdentifiesTopology' /\ ViewsArePast'
  <2>1. \A q \in Planners : view[q] # NoView => view[q].revision \in Nat
    BY DEF IInv, TypeOK, Snapshot
  <2> QED BY <1>1, <2>1 DEF IInv, RevisionIdentifiesTopology, ViewsArePast, apply_batch
<1> QED BY <1>5, <1>6, <1>7, <1>8 DEF IInv

\* The invariant holds in every reachable state of the workflow graph.
THEOREM Invariance == Spec => []IInv
<1>1. IInv /\ [Next]_vars => IInv'
  <2> SUFFICES ASSUME IInv, [Next]_vars PROVE IInv'
    OBVIOUS
  <2>1. ASSUME NEW p \in Planners, ReadTopology(p) PROVE IInv'
    BY <2>1, ReadTopologyIInv
  <2>2. ASSUME NEW p \in Planners, NEW b \in Batches, apply_batch(p, b) PROVE IInv'
    BY <2>2, ApplyBatchIInv
  <2>3. ASSUME NEW t \in Tasks, complete(t) PROVE IInv'
    BY <2>3, CompleteIInv
  <2>4. CASE UNCHANGED vars
    BY <2>4 DEF vars, IInv, TypeOK, TopologyInv, ReplayReproducesGraph,
                RevisionIdentifiesTopology, ViewsArePast
  <2> QED BY <2>1, <2>2, <2>3, <2>4 DEF Next
<1> QED BY InitIInv, <1>1, PTL DEF Spec

----------------------------------------------------------------------------
(* The theorems *)

\* Type correctness of the workflow graph.
THEOREM TypeCorrect == Spec => []TypeOK
<1>1. IInv => TypeOK
  BY DEF IInv
<1> QED BY Invariance, <1>1, PTL

\* Restart safety: replay_with_facts on the two logs accepts every record and
\* completion and rebuilds the live graph, for every history of planner
\* batches and completions.
THEOREM RestartSafe == Spec => []ReplayReproducesGraph
<1>1. IInv => ReplayReproducesGraph
  BY DEF IInv
<1> QED BY Invariance, <1>1, PTL

\* The scheduler always has a ready task while one is unfinished: the cycle
\* check of the mutations is what makes tasks unable to wait on each other.
THEOREM SchedulerNeverStarves == Spec => []ReadyUnlessDone
<1>1. IInv => ReadyUnlessDone
  <2> SUFFICES ASSUME IInv, completed # tasks, ready_tasks = {} PROVE FALSE
    BY DEF ReadyUnlessDone
  <2> DEFINE S == tasks \ completed
  <2>1. completed \subseteq tasks
    <3> SUFFICES ASSUME NEW t \in completed PROVE t \in tasks
      OBVIOUS
    <3>1. PICK i \in 1..Len(completion_log) : t = completion_log[i]
      BY DEF IInv, ReplayReproducesGraph
    <3> QED BY <3>1 DEF IInv, ReplayReproducesGraph, ReplaySucceeds,
                        ReplayCompletionOK, CompleteOK
  <2>2. S # {}
    BY <2>1
  <2>3. \A t \in S : \E d \in S : <<t, d>> \in edges
    <3> SUFFICES ASSUME NEW t \in S PROVE \E d \in S : <<t, d>> \in edges
      OBVIOUS
    <3>1. ~(Dependencies(edges, t) \subseteq completed)
      BY DEF ready_tasks
    <3>2. PICK d \in Tasks : <<t, d>> \in edges /\ d \notin completed
      BY <3>1 DEF Dependencies
    <3>3. d \in tasks
      BY <3>2 DEF IInv, TopologyInv
    <3> QED BY <3>2, <3>3
  <2>4. S \in SUBSET {e[1] : e \in edges}
    <3> SUFFICES ASSUME NEW t \in S PROVE t \in {e[1] : e \in edges}
      OBVIOUS
    <3>1. PICK d \in S : <<t, d>> \in edges
      BY <2>3
    <3>2. <<t, d>>[1] = t
      OBVIOUS
    <3> QED BY <3>1, <3>2
  <2>5. HasCycle(edges)
    BY <2>2, <2>3, <2>4 DEF HasCycle
  <2> QED BY <2>5 DEF IInv, TopologyInv
<1> QED BY Invariance, <1>1, PTL

\* A batch only ever lands on a topology that a planner has seen.
THEOREM PlansLandOnSeenTopology == Spec => CommitsOnSeenTopology
<1> DEFINE A == mutation_log' # mutation_log =>
                  \E p \in Planners : /\ view[p] # NoView
                                      /\ view[p].tasks = tasks
                                      /\ view[p].edges = edges
<1>1. IInv /\ [Next]_vars => [A]_vars
  <2> SUFFICES ASSUME IInv, Next, mutation_log' # mutation_log
               PROVE  \E p \in Planners : /\ view[p] # NoView
                                         /\ view[p].tasks = tasks
                                         /\ view[p].edges = edges
    BY DEF vars
  <2>1. PICK p \in Planners, b \in Batches : apply_batch(p, b)
    BY DEF Next, ReadTopology, complete, topology
  <2> QED BY <2>1 DEF IInv, RevisionIdentifiesTopology, apply_batch, RevisionOK
<1> QED BY Invariance, <1>1, PTL DEF Spec, CommitsOnSeenTopology
============================================================================
