------------------------------ MODULE CyclePath ------------------------------
(***************************************************************************)
(* The depth-first search for a dependency cycle, one step per recursive   *)
(* call, return and loop turn: cycle_path / visit of the workflow          *)
(* topology.  The capability resolver and the loader search in the same    *)
(* way; the resolver also keeps the order in which calls return.  Node     *)
(* identifiers are numbers because the code visits ordered maps.           *)
(***************************************************************************)
EXTENDS Naturals, Sequences, FiniteSets, FiniteSetsExt, SequencesExt, Dag

VARIABLES
    roots,    \* the nodes the outer loop goes through
    edges,    \* the graph, as pairs <<node, dependency>>
    marks,    \* "None", "Active" or "Complete"
    stack,    \* the DFS stack of node identifiers
    todo,     \* per open call, the dependencies its loop has still to look at
    order,    \* the nodes in the order their calls returned
    result,   \* "idle", "searching", "acyclic" or "cyclic"
    path      \* the path reported with "cyclic"

searchVars == <<roots, edges, marks, stack, todo, order, result, path>>

Unmarked == {n \in roots : marks[n] = "None"}
Top == Last(stack)
NextDependency == Min(Last(todo))
Deps(n) == {e[2] : e \in {f \in edges : f[1] = n}}

SearchInit ==
    /\ roots = {} /\ edges = {} /\ marks = <<>>
    /\ stack = <<>> /\ todo = <<>> /\ order = <<>>
    /\ result = "idle" /\ path = <<>>

\* A caller starts the search on a graph of its own.
StartSearch(rs, es) ==
    /\ roots' = rs
    /\ edges' = es
    /\ marks' = [n \in rs \cup UNION {{e[1], e[2]} : e \in es} |-> "None"]
    /\ stack' = <<>> /\ todo' = <<>> /\ order' = <<>>
    /\ result' = "searching" /\ path' = <<>>

\* Entering visit(n).
Enter(n, rest) ==
    /\ marks' = [marks EXCEPT ![n] = "Active"]
    /\ stack' = Append(stack, n)
    /\ todo' = Append(rest, Deps(n))
    /\ UNCHANGED <<roots, edges, order, result, path>>

\* The outer loop of cycle_path picks the next unvisited node.
VisitRoot ==
    /\ result = "searching"
    /\ stack = <<>>
    /\ Unmarked # {}
    /\ Enter(Min(Unmarked), todo)

\* A loop turn that leaves the current call with the rest of its dependencies.
Rest == ReplaceAt(todo, Len(todo), Last(todo) \ {NextDependency})

VisitDependency ==
    /\ result = "searching"
    /\ stack # <<>>
    /\ Last(todo) # {}
    /\ marks[NextDependency] = "None"
    /\ Enter(NextDependency, Rest)

\* Mutant: the reported path is the whole stack.
ReportWholeStack ==
    /\ result = "searching"
    /\ stack # <<>>
    /\ Last(todo) # {}
    /\ marks[NextDependency] = "Active"
    /\ path' = Append(stack, NextDependency)
    /\ result' = "cyclic"
    /\ UNCHANGED <<roots, edges, marks, stack, todo, order>>

ReportCycle ==
    /\ result = "searching"
    /\ stack # <<>>
    /\ Last(todo) # {}
    /\ marks[NextDependency] = "Active"
    /\ LET start == SelectInSeq(stack, LAMBDA n : n = NextDependency)
       IN  path' = SubSeq(stack, start, Len(stack)) \o <<NextDependency>>
    /\ result' = "cyclic"
    /\ UNCHANGED <<roots, edges, marks, stack, todo, order>>

\* Mutant: the loop stays on a finished dependency.
SkipNothing ==
    /\ result = "searching"
    /\ stack # <<>>
    /\ Last(todo) # {}
    /\ marks[NextDependency] = "Complete"
    /\ UNCHANGED searchVars

SkipComplete ==
    /\ result = "searching"
    /\ stack # <<>>
    /\ Last(todo) # {}
    /\ marks[NextDependency] = "Complete"
    /\ todo' = Rest
    /\ UNCHANGED <<roots, edges, marks, stack, order, result, path>>

Return ==
    /\ result = "searching"
    /\ stack # <<>>
    /\ Last(todo) = {}
    /\ marks' = [marks EXCEPT ![Top] = "Complete"]
    /\ stack' = Front(stack)
    /\ order' = Append(order, Top)
    /\ todo' = Front(todo)
    /\ UNCHANGED <<roots, edges, result, path>>

ReportAcyclic ==
    /\ result = "searching"
    /\ stack = <<>>
    /\ Unmarked = {}
    /\ result' = "acyclic"
    /\ UNCHANGED <<roots, edges, marks, stack, todo, order, path>>

SearchStep ==
    \/ VisitRoot \/ VisitDependency \/ ReportCycle \/ SkipComplete \/ Return
    \/ ReportAcyclic

----------------------------------------------------------------------------

\* The nodes a search from the roots gets to: those in every set that holds the
\* roots and the dependencies of its members.
Reached ==
    LET closed == {S \in SUBSET DOMAIN marks :
                     roots \subseteq S /\ \A e \in edges : e[1] \in S => e[2] \in S}
    IN  {n \in DOMAIN marks : \A S \in closed : n \in S}

\* A closed walk along the edges es.
IsCycleOf(p, es) ==
    /\ Len(p) >= 2
    /\ p[1] = Last(p)
    /\ \A i \in 1..(Len(p) - 1) : <<p[i], p[i + 1]>> \in es

\* The search is exact.  A node is Active exactly while it is on the stack, so
\* that the code's expect("active dependency must be on the DFS stack") cannot
\* fail; a cycle is reported only with a closed walk of the graph; and a graph
\* is found free of cycles only when it is, with an order in which everything
\* that was reached comes once and after all it depends on, whatever finished
\* subtrees the search met again.
SearchIsExact ==
    /\ ToSet(stack) = {n \in DOMAIN marks : marks[n] = "Active"}
    /\ IsInjective(stack)
    /\ result = "cyclic" => IsCycleOf(path, edges)
    /\ result = "acyclic" =>
          LET seen == Reached
          IN  /\ ~HasCycle({e \in edges : e[1] \in seen})
              /\ IsInjective(order) /\ ToSet(order) = seen
              /\ \A i \in DOMAIN order : Deps(order[i]) \subseteq ToSet(SubSeq(order, 1, i - 1))
============================================================================
