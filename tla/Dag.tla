-------------------------------- MODULE Dag --------------------------------
(* Directed graphs as sets of pairs <<node, dependency>>. *)

\* Mutant: only a node that depends on itself is a cycle.
HasSelfLoop(es) == \E e \in es : e[1] = e[2]

\* A finite graph has a cycle exactly when some nonempty set of nodes is such
\* that every member depends on a member.  This is the answer of cycle_path,
\* without its path.
HasCycle(es) ==
    \E S \in SUBSET {e[1] : e \in es} :
        S # {} /\ \A t \in S : \E d \in S : <<t, d>> \in es
============================================================================
