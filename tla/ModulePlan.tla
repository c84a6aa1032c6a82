----------------------------- MODULE ModulePlan -----------------------------
(***************************************************************************)
(* What deterministic_order promises of the order in which the modules of  *)
(* a composition are activated.  Module identifiers are numbers because    *)
(* the code keeps them in ordered maps and breaks every tie by the         *)
(* smallest identifier.                                                    *)
(***************************************************************************)
EXTENDS Naturals, Sequences, FiniteSets, FiniteSetsExt, SequencesExt

\* The modules outside placed that depend on nothing else.
Available(mods, deps, placed) == {m \in mods \ placed : deps[m] \subseteq placed}

\* Always the smallest module that is available; the modules of a cycle, and
\* what depends on them, never are.
ActivationOrder(mods, deps) ==
    LET first[k \in 0..Cardinality(mods)] ==
            IF k = 0 THEN <<>>
            ELSE LET o == first[k - 1]
                     next == Available(mods, deps, ToSet(o))
                 IN  IF next = {} THEN o ELSE Append(o, Min(next))
    IN  first[Cardinality(mods)]
=============================================================================
