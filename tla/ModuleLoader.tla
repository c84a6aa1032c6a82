---------------------------- MODULE ModuleLoader ----------------------------
(***************************************************************************)
(* RuntimeLoader::resolve: the closure of the requested references over a  *)
(* catalog, level by level, then the search of that closure for a cycle,   *)
(* then the construction of one registration per reference.  References    *)
(* are numbers in the order of ModuleReference; IdOf gives the module      *)
(* identifier of each, and two versions of a module share theirs.          *)
(***************************************************************************)
EXTENDS CyclePath

CONSTANTS IdOf, None

VARIABLES
    catalog,    \* reference |-> [deps, makes], makes a registration or None
    requested,  \* the sequence of root references
    loading,    \* "roots", "closure", "cycles", "construct", "loaded" or "refused"
    frontier,   \* the references of the next level, with the path to each
    resolved,   \* the references resolved so far, with the path to each
    missing,    \* the references without an entry, with the path to each
    loaded,     \* the registrations that were constructed
    loadError   \* what the loader reports, with its path, or None

closureVars == <<frontier, resolved, missing>>
loaderVars == <<catalog, requested, loading, closureVars, loaded, loadError>>

DependenciesOf(r) == ToSet(catalog[r].deps)

\* What is in f stays; what is only in g is added.
Joined(f, g) == [x \in DOMAIN f \cup DOMAIN g |-> IF x \in DOMAIN f THEN f[x] ELSE g[x]]

\* A set of references in their order.
Ascending(S) == [i \in 1..Cardinality(S) |-> CHOOSE r \in S : Cardinality({q \in S : q < r}) = i - 1]

LoaderInit(c, rs) ==
    /\ catalog = c
    /\ requested = rs
    /\ loading = "roots"
    /\ frontier = <<>> /\ resolved = <<>> /\ missing = <<>>
    /\ loaded = <<>>
    /\ loadError = None

RefuseLoad(by, p) ==
    /\ loading' = "refused"
    /\ loadError' = [by |-> by, path |-> p]

\* A root that is requested twice is refused.
CollectRoots ==
    /\ loading = "roots"
    /\ LET again == {requested[i] : i \in {j \in DOMAIN requested :
                        \E k \in 1..(j - 1) : requested[k] = requested[j]}}
       IN  IF again # {}
           THEN RefuseLoad("duplicate_root", <<Min(again)>>) /\ UNCHANGED frontier
           ELSE /\ frontier' = [r \in ToSet(requested) |-> <<r>>]
                /\ loading' = "closure"
                /\ UNCHANGED loadError
    /\ UNCHANGED <<catalog, requested, resolved, missing, loaded, searchVars>>

\* One level, in reference order.  A reference takes its place before its
\* dependencies are looked at, and a dependency belongs to the first reference
\* of the level that needs it while it is not resolved.
CloseLevel ==
    /\ loading = "closure"
    /\ DOMAIN frontier # {}
    /\ LET new == DOMAIN frontier \ DOMAIN resolved
           found == new \cap DOMAIN catalog
           Askers(d) == {r \in found : /\ d \in DependenciesOf(r)
                                       /\ d \notin DOMAIN resolved
                                       /\ ~(d \in found /\ d <= r)}
           next == {d \in UNION {DependenciesOf(r) : r \in found} : Askers(d) # {}}
       IN  /\ resolved' = Joined(resolved, Restrict(frontier, found))
           /\ missing' = Joined(missing, Restrict(frontier, new \ found))
           /\ frontier' = [d \in next |-> Append(frontier[Min(Askers(d))], d)]
    /\ UNCHANGED <<catalog, requested, loading, loaded, loadError, searchVars>>

\* The smallest missing reference is reported with the path to it; a closure
\* that is complete is searched for a cycle, from the roots.
EndClosure ==
    /\ loading = "closure"
    /\ DOMAIN frontier = {}
    /\ IF DOMAIN missing # {}
       THEN RefuseLoad("missing_reference", missing[Min(DOMAIN missing)]) /\ UNCHANGED searchVars
       ELSE /\ StartSearch(ToSet(requested),
                           UNION {{<<r, d>> : d \in DependenciesOf(r)} : r \in DOMAIN resolved})
            /\ loading' = "cycles"
            /\ UNCHANGED loadError
    /\ UNCHANGED <<catalog, requested, closureVars, loaded>>

\* Mutant: the cycle starts where the search closed it.
KeepRotation(cycle) == cycle

\* The closed path, started at its smallest reference.
RotateToSmallest(cycle) ==
    LET open == Front(cycle)
        i == SelectInSeq(open, LAMBDA r : r = Min(ToSet(open)))
    IN  SubSeq(open, i, Len(open)) \o SubSeq(open, 1, i)

EndCycles ==
    /\ loading = "cycles"
    /\ \/ /\ result = "cyclic"
          /\ RefuseLoad("dependency_cycle", RotateToSmallest(path))
       \/ /\ result = "acyclic"
          /\ loading' = "construct"
          /\ UNCHANGED loadError
    /\ UNCHANGED <<catalog, requested, closureVars, loaded, searchVars>>

\* A factory of the catalog makes a registration that agrees with its entry.
MakesWhatItSays(r) ==
    /\ catalog[r].makes # None
    /\ catalog[r].makes.id = IdOf[r]
    /\ ToSet(catalog[r].makes.deps) = {IdOf[d] : d \in DependenciesOf(r)}

\* Every factory is called once, in reference order, up to the first that
\* fails or disagrees with its entry.
ConstructModules ==
    /\ loading = "construct"
    /\ LET rs == Ascending(DOMAIN resolved)
           bad == {r \in DOMAIN resolved : ~MakesWhatItSays(r)}
       IN  IF bad # {}
           THEN RefuseLoad("construction", <<Min(bad)>>) /\ UNCHANGED loaded
           ELSE /\ loaded' = [i \in DOMAIN rs |-> catalog[rs[i]].makes]
                /\ loading' = "loaded"
                /\ UNCHANGED loadError
    /\ UNCHANGED <<catalog, requested, closureVars, searchVars>>

LoaderStep ==
    \/ CollectRoots \/ CloseLevel \/ EndClosure \/ EndCycles \/ ConstructModules

----------------------------------------------------------------------------

\* The references that can be reached from the requested ones in n steps,
\* through entries of the catalog.
Within(n) ==
    LET grow[k \in 0..n] ==
            IF k = 0 THEN ToSet(requested)
            ELSE grow[k - 1] \cup
                     UNION {DependenciesOf(r) : r \in grow[k - 1] \cap DOMAIN catalog}
    IN  grow[n]
Closure == Within(Cardinality(DOMAIN IdOf))
ReferenceEdges == UNION {{<<r, d>> : d \in DependenciesOf(r)} : r \in Closure \cap DOMAIN catalog}

\* The loader's answer is exact.  It has resolved, when it goes on, exactly
\* what the roots need; it reports the smallest of the missing references, by
\* a shortest path of declared dependencies from a root, and a cycle only of a
\* complete closure, by a closed path from its smallest member; and a closure
\* it passes on has neither a hole nor a cycle.
LoadIsExact ==
    LET p == loadError.path
        Lacking == Closure \ DOMAIN catalog
    IN  /\ (loadError # None /\ loadError.by = "missing_reference") =>
              /\ Last(p) = Min(Lacking)
              /\ p[1] \in ToSet(requested)
              /\ \A i \in 1..(Len(p) - 1) : <<p[i], p[i + 1]>> \in ReferenceEdges
              /\ Len(p) > 1 => Last(p) \notin Within(Len(p) - 2)
        /\ (loadError # None /\ loadError.by = "dependency_cycle") =>
              /\ Lacking = {}
              /\ IsCycleOf(p, ReferenceEdges)
              /\ p[1] = Min(ToSet(p))
        /\ loading = "construct" =>
              /\ DOMAIN resolved = Closure
              /\ Lacking = {}
              /\ ~HasCycle(ReferenceEdges)
=============================================================================
