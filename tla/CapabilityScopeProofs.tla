----------------------- MODULE CapabilityScopeProofs -----------------------
(***************************************************************************)
(* Theorems about CapabilityScope, for any tree of scopes, any definitions *)
(* and any number of publishers: nothing is published on entries that were *)
(* replaced, and as long as nothing is withdrawn what a scope sees         *)
(* resolves and a root scope can be torn down.                             *)
(***************************************************************************)
EXTENDS CapabilityScope, Integers, WellFoundedInduction, SequenceTheorems,
        FiniteSetTheorems, TLAPS

----------------------------------------------------------------------------
(* Induction over the natural numbers, with a set in the place of the      *)
(* predicate: the numbers that have the property.                          *)

\* A nonempty set of natural numbers has a smallest member.
LEMMA SmallestMember ==
    ASSUME NEW T \in SUBSET Nat, T # {}
    PROVE  \E x \in T : \A y \in T : x <= y
<1> DEFINE R == {p \in Nat \X Nat : p[1] < p[2]}
<1>1. IsWellFoundedOn(R, Nat)
  BY NatLessThanWellFounded DEF OpToRel
<1>2. PICK x \in T : \A y \in T : ~(<<y, x>> \in R)
  BY <1>1, WFMin
<1>3. SUFFICES ASSUME NEW y \in T PROVE x <= y
  OBVIOUS
<1>4. /\ x \in Nat /\ y \in Nat /\ <<y, x>> \in Nat \X Nat
      /\ <<y, x>>[1] = y /\ <<y, x>>[2] = x
  OBVIOUS
<1>5. ~(<<y, x>>[1] < <<y, x>>[2])
  BY <1>2, <1>4
<1> QED BY <1>4, <1>5

\* A set of natural numbers that holds 0 and every successor holds them all.
LEMMA NatInduct ==
    ASSUME NEW T \in SUBSET Nat, 0 \in T, \A n \in T : n + 1 \in T
    PROVE  T = Nat
<1> SUFFICES ASSUME T # Nat PROVE FALSE
  OBVIOUS
<1>1. Nat \ T # {} /\ (Nat \ T) \in SUBSET Nat
  OBVIOUS
<1>2. PICK x \in Nat \ T : \A y \in Nat \ T : x <= y
  BY <1>1, SmallestMember
<1>3. x # 0 /\ x - 1 \in Nat /\ x - 1 < x
  BY <1>2
<1>4. x - 1 \in T
  BY <1>2, <1>3
<1>5. (x - 1) + 1 \in T
  BY <1>4
<1> QED BY <1>5, <1>2

----------------------------------------------------------------------------
(* The inductive invariant *)

\* An entry is the expected + 1st of its place, and the publication in
\* construction has found its dependencies.
CountInv ==
    /\ \A e \in 1..Len(published) : published[e].generation <= e
    /\ \A p \in Publishers : publisher[p] # None =>
          /\ publisher[p].expected <= Len(published)
          /\ \A c \in publisher[p].definition.dependencies : publisher[p].dependencies[c] # 0

\* A scope holds its own entries, under their identifiers, and none before it
\* is made and after it is closed.
EntryInv ==
    /\ \A s \in Scopes, c \in Capabilities : entries[s][c] # 0 =>
          /\ published[entries[s][c]].scope = s
          /\ published[entries[s][c]].definition.id = c
    /\ \A s \in Scopes : lifecycle[s] # "Open" => \A c \in Capabilities : entries[s][c] = 0
    /\ \A e \in 1..Len(published) : lifecycle[published[e].scope] # "New"

\* Above an open scope every scope is open, above one that was made every
\* scope was made; roots are there from the beginning.
TreeInv ==
    /\ \A s \in Scopes : lifecycle[s] = "Open" =>
          \A i \in 1..Len(Path[s]) : lifecycle[Path[s][i]] = "Open"
    /\ \A s \in Scopes : lifecycle[s] # "New" =>
          \A i \in 1..Len(Path[s]) : lifecycle[Path[s][i]] # "New"
    /\ \A s \in Roots : lifecycle[s] # "New"

\* What an entry of a root was built with are older entries of that root.
HistoryInv ==
    \A e \in 1..Len(published), c \in Capabilities :
        LET d == published[e].dependencies[c]
        IN  /\ d < e
            /\ published[e].scope \in Roots /\ d # 0 => published[d].scope = published[e].scope

\* Without a withdrawal, an open scope has an entry for all it ever published.
KeptInv ==
    withdrawn = {} =>
        \A e \in 1..Len(published) : lifecycle[published[e].scope] = "Open" =>
            entries[published[e].scope][published[e].definition.id] # 0

Inv == TypeOK /\ CountInv /\ EntryInv /\ TreeInv /\ HistoryInv /\ KeptInv /\ VisibleGraphsResolve
----------------------------------------------------------------------------
(* Paths *)

\* The path of a scope on the path of s is the rest of the path of s.
LEMMA PathRest ==
    ASSUME NEW s \in Scopes, NEW i \in 1..Len(Path[s])
    PROVE  /\ Path[s][i] \in Scopes
           /\ Len(Path[s]) \in Nat
           /\ Len(Path[Path[s][i]]) = Len(Path[s]) - i + 1
           /\ \A j \in 1..Len(Path[Path[s][i]]) : Path[Path[s][i]][j] = Path[s][i + j - 1]
<1> DEFINE P == Path[s]
           N == Len(P)
           Rest(k) == /\ Len(Path[P[k]]) = N - k + 1
                      /\ \A j \in 1..Len(Path[P[k]]) : Path[P[k]][j] = P[k + j - 1]
           T == {k \in Nat : k + 1 <= N => Rest(k + 1)}
<1>1. Path \in [Scopes -> Seq(Scopes)] /\ P \in Seq(Scopes) /\ N \in Nat /\ P[1] = s /\ N >= 1
  BY ScopeAssumption
<1>2. \A k \in 1..N : P[k] \in Scopes
  BY <1>1
<1>3. 0 \in T
  BY <1>1
<1>4. ASSUME NEW k \in T PROVE k + 1 \in T
  <2>0. k \in Nat /\ k + 1 \in Nat
    OBVIOUS
  <2>1. SUFFICES ASSUME (k + 1) + 1 <= N PROVE Rest((k + 1) + 1)
    <3> HIDE DEF Rest
    <3> QED BY <2>0
  <2> DEFINE t == P[k + 1]
             u == P[k + 2]
  <2>2. k \in Nat /\ k + 1 \in 1..N /\ k + 2 \in 1..N /\ t \in Scopes /\ u \in Scopes /\ Rest(k + 1)
    BY <1>1, <1>2, <2>1
  <2>3. Path[t] \in Seq(Scopes) /\ Path[u] \in Seq(Scopes) /\ Len(Path[t]) = N - k /\ Len(Path[t]) > 1
    BY <1>1, <2>1, <2>2
  <2>4. Path[t][2] = u
    <3>1. 2 \in 1..Len(Path[t]) /\ (k + 1) + 2 - 1 = k + 2
      BY <2>2, <2>3
    <3> QED BY <2>2, <3>1
  <2>5. Path[u] = Tail(Path[t])
    BY <2>2, <2>3, <2>4, ScopeAssumption
  <2>6. Len(Path[u]) = N - (k + 2) + 1 /\ \A j \in 1..Len(Path[u]) : Path[u][j] = Path[t][j + 1]
    BY <1>1, <2>2, <2>3, <2>5
  <2>7. ASSUME NEW j \in 1..Len(Path[u]) PROVE Path[u][j] = P[(k + 2) + j - 1]
    <3>1. j + 1 \in 1..Len(Path[t]) /\ (k + 1) + (j + 1) - 1 = (k + 2) + j - 1
      BY <1>1, <2>2, <2>3, <2>6
    <3>2. Path[t][j + 1] = P[(k + 1) + (j + 1) - 1]
      BY <2>2, <3>1
    <3> QED BY <2>6, <3>1, <3>2
  <2>8. (k + 1) + 1 = k + 2
    BY <2>2
  <2> QED BY <2>6, <2>7, <2>8
<1>5. T = Nat
  <2>1. T \in SUBSET Nat
    OBVIOUS
  <2> HIDE DEF T
  <2> QED BY <1>3, <1>4, <2>1, NatInduct
<1>6. i - 1 \in Nat /\ (i - 1) + 1 = i /\ i <= N
  BY <1>1
<1>7. Rest(i)
  <2> HIDE DEF Rest
  <2> QED BY <1>5, <1>6
<1> QED BY <1>1, <1>2, <1>7

\* A path holds no scope twice, and a scope is on its own path.
LEMMA PathOnce ==
    ASSUME NEW s \in Scopes
    PROVE  /\ Path[s] \in Seq(Scopes) /\ Len(Path[s]) \in Nat /\ Len(Path[s]) >= 1 /\ Path[s][1] = s
           /\ \A i \in 1..Len(Path[s]) : Path[s][i] \in Scopes
           /\ \A i, j \in 1..Len(Path[s]) : Path[s][i] = Path[s][j] => i = j
<1>1. Path[s] \in Seq(Scopes) /\ Len(Path[s]) \in Nat /\ Len(Path[s]) >= 1 /\ Path[s][1] = s
  BY ScopeAssumption
<1>2. ASSUME NEW i \in 1..Len(Path[s]), NEW j \in 1..Len(Path[s]), Path[s][i] = Path[s][j]
      PROVE  i = j
  <2>1. Len(Path[Path[s][i]]) = Len(Path[s]) - i + 1 /\ Len(Path[Path[s][j]]) = Len(Path[s]) - j + 1
    BY PathRest
  <2> QED BY <1>1, <1>2, <2>1
<1> QED BY <1>1, <1>2

\* What is above a scope on the path of s is on the path of s.
LEMMA PathUp ==
    ASSUME NEW s \in Scopes, NEW i \in 1..Len(Path[s]), NEW j \in 1..Len(Path[Path[s][i]])
    PROVE  \E k \in 1..Len(Path[s]) : Path[s][k] = Path[Path[s][i]][j]
<1>1. /\ Len(Path[s]) \in Nat /\ Len(Path[Path[s][i]]) = Len(Path[s]) - i + 1
      /\ Path[Path[s][i]][j] = Path[s][i + j - 1]
  BY PathRest
<1>2. i + j - 1 \in 1..Len(Path[s])
  BY <1>1
<1> QED BY <1>1, <1>2
----------------------------------------------------------------------------
(* What a scope sees *)

\* get and visible_definitions of the scopes' lifecycles L and entries E, so
\* that two states can be compared.
GetIn(L, E, s, c) ==
    LET owners == {i \in 1..Len(Path[s]) : E[Path[s][i]][c] # 0}
        nearest == CHOOSE i \in owners : \A j \in owners : i <= j
    IN  IF owners # {} /\ \A i \in 1..nearest : L[Path[s][i]] = "Open"
        THEN E[Path[s][nearest]][c] ELSE 0

SeenIn(L, E, entry, s) ==
    {entry[e].definition : e \in {GetIn(L, E, s, c) : c \in Capabilities} \ {0}}

\* Every scope from s up to the root is open.
OpenPath(L, s) == \A i \in 1..Len(Path[s]) : L[Path[s][i]] = "Open"

\* These are get and visible_definitions, before and after a step.
LEMMA GetInIsGet ==
    /\ \A s, c : get(s, c) = GetIn(lifecycle, entries, s, c)
    /\ \A s, c : get(s, c)' = GetIn(lifecycle', entries', s, c)
    /\ \A s : visible_definitions(s) = SeenIn(lifecycle, entries, published, s)
    /\ \A s : visible_definitions(s)' = SeenIn(lifecycle', entries', published', s)
BY DEF get, GetIn, visible_definitions, SeenIn, is_open

\* The nearest entry is what an open scope gets.
LEMMA GetNearest ==
    ASSUME NEW L, NEW E, NEW s \in Scopes, NEW c, OpenPath(L, s),
           NEW k \in 1..Len(Path[s]), E[Path[s][k]][c] # 0,
           \A j \in 1..(k - 1) : E[Path[s][j]][c] = 0
    PROVE  GetIn(L, E, s, c) = E[Path[s][k]][c]
<1> DEFINE owners == {i \in 1..Len(Path[s]) : E[Path[s][i]][c] # 0}
           nearest == CHOOSE i \in owners : \A j \in owners : i <= j
<1>1. Len(Path[s]) \in Nat
  BY PathOnce
<1>2. k \in owners
  OBVIOUS
<1>3. ASSUME NEW j \in owners PROVE k <= j
  BY <1>1, <1>3
<1>4. nearest \in owners /\ nearest <= k
  <2>1. \E i \in owners : \A j \in owners : i <= j
    BY <1>2, <1>3
  <2>2. nearest \in owners /\ \A j \in owners : nearest <= j
    BY <2>1
  <2> QED BY <1>2, <2>2
<1>5. nearest = k
  <2>1. k <= nearest /\ nearest \in 1..Len(Path[s])
    BY <1>3, <1>4
  <2> HIDE DEF nearest
  <2> QED BY <1>1, <1>4, <2>1
<1>6. \A i \in 1..nearest : L[Path[s][i]] = "Open"
  <2> HIDE DEF nearest, owners
  <2>1. \A i \in 1..k : i \in 1..Len(Path[s])
    BY <1>1
  <2> QED BY <1>5, <2>1 DEF OpenPath
<1> QED BY <1>2, <1>5, <1>6 DEF GetIn

\* Without an entry on its path a scope gets nothing.
LEMMA GetNone ==
    ASSUME NEW L, NEW E, NEW s, NEW c, \A j \in 1..Len(Path[s]) : E[Path[s][j]][c] = 0
    PROVE  GetIn(L, E, s, c) = 0
BY DEF GetIn

\* There is no entry for c on the path of s, or the k-th scope has the nearest.
NoEntry(E, s, c) == \A j \in 1..Len(Path[s]) : E[Path[s][j]][c] = 0
Nearest(E, s, c, k) ==
    E[Path[s][k]][c] # 0 /\ \A j \in 1..(k - 1) : E[Path[s][j]][c] = 0

\* One of the two is the case.
LEMMA NearestExists ==
    ASSUME NEW E, NEW s \in Scopes, NEW c
    PROVE  NoEntry(E, s, c) \/ \E k \in 1..Len(Path[s]) : Nearest(E, s, c, k)
<1> DEFINE owners == {i \in 1..Len(Path[s]) : E[Path[s][i]][c] # 0}
<1>1. Len(Path[s]) \in Nat
  BY PathOnce
<1>2. CASE owners = {}
  BY <1>2 DEF NoEntry
<1>3. CASE owners # {}
  <2>1. owners \in SUBSET Nat
    BY <1>1
  <2>2. PICK k \in owners : \A j \in owners : k <= j
    <3> HIDE DEF owners
    <3> QED BY <1>3, <2>1, SmallestMember
  <2>3. ASSUME NEW j \in 1..(k - 1) PROVE E[Path[s][j]][c] = 0
    <3>1. j \in 1..Len(Path[s]) /\ ~(k <= j)
      BY <1>1
    <3> QED BY <2>2, <3>1
  <2> QED BY <2>3 DEF Nearest
<1> QED BY <1>2, <1>3

\* Two states with the same entries for c on an open path give the same.
LEMMA SameGet ==
    ASSUME NEW L1, NEW E1, NEW L2, NEW E2, NEW s \in Scopes, NEW c,
           OpenPath(L1, s), OpenPath(L2, s),
           \A i \in 1..Len(Path[s]) : E1[Path[s][i]][c] = E2[Path[s][i]][c]
    PROVE  GetIn(L1, E1, s, c) = GetIn(L2, E2, s, c)
<1>1. CASE NoEntry(E1, s, c)
  <2>1. GetIn(L1, E1, s, c) = 0
    BY <1>1, GetNone DEF NoEntry
  <2>2. \A j \in 1..Len(Path[s]) : E2[Path[s][j]][c] = 0
    BY <1>1 DEF NoEntry
  <2>3. GetIn(L2, E2, s, c) = 0
    BY <2>2, GetNone
  <2> QED BY <2>1, <2>3
<1>2. CASE \E k \in 1..Len(Path[s]) : Nearest(E1, s, c, k)
  <2>1. PICK k \in 1..Len(Path[s]) :
              E1[Path[s][k]][c] # 0 /\ \A j \in 1..(k - 1) : E1[Path[s][j]][c] = 0
    BY <1>2 DEF Nearest
  <2>2. \A j \in 1..(k - 1) : j \in 1..Len(Path[s])
    BY PathOnce
  <2>3. E2[Path[s][k]][c] # 0 /\ \A j \in 1..(k - 1) : E2[Path[s][j]][c] = 0
    BY <2>1, <2>2
  <2>4. GetIn(L1, E1, s, c) = E1[Path[s][k]][c]
    BY <2>1, GetNearest
  <2>5. GetIn(L2, E2, s, c) = E2[Path[s][k]][c]
    BY <2>3, GetNearest
  <2> QED BY <2>4, <2>5
<1> QED BY <1>1, <1>2, NearestExists

\* What a scope gets is an entry of a scope on its path.
LEMMA GetFromPath ==
    ASSUME NEW L, NEW E, NEW s \in Scopes, NEW c, GetIn(L, E, s, c) # 0
    PROVE  \E k \in 1..Len(Path[s]) : E[Path[s][k]][c] # 0 /\ GetIn(L, E, s, c) = E[Path[s][k]][c]
<1> DEFINE owners == {i \in 1..Len(Path[s]) : E[Path[s][i]][c] # 0}
           nearest == CHOOSE i \in owners : \A j \in owners : i <= j
<1>1. owners # {} /\ GetIn(L, E, s, c) = E[Path[s][nearest]][c]
  BY DEF GetIn
<1>2. owners \in SUBSET Nat
  BY PathOnce
<1>3. \E i \in owners : \A j \in owners : i <= j
  <2> HIDE DEF owners
  <2> QED BY <1>1, <1>2, SmallestMember
<1>4. nearest \in owners
  BY <1>3
<1> QED BY <1>1, <1>4

\* What a scope sees is an entry under its identifier.
LEMMA GetTyped ==
    ASSUME TypeOK, EntryInv, NEW s \in Scopes, NEW c \in Capabilities
    PROVE  /\ get(s, c) \in 0..Len(published)
           /\ get(s, c) # 0 =>
                 /\ published[get(s, c)].definition.id = c
                 /\ \E k \in 1..Len(Path[s]) : published[get(s, c)].scope = Path[s][k]
<1>1. CASE get(s, c) = 0
  <2>1. Len(published) \in Nat
    BY DEF TypeOK
  <2> QED BY <1>1, <2>1
<1>2. CASE get(s, c) # 0
  <2>1. PICK k \in 1..Len(Path[s]) : entries[Path[s][k]][c] # 0 /\ get(s, c) = entries[Path[s][k]][c]
    BY <1>2, GetInIsGet, GetFromPath
  <2>2. Path[s][k] \in Scopes
    BY PathOnce
  <2>3. entries[Path[s][k]][c] \in 0..Len(published)
    BY <2>2 DEF TypeOK
  <2> QED BY <2>1, <2>2, <2>3 DEF EntryInv
<1> QED BY <1>1, <1>2
----------------------------------------------------------------------------
(* Steps *)

\* The parts of an entry have their types.
LEMMA EntryTyped ==
    ASSUME TypeOK
    PROVE  /\ Len(published) \in Nat /\ Len(published) <= MaxEntries /\ MaxEntries \in Nat
           /\ \A e \in 1..Len(published) :
                 /\ published[e] \in Entry
                 /\ published[e].scope \in Scopes
                 /\ published[e].definition \in Definition
                 /\ published[e].definition.id \in Capabilities
                 /\ published[e].generation \in 1..MaxEntries
                 /\ published[e].dependencies \in [Capabilities -> 0..MaxEntries]
<1>1. published \in Seq(Entry) /\ Len(published) \in Nat /\ Len(published) <= MaxEntries /\ MaxEntries \in Nat
  BY ScopeAssumption DEF TypeOK
<1>2. \A e \in 1..Len(published) : published[e] \in Entry
  BY <1>1
<1> QED BY <1>1, <1>2 DEF Entry, Definition, Snapshot, EntryIds

\* Two states in which an open path has the same entries show the same.
LEMMA SameSight ==
    ASSUME TypeOK, EntryInv, NEW s \in Scopes, NEW L2, NEW E2, NEW H2,
           OpenPath(lifecycle, s), OpenPath(L2, s),
           \A i \in 1..Len(Path[s]), c \in Capabilities : entries[Path[s][i]][c] = E2[Path[s][i]][c],
           \A e \in 1..Len(published) : H2[e] = published[e]
    PROVE  visible_definitions(s) = SeenIn(L2, E2, H2, s)
<1>1. ASSUME NEW c \in Capabilities
      PROVE  /\ GetIn(L2, E2, s, c) = get(s, c)
             /\ get(s, c) # 0 => H2[get(s, c)] = published[get(s, c)]
  <2>1. GetIn(L2, E2, s, c) = get(s, c)
    BY GetInIsGet, SameGet
  <2>2. Len(published) \in Nat /\ get(s, c) \in 0..Len(published)
    BY GetTyped DEF TypeOK
  <2>3. get(s, c) # 0 => get(s, c) \in 1..Len(published)
    BY <2>2
  <2> QED BY <2>1, <2>3
<1> QED BY <1>1 DEF visible_definitions, SeenIn

\* Publishers come and go without a change to the scopes.
LEMMA ScopesUnchanged ==
    ASSUME Inv, UNCHANGED <<lifecycle, entries, published, withdrawn, poisoned>>
    PROVE  EntryInv' /\ TreeInv' /\ HistoryInv' /\ KeptInv' /\ VisibleGraphsResolve'
<1>1. \A s : visible_definitions(s)' = visible_definitions(s)
  BY GetInIsGet
<1>2. VisibleGraphsResolve'
  BY <1>1 DEF Inv, VisibleGraphsResolve, is_open
<1> QED BY <1>2 DEF Inv, EntryInv, TreeInv, HistoryInv, KeptInv

\* publish keeps the invariant.
LEMMA PublishKeeps ==
    ASSUME Inv, NEW p \in Publishers, NEW s \in Scopes, NEW definition \in Definitions[s],
           NEW expected \in 0..Len(published), publish(p, s, definition, expected)
    PROVE  Inv'
<1> DEFINE x == [scope |-> s, definition |-> definition,
                 dependencies |-> resolve_dependencies(s, definition), expected |-> expected]
<1>1. TypeOK /\ CountInv /\ EntryInv
  BY DEF Inv
<1>2. publisher' = [publisher EXCEPT ![p] = x] /\ UNCHANGED <<lifecycle, entries, published, withdrawn, poisoned>>
  BY DEF publish
<1>3. definition \in Definition
  BY ScopeAssumption
<1>4. resolve_dependencies(s, definition) \in Snapshot
  <2>1. Len(published) \in Nat /\ Len(published) <= MaxEntries /\ MaxEntries \in Nat
    BY <1>1, ScopeAssumption DEF TypeOK
  <2>2. \A c \in Capabilities : get(s, c) \in 0..MaxEntries
    BY <1>1, <2>1, GetTyped
  <2> HIDE DEF get
  <2> QED BY <2>1, <2>2 DEF resolve_dependencies, Snapshot, EntryIds
<1>5. x \in Publication
  <2>1. Len(published) \in Nat /\ Len(published) <= MaxEntries /\ MaxEntries \in Nat
    BY <1>1, ScopeAssumption DEF TypeOK
  <2>2. expected \in 0..MaxEntries
    BY <2>1
  <2> QED BY <1>3, <1>4, <2>2 DEF Publication
<1>6. TypeOK'
  BY <1>1, <1>2, <1>5 DEF TypeOK
<1>7. CountInv'
  <2>1. \A c \in definition.dependencies : resolve_dependencies(s, definition)[c] # 0
    BY DEF publish
  <2>2. x.expected = expected /\ x.definition = definition /\ x.dependencies = resolve_dependencies(s, definition)
    OBVIOUS
  <2>3. publisher \in [Publishers -> Publication \cup {None}]
    BY <1>1 DEF TypeOK
  <2>4. expected <= Len(published)
    BY <1>1 DEF TypeOK
  <2> HIDE DEF x
  <2> QED BY <1>1, <1>2, <2>1, <2>2, <2>3, <2>4 DEF CountInv
<1> QED BY <1>2, <1>6, <1>7, ScopesUnchanged DEF Inv

\* construction_fails keeps the invariant.
LEMMA FailureKeeps ==
    ASSUME Inv, NEW p \in Publishers, construction_fails(p)
    PROVE  Inv'
<1>1. /\ publisher' = [publisher EXCEPT ![p] = None]
      /\ UNCHANGED <<lifecycle, entries, published, withdrawn, poisoned>>
  BY DEF construction_fails
<1>2. TypeOK'
  BY <1>1 DEF Inv, TypeOK
<1>3. CountInv'
  <2>1. publisher \in [Publishers -> Publication \cup {None}]
    BY DEF Inv, TypeOK
  <2> QED BY <1>1, <2>1 DEF Inv, CountInv
<1> QED BY <1>1, <1>2, <1>3, ScopesUnchanged DEF Inv

\* child keeps the invariant: a new scope sees what its parent sees.
LEMMA ChildKeeps ==
    ASSUME Inv, NEW s \in Scopes, child(s)
    PROVE  Inv'
<1> DEFINE u == Path[s][2]
           l == IF is_open(u) THEN "Open" ELSE "Closed"
<1>1. TypeOK /\ CountInv /\ EntryInv /\ TreeInv
  BY DEF Inv
<1>2. /\ lifecycle[s] = "New" /\ lifecycle[u] # "New"
      /\ lifecycle' = [lifecycle EXCEPT ![s] = l]
      /\ UNCHANGED <<entries, published, publisher, withdrawn, poisoned>>
  BY DEF child
<1>3. lifecycle \in [Scopes -> {"New", "Open", "Closing", "Closed"}]
  BY <1>1 DEF TypeOK
<1>4. Len(Path[s]) \in Nat /\ Len(Path[s]) > 1 /\ u \in Scopes /\ 2 \in 1..Len(Path[s])
  <2>1. s \notin Roots
    BY <1>1, <1>2 DEF TreeInv
  <2>2. Len(Path[s]) \in Nat /\ Len(Path[s]) >= 1 /\ Len(Path[s]) # 1
    BY <2>1, PathOnce DEF Roots
  <2>3. \A n \in Nat : n >= 1 /\ n # 1 => 2 \in 1..n /\ n > 1
    OBVIOUS
  <2>4. 2 \in 1..Len(Path[s]) /\ Len(Path[s]) > 1
    BY <2>2, <2>3
  <2> QED BY <2>2, <2>4, PathOnce
<1>5. /\ Len(Path[u]) = Len(Path[s]) - 1
      /\ \A i \in 1..Len(Path[s]) : i = 1 \/ (i - 1 \in 1..Len(Path[u]) /\ Path[s][i] = Path[u][i - 1])
  <2>1. Len(Path[u]) = Len(Path[s]) - 2 + 1 /\ \A j \in 1..Len(Path[u]) : Path[u][j] = Path[s][2 + j - 1]
    BY <1>4, PathRest
  <2>2. ASSUME NEW i \in 1..Len(Path[s]), i # 1
        PROVE  i - 1 \in 1..Len(Path[u]) /\ Path[s][i] = Path[u][i - 1]
    <3>1. i - 1 \in 1..Len(Path[u]) /\ 2 + (i - 1) - 1 = i
      BY <1>4, <2>1, <2>2
    <3> QED BY <2>1, <3>1
  <2> QED BY <1>4, <2>1, <2>2
<1>6. Path[s][1] = s /\ (\A i \in 1..Len(Path[s]) : Path[s][i] \in Scopes) /\ u # s
  <2>1. 1 \in 1..Len(Path[s]) /\ 1 # 2
    BY <1>4
  <2> QED BY <1>4, <2>1, PathOnce
<1>7. TypeOK'
  BY <1>1, <1>2, <1>3 DEF TypeOK
<1>8. CountInv' /\ HistoryInv'
  BY <1>2 DEF Inv, CountInv, HistoryInv
<1>9. EntryInv'
  BY <1>1, <1>2, <1>3 DEF EntryInv
<1>10. KeptInv'
  <2>1. ASSUME withdrawn' = {}, NEW e \in 1..Len(published'), lifecycle'[published'[e].scope] = "Open"
        PROVE  entries'[published'[e].scope][published'[e].definition.id] # 0
    <3>1. e \in 1..Len(published) /\ published' = published /\ entries' = entries /\ withdrawn = {}
      BY <1>2, <2>1
    <3>2. published[e].scope \in Scopes /\ published[e].scope # s
      BY <1>1, <1>2, <3>1, EntryTyped DEF EntryInv
    <3>3. lifecycle[published[e].scope] = "Open"
      BY <1>2, <1>3, <2>1, <3>1, <3>2
    <3> QED BY <3>1, <3>3 DEF Inv, KeptInv
  <2> QED BY <2>1 DEF KeptInv
<1>11. ASSUME NEW t \in Scopes, lifecycle'[t] = "Open"
       PROVE  /\ OpenPath(lifecycle', t)
              /\ t # s => OpenPath(lifecycle, t) /\ lifecycle[t] = "Open"
              /\ t = s => OpenPath(lifecycle, u) /\ lifecycle[u] = "Open"
  <2>1. CASE t = s
    <3>1. lifecycle[u] = "Open"
      BY <1>2, <1>3, <1>11, <2>1 DEF is_open
    <3>2. OpenPath(lifecycle, u)
      BY <1>1, <1>4, <3>1 DEF TreeInv, OpenPath
    <3>3. ASSUME NEW i \in 1..Len(Path[s]) PROVE lifecycle'[Path[s][i]] = "Open"
      <4>1. CASE i = 1
        BY <1>6, <1>11, <2>1, <4>1
      <4>2. CASE i # 1
        <5>1. lifecycle[Path[s][i]] = "Open"
          BY <1>5, <3>2, <4>2 DEF OpenPath
        <5>2. Path[s][i] \in Scopes /\ Path[s][i] # s
          BY <1>2, <1>6, <5>1
        <5> QED BY <1>2, <1>3, <5>1, <5>2
      <4> QED BY <4>1, <4>2
    <3> QED BY <2>1, <3>1, <3>2, <3>3 DEF OpenPath
  <2>2. CASE t # s
    <3>1. lifecycle[t] = "Open"
      BY <1>2, <1>3, <1>11, <2>2
    <3>2. OpenPath(lifecycle, t)
      BY <1>1, <3>1 DEF TreeInv, OpenPath
    <3>3. ASSUME NEW i \in 1..Len(Path[t]) PROVE lifecycle'[Path[t][i]] = "Open"
      <4>1. lifecycle[Path[t][i]] = "Open" /\ Path[t][i] \in Scopes
        BY <3>2, PathOnce DEF OpenPath
      <4>2. Path[t][i] # s
        BY <1>2, <4>1
      <4> QED BY <1>2, <1>3, <4>1, <4>2
    <3> QED BY <2>2, <3>1, <3>2, <3>3 DEF OpenPath
  <2> QED BY <2>1, <2>2
<1>12. TreeInv'
  <2>1. ASSUME NEW t \in Scopes, lifecycle'[t] # "New", NEW i \in 1..Len(Path[t])
        PROVE  lifecycle'[Path[t][i]] # "New"
    <3>1. Path[t][i] \in Scopes
      BY PathOnce
    <3>2. lifecycle[Path[t][i]] # "New" => lifecycle'[Path[t][i]] # "New"
      BY <1>2, <1>3, <3>1
    <3>3. lifecycle'[s] # "New"
      BY <1>2, <1>3
    <3>4. CASE t # s
      BY <1>1, <1>2, <1>3, <2>1, <3>2, <3>4 DEF TreeInv
    <3>5. CASE t = s
      <4>1. CASE i = 1
        BY <1>6, <3>3, <3>5, <4>1
      <4>2. CASE i # 1
        BY <1>1, <1>2, <1>4, <1>5, <3>2, <3>5, <4>2 DEF TreeInv
      <4> QED BY <4>1, <4>2
    <3> QED BY <3>4, <3>5
  <2>2. \A t \in Roots : lifecycle'[t] # "New"
    BY <1>1, <1>2, <1>3 DEF TreeInv, Roots
  <2> QED BY <1>11, <2>1, <2>2 DEF TreeInv, OpenPath
<1>13. VisibleGraphsResolve'
  <2>1. SUFFICES ASSUME withdrawn' = {}, NEW t \in Scopes, lifecycle'[t] = "Open"
                 PROVE  Resolves(visible_definitions(t)')
    BY DEF VisibleGraphsResolve, is_open
  <2>2. withdrawn = {} /\ \A r \in Scopes : lifecycle[r] = "Open" => Resolves(visible_definitions(r))
    BY <1>2, <2>1 DEF Inv, VisibleGraphsResolve, is_open
  <2>3. visible_definitions(t)' = SeenIn(lifecycle', entries, published, t)
    BY <1>2, GetInIsGet
  <2>4. CASE t # s
    <3>1. OpenPath(lifecycle, t) /\ OpenPath(lifecycle', t) /\ lifecycle[t] = "Open"
      BY <1>11, <2>1, <2>4
    <3>2. visible_definitions(t) = SeenIn(lifecycle', entries, published, t)
      BY <1>1, <3>1, SameSight
    <3> QED BY <2>2, <2>3, <3>1, <3>2
  <2>5. CASE t = s
    <3>1. OpenPath(lifecycle, u) /\ OpenPath(lifecycle', s) /\ lifecycle[u] = "Open"
      BY <1>11, <2>1, <2>5
    <3>2. ASSUME NEW c \in Capabilities
          PROVE  GetIn(lifecycle', entries, s, c) = GetIn(lifecycle, entries, u, c)
      <4>1. entries[s][c] = 0
        BY <1>1, <1>2 DEF EntryInv
      <4>2. CASE NoEntry(entries, u, c)
        <5>1. \A i \in 1..Len(Path[s]) : entries[Path[s][i]][c] = 0
          BY <1>5, <1>6, <4>1, <4>2 DEF NoEntry
        <5>2. GetIn(lifecycle', entries, s, c) = 0
          BY <5>1, GetNone
        <5>3. GetIn(lifecycle, entries, u, c) = 0
          BY <4>2, GetNone DEF NoEntry
        <5> QED BY <5>2, <5>3
      <4>3. CASE \E k \in 1..Len(Path[u]) : Nearest(entries, u, c, k)
        <5>1. PICK k \in 1..Len(Path[u]) :
                    entries[Path[u][k]][c] # 0 /\ \A j \in 1..(k - 1) : entries[Path[u][j]][c] = 0
          BY <4>3 DEF Nearest
        <5>2. k + 1 \in 1..Len(Path[s]) /\ k + 1 # 1 /\ (k + 1) - 1 = k
          BY <1>4, <1>5
        <5>3. Path[s][k + 1] = Path[u][k]
          BY <1>5, <5>2
        <5>4. ASSUME NEW j \in 1..k PROVE entries[Path[s][j]][c] = 0
          <6>1. j = 1 \/ (j # 1 /\ j \in 1..Len(Path[s]) /\ j - 1 \in 1..(k - 1))
            BY <1>4, <1>5
          <6> QED BY <1>5, <1>6, <4>1, <5>1, <6>1
        <5>5. GetIn(lifecycle, entries, u, c) = entries[Path[u][k]][c]
          BY <1>4, <3>1, <5>1, GetNearest
        <5>6. GetIn(lifecycle', entries, s, c) = entries[Path[s][k + 1]][c]
          BY <3>1, <5>1, <5>2, <5>3, <5>4, GetNearest
        <5> QED BY <5>3, <5>5, <5>6
      <4> QED BY <1>4, <4>2, <4>3, NearestExists
    <3>3. SeenIn(lifecycle', entries, published, s) = SeenIn(lifecycle, entries, published, u)
      BY <3>2 DEF SeenIn
    <3>4. visible_definitions(u) = SeenIn(lifecycle, entries, published, u)
      BY GetInIsGet
    <3> QED BY <1>4, <2>2, <2>3, <2>5, <3>1, <3>3, <3>4
  <2> QED BY <2>4, <2>5
<1> QED BY <1>7, <1>8, <1>9, <1>10, <1>12, <1>13 DEF Inv

\* withdraw keeps the invariant; what its scope sees is no longer promised.
LEMMA WithdrawKeeps ==
    ASSUME Inv, NEW e \in 1..Len(published), withdraw(e)
    PROVE  Inv'
<1> DEFINE s == published[e].scope
           c == published[e].definition.id
<1>1. TypeOK /\ CountInv /\ EntryInv /\ TreeInv
  BY DEF Inv
<1>2. s \in Scopes /\ c \in Capabilities /\ published[e].generation # 0 /\ Len(published) \in Nat
  BY <1>1, EntryTyped
<1>3. /\ entries[s][c] # 0
      /\ withdrawn' = withdrawn \cup {entries[s][c]}
      /\ entries' = [entries EXCEPT ![s][c] = 0]
      /\ UNCHANGED <<lifecycle, published, publisher, poisoned>>
  BY <1>2 DEF withdraw, check_expectation
<1>4. entries \in [Scopes -> [Capabilities -> 0..Len(published)]]
  BY <1>1 DEF TypeOK
<1>5. \A t \in Scopes, d \in Capabilities : entries'[t][d] = IF t = s /\ d = c THEN 0 ELSE entries[t][d]
  BY <1>2, <1>3, <1>4
<1>6. TypeOK'
  <2>1. entries[s][c] \in 1..Len(published)
    BY <1>2, <1>3, <1>4
  <2>2. entries' \in [Scopes -> [Capabilities -> 0..Len(published)]]
    BY <1>2, <1>3, <1>4
  <2> HIDE DEF s, c
  <2> QED BY <1>1, <1>3, <2>1, <2>2 DEF TypeOK
<1>7. CountInv' /\ HistoryInv' /\ TreeInv'
  BY <1>3 DEF Inv, CountInv, HistoryInv, TreeInv
<1>8. EntryInv'
  <2> HIDE DEF s, c
  <2> QED BY <1>1, <1>3, <1>5 DEF EntryInv
<1>9. withdrawn' # {}
  BY <1>3
<1> QED BY <1>6, <1>7, <1>8, <1>9 DEF Inv, KeptInv, VisibleGraphsResolve

\* A teardown that closes the scopes D, of which gone are left empty: whatever
\* is below one of them is closed as well.
LEMMA ClosingKeeps ==
    ASSUME Inv, NEW D \in SUBSET Scopes,
           \A d \in D : lifecycle[d] = "Open",
           \A d \in D, t \in Scopes :
              lifecycle[t] = "Open" /\ (\E i \in 1..Len(Path[t]) : Path[t][i] = d) => t \in D,
           lifecycle' \in [Scopes -> {"New", "Open", "Closing", "Closed"}],
           \A t \in Scopes : t \in D => lifecycle'[t] \in {"Closing", "Closed"},
           \A t \in Scopes : t \notin D => lifecycle'[t] = lifecycle[t],
           entries' = [d \in Scopes |-> IF d \in D THEN [c \in Capabilities |-> 0] ELSE entries[d]],
           poisoned' \in BOOLEAN,
           UNCHANGED <<published, publisher, withdrawn>>
    PROVE  Inv'
<1>1. TypeOK /\ CountInv /\ EntryInv /\ TreeInv
  BY DEF Inv
<1>2. Len(published) \in Nat /\ entries \in [Scopes -> [Capabilities -> 0..Len(published)]]
  BY <1>1, EntryTyped DEF TypeOK
<1>3. TypeOK'
  <2>1. entries' \in [Scopes -> [Capabilities -> 0..Len(published)]]
    BY <1>2
  <2> QED BY <1>1, <2>1 DEF TypeOK
<1>4. CountInv' /\ HistoryInv'
  BY DEF Inv, CountInv, HistoryInv
<1>5. \A t \in Scopes, c \in Capabilities : entries'[t][c] = IF t \in D THEN 0 ELSE entries[t][c]
  OBVIOUS
<1>6. \A t \in Scopes : /\ lifecycle'[t] = "Open" <=> lifecycle[t] = "Open" /\ t \notin D
                        /\ lifecycle'[t] = "New" <=> lifecycle[t] = "New"
  <2>1. ASSUME NEW t \in Scopes
        PROVE  /\ lifecycle'[t] = "Open" <=> lifecycle[t] = "Open" /\ t \notin D
               /\ lifecycle'[t] = "New" <=> lifecycle[t] = "New"
    <3>1. CASE t \in D
      BY <3>1
    <3>2. CASE t \notin D
      BY <3>2
    <3> QED BY <3>1, <3>2
  <2> QED BY <2>1
<1>7. EntryInv'
  <2>1. \A e \in 1..Len(published) : lifecycle'[published[e].scope] # "New"
    BY <1>1, <1>6, EntryTyped DEF EntryInv
  <2> QED BY <1>1, <1>5, <1>6, <2>1 DEF EntryInv
<1>8. ASSUME NEW t \in Scopes, lifecycle'[t] = "Open"
      PROVE  /\ lifecycle[t] = "Open" /\ OpenPath(lifecycle, t) /\ OpenPath(lifecycle', t)
             /\ \A i \in 1..Len(Path[t]) : Path[t][i] \in Scopes \ D
  <2>1. lifecycle[t] = "Open" /\ t \notin D
    BY <1>6, <1>8
  <2>2. OpenPath(lifecycle, t)
    BY <1>1, <2>1 DEF TreeInv, OpenPath
  <2>3. \A i \in 1..Len(Path[t]) : Path[t][i] \in Scopes \ D
    BY <2>1, PathOnce
  <2> QED BY <1>6, <2>1, <2>2, <2>3 DEF OpenPath
<1>9. TreeInv'
  <2>1. \A t \in Scopes : \A i \in 1..Len(Path[t]) : Path[t][i] \in Scopes
    BY PathOnce
  <2>2. Roots \subseteq Scopes
    BY DEF Roots
  <2> QED BY <1>1, <1>6, <1>8, <2>1, <2>2 DEF TreeInv, OpenPath
<1>10. KeptInv'
  <2>1. \A e \in 1..Len(published) : published[e].scope \in Scopes /\ published[e].definition.id \in Capabilities
    BY <1>1, EntryTyped
  <2> QED BY <1>5, <1>6, <2>1 DEF Inv, KeptInv
<1>11. VisibleGraphsResolve'
  <2>1. SUFFICES ASSUME withdrawn' = {}, NEW t \in Scopes, lifecycle'[t] = "Open"
                 PROVE  Resolves(visible_definitions(t)')
    BY DEF VisibleGraphsResolve, is_open
  <2>2. lifecycle[t] = "Open" /\ Resolves(visible_definitions(t))
    BY <1>8, <2>1 DEF Inv, VisibleGraphsResolve, is_open
  <2>3. \A i \in 1..Len(Path[t]), c \in Capabilities : entries[Path[t][i]][c] = entries'[Path[t][i]][c]
    BY <1>5, <1>8, <2>1
  <2>4. visible_definitions(t) = SeenIn(lifecycle', entries', published', t)
    <3>1. OpenPath(lifecycle, t) /\ OpenPath(lifecycle', t)
      BY <1>8, <2>1
    <3>2. \A e \in 1..Len(published) : published'[e] = published[e]
      OBVIOUS
    <3> HIDE DEF OpenPath
    <3> QED BY <1>1, <2>3, <3>1, <3>2, SameSight
  <2> QED BY <2>2, <2>4, GetInIsGet
<1> QED BY <1>3, <1>4, <1>7, <1>9, <1>10, <1>11 DEF Inv

\* teardown keeps the invariant, also where it panics half-way.
LEMMA TeardownKeeps ==
    ASSUME Inv, NEW s \in Scopes, teardown(s)
    PROVE  Inv'
<1> DEFINE closing == {d \in Descendants(s) \cup {s} : is_open(d)}
           failing == {d \in closing : ~Resolves(runtime_graph(d))}
           ChildFirst(D, d) == \A b \in D \cup {d} :
               Descendants(b) \cap closing \subseteq D /\ d \notin Descendants(b)
           Emptied(D) == [d \in Scopes |-> IF d \in D THEN [c \in Capabilities |-> 0] ELSE entries[d]]
           Closed(D) == [d \in Scopes |-> IF d \in D THEN "Closed" ELSE lifecycle[d]]
<1>1. TypeOK /\ lifecycle \in [Scopes -> {"New", "Open", "Closing", "Closed"}] /\ poisoned \in BOOLEAN
  BY DEF Inv, TypeOK
<1>2. /\ is_open(s)
      /\ UNCHANGED <<published, publisher, withdrawn>>
      /\ \/ lifecycle' = Closed(closing) /\ entries' = Emptied(closing) /\ poisoned' = poisoned
         \/ \E d \in failing, before \in SUBSET (closing \ failing) :
               /\ ChildFirst(before, d)
               /\ lifecycle' = [Closed(before) EXCEPT ![d] = "Closing"]
               /\ entries' = Emptied(before \cup {d})
               /\ poisoned' = TRUE
  BY DEF teardown
<1>3. closing \subseteq Scopes /\ \A d \in closing : lifecycle[d] = "Open"
  BY DEF Descendants, is_open
<1>4. ASSUME NEW d \in closing, NEW t \in Scopes, lifecycle[t] = "Open",
             \E i \in 1..Len(Path[t]) : Path[t][i] = d
      PROVE  t \in closing /\ (t # d => t \in Descendants(d))
  <2>1. PICK i \in 1..Len(Path[t]) : Path[t][i] = d
    BY <1>4
  <2>2. d \in Scopes /\ \E j \in 1..Len(Path[d]) : Path[d][j] = s
    <3>1. 1 \in 1..Len(Path[s]) /\ Path[s][1] = s
      BY PathOnce
    <3> QED BY <1>3, <3>1 DEF Descendants
  <2>3. \E k \in 1..Len(Path[t]) : Path[t][k] = s
    BY <2>1, <2>2, PathUp
  <2>4. t \in closing
    BY <1>4, <2>3 DEF Descendants, is_open
  <2> QED BY <1>4, <2>4 DEF Descendants
<1>5. CASE lifecycle' = Closed(closing) /\ entries' = Emptied(closing) /\ poisoned' = poisoned
  <2> HIDE DEF closing
  <2>1. \A d \in closing, t \in Scopes :
          lifecycle[t] = "Open" /\ (\E i \in 1..Len(Path[t]) : Path[t][i] = d) => t \in closing
    BY <1>4
  <2>2. lifecycle' \in [Scopes -> {"New", "Open", "Closing", "Closed"}]
    BY <1>1, <1>5
  <2>3. /\ \A t \in Scopes : t \in closing => lifecycle'[t] \in {"Closing", "Closed"}
        /\ \A t \in Scopes : t \notin closing => lifecycle'[t] = lifecycle[t]
    BY <1>5
  <2> QED BY <1>1, <1>2, <1>3, <1>5, <2>1, <2>2, <2>3, ClosingKeeps
<1>6. CASE \E d \in failing, before \in SUBSET (closing \ failing) :
               /\ ChildFirst(before, d)
               /\ lifecycle' = [Closed(before) EXCEPT ![d] = "Closing"]
               /\ entries' = Emptied(before \cup {d})
               /\ poisoned' = TRUE
  <2>1. PICK d \in failing, before \in SUBSET (closing \ failing) :
               /\ ChildFirst(before, d)
               /\ lifecycle' = [Closed(before) EXCEPT ![d] = "Closing"]
               /\ entries' = Emptied(before \cup {d})
               /\ poisoned' = TRUE
    BY <1>6
  <2> DEFINE D == before \cup {d}
  <2>2. D \subseteq closing
    OBVIOUS
  <2> HIDE DEF closing
  <2>3. ASSUME NEW b \in D, NEW t \in Scopes, lifecycle[t] = "Open",
               \E i \in 1..Len(Path[t]) : Path[t][i] = b
        PROVE  t \in D
    <3>1. t \in closing /\ (t # b => t \in Descendants(b))
      BY <1>4, <2>2, <2>3
    <3>2. Descendants(b) \cap closing \subseteq before
      BY <2>1
    <3> QED BY <3>1, <3>2
  <2>4. lifecycle' \in [Scopes -> {"New", "Open", "Closing", "Closed"}]
    BY <1>1, <2>1
  <2>5. /\ \A t \in Scopes : t \in D => lifecycle'[t] \in {"Closing", "Closed"}
        /\ \A t \in Scopes : t \notin D => lifecycle'[t] = lifecycle[t]
    BY <1>1, <2>1
  <2>6. D \in SUBSET Scopes /\ \A b \in D : lifecycle[b] = "Open"
    BY <1>3, <2>2
  <2>7. \A b \in D, t \in Scopes :
          lifecycle[t] = "Open" /\ (\E i \in 1..Len(Path[t]) : Path[t][i] = b) => t \in D
    BY <2>3
  <2>8. entries' = Emptied(D) /\ poisoned' \in BOOLEAN
    BY <2>1
  <2> HIDE DEF D
  <2> QED BY <1>2, <2>4, <2>5, <2>6, <2>7, <2>8, ClosingKeeps
<1> QED BY <1>2, <1>5, <1>6

\* s is on the path of t and no scope below s has an entry for c.
Shown(E, s, t, c) ==
    \E k \in 1..Len(Path[t]) : Path[t][k] = s /\ \A j \in 1..(k - 1) : E[Path[t][j]][c] = 0

\* In F, s has the entry n for c, and all else is as in E.
Placed(E, F, s, c, n) ==
    \A r \in Scopes, d \in Capabilities : F[r][d] = IF r = s /\ d = c THEN n ELSE E[r][d]

\* Where s gets the entry n for c, a scope below it gets n if nothing is nearer.
LEMMA PublicationGot ==
    ASSUME NEW L, NEW E, NEW F, NEW s \in Scopes, NEW c \in Capabilities, NEW n, n # 0,
           Placed(E, F, s, c, n), NEW t \in Scopes, OpenPath(L, t)
    PROVE  /\ \A d \in Capabilities \ {c} : GetIn(L, F, t, d) = GetIn(L, E, t, d)
           /\ Shown(E, s, t, c) => GetIn(L, F, t, c) = n
           /\ ~Shown(E, s, t, c) => GetIn(L, F, t, c) = GetIn(L, E, t, c)
<1>2. \A r \in Scopes, d \in Capabilities : F[r][d] = IF r = s /\ d = c THEN n ELSE E[r][d]
  BY DEF Placed
<1>3. \A i \in 1..Len(Path[t]) : Path[t][i] \in Scopes
  BY PathOnce
<1>6. ASSUME NEW d \in Capabilities \ {c} PROVE GetIn(L, F, t, d) = GetIn(L, E, t, d)
  <2>1. \A i \in 1..Len(Path[t]) : E[Path[t][i]][d] = F[Path[t][i]][d]
    BY <1>2, <1>3
  <2>2. GetIn(L, E, t, d) = GetIn(L, F, t, d)
    BY <2>1, SameGet
  <2> QED BY <2>2
<1>8. ASSUME Shown(E, s, t, c) PROVE GetIn(L, F, t, c) = n
  <2>1. PICK k \in 1..Len(Path[t]) :
                       Path[t][k] = s /\ \A j \in 1..(k - 1) : E[Path[t][j]][c] = 0
    BY <1>8 DEF Shown
  <2>2. Len(Path[t]) \in Nat /\ \A i, j \in 1..Len(Path[t]) : Path[t][i] = Path[t][j] => i = j
    BY PathOnce
  <2>3. ASSUME NEW j \in 1..(k - 1) PROVE F[Path[t][j]][c] = 0
    <3>1. j \in 1..Len(Path[t]) /\ j # k
      BY <2>2
    <3>2. Path[t][j] # s /\ Path[t][j] \in Scopes
      BY <1>2, <1>3, <2>1, <2>2, <3>1
    <3> QED BY <1>2, <2>1, <3>2
  <2>4. F[Path[t][k]][c] = n
    BY <1>2, <2>1
  <2>5. GetIn(L, F, t, c) = n
    BY <2>3, <2>4, GetNearest
  <2> QED BY <2>5
<1>9. ASSUME ~Shown(E, s, t, c) PROVE GetIn(L, F, t, c) = GetIn(L, E, t, c)
  <2>1. CASE \A i \in 1..Len(Path[t]) : Path[t][i] # s
    <3>1. \A i \in 1..Len(Path[t]) : E[Path[t][i]][c] = F[Path[t][i]][c]
      BY <1>2, <1>3, <2>1
    <3> QED BY <3>1, SameGet
  <2>2. CASE \E i \in 1..Len(Path[t]) : Path[t][i] = s
    <3>1. PICK k \in 1..Len(Path[t]) : Path[t][k] = s
      BY <2>2
    <3>2. PICK j \in 1..(k - 1) : E[Path[t][j]][c] # 0
      BY <1>9, <3>1 DEF Shown
    <3>3. Len(Path[t]) \in Nat /\ j \in 1..Len(Path[t]) /\ j < k
      BY PathOnce
    <3>4. ~NoEntry(E, t, c)
      BY <3>2, <3>3 DEF NoEntry
    <3>5. PICK m \in 1..Len(Path[t]) : Nearest(E, t, c, m)
      BY <3>4, NearestExists
    <3>6. m < k
      <4>1. ~(j \in 1..(m - 1))
        BY <3>2, <3>5 DEF Nearest
      <4> QED BY <3>3, <4>1
    <3>7. \A i \in 1..m : i \in 1..Len(Path[t]) /\ Path[t][i] # s
      <4>1. \A i \in 1..m : i \in 1..Len(Path[t]) /\ i # k
        BY <3>3, <3>6
      <4> QED BY <3>1, <4>1, PathOnce
    <3>8. \A i \in 1..m : F[Path[t][i]][c] = E[Path[t][i]][c]
      BY <1>2, <1>3, <3>7
    <3>9. \A i \in 1..(m - 1) : i \in 1..m
      OBVIOUS
    <3>10. m \in 1..m
      OBVIOUS
    <3>11. F[Path[t][m]][c] # 0 /\ \A i \in 1..(m - 1) : F[Path[t][i]][c] = 0
      BY <3>5, <3>8, <3>9, <3>10 DEF Nearest
    <3>12. GetIn(L, F, t, c) = F[Path[t][m]][c]
      BY <3>11, GetNearest
    <3>13. GetIn(L, E, t, c) = E[Path[t][m]][c]
      BY <3>5, GetNearest DEF Nearest
    <3> QED BY <3>8, <3>10, <3>12, <3>13
  <2> QED BY <2>1, <2>2
<1> QED BY <1>6, <1>8, <1>9

\* A scope at or below s that is not shadowed sees the definition in the place
\* of what it saw under its identifier; for the others nothing changes.
LEMMA PublicationSeen ==
    ASSUME TypeOK, EntryInv, NEW s \in Scopes, NEW definition \in Definition, NEW entry,
           entry.definition = definition,
           published' = Append(published, entry),
           entries' = [entries EXCEPT ![s][definition.id] = Len(published) + 1],
           lifecycle' = lifecycle, NEW t \in Scopes, OpenPath(lifecycle, t)
    PROVE  \/ /\ Shown(entries, s, t, definition.id)
              /\ visible_definitions(t)' =
                    {d \in visible_definitions(t) : d.id # definition.id} \cup {definition}
           \/ visible_definitions(t)' = visible_definitions(t)
<1> DEFINE c == definition.id
           n == Len(published) + 1
           G(d) == GetIn(lifecycle, entries, t, d)
           H(d) == GetIn(lifecycle, entries', t, d)
<1>1. /\ c \in Capabilities /\ n \in Nat /\ n # 0 /\ Len(published) \in Nat
      /\ entries \in [Scopes -> [Capabilities -> 0..Len(published)]]
      /\ published \in Seq(Entry)
  BY EntryTyped DEF Definition, TypeOK
<1>2. \A r \in Scopes, d \in Capabilities : entries'[r][d] = IF r = s /\ d = c THEN n ELSE entries[r][d]
  BY <1>1
<1>4. /\ published'[n].definition = definition
      /\ \A e \in 1..Len(published) : published'[e] = published[e] /\ e # n
  BY <1>1
<1>5. \A d \in Capabilities : /\ G(d) \in 0..Len(published)
                              /\ G(d) # 0 => published[G(d)].definition.id = d /\ published'[G(d)] = published[G(d)]
  <2>1. ASSUME NEW d \in Capabilities
        PROVE  /\ G(d) \in 0..Len(published)
               /\ G(d) # 0 => published[G(d)].definition.id = d /\ published'[G(d)] = published[G(d)]
    <3>1. G(d) = get(t, d)
      BY GetInIsGet
    <3>2. G(d) \in 0..Len(published) /\ (G(d) # 0 => published[G(d)].definition.id = d)
      BY <3>1, GetTyped
    <3> HIDE DEF G
    <3>3. G(d) # 0 => G(d) \in 1..Len(published)
      BY <1>1, <3>2
    <3> QED BY <1>4, <3>2, <3>3
  <2> QED BY <2>1
<1>6. /\ \A d \in Capabilities \ {c} : H(d) = G(d)
      /\ Shown(entries, s, t, c) => H(c) = n
      /\ ~Shown(entries, s, t, c) => H(c) = G(c)
  <2>1. PICK F : F = entries'
    OBVIOUS
  <2>2. Placed(entries, F, s, c, n)
    BY <1>2, <2>1 DEF Placed
  <2> HIDE DEF n, c
  <2>3. /\ \A d \in Capabilities \ {c} : GetIn(lifecycle, F, t, d) = GetIn(lifecycle, entries, t, d)
        /\ Shown(entries, s, t, c) => GetIn(lifecycle, F, t, c) = n
        /\ ~Shown(entries, s, t, c) => GetIn(lifecycle, F, t, c) = GetIn(lifecycle, entries, t, c)
    BY <1>1, <2>2, OpenPath(lifecycle, t), PublicationGot
  <2> QED BY <2>1, <2>3
<1>7. /\ visible_definitions(t) = {published[e].definition : e \in {G(d) : d \in Capabilities} \ {0}}
      /\ visible_definitions(t)' = {published'[e].definition : e \in {H(d) : d \in Capabilities} \ {0}}
  BY GetInIsGet DEF SeenIn
<1>8. CASE Shown(entries, s, t, c)
  <2>5. H(c) = n
    BY <1>6, <1>8
  <2> HIDE DEF G, H, n, c
  <2>6. ASSUME NEW d \in visible_definitions(t)'
        PROVE  d = definition \/ (d \in visible_definitions(t) /\ d.id # c)
    <3>1. PICK a \in Capabilities : H(a) # 0 /\ d = published'[H(a)].definition
      BY <1>7
    <3>2. CASE a = c
      BY <1>4, <2>5, <3>1, <3>2
    <3>3. CASE a # c
      BY <1>5, <1>6, <1>7, <3>1, <3>3
    <3> QED BY <3>2, <3>3
  <2>7. definition \in visible_definitions(t)'
    BY <1>1, <1>4, <1>7, <2>5
  <2>8. ASSUME NEW d \in visible_definitions(t), d.id # c PROVE d \in visible_definitions(t)'
    <3>1. PICK a \in Capabilities : G(a) # 0 /\ d = published[G(a)].definition
      BY <1>7
    <3>2. a # c
      BY <1>5, <2>8, <3>1
    <3> QED BY <1>5, <1>6, <1>7, <3>1, <3>2
  <2>9. visible_definitions(t)' = {d \in visible_definitions(t) : d.id # definition.id} \cup {definition}
    BY <2>6, <2>7, <2>8 DEF c
  <2> QED BY <1>8, <2>9 DEF c
<1>9. CASE ~Shown(entries, s, t, c)
  <2> HIDE DEF G, H, c
  <2>2. \A d \in Capabilities : H(d) = G(d)
    BY <1>6, <1>9
  <2>3. visible_definitions(t)' = visible_definitions(t)
    BY <1>5, <1>7, <2>2
  <2> QED BY <2>3
<1> QED BY <1>8, <1>9

\* Where nothing shadows s, a publication in s affects t.
LEMMA ShownIsAffected ==
    ASSUME NEW s \in Scopes, NEW t \in Scopes, NEW c, OpenPath(lifecycle, t), Shown(entries, s, t, c)
    PROVE  candidate_affects(s, t, c)
<1>1. PICK k \in 1..Len(Path[t]) : Path[t][k] = s /\ \A j \in 1..(k - 1) : entries[Path[t][j]][c] = 0
  BY DEF Shown
<1> DEFINE up == CHOOSE i \in 1..Len(Path[t]) : Path[t][i] = s
<1>2. up \in 1..Len(Path[t]) /\ Path[t][up] = s
  BY <1>1
<1>3. up = k
  BY <1>1, <1>2, PathOnce
<1>4. \A i \in 1..(k - 1) : i \in 1..Len(Path[t])
  BY PathOnce
<1> QED BY <1>1, <1>3, <1>4 DEF candidate_affects, OpenPath, is_open

\* publish_preconstructed keeps the invariant.
LEMMA PublicationKeeps ==
    ASSUME Inv, NEW p \in Publishers, publish_preconstructed(p)
    PROVE  Inv'
<1> DEFINE x == publisher[p]
           s == x.scope
           c == x.definition.id
           entry == [scope |-> s, definition |-> x.definition, dependencies |-> x.dependencies,
                     generation |-> x.expected + 1]
           e == Len(published) + 1
<1>1. TypeOK /\ CountInv /\ EntryInv /\ TreeInv /\ HistoryInv
  BY DEF Inv
<1>2. publisher \in [Publishers -> Publication \cup {None}] /\ published \in Seq(Entry)
      /\ Len(published) \in Nat /\ MaxEntries \in Nat /\ withdrawn \subseteq 1..Len(published)
      /\ entries \in [Scopes -> [Capabilities -> 0..Len(published)]]
  BY <1>1, EntryTyped DEF TypeOK
<1>3. x # None /\ publisher' = [publisher EXCEPT ![p] = None] /\ UNCHANGED <<lifecycle, withdrawn, poisoned>>
  BY DEF publish_preconstructed
<1>4. x \in Publication
  BY <1>2, <1>3
<1>5. /\ s \in Scopes /\ x.definition \in Definition /\ c \in Capabilities
      /\ x.dependencies \in Snapshot /\ x.expected \in 0..MaxEntries
  BY <1>4 DEF Publication, Definition
<1>6. CASE UNCHANGED <<published, entries>>
  <2>1. TypeOK'
    BY <1>1, <1>3, <1>6 DEF TypeOK
  <2>2. CountInv'
    BY <1>1, <1>2, <1>3, <1>6 DEF CountInv
  <2> QED BY <1>3, <1>6, <2>1, <2>2, ScopesUnchanged DEF Inv
<1>7. CASE /\ DependenciesUnchanged(s, x)
           /\ validate_descendant_admission(s, x.definition)
           /\ check_expectation(s, c, x.expected)
           /\ StillResolves(s, x.definition)
           /\ e <= MaxEntries
           /\ published' = Append(published, entry)
           /\ entries' = [entries EXCEPT ![s][c] = e]
  <2>1. lifecycle[s] = "Open" /\ OpenPath(lifecycle, s)
    BY <1>1, <1>5, <1>7 DEF check_expectation, is_open, TreeInv, OpenPath
  <2>2. x.expected <= Len(published) /\ \A d \in x.definition.dependencies : x.dependencies[d] # 0
    BY <1>1, <1>3 DEF CountInv
  <2>3. entry \in Entry
    <3>1. x.expected + 1 \in 1..MaxEntries
      BY <1>2, <1>5, <1>7, <2>2
    <3> QED BY <1>5, <3>1 DEF Entry
  <2>4. /\ Len(published') = e /\ published' \in Seq(Entry) /\ published'[e] = entry
        /\ \A i \in 1..Len(published) : published'[i] = published[i]
        /\ \A i \in 1..e : i = e \/ i \in 1..Len(published)
    BY <1>2, <1>7, <2>3
  <2>5. \A r \in Scopes, d \in Capabilities : entries'[r][d] = IF r = s /\ d = c THEN e ELSE entries[r][d]
    BY <1>2, <1>5, <1>7
  <2>6. TypeOK'
    <3>1. entries' \in [Scopes -> [Capabilities -> 0..e]]
      <4>1. \A r \in Scopes : entries[r] \in [Capabilities -> 0..e]
        BY <1>2
      <4>2. e \in 0..e
        BY <1>2
      <4>3. entries \in [Scopes -> [Capabilities -> 0..e]]
        BY <1>2, <4>1
      <4> HIDE DEF e, c, s
      <4> QED BY <1>5, <1>7, <4>2, <4>3
    <3>2. withdrawn' \subseteq 1..e
      BY <1>2, <1>3
    <3>3. publisher' \in [Publishers -> Publication \cup {None}]
      BY <1>2, <1>3
    <3> QED BY <1>1, <1>3, <1>7, <2>4, <3>1, <3>2, <3>3 DEF TypeOK
  <2>7. CountInv'
    <3>1. ASSUME NEW i \in 1..Len(published') PROVE published'[i].generation <= i
      <4>1. CASE i = e
        BY <1>2, <1>5, <2>2, <2>4, <4>1
      <4>2. CASE i \in 1..Len(published)
        BY <1>1, <2>4, <4>2 DEF CountInv
      <4> QED BY <2>4, <4>1, <4>2
    <3>2. ASSUME NEW q \in Publishers, publisher'[q] # None
          PROVE  /\ publisher'[q].expected <= Len(published')
                 /\ \A d \in publisher'[q].definition.dependencies : publisher'[q].dependencies[d] # 0
      <4>1. publisher'[q] = publisher[q] /\ publisher[q] \in Publication
        BY <1>2, <1>3, <3>2
      <4>2. publisher[q].expected <= Len(published) /\ publisher[q].expected \in 0..MaxEntries
        BY <1>1, <3>2, <4>1 DEF CountInv, Publication
      <4>3. publisher[q].expected <= e
        BY <1>2, <4>2
      <4> QED BY <1>1, <2>4, <3>2, <4>1, <4>3 DEF CountInv
    <3> QED BY <3>1, <3>2 DEF CountInv
  <2>8. EntryInv'
    <3>1. ASSUME NEW r \in Scopes, NEW d \in Capabilities, entries'[r][d] # 0
          PROVE  published'[entries'[r][d]].scope = r /\ published'[entries'[r][d]].definition.id = d
      <4>1. CASE r = s /\ d = c
        BY <2>4, <2>5, <4>1
      <4>2. CASE ~(r = s /\ d = c)
        <5>1. entries'[r][d] = entries[r][d] /\ entries[r][d] \in 1..Len(published)
          BY <1>2, <2>5, <3>1, <4>2
        <5> QED BY <1>1, <2>4, <3>1, <5>1 DEF EntryInv
      <4> QED BY <4>1, <4>2
    <3>2. ASSUME NEW r \in Scopes, lifecycle'[r] # "Open", NEW d \in Capabilities
          PROVE  entries'[r][d] = 0
      BY <1>1, <1>3, <2>1, <2>5, <3>2 DEF EntryInv
    <3>3. ASSUME NEW i \in 1..Len(published') PROVE lifecycle'[published'[i].scope] # "New"
      <4>1. CASE i = e
        BY <1>3, <2>1, <2>4, <4>1
      <4>2. CASE i \in 1..Len(published)
        BY <1>1, <1>3, <2>4, <4>2 DEF EntryInv
      <4> QED BY <2>4, <4>1, <4>2
    <3> QED BY <3>1, <3>2, <3>3 DEF EntryInv
  <2>9. TreeInv'
    BY <1>1, <1>3 DEF TreeInv
  <2>10. HistoryInv'
    <3>1. SUFFICES ASSUME NEW i \in 1..Len(published'), NEW a \in Capabilities,
                          NEW d, d = published'[i].dependencies[a]
                   PROVE  /\ d < i
                          /\ published'[i].scope \in Roots /\ d # 0 =>
                                published'[d].scope = published'[i].scope
      BY DEF HistoryInv
    <3>2. CASE i = e
      <4>1. d = x.dependencies[a] /\ published'[i].scope = s
        BY <2>4, <3>1, <3>2
      <4>2. d = IF a \in x.definition.dependencies THEN get(s, a) ELSE 0
        BY <1>7, <4>1 DEF DependenciesUnchanged, resolve_dependencies
      <4>3. d \in 0..Len(published)
        BY <1>1, <1>2, <1>5, <4>2, GetTyped
      <4>4. ASSUME s \in Roots, d # 0 PROVE published'[d].scope = s
        <5>1. d \in 1..Len(published) /\ d = get(s, a)
          BY <1>2, <4>2, <4>3, <4>4
        <5>2. PICK k \in 1..Len(Path[s]) : published[d].scope = Path[s][k]
          BY <1>1, <1>5, <4>4, <5>1, GetTyped
        <5>3. Path[s][k] = s
          BY <1>5, <4>4, <5>2, PathOnce DEF Roots
        <5> QED BY <2>4, <5>1, <5>2, <5>3
      <4> QED BY <1>2, <3>2, <4>1, <4>3, <4>4
    <3>3. CASE i \in 1..Len(published)
      <4>1. /\ d = published[i].dependencies[a] /\ d < i
            /\ published[i].scope \in Roots /\ d # 0 => published[d].scope = published[i].scope
        BY <1>1, <2>4, <3>1, <3>3 DEF HistoryInv
      <4>2. d \in 0..MaxEntries
        BY <1>1, <3>3, <4>1, EntryTyped
      <4>3. d # 0 => d \in 1..Len(published)
        BY <1>2, <3>3, <4>1, <4>2
      <4> QED BY <2>4, <3>3, <4>1, <4>3
    <3> QED BY <2>4, <3>2, <3>3
  <2>11. KeptInv'
    <3>1. SUFFICES ASSUME withdrawn' = {}, NEW i \in 1..Len(published'), lifecycle'[published'[i].scope] = "Open"
                   PROVE  entries'[published'[i].scope][published'[i].definition.id] # 0
      BY DEF KeptInv
    <3>2. e # 0
      BY <1>2
    <3>3. CASE i = e
      <4>1. published'[i].scope = s /\ published'[i].definition.id = c
        BY <2>4, <3>3
      <4> HIDE DEF e
      <4> QED BY <1>5, <2>5, <3>2, <4>1
    <3>4. CASE i \in 1..Len(published)
      <4>1. published[i].scope \in Scopes /\ published[i].definition.id \in Capabilities
        BY <1>1, <3>4, EntryTyped
      <4>2. entries[published[i].scope][published[i].definition.id] # 0
        BY <1>3, <2>4, <3>1, <3>4 DEF Inv, KeptInv
      <4> HIDE DEF e
      <4> QED BY <2>4, <2>5, <3>2, <3>4, <4>1, <4>2
    <3> QED BY <2>4, <3>3, <3>4
  <2>12. VisibleGraphsResolve'
    <3>1. SUFFICES ASSUME withdrawn' = {}, NEW t \in Scopes, lifecycle'[t] = "Open"
                   PROVE  Resolves(visible_definitions(t)')
      BY DEF VisibleGraphsResolve, is_open
    <3>2. lifecycle[t] = "Open" /\ OpenPath(lifecycle, t) /\ Resolves(visible_definitions(t))
      BY <1>1, <1>3, <3>1 DEF Inv, VisibleGraphsResolve, is_open, TreeInv, OpenPath
    <3> DEFINE replaced == {d \in visible_definitions(t) : d.id # x.definition.id} \cup {x.definition}
    <3>3. CASE Shown(entries, s, t, x.definition.id) /\ visible_definitions(t)' = replaced
      <4>1. CASE t = s
        BY <1>7, <3>3, <4>1 DEF StillResolves, validate_candidate
      <4>2. CASE t # s
        <5>1. t \in Descendants(s)
          BY <3>2, <3>3, <4>2 DEF Descendants, Shown
        <5>2. is_open(t) /\ candidate_affects(s, t, x.definition.id)
          BY <1>5, <3>2, <3>3, ShownIsAffected DEF is_open
        <5> QED BY <1>7, <3>3, <5>1, <5>2 DEF validate_descendant_admission, validate_candidate
      <4> QED BY <4>1, <4>2
    <3>4. CASE visible_definitions(t)' = visible_definitions(t)
      BY <3>2, <3>4
    <3>5. entry.definition = x.definition /\ lifecycle' = lifecycle
      BY <1>3
    <3> HIDE DEF entry, x
    <3> QED BY <1>1, <1>5, <1>7, <3>2, <3>3, <3>4, <3>5, PublicationSeen
  <2> QED BY <2>6, <2>7, <2>8, <2>9, <2>10, <2>11, <2>12 DEF Inv
<1> QED BY <1>6, <1>7 DEF publish_preconstructed

\* The invariant holds at the beginning.
LEMMA InitInv == Init => Inv
<1> SUFFICES ASSUME Init PROVE Inv
  OBVIOUS
<1>1. Len(published) = 0 /\ published \in Seq(Entry) /\ MaxEntries \in Nat
  BY ScopeAssumption DEF Init
<1>2. \A s \in Scopes : lifecycle[s] = IF s \in Roots THEN "Open" ELSE "New"
  BY DEF Init
<1>3. \A s \in Scopes, c \in Capabilities : entries[s][c] = 0
  BY DEF Init
<1>4. TypeOK
  <2>1. 0..Len(published) = {0} /\ Len(published) <= MaxEntries
    BY <1>1
  <2>2. entries \in [Scopes -> [Capabilities -> {0}]] /\ withdrawn = {} /\ poisoned = FALSE
    BY DEF Init
  <2>3. /\ publisher \in [Publishers -> Publication \cup {None}]
        /\ lifecycle \in [Scopes -> {"New", "Open", "Closing", "Closed"}]
    BY DEF Init
  <2> QED BY <1>1, <2>1, <2>2, <2>3 DEF TypeOK
<1>5. CountInv /\ HistoryInv /\ KeptInv
  BY <1>1 DEF Init, CountInv, HistoryInv, KeptInv
<1>6. EntryInv
  BY <1>1, <1>3 DEF EntryInv
<1>7. TreeInv
  <2>1. ASSUME NEW s \in Scopes, s \in Roots, NEW i \in 1..Len(Path[s]) PROVE Path[s][i] = s
    BY <2>1, PathOnce DEF Roots
  <2>2. Roots \subseteq Scopes
    BY DEF Roots
  <2> QED BY <1>2, <2>1, <2>2 DEF TreeInv
<1>8. VisibleGraphsResolve
  <2>1. ASSUME NEW s \in Scopes PROVE visible_definitions(s) = {}
    <3>1. \A c \in Capabilities : get(s, c) = 0
      <4>1. ASSUME NEW c \in Capabilities PROVE get(s, c) = 0
        <5>1. \A j \in 1..Len(Path[s]) : entries[Path[s][j]][c] = 0
          BY <1>3, PathOnce
        <5> QED BY <5>1, GetNone, GetInIsGet
      <4> QED BY <4>1
    <3> QED BY <3>1 DEF visible_definitions
  <2>2. Resolves({})
    BY DEF Resolves, HasCycle, Requires
  <2> QED BY <2>1, <2>2 DEF VisibleGraphsResolve
<1> QED BY <1>4, <1>5, <1>6, <1>7, <1>8 DEF Inv

\* Every step keeps the invariant.
LEMMA NextInv == Inv /\ [Next]_vars => Inv'
<1> SUFFICES ASSUME Inv, [Next]_vars PROVE Inv'
  OBVIOUS
<1>1. CASE UNCHANGED vars
  <2>1. UNCHANGED <<lifecycle, entries, published, publisher, withdrawn, poisoned>>
    BY <1>1 DEF vars
  <2>2. TypeOK' /\ CountInv'
    BY <2>1 DEF Inv, TypeOK, CountInv
  <2> QED BY <2>1, <2>2, ScopesUnchanged DEF Inv
<1>2. ASSUME NEW s \in Scopes, child(s) PROVE Inv'
  BY <1>2, ChildKeeps
<1>3. ASSUME NEW s \in Scopes, teardown(s) PROVE Inv'
  BY <1>3, TeardownKeeps
<1>4. ASSUME NEW p \in Publishers, NEW s \in Scopes, NEW definition \in Definitions[s],
             publish(p, s, definition, 0)
      PROVE  Inv'
  <2>1. 0 \in 0..Len(published)
    BY EntryTyped DEF Inv
  <2> QED BY <1>4, <2>1, PublishKeeps
<1>5. ASSUME NEW p \in Publishers, NEW s \in Scopes, NEW definition \in Definitions[s],
             entries[s][definition.id] # 0,
             publish(p, s, definition, published[entries[s][definition.id]].generation)
      PROVE  Inv'
  <2> DEFINE current == entries[s][definition.id]
  <2>1. definition.id \in Capabilities
    BY ScopeAssumption DEF Definition
  <2>2. Len(published) \in Nat /\ current \in 1..Len(published)
    BY <1>5, <2>1, EntryTyped DEF Inv, TypeOK
  <2>3. published[current].generation \in 1..MaxEntries /\ published[current].generation <= current
    BY <2>2, EntryTyped DEF Inv, CountInv
  <2>4. published[current].generation \in 0..Len(published)
    BY <2>2, <2>3
  <2> QED BY <1>5, <2>4, PublishKeeps
<1>6. ASSUME NEW p \in Publishers, publish_preconstructed(p) PROVE Inv'
  BY <1>6, PublicationKeeps
<1>7. ASSUME NEW p \in Publishers, construction_fails(p) PROVE Inv'
  BY <1>7, FailureKeeps
<1>8. ASSUME NEW e \in 1..Len(published), withdraw(e) PROVE Inv'
  BY <1>8, WithdrawKeeps
<1> QED BY <1>1, <1>2, <1>3, <1>4, <1>5, <1>6, <1>7, <1>8 DEF Next

\* The state of the scopes keeps its shape, for any tree of scopes and any
\* number of publishers.
THEOREM TypeCorrect == Spec => []TypeOK
<1>1. Inv => TypeOK
  BY DEF Inv
<1> QED BY <1>1, InitInv, NextInv, PTL DEF Spec

\* As long as nothing is withdrawn, what an open scope sees resolves: the check
\* of descendants in publish_preconstructed is enough, whatever is published,
\* created or torn down between the admission of a publication and its end.
THEOREM SeenResolves == Spec => []VisibleGraphsResolve
<1>1. Inv => VisibleGraphsResolve
  BY DEF Inv
<1> QED BY <1>1, InitInv, NextInv, PTL DEF Spec

\* A publication that was constructed while a dependency was replaced is not
\* published.
THEOREM NothingStale == Spec => NoStalePublication
<1> DEFINE Fresh == Len(published') > Len(published) =>
                       LET entry == published'[Len(published')]
                       IN  \A c \in entry.definition.dependencies :
                             entry.dependencies[c] # 0 /\ entry.dependencies[c] = get(entry.scope, c)
<1>1. ASSUME Inv, [Next]_vars PROVE Fresh
  <2>1. Len(published) \in Nat
    BY <1>1, EntryTyped DEF Inv
  <2>2. CASE published' = published
    BY <2>1, <2>2
  <2>3. ASSUME NEW p \in Publishers, publish_preconstructed(p), published' # published PROVE Fresh
    <3> DEFINE x == publisher[p]
               entry == [scope |-> x.scope, definition |-> x.definition,
                         dependencies |-> x.dependencies, generation |-> x.expected + 1]
    <3>1. /\ x # None /\ DependenciesUnchanged(x.scope, x)
          /\ published' = Append(published, entry)
      BY <2>3 DEF publish_preconstructed
    <3>2. x \in Publication /\ published \in Seq(Entry)
      BY <1>1, <2>3, <3>1 DEF Inv, TypeOK
    <3>3. published'[Len(published')] = entry
      BY <3>1, <3>2
    <3>4. \A c \in x.definition.dependencies : x.dependencies[c] # 0
      BY <1>1, <2>3, <3>1 DEF Inv, CountInv
    <3>5. x.definition.dependencies \subseteq Capabilities
      BY <3>2 DEF Publication, Definition
    <3>6. \A c \in x.definition.dependencies : x.dependencies[c] = get(x.scope, c)
      BY <3>1, <3>5 DEF DependenciesUnchanged, resolve_dependencies
    <3> QED BY <3>3, <3>4, <3>6
  <2> QED BY <1>1, <2>2, <2>3 DEF Next, vars, child, teardown, publish, construction_fails, withdraw
<1> QED BY <1>1, InitInv, NextInv, PTL DEF Spec, NoStalePublication
----------------------------------------------------------------------------
(* The graph of a teardown *)

\* Concatenation keeps to the elements of the sequences.
LEMMA FlattenIn ==
    ASSUME NEW W, NEW n \in Nat, NEW f \in [1..n -> Seq(W)]
    PROVE  FlattenSeq(f) \in Seq(W)
<1> DEFINE Solves(g, m) == g = [i \in 1..m |-> IF i = 1 THEN f[i] ELSE g[i - 1] \o f[i]]
           T == {m \in Nat : m <= n => \E g : Solves(g, m) /\ g \in [1..m -> Seq(W)]}
<1>1. f \in Seq(Seq(W)) /\ Len(f) = n
  OBVIOUS
<1>2. CASE n = 0
  <2>1. FlattenSeq(f) = f
    BY <1>1, <1>2 DEF FlattenSeq
  <2>2. f = <<>>
    BY <1>1, <1>2
  <2> QED BY <2>1, <2>2
<1>3. CASE n # 0
  <2>1. 0 \in T
    <3> DEFINE g == [i \in 1..0 |-> f[i]]
    <3>1. Solves(g, 0) /\ g \in [1..0 -> Seq(W)]
      OBVIOUS
    <3> HIDE DEF Solves, g
    <3> QED BY <3>1
  <2>2. ASSUME NEW m \in T PROVE m + 1 \in T
    <3>1. SUFFICES ASSUME m + 1 <= n PROVE \E g : Solves(g, m + 1) /\ g \in [1..(m + 1) -> Seq(W)]
      <4>1. m + 1 \in Nat
        OBVIOUS
      <4> HIDE DEF Solves
      <4> QED BY <4>1
    <3>2. m \in Nat /\ m <= n
      BY <3>1
    <3>3. PICK h : Solves(h, m) /\ h \in [1..m -> Seq(W)]
      BY <3>2
    <3> DEFINE g == [i \in 1..(m + 1) |-> IF i = 1 THEN f[i] ELSE h[i - 1] \o f[i]]
    <3>4. ASSUME NEW i \in 1..(m + 1)
          PROVE  g[i] \in Seq(W) /\ (i \in 1..m => g[i] = h[i])
      <4>1. i \in 1..n /\ f[i] \in Seq(W)
        BY <3>1, <3>2
      <4>2. i # 1 => i - 1 \in 1..m /\ h[i - 1] \in Seq(W)
        BY <3>2, <3>3
      <4>3. g[i] \in Seq(W)
        BY <4>1, <4>2
      <4>4. i \in 1..m => h[i] = IF i = 1 THEN f[i] ELSE h[i - 1] \o f[i]
        BY <3>3
      <4> QED BY <4>3, <4>4
    <3>5. ASSUME NEW i \in 1..(m + 1) PROVE g[i] = IF i = 1 THEN f[i] ELSE g[i - 1] \o f[i]
      <4>1. CASE i = 1
        BY <4>1
      <4>2. CASE i # 1
        <5>1. i - 1 \in 1..m /\ i - 1 \in 1..(m + 1)
          BY <3>2, <4>2
        <5>2. g[i - 1] = h[i - 1]
          BY <3>4, <5>1
        <5>3. g[i] = h[i - 1] \o f[i]
          BY <4>2
        <5> QED BY <4>2, <5>2, <5>3
      <4> QED BY <4>1, <4>2
    <3>6. Solves(g, m + 1)
      <4>1. g = [i \in 1..(m + 1) |-> g[i]]
        OBVIOUS
      <4> HIDE DEF g
      <4> QED BY <3>5, <4>1
    <3>7. g \in [1..(m + 1) -> Seq(W)]
      <4>1. g = [i \in 1..(m + 1) |-> g[i]]
        OBVIOUS
      <4> HIDE DEF g
      <4> QED BY <3>4, <4>1
    <3> HIDE DEF g, Solves
    <3> QED BY <3>6, <3>7
  <2>3. n \in T
    <3>1. T \in SUBSET Nat
      OBVIOUS
    <3> HIDE DEF T
    <3> QED BY <2>1, <2>2, <3>1, NatInduct
  <2>4. PICK g : Solves(g, n) /\ g = CHOOSE h : Solves(h, n)
    <3> HIDE DEF Solves
    <3>1. \E h : Solves(h, n)
      BY <2>3
    <3> QED BY <3>1
  <2>5. FlattenSeq(f) = g[n]
    BY <1>1, <1>3, <2>4 DEF FlattenSeq
  <2> DEFINE U == {m \in Nat : m + 1 <= n => g[m + 1] \in Seq(W)}
  <2>6. 0 \in U
    BY <1>3, <2>4
  <2>7. ASSUME NEW m \in U PROVE m + 1 \in U
    <3>1. SUFFICES ASSUME (m + 1) + 1 <= n PROVE g[(m + 1) + 1] \in Seq(W)
      OBVIOUS
    <3>2. m \in Nat /\ m + 1 <= n /\ m + 2 \in 1..n /\ m + 2 # 1 /\ (m + 2) - 1 = m + 1 /\ (m + 1) + 1 = m + 2
      BY <3>1
    <3>3. g[m + 1] \in Seq(W) /\ f[m + 2] \in Seq(W)
      BY <3>2
    <3>4. g[m + 2] = g[m + 1] \o f[m + 2]
      BY <2>4, <3>2
    <3>5. g[m + 2] \in Seq(W)
      BY <3>3, <3>4, ConcatProperties
    <3> QED BY <3>2, <3>5
  <2>8. U = Nat
    <3>1. U \in SUBSET Nat
      OBVIOUS
    <3> HIDE DEF U
    <3> QED BY <2>6, <2>7, <3>1, NatInduct
  <2>9. n - 1 \in Nat /\ (n - 1) + 1 = n
    BY <1>3
  <2>10. g[n] \in Seq(W)
    <3>1. n - 1 \in U
      BY <2>8, <2>9
    <3> QED BY <2>9, <3>1
  <2> QED BY <2>5, <2>10
<1> QED BY <1>2, <1>3

\* The parts of Snapshots: what is met below an entry, the walk from an entry
\* given the walks w from older ones, and a function that is such a walk.
Below(e, w) == FlattenSeq([c \in Capabilities |-> w[published[e].dependencies[c]]])
Walk(s, w, e) == IF e = 0 \/ e \in Owned(s) THEN <<>> ELSE <<e>> \o Below(e, w)
Walks(s, w) == w = [e \in 0..Len(published) |-> Walk(s, w, e)]

\* What is met below an entry is met on the walks of its dependencies.
LEMMA BelowIn ==
    ASSUME NEW e, NEW w, NEW W, \A c \in Capabilities : w[published[e].dependencies[c]] \in Seq(W)
    PROVE  Below(e, w) \in Seq(W)
<1> DEFINE f == [c \in Capabilities |-> w[published[e].dependencies[c]]]
           n == Cardinality(Capabilities)
<1>1. n \in Nat /\ Capabilities = 1..n
  BY ScopeAssumption, FS_CardinalityType
<1>2. f \in [Capabilities -> Seq(W)]
  OBVIOUS
<1> HIDE DEF f, n
<1>3. f \in [1..n -> Seq(W)]
  BY <1>1, <1>2
<1>4. FlattenSeq(f) \in Seq(W)
  BY <1>1, <1>3, FlattenIn
<1> QED BY <1>4 DEF Below, f

\* Dependencies are older, so the recursion of insert_snapshot ends.
LEMMA WalkExists ==
    ASSUME TypeOK, HistoryInv, NEW s
    PROVE  \E w : Walks(s, w)
<1> DEFINE N == Len(published)
           Upto(w, m) == w = [e \in 0..N |-> w[e]] /\ \A e \in 0..m : w[e] = Walk(s, w, e)
           T == {m \in Nat : m <= N => \E w : Upto(w, m)}
<1>1. N \in Nat /\ MaxEntries \in Nat
  BY EntryTyped
<1>2. 0 \in T
  <2> DEFINE w == [e \in 0..N |-> <<>>]
  <2>1. Upto(w, 0)
    BY <1>1 DEF Walk
  <2> HIDE DEF Upto, w
  <2> QED BY <2>1
<1>3. ASSUME NEW m \in T PROVE m + 1 \in T
  <2>1. SUFFICES ASSUME m + 1 <= N PROVE \E w : Upto(w, m + 1)
    <3>1. m + 1 \in Nat
      OBVIOUS
    <3> HIDE DEF Upto
    <3> QED BY <3>1
  <2>2. m \in Nat /\ m <= N /\ m + 1 \in 0..N /\ m + 1 \in 1..N /\ m + 1 # 0
    BY <1>1, <2>1
  <2>3. PICK v : Upto(v, m)
    <3> HIDE DEF Upto
    <3> QED BY <2>2
  <2> DEFINE w == [e \in 0..N |-> IF e = m + 1 THEN Walk(s, v, m + 1) ELSE v[e]]
  <2>4. \A e \in 0..m : e \in 0..N /\ e # m + 1 /\ w[e] = v[e]
    BY <1>1, <2>2
  <2>5. w[m + 1] = Walk(s, v, m + 1) /\ w = [e \in 0..N |-> w[e]]
    BY <2>2
  <2> HIDE DEF w
  <2>6. ASSUME NEW e \in 0..(m + 1) PROVE Walk(s, w, e) = Walk(s, v, e)
    <3>1. CASE e = 0
      BY <3>1 DEF Walk
    <3>2. CASE e # 0
      <4>1. e \in 1..N /\ e <= m + 1
        BY <1>1, <2>2, <3>2
      <4>2. ASSUME NEW c \in Capabilities
            PROVE  w[published[e].dependencies[c]] = v[published[e].dependencies[c]]
        <5>1. published[e].dependencies[c] \in 0..MaxEntries /\ published[e].dependencies[c] < e
          BY <4>1, EntryTyped DEF HistoryInv
        <5>2. published[e].dependencies[c] \in 0..m
          BY <1>1, <2>2, <4>1, <5>1
        <5> QED BY <2>4, <5>2
      <4>3. [c \in Capabilities |-> w[published[e].dependencies[c]]]
              = [c \in Capabilities |-> v[published[e].dependencies[c]]]
        BY <4>2
      <4> QED BY <4>3 DEF Walk, Below
    <3> QED BY <3>1, <3>2
  <2>7. ASSUME NEW e \in 0..(m + 1) PROVE w[e] = Walk(s, w, e)
    <3>1. CASE e = m + 1
      BY <2>5, <2>6, <3>1
    <3>2. CASE e # m + 1
      <4>1. e \in 0..m
        BY <2>2, <3>2
      <4> QED BY <2>3, <2>4, <2>6, <4>1
    <3> QED BY <3>1, <3>2
  <2>8. Upto(w, m + 1)
    BY <2>5, <2>7
  <2> HIDE DEF Upto
  <2> QED BY <2>8
<1>4. N \in T
  <2>1. T \in SUBSET Nat
    OBVIOUS
  <2> HIDE DEF T
  <2> QED BY <1>1, <1>2, <1>3, <2>1, NatInduct
<1>5. PICK w : Upto(w, N)
  <2> HIDE DEF Upto
  <2> QED BY <1>1, <1>4
<1>6. w = [e \in 0..N |-> Walk(s, w, e)]
  <2> HIDE DEF N
  <2> QED BY <1>5
<1> QED BY <1>6 DEF Walks

\* The snapshots that a root meets are entries it published itself.
LEMMA RootSnapshots ==
    ASSUME TypeOK, HistoryInv, EntryInv, NEW s \in Roots
    PROVE  Snapshots(s) \in Seq({e \in 1..Len(published) : published[e].scope = s})
<1> DEFINE W == {e \in 1..Len(published) : published[e].scope = s}
           N == Len(published)
           w == CHOOSE v : Walks(s, v)
           Safe(e) == e = 0 \/ e \in W => w[e] \in Seq(W)
           T == {m \in Nat : \A e \in 0..m : e <= N => Safe(e)}
<1>1. N \in Nat /\ MaxEntries \in Nat /\ s \in Scopes
  BY EntryTyped DEF Roots
<1>2. Walks(s, w)
  BY WalkExists
<1> HIDE DEF w
<1>3. \A e \in 0..N : w[e] = Walk(s, w, e)
  BY <1>2 DEF Walks
<1>4. ASSUME NEW e \in W, NEW c \in Capabilities, NEW d, d = published[e].dependencies[c]
      PROVE  d \in 0..N /\ d < e /\ (d = 0 \/ d \in W)
  <2>1. /\ d \in 0..MaxEntries /\ d < e
        /\ d # 0 => published[d].scope = s
    BY <1>4, EntryTyped DEF HistoryInv
  <2>2. d \in 0..N /\ (d # 0 => d \in 1..N)
    BY <1>1, <2>1
  <2> QED BY <2>1, <2>2
<1>5. 0 \in T
  <2>0. 0 \in 0..N /\ Walk(s, w, 0) = <<>>
    BY <1>1 DEF Walk
  <2>1. w[0] = <<>>
    BY <1>3, <2>0
  <2>2. Safe(0)
    BY <2>1
  <2> HIDE DEF Safe
  <2>3. \A e \in 0..0 : e = 0
    OBVIOUS
  <2> QED BY <2>2, <2>3
<1>6. ASSUME NEW m \in T PROVE m + 1 \in T
  <2>1. m \in Nat /\ m + 1 \in Nat /\ \A e \in 0..m : e <= N => Safe(e)
    OBVIOUS
  <2>2. ASSUME m + 1 <= N, m + 1 \in W PROVE w[m + 1] \in Seq(W)
    <3>1. m + 1 \in 0..N /\ m + 1 # 0
      BY <1>1, <2>1, <2>2
    <3>2. CASE m + 1 \in Owned(s)
      <4>1. w[m + 1] = <<>>
        BY <1>3, <3>1, <3>2 DEF Walk
      <4> QED BY <4>1
    <3>3. CASE m + 1 \notin Owned(s)
      <4>1. \A c \in Capabilities : w[published[m + 1].dependencies[c]] \in Seq(W)
        <5>1. ASSUME NEW c \in Capabilities PROVE w[published[m + 1].dependencies[c]] \in Seq(W)
          <6> DEFINE d == published[m + 1].dependencies[c]
          <6>1. d \in 0..N /\ d < m + 1 /\ (d = 0 \/ d \in W)
            BY <1>4, <2>2
          <6> HIDE DEF d
          <6>2. d \in 0..m /\ d <= N
            BY <1>1, <2>1, <6>1
          <6>3. w[d] \in Seq(W)
            BY <2>1, <6>1, <6>2
          <6> QED BY <6>3 DEF d
        <5> QED BY <5>1
      <4>2. Below(m + 1, w) \in Seq(W)
        BY <4>1, BelowIn
      <4>3. w[m + 1] = <<m + 1>> \o Below(m + 1, w)
        BY <1>3, <3>1, <3>3 DEF Walk
      <4>4. <<m + 1>> \in Seq(W)
        BY <2>2
      <4> QED BY <4>2, <4>3, <4>4, ConcatProperties
    <3> QED BY <3>2, <3>3
  <2>3. ASSUME NEW e \in 0..(m + 1), e <= N PROVE Safe(e)
    <3>1. e = m + 1 \/ e \in 0..m
      BY <2>1
    <3>2. m + 1 # 0
      BY <2>1
    <3>3. CASE e = m + 1
      BY <2>2, <2>3, <3>2, <3>3
    <3>4. CASE e \in 0..m
      <4> HIDE DEF Safe
      <4> QED BY <2>1, <2>3, <3>4
    <3> QED BY <3>1, <3>3, <3>4
  <2> HIDE DEF Safe
  <2> QED BY <2>1, <2>3
<1>7. T = Nat
  <2>1. T \in SUBSET Nat
    OBVIOUS
  <2> HIDE DEF T
  <2> QED BY <1>5, <1>6, <2>1, NatInduct
<1>8. \A e \in 0..N : Safe(e)
  <2>1. N \in T
    BY <1>1, <1>7
  <2>2. \A e \in 0..N : e <= N
    BY <1>1
  <2> HIDE DEF Safe
  <2> QED BY <2>1, <2>2
<1> DEFINE f == [c \in Capabilities |-> IF entries[s][c] = 0 THEN <<>> ELSE Below(entries[s][c], w)]
           n == Cardinality(Capabilities)
<1>9. Snapshots(s) = FlattenSeq(f)
  BY DEF Snapshots, Below, Walks, Walk, w
<1>10. ASSUME NEW c \in Capabilities PROVE f[c] \in Seq(W)
  <2>1. CASE entries[s][c] = 0
    <3>1. f[c] = <<>>
      BY <2>1
    <3> HIDE DEF f, W
    <3> QED BY <3>1
  <2>2. CASE entries[s][c] # 0
    <3> DEFINE e == entries[s][c]
    <3>1. e \in 1..N /\ published[e].scope = s
      BY <1>1, <2>2 DEF TypeOK, EntryInv
    <3>2. e \in W /\ f[c] = Below(e, w)
      BY <2>2, <3>1
    <3> HIDE DEF e, f
    <3>3. \A a \in Capabilities : w[published[e].dependencies[a]] \in Seq(W)
      <4>1. ASSUME NEW a \in Capabilities PROVE w[published[e].dependencies[a]] \in Seq(W)
        <5> DEFINE d == published[e].dependencies[a]
        <5>1. d \in 0..N /\ (d = 0 \/ d \in W)
          BY <1>4, <3>2
        <5> HIDE DEF d
        <5>2. w[d] \in Seq(W)
          BY <1>8, <5>1
        <5> QED BY <5>2 DEF d
      <4> QED BY <4>1
    <3>4. Below(e, w) \in Seq(W)
      BY <3>3, BelowIn
    <3> QED BY <3>2, <3>4
  <2> QED BY <2>1, <2>2
<1>11. n \in Nat /\ Capabilities = 1..n
  BY ScopeAssumption, FS_CardinalityType
<1>12. f \in [1..n -> Seq(W)]
  <2>1. f = [c \in Capabilities |-> f[c]]
    OBVIOUS
  <2> HIDE DEF f, n, W
  <2> QED BY <1>10, <1>11, <2>1
<1>13. FlattenSeq(f) \in Seq(W)
  <2> HIDE DEF f, n, W
  <2> QED BY <1>11, <1>12, FlattenIn
<1> QED BY <1>9, <1>13

\* As long as nothing is withdrawn, the graph of the teardown of a root is what
\* the root sees: runtime_teardown_order finds an order.
THEOREM RootTeardown == Spec => []RootTeardownFindsOrder
<1>1. ASSUME Inv PROVE RootTeardownFindsOrder
  <2>1. SUFFICES ASSUME withdrawn = {}, NEW s \in Roots, is_open(s)
                 PROVE  Resolves(runtime_graph(s))
    BY DEF RootTeardownFindsOrder
  <2>2. TypeOK /\ HistoryInv /\ EntryInv /\ KeptInv /\ s \in Scopes
    BY <1>1 DEF Inv, Roots
  <2> DEFINE W == {e \in 1..Len(published) : published[e].scope = s}
             snapshots == Snapshots(s)
             Id(i) == published[snapshots[i]].definition.id
             first == {i \in 1..Len(snapshots) :
                         entries[s][Id(i)] = 0 /\ \A j \in 1..(i - 1) : Id(j) # Id(i)}
  <2>3. runtime_graph(s) = {published[e].definition : e \in Owned(s) \cup {snapshots[i] : i \in first}}
    BY DEF runtime_graph
  <2>4. snapshots \in Seq(W)
    BY <2>2, RootSnapshots
  <2> HIDE DEF snapshots
  <2>5. ASSUME NEW i \in 1..Len(snapshots) PROVE entries[s][Id(i)] # 0
    <3>1. snapshots[i] \in W
      BY <2>4
    <3> QED BY <2>1, <2>2, <3>1 DEF KeptInv, is_open
  <2>6. first = {}
    BY <2>5
  <2>7. runtime_graph(s) = {published[e].definition : e \in Owned(s)}
    BY <2>3, <2>6
  <2>8. \A c \in Capabilities : get(s, c) = entries[s][c]
    <3>1. Len(Path[s]) = 1 /\ Path[s][1] = s /\ 1 \in 1..Len(Path[s])
      BY <2>2, PathOnce DEF Roots
    <3>2. OpenPath(lifecycle, s)
      BY <1>1, <2>1, <2>2 DEF Inv, TreeInv, OpenPath, is_open
    <3>3. ASSUME NEW c \in Capabilities PROVE get(s, c) = entries[s][c]
      <4>1. CASE entries[s][c] = 0
        <5>1. \A j \in 1..Len(Path[s]) : entries[Path[s][j]][c] = 0
          BY <3>1, <4>1
        <5>2. GetIn(lifecycle, entries, s, c) = 0
          BY <5>1, GetNone
        <5> QED BY <4>1, <5>2, GetInIsGet
      <4>2. CASE entries[s][c] # 0
        <5>1. entries[Path[s][1]][c] # 0 /\ \A j \in 1..(1 - 1) : entries[Path[s][j]][c] = 0
          BY <3>1, <4>2
        <5>2. GetIn(lifecycle, entries, s, c) = entries[Path[s][1]][c]
          BY <2>2, <3>1, <3>2, <5>1, GetNearest
        <5> QED BY <3>1, <5>2, GetInIsGet
      <4> QED BY <4>1, <4>2
    <3> QED BY <3>3
  <2>9. runtime_graph(s) = visible_definitions(s)
    BY <2>7, <2>8 DEF visible_definitions, Owned
  <2> QED BY <1>1, <2>1, <2>2, <2>9 DEF Inv, VisibleGraphsResolve
<1> QED BY <1>1, InitInv, NextInv, PTL DEF Spec
=============================================================================
