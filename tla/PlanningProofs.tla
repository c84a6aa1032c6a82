--------------------------- MODULE PlanningProofs ---------------------------
(***************************************************************************)
(* Theorems about Planning, for any catalogs, modules and definitions that *)
(* hosts come with, of any size: the graph search is exact, the loader     *)
(* passes on the closure of its roots or names what is wrong with it, the  *)
(* activation order is topological, an accepted plan can be started, and a *)
(* run is restored exactly from a definition that means the same.          *)
(***************************************************************************)
EXTENDS Planning, Integers, WellFoundedInduction, SequenceTheorems,
        FiniteSetTheorems, TLAPS

----------------------------------------------------------------------------
(* Induction over the natural numbers, with a set in the place of the      *)
(* predicate: the numbers that have the property.                          *)

\* A nonempty set of natural numbers has a smallest member.
LEMMA SmallestMember ==
    ASSUME NEW T \in SUBSET Nat, T # {}
    PROVE  \E x \in T : \A y \in T : x <= y
<1> DEFINE R == {p \in Nat \X Nat : p[1] < p[2]}
<1>1. IsWellFoundedOn(R, Nat)
  BY NatLessThanWellFounded DEF OpToRel
<1>2. PICK x \in T : \A y \in T : ~(<<y, x>> \in R)
  BY <1>1, WFMin
<1>3. SUFFICES ASSUME NEW y \in T PROVE x <= y
  OBVIOUS
<1>4. /\ x \in Nat /\ y \in Nat /\ <<y, x>> \in Nat \X Nat
      /\ <<y, x>>[1] = y /\ <<y, x>>[2] = x
  OBVIOUS
<1>5. ~(<<y, x>>[1] < <<y, x>>[2])
  BY <1>2, <1>4
<1> QED BY <1>4, <1>5

\* A set of natural numbers that holds 0 and every successor holds them all.
LEMMA NatInduct ==
    ASSUME NEW T \in SUBSET Nat, 0 \in T, \A n \in T : n + 1 \in T
    PROVE  T = Nat
<1> SUFFICES ASSUME T # Nat PROVE FALSE
  OBVIOUS
<1>1. Nat \ T # {} /\ (Nat \ T) \in SUBSET Nat
  OBVIOUS
<1>2. PICK x \in Nat \ T : \A y \in Nat \ T : x <= y
  BY <1>1, SmallestMember
<1>3. x # 0 /\ x - 1 \in Nat /\ x - 1 < x
  BY <1>2
<1>4. x - 1 \in T
  BY <1>2, <1>3
<1>5. (x - 1) + 1 \in T
  BY <1>4
<1> QED BY <1>5, <1>2

\* The same up to a bound.
LEMMA NatInductTo ==
    ASSUME NEW N \in Nat, NEW T, 0 \in T,
           \A n \in 0..(N - 1) : n \in T => n + 1 \in T
    PROVE  \A n \in 0..N : n \in T
<1> DEFINE S == {n \in Nat : n <= N => n \in T}
<1>1. S \in SUBSET Nat /\ 0 \in S
  OBVIOUS
<1>2. \A n \in S : n + 1 \in S
  OBVIOUS
<1>3. S = Nat
  BY <1>1, <1>2, NatInduct
<1> QED BY <1>3

----------------------------------------------------------------------------
(* Sets and sequences *)

\* Min chooses a smallest member.
LEMMA MinIn ==
    ASSUME NEW S \in SUBSET Nat, S # {}
    PROVE  Min(S) \in S /\ Min(S) \in Nat /\ \A x \in S : Min(S) <= x
<1>1. \E x \in S : \A y \in S : x <= y
  BY SmallestMember
<1> QED BY <1>1 DEF Min

\* ToSet of a sequence by its positions.
LEMMA ToSetOf ==
    ASSUME NEW S, NEW s \in Seq(S)
    PROVE  /\ DOMAIN s = 1..Len(s) /\ Len(s) \in Nat
           /\ ToSet(s) = {s[i] : i \in 1..Len(s)}
           /\ ToSet(s) \subseteq S
           /\ \A i \in 1..Len(s) : s[i] \in ToSet(s) /\ s[i] \in S
BY DEF ToSet

\* One more element.
LEMMA ToSetAppend ==
    ASSUME NEW S, NEW s \in Seq(S), NEW x \in S
    PROVE  ToSet(Append(s, x)) = ToSet(s) \cup {x}
<1>1. /\ Append(s, x) \in Seq(S) /\ Len(Append(s, x)) = Len(s) + 1 /\ Len(s) \in Nat
      /\ \A i \in 1..Len(s) : Append(s, x)[i] = s[i]
      /\ Append(s, x)[Len(s) + 1] = x
  OBVIOUS
<1>2. /\ ToSet(Append(s, x)) = {Append(s, x)[i] : i \in 1..(Len(s) + 1)}
      /\ ToSet(s) = {s[i] : i \in 1..Len(s)}
  BY <1>1, ToSetOf
<1>3. \A i \in 1..(Len(s) + 1) : i = Len(s) + 1 \/ i \in 1..Len(s)
  BY <1>1
<1>4. Len(s) + 1 \in 1..(Len(s) + 1) /\ \A i \in 1..Len(s) : i \in 1..(Len(s) + 1)
  BY <1>1
<1> QED BY <1>1, <1>2, <1>3, <1>4

\* A sequence without its last element.
LEMMA FrontOf ==
    ASSUME NEW S, NEW s \in Seq(S), s # <<>>
    PROVE  /\ Front(s) \in Seq(S) /\ Len(Front(s)) = Len(s) - 1 /\ Len(s) \in Nat /\ Len(s) >= 1
           /\ \A i \in 1..(Len(s) - 1) : Front(s)[i] = s[i] /\ i \in 1..Len(s)
           /\ Last(s) \in S /\ Last(s) = s[Len(s)]
           /\ ToSet(s) = ToSet(Front(s)) \cup {Last(s)}
<1>1. Len(s) \in Nat /\ Len(s) >= 1
  OBVIOUS
<1>2. /\ Front(s) \in Seq(S) /\ Len(Front(s)) = Len(s) - 1
      /\ \A i \in 1..(Len(s) - 1) : Front(s)[i] = s[i] /\ i \in 1..Len(s)
  <2>1. Front(s) = [i \in 1..(Len(s) - 1) |-> s[i]]
    BY <1>1 DEF Front
  <2>2. \A i \in 1..(Len(s) - 1) : i \in 1..Len(s) /\ s[i] \in S
    BY <1>1
  <2>3. Len(s) - 1 \in Nat
    BY <1>1
  <2>4. Front(s) \in [1..(Len(s) - 1) -> S]
    BY <2>1, <2>2
  <2>5. Front(s) \in Seq(S) /\ Len(Front(s)) = Len(s) - 1
    BY <2>3, <2>4
  <2> QED BY <2>1, <2>2, <2>5
<1>3. Last(s) \in S /\ Last(s) = s[Len(s)]
  BY <1>1 DEF Last
<1>4. /\ ToSet(Front(s)) = {Front(s)[i] : i \in 1..(Len(s) - 1)}
      /\ ToSet(s) = {s[i] : i \in 1..Len(s)}
  BY <1>2, ToSetOf
<1>5. \A i \in 1..Len(s) : i = Len(s) \/ i \in 1..(Len(s) - 1)
  BY <1>1
<1>6. Len(s) \in 1..Len(s)
  BY <1>1
<1> QED BY <1>1, <1>2, <1>3, <1>4, <1>5, <1>6

----------------------------------------------------------------------------
(* Finite sets in the order of a key *)

\* The members below r.
Under(S, f, r) == {q \in S : f[q] < f[r]}
Initial(S, f, T) == T \in SUBSET S /\ \A q \in T, r \in S \ T : f[q] < f[r]

\* What comes next after an initial part has just that part below it.
LEMMA NextUp ==
    ASSUME NEW S, NEW f \in [S -> Nat], NEW T \in SUBSET S, T # S, Initial(S, f, T)
    PROVE  \E r \in S \ T : Under(S, f, r) = T /\ \A q \in S \ T : f[r] <= f[q]
<1> DEFINE V == {f[r] : r \in S \ T}
<1>1. V # {} /\ V \in SUBSET Nat
  OBVIOUS
<1>2. PICK v \in V : \A w \in V : v <= w
  BY <1>1, SmallestMember
<1>3. PICK r \in S \ T : v = f[r]
  OBVIOUS
<1>4. \A q \in S \ T : f[r] <= f[q]
  BY <1>2, <1>3
<1>5. \A q \in S \ T : ~(f[q] < f[r])
  BY <1>4
<1>6. Under(S, f, r) = T
  BY <1>5 DEF Under, Initial
<1> QED BY <1>4, <1>6

\* The initial parts have every size.
LEMMA InitialOf ==
    ASSUME NEW S, IsFiniteSet(S), NEW f \in [S -> Nat],
           \A a, b \in S : f[a] = f[b] => a = b,
           NEW k \in 0..Cardinality(S)
    PROVE  \E T \in SUBSET S : Initial(S, f, T) /\ IsFiniteSet(T) /\ Cardinality(T) = k
<1> DEFINE P(n) == \E T \in SUBSET S : Initial(S, f, T) /\ IsFiniteSet(T) /\ Cardinality(T) = n
           K == {n \in Nat : P(n)}
<1>1. Cardinality(S) \in Nat
  BY FS_CardinalityType
<1>2. 0 \in K
  <2>1. Initial(S, f, {}) /\ IsFiniteSet({}) /\ Cardinality({}) = 0
    BY FS_EmptySet DEF Initial
  <2> QED BY <2>1
<1>3. ASSUME NEW n \in 0..(Cardinality(S) - 1), n \in K PROVE n + 1 \in K
  <2>1. PICK T \in SUBSET S : Initial(S, f, T) /\ IsFiniteSet(T) /\ Cardinality(T) = n
    BY <1>3
  <2>2. T # S
    BY <1>1, <2>1
  <2>3. PICK r \in S \ T : Under(S, f, r) = T /\ \A q \in S \ T : f[r] <= f[q]
    BY <2>1, <2>2, NextUp
  <2>4. Initial(S, f, T \cup {r})
    <3>1. ASSUME NEW q \in S \ (T \cup {r}) PROVE f[r] < f[q]
      <4>1. f[r] # f[q] /\ f[r] <= f[q] /\ f[r] \in Nat /\ f[q] \in Nat
        BY <2>3
      <4> QED BY <4>1
    <3> QED BY <2>1, <3>1 DEF Initial
  <2>5. IsFiniteSet(T \cup {r}) /\ Cardinality(T \cup {r}) = n + 1
    BY <2>1, <2>3, FS_AddElement
  <2>6. P(n + 1)
    BY <2>4, <2>5
  <2> HIDE DEF P
  <2> QED BY <2>6
<1> HIDE DEF P
<1>4. \A n \in 0..Cardinality(S) : n \in K
  BY <1>1, <1>2, <1>3, NatInductTo
<1>5. P(k)
  BY <1>4
<1> QED BY <1>5 DEF P

\* Every place in the order is taken.
LEMMA RankTaken ==
    ASSUME NEW S, IsFiniteSet(S), NEW f \in [S -> Nat],
           \A a, b \in S : f[a] = f[b] => a = b,
           NEW i \in 1..Cardinality(S)
    PROVE  \E r \in S : Cardinality(Under(S, f, r)) = i - 1
<1>1. Cardinality(S) \in Nat
  BY FS_CardinalityType
<1>2. i - 1 \in 0..Cardinality(S) /\ i - 1 # Cardinality(S)
  BY <1>1
<1>3. PICK T \in SUBSET S : Initial(S, f, T) /\ IsFiniteSet(T) /\ Cardinality(T) = i - 1
  BY <1>2, InitialOf
<1>4. T # S
  BY <1>2, <1>3
<1>5. \E r \in S \ T : Under(S, f, r) = T
  BY <1>3, <1>4, NextUp
<1> QED BY <1>3, <1>5

\* No two members take the same place.
LEMMA RankUnique ==
    ASSUME NEW S, IsFiniteSet(S), NEW f \in [S -> Nat],
           \A a, b \in S : f[a] = f[b] => a = b,
           NEW r \in S, NEW q \in S, Cardinality(Under(S, f, r)) = Cardinality(Under(S, f, q))
    PROVE  r = q
<1>1. ASSUME NEW a \in S, NEW b \in S, f[a] < f[b],
             Cardinality(Under(S, f, a)) = Cardinality(Under(S, f, b))
      PROVE  FALSE
  <2>1. IsFiniteSet(Under(S, f, b))
    BY FS_Subset DEF Under
  <2>2. Under(S, f, a) \in SUBSET Under(S, f, b)
    BY <1>1 DEF Under
  <2>3. Under(S, f, b) = Under(S, f, a)
    BY <1>1, <2>1, <2>2, FS_Subset
  <2>4. a \in Under(S, f, b) /\ a \notin Under(S, f, a)
    BY <1>1 DEF Under
  <2> QED BY <2>3, <2>4
<1>2. f[r] = f[q] \/ f[r] < f[q] \/ f[q] < f[r]
  OBVIOUS
<1> QED BY <1>1, <1>2

\* Every member has a place.
LEMMA RankIn ==
    ASSUME NEW S, IsFiniteSet(S), NEW f \in [S -> Nat], NEW r \in S
    PROVE  Cardinality(Under(S, f, r)) + 1 \in 1..Cardinality(S)
<1>1. Cardinality(S) \in Nat /\ IsFiniteSet(Under(S, f, r)) /\ Cardinality(Under(S, f, r)) \in Nat
      /\ Cardinality(Under(S, f, r)) <= Cardinality(S)
  BY FS_CardinalityType, FS_Subset DEF Under
<1>2. Cardinality(Under(S, f, r)) # Cardinality(S)
  <2>1. r \notin Under(S, f, r) /\ Under(S, f, r) \in SUBSET S
    BY DEF Under
  <2> QED BY <2>1, FS_Subset
<1> QED BY <1>1, <1>2

\* Ascending lists the references it is given, each once.
LEMMA AscendingOf ==
    ASSUME NEW S \in SUBSET Nat, IsFiniteSet(S)
    PROVE  /\ Cardinality(S) \in Nat
           /\ DOMAIN Ascending(S) = 1..Cardinality(S)
           /\ \A i \in 1..Cardinality(S) : Ascending(S)[i] \in S
           /\ \A r \in S : \E i \in 1..Cardinality(S) : Ascending(S)[i] = r
<1> DEFINE f == [r \in S |-> r]
           n == Cardinality(S)
           A == Ascending(S)
<1>1. n \in Nat
  BY FS_CardinalityType
<1>2. f \in [S -> Nat] /\ \A a, b \in S : f[a] = f[b] => a = b
  OBVIOUS
<1>3. \A r \in S : Under(S, f, r) = {q \in S : q < r}
  BY DEF Under
<1>4. /\ DOMAIN A = 1..n
      /\ \A i \in 1..n : A[i] = CHOOSE r \in S : Cardinality({q \in S : q < r}) = i - 1
  BY DEF Ascending
<1> HIDE DEF f
<1>5. ASSUME NEW i \in 1..n PROVE A[i] \in S /\ Cardinality(Under(S, f, A[i])) = i - 1
  <2>1. \E r \in S : Cardinality(Under(S, f, r)) = i - 1
    BY <1>2, RankTaken
  <2>2. \E r \in S : Cardinality({q \in S : q < r}) = i - 1
    BY <1>3, <2>1
  <2>3. A[i] \in S /\ Cardinality({q \in S : q < A[i]}) = i - 1
    BY <1>4, <2>2
  <2> QED BY <1>3, <2>3
<1>6. ASSUME NEW r \in S PROVE \E i \in 1..n : A[i] = r
  <2> DEFINE i == Cardinality(Under(S, f, r)) + 1
  <2>1. i \in 1..n /\ i - 1 = Cardinality(Under(S, f, r))
    <3>1. i \in 1..n
      BY <1>2, RankIn
    <3>2. Cardinality(Under(S, f, r)) \in Nat
      BY FS_CardinalityType, FS_Subset DEF Under
    <3> QED BY <3>1, <3>2
  <2>2. A[i] \in S /\ Cardinality(Under(S, f, A[i])) = Cardinality(Under(S, f, r))
    BY <1>5, <2>1
  <2>3. A[i] = r
    BY <1>2, <2>2, RankUnique
  <2> QED BY <2>1, <2>3
<1> QED BY <1>1, <1>4, <1>5, <1>6

\* The keys of a sequence.
Keys(G, s) == {G[s[i]] : i \in 1..Len(s)}
Below(K, x) == {y \in K : y < x}

\* Different keys are as many as what has them.
LEMMA ImageSize ==
    ASSUME NEW S, IsFiniteSet(S), NEW f \in [S -> Nat], \A a, b \in S : f[a] = f[b] => a = b
    PROVE  IsFiniteSet({f[k] : k \in S}) /\ Cardinality({f[k] : k \in S}) = Cardinality(S)
<1> DEFINE T == {f[k] : k \in S}
<1>1. f \in Injection(S, T) /\ f \in Surjection(S, T)
  BY DEF Injection, Surjection, IsInjective
<1>2. ExistsBijection(S, T)
  BY <1>1 DEF ExistsBijection, Bijection
<1> HIDE DEF T
<1>3. IsFiniteSet(T) /\ Cardinality(T) = Cardinality(S)
  BY <1>2, FS_Bijection
<1> QED BY <1>3 DEF T

\* The elements of s have different keys.
Keyed(W, G, s, key) ==
    /\ s \in Seq(W) /\ G \in [W -> Nat]
    /\ key \in [1..Len(s) -> Nat] /\ \A i \in 1..Len(s) : key[i] = G[s[i]]
    /\ \A i, j \in 1..Len(s) : key[i] = key[j] => i = j

\* A has the elements of s, each where as many keys are below its own as there
\* are places before it.
Sorted(W, G, s, A) ==
    /\ s \in Seq(W) /\ G \in [W -> Nat]
    /\ A \in Seq(W) /\ Len(A) = Len(s) /\ ToSet(A) = ToSet(s)
    /\ IsFiniteSet(Keys(G, s)) /\ Cardinality(Keys(G, s)) = Len(s)
    /\ \A i \in 1..Len(s) : Cardinality(Below(Keys(G, s), G[A[i]])) = i - 1

\* ByKey sorts.
LEMMA SortedOf ==
    ASSUME NEW W, NEW G, NEW s, NEW key, Keyed(W, G, s, key)
    PROVE  Sorted(W, G, s, ByKey(s, key))
<1> DEFINE n == Len(s)
           S == 1..n
           A == ByKey(s, key)
<1>1. /\ n \in Nat /\ DOMAIN s = S /\ G \in [W -> Nat] /\ s \in Seq(W)
      /\ \A j \in S : s[j] \in W
  BY DEF Keyed
<1>2. IsFiniteSet(S) /\ Cardinality(S) = n
  BY <1>1, FS_Interval
<1>3. /\ key \in [S -> Nat] /\ \A a, b \in S : key[a] = key[b] => a = b
      /\ \A j \in S : key[j] = G[s[j]]
  BY <1>1 DEF Keyed
<1>4. \A j \in S : Under(S, key, j) = {k \in S : key[k] < key[j]}
  BY DEF Under
<1> DEFINE c(i) == CHOOSE j \in S : Cardinality({k \in S : key[k] < key[j]}) = i - 1
<1>5. A = [i \in S |-> s[c(i)]]
  BY <1>1 DEF ByKey
<1>6. ASSUME NEW i \in S PROVE c(i) \in S /\ Cardinality(Under(S, key, c(i))) = i - 1 /\ A[i] = s[c(i)]
  <2>1. \E r \in S : Cardinality(Under(S, key, r)) = i - 1
    <3>1. i \in 1..Cardinality(S)
      BY <1>2
    <3> HIDE DEF S
    <3> QED BY <1>2, <1>3, <3>1, RankTaken
  <2>2. \E j \in S : Cardinality({k \in S : key[k] < key[j]}) = i - 1
    BY <1>4, <2>1
  <2>3. c(i) \in S /\ Cardinality({k \in S : key[k] < key[c(i)]}) = i - 1
    BY <2>2
  <2>4. A[i] = s[c(i)]
    BY <1>5
  <2> HIDE DEF c
  <2> QED BY <1>4, <2>3, <2>4
<1> HIDE DEF c
<1>7. ASSUME NEW r \in S PROVE \E i \in S : A[i] = s[r]
  <2> DEFINE i == Cardinality(Under(S, key, r)) + 1
  <2>1. i \in S /\ i - 1 = Cardinality(Under(S, key, r))
    <3>1. i \in S
      BY <1>2, <1>3, RankIn
    <3>2. Cardinality(Under(S, key, r)) \in Nat
      BY <1>2, FS_CardinalityType, FS_Subset DEF Under
    <3> QED BY <3>1, <3>2
  <2>2. c(i) \in S /\ Cardinality(Under(S, key, c(i))) = Cardinality(Under(S, key, r)) /\ A[i] = s[c(i)]
    BY <1>6, <2>1
  <2>3. c(i) = r
    BY <1>2, <1>3, <2>2, RankUnique
  <2> QED BY <2>1, <2>2, <2>3
<1>8. A \in [S -> W]
  <2>1. \A i \in S : A[i] \in W
    BY <1>1, <1>6
  <2> QED BY <1>5, <2>1
<1>9. A \in Seq(W) /\ Len(A) = n
  BY <1>1, <1>8
<1>10. ToSet(A) = {A[i] : i \in S} /\ ToSet(s) = {s[i] : i \in S}
  <2>1. DOMAIN A = S /\ DOMAIN s = S
    BY <1>1, <1>8
  <2> QED BY <2>1 DEF ToSet
<1>11. ToSet(A) = ToSet(s)
  <2>1. \A x \in ToSet(A) : x \in ToSet(s)
    BY <1>6, <1>10
  <2>2. \A x \in ToSet(s) : x \in ToSet(A)
    <3>1. SUFFICES ASSUME NEW r \in S PROVE s[r] \in ToSet(A)
      BY <1>10
    <3>2. \E i \in S : A[i] = s[r]
      BY <1>7
    <3> HIDE DEF A, S
    <3> QED BY <1>10, <3>2
  <2> QED BY <2>1, <2>2
<1>12. Keys(G, s) = {key[k] : k \in S}
  BY <1>3 DEF Keys
<1>13. IsFiniteSet(Keys(G, s)) /\ Cardinality(Keys(G, s)) = n
  BY <1>2, <1>3, <1>12, ImageSize
<1>14. ASSUME NEW i \in S PROVE Cardinality(Below(Keys(G, s), G[A[i]])) = i - 1
  <2>1. PICK j \in S : j = c(i) /\ Cardinality(Under(S, key, j)) = i - 1 /\ A[i] = s[j]
    BY <1>6
  <2> DEFINE U == Under(S, key, j)
             f == [k \in U |-> key[k]]
  <2>2. U \subseteq S /\ IsFiniteSet(U)
    BY <1>2, FS_Subset DEF Under
  <2>3. f \in [U -> Nat] /\ \A a, b \in U : f[a] = f[b] => a = b
    BY <1>3, <2>2
  <2>4. {f[k] : k \in U} = Below(Keys(G, s), key[j])
    BY <1>12, <1>3 DEF Below, Under
  <2> HIDE DEF U, f
  <2>5. Cardinality({f[k] : k \in U}) = Cardinality(U)
    BY <2>2, <2>3, ImageSize
  <2>6. G[A[i]] = key[j]
    BY <1>3, <2>1
  <2> QED BY <2>1, <2>4, <2>5, <2>6 DEF U
<1> QED BY <1>1, <1>9, <1>11, <1>13, <1>14 DEF Sorted

\* Two sequences with the same keys are sorted alike.
LEMMA SortedSame ==
    ASSUME NEW W, NEW G, NEW s, NEW t, NEW A, NEW B,
           Sorted(W, G, s, A), Sorted(W, G, t, B), Keys(G, s) = Keys(G, t)
    PROVE  /\ Len(s) = Len(t)
           /\ \A i \in 1..Len(s) : G[A[i]] = G[B[i]]
<1> DEFINE K == Keys(G, s)
           f == [x \in K |-> x]
<1>a. s \in Seq(W) /\ t \in Seq(W) /\ G \in [W -> Nat]
  BY DEF Sorted
<1>1. /\ A \in Seq(W) /\ Len(A) = Len(s) /\ ToSet(A) = ToSet(s) /\ IsFiniteSet(K) /\ Cardinality(K) = Len(s)
      /\ \A i \in 1..Len(s) : Cardinality(Below(K, G[A[i]])) = i - 1
  BY DEF Sorted
<1>2. /\ B \in Seq(W) /\ Len(B) = Len(t) /\ ToSet(B) = ToSet(t) /\ Cardinality(K) = Len(t)
      /\ \A i \in 1..Len(t) : Cardinality(Below(K, G[B[i]])) = i - 1
  BY DEF Sorted
<1>3. Len(s) = Len(t)
  BY <1>1, <1>2
<1>4. ASSUME NEW u \in Seq(W), NEW x \in ToSet(u) PROVE G[x] \in Keys(G, u)
  <2>1. PICK i \in 1..Len(u) : x = u[i]
    BY ToSetOf
  <2> QED BY <2>1 DEF Keys
<1>5. \A i \in 1..Len(s) : A[i] \in ToSet(s) /\ B[i] \in ToSet(t)
  BY <1>1, <1>2, <1>3, ToSetOf
<1>6. \A i \in 1..Len(s) : G[A[i]] \in K /\ G[B[i]] \in K
  BY <1>4, <1>5, <1>a
<1>7. K \subseteq Nat
  BY <1>a DEF Keys
<1>8. f \in [K -> Nat] /\ \A a, b \in K : f[a] = f[b] => a = b
  BY <1>7
<1>9. \A x \in K : Under(K, f, x) = Below(K, x)
  BY DEF Under, Below
<1> HIDE DEF K, f
<1>10. ASSUME NEW i \in 1..Len(s) PROVE G[A[i]] = G[B[i]]
  <2>1. PICK x \in K, y \in K : x = G[A[i]] /\ y = G[B[i]]
    BY <1>6
  <2>2. Cardinality(Under(K, f, x)) = Cardinality(Under(K, f, y))
    BY <1>1, <1>2, <1>3, <1>9, <2>1
  <2>3. x = y
    BY <1>1, <1>8, <2>2, RankUnique
  <2> QED BY <2>1, <2>3
<1> QED BY <1>3, <1>10

\* InOrder lists the elements of a sequence without two of the same identifier.
LEMMA InOrderOf ==
    ASSUME NEW W, NEW s \in Seq(W), \A x \in W : x.id \in Nat,
           \A i, j \in 1..Len(s) : s[i].id = s[j].id => i = j
    PROVE  /\ InOrder(s) \in Seq(W) /\ Len(InOrder(s)) = Len(s)
           /\ ToSet(InOrder(s)) = ToSet(s)
<1> DEFINE G == [x \in W |-> x.id]
<1>1. G \in [W -> Nat] /\ \A i \in 1..Len(s) : s[i] \in W /\ G[s[i]] = s[i].id
  OBVIOUS
<1>2. Ids(s) \in [1..Len(s) -> Nat] /\ \A i \in 1..Len(s) : Ids(s)[i] = G[s[i]]
  BY <1>1 DEF Ids
<1> HIDE DEF G
<1>3. Keyed(W, G, s, Ids(s))
  BY <1>1, <1>2 DEF Keyed
<1>4. Sorted(W, G, s, InOrder(s))
  BY <1>3, SortedOf DEF InOrder
<1> QED BY <1>4 DEF Sorted

\* SetToSeq lists a finite set, each member once.
LEMMA SetToSeqOf ==
    ASSUME NEW S, IsFiniteSet(S)
    PROVE  /\ SetToSeq(S) \in Seq(S) /\ ToSet(SetToSeq(S)) = S
           /\ \A i, j \in 1..Len(SetToSeq(S)) : SetToSeq(S)[i] = SetToSeq(S)[j] => i = j
<1> DEFINE n == Cardinality(S)
           s == SetToSeq(S)
<1>1. n \in Nat /\ ExistsBijection(1..n, S)
  BY FS_CardinalityType
<1>2. PICK g \in Bijection(1..n, S) : TRUE
  BY <1>1 DEF ExistsBijection
<1>3. g \in [1..n -> S] /\ IsInjective(g)
  BY <1>2 DEF Bijection, Injection, IsInjective
<1>4. s \in [1..n -> S] /\ IsInjective(s)
  BY <1>3 DEF SetToSeq
<1> HIDE DEF s
<1>5. s \in Seq(S) /\ Len(s) = n
  BY <1>1, <1>4
<1>6. \A i, j \in 1..n : s[i] = s[j] => i = j
  BY <1>4 DEF IsInjective
<1>7. ToSet(s) = S
  <2>1. IsFiniteSet(1..n) /\ Cardinality(1..n) = n
    BY <1>1, FS_Interval
  <2>2. s \in Injection(1..n, S)
    BY <1>4, <1>6 DEF Injection, IsInjective
  <2>3. s \in Surjection(1..n, S)
    BY <2>1, <2>2, FS_Injection
  <2>4. \A x \in S : \E i \in 1..n : s[i] = x
    BY <2>3 DEF Surjection
  <2>5. ToSet(s) = {s[i] : i \in 1..n}
    BY <1>5, ToSetOf
  <2> QED BY <1>4, <2>4, <2>5
<1> QED BY <1>5, <1>6, <1>7 DEF s

----------------------------------------------------------------------------
(* Merged definitions *)

\* Concatenation, for the provers.
Cat(a, b) == a \o b

\* The sequences of a family, joined one after the other.
Joins(n, g, f) ==
    /\ g[1] = f[1] /\ \A i \in 1..(n - 1) : g[i + 1] = Cat(g[i], f[i + 1])
    /\ FlattenSeq(f) = g[n]

\* A family of sequences is concatenated one after the other.
LEMMA FlattenOf ==
    ASSUME NEW W, NEW n \in Nat, n # 0, NEW f \in [1..n -> Seq(W)]
    PROVE  \E g \in [1..n -> Seq(W)] : Joins(n, g, f)
<1> DEFINE Solves(g, m) == g = [i \in 1..m |-> IF i = 1 THEN f[i] ELSE g[i - 1] \o f[i]]
           T == {m \in Nat : m <= n => \E g : Solves(g, m) /\ g \in [1..m -> Seq(W)]}
<1>1. f \in Seq(Seq(W)) /\ Len(f) = n
  OBVIOUS
<1>2. n # 0
  OBVIOUS
<1>3. \E g \in [1..n -> Seq(W)] : Joins(n, g, f)
  <2>1. 0 \in T
    <3> DEFINE g == [i \in 1..0 |-> f[i]]
    <3>1. Solves(g, 0) /\ g \in [1..0 -> Seq(W)]
      OBVIOUS
    <3> HIDE DEF Solves, g
    <3> QED BY <3>1
  <2>2. ASSUME NEW m \in T PROVE m + 1 \in T
    <3>1. SUFFICES ASSUME m + 1 <= n PROVE \E g : Solves(g, m + 1) /\ g \in [1..(m + 1) -> Seq(W)]
      <4>1. m + 1 \in Nat
        OBVIOUS
      <4> HIDE DEF Solves
      <4> QED BY <4>1
    <3>2. m \in Nat /\ m <= n
      BY <3>1
    <3>3. PICK h : Solves(h, m) /\ h \in [1..m -> Seq(W)]
      BY <3>2
    <3> DEFINE g == [i \in 1..(m + 1) |-> IF i = 1 THEN f[i] ELSE h[i - 1] \o f[i]]
    <3>4. ASSUME NEW i \in 1..(m + 1)
          PROVE  g[i] \in Seq(W) /\ (i \in 1..m => g[i] = h[i])
      <4>1. i \in 1..n /\ f[i] \in Seq(W)
        BY <3>1, <3>2
      <4>2. i # 1 => i - 1 \in 1..m /\ h[i - 1] \in Seq(W)
        BY <3>2, <3>3
      <4>3. g[i] \in Seq(W)
        BY <4>1, <4>2
      <4>4. i \in 1..m => h[i] = IF i = 1 THEN f[i] ELSE h[i - 1] \o f[i]
        BY <3>3
      <4> QED BY <4>3, <4>4
    <3>5. ASSUME NEW i \in 1..(m + 1) PROVE g[i] = IF i = 1 THEN f[i] ELSE g[i - 1] \o f[i]
      <4>1. CASE i = 1
        BY <4>1
      <4>2. CASE i # 1
        <5>1. i - 1 \in 1..m /\ i - 1 \in 1..(m + 1)
          BY <3>2, <4>2
        <5>2. g[i - 1] = h[i - 1]
          BY <3>4, <5>1
        <5>3. g[i] = h[i - 1] \o f[i]
          BY <4>2
        <5> QED BY <4>2, <5>2, <5>3
      <4> QED BY <4>1, <4>2
    <3>6. Solves(g, m + 1)
      <4>1. g = [i \in 1..(m + 1) |-> g[i]]
        OBVIOUS
      <4> HIDE DEF g
      <4> QED BY <3>5, <4>1
    <3>7. g \in [1..(m + 1) -> Seq(W)]
      <4>1. g = [i \in 1..(m + 1) |-> g[i]]
        OBVIOUS
      <4> HIDE DEF g
      <4> QED BY <3>4, <4>1
    <3> HIDE DEF g, Solves
    <3> QED BY <3>6, <3>7
  <2>3. n \in T
    <3>1. T \in SUBSET Nat
      OBVIOUS
    <3> HIDE DEF T
    <3> QED BY <2>1, <2>2, <3>1, NatInduct
  <2>4. PICK g : Solves(g, n) /\ g = CHOOSE h : Solves(h, n)
    <3> HIDE DEF Solves
    <3>1. \E h : Solves(h, n)
      BY <2>3
    <3> QED BY <3>1
  <2>5. FlattenSeq(f) = g[n]
    BY <1>1, <1>2, <2>4 DEF FlattenSeq
  <2> DEFINE U == {m \in Nat : m + 1 <= n => g[m + 1] \in Seq(W)}
  <2>6. 0 \in U
    BY <1>2, <2>4
  <2>7. ASSUME NEW m \in U PROVE m + 1 \in U
    <3>1. SUFFICES ASSUME (m + 1) + 1 <= n PROVE g[(m + 1) + 1] \in Seq(W)
      OBVIOUS
    <3>2. m \in Nat /\ m + 1 <= n /\ m + 2 \in 1..n /\ m + 2 # 1 /\ (m + 2) - 1 = m + 1 /\ (m + 1) + 1 = m + 2
      BY <3>1
    <3>3. g[m + 1] \in Seq(W) /\ f[m + 2] \in Seq(W)
      BY <3>2
    <3>4. g[m + 2] = g[m + 1] \o f[m + 2]
      BY <2>4, <3>2
    <3>5. g[m + 2] \in Seq(W)
      BY <3>3, <3>4, ConcatProperties
    <3> QED BY <3>2, <3>5
  <2>8. U = Nat
    <3>1. U \in SUBSET Nat
      OBVIOUS
    <3> HIDE DEF U
    <3> QED BY <2>6, <2>7, <3>1, NatInduct
  <2>9. ASSUME NEW i \in 1..n PROVE g[i] \in Seq(W) /\ (i # n => g[i + 1] = g[i] \o f[i + 1])
    <3>1. g[i] \in Seq(W)
      <4>1. PICK m \in Nat : i = m + 1 /\ m + 1 <= n
        <5>1. i - 1 \in Nat /\ i = (i - 1) + 1 /\ i <= n
          OBVIOUS
        <5> HIDE DEF U, T, Solves
        <5> QED BY <5>1
      <4>2. m \in U
        BY <2>8
      <4> QED BY <4>1, <4>2
    <3>2. i # n => i + 1 \in 1..n /\ i + 1 # 1 /\ (i + 1) - 1 = i
      OBVIOUS
    <3> QED BY <2>4, <3>1, <3>2
  <2>10. g \in [1..n -> Seq(W)] /\ g[1] = f[1]
    <3>1. g = [i \in 1..n |-> g[i]]
      BY <2>4
    <3>2. g[1] = f[1]
      BY <1>2, <2>4
    <3> HIDE DEF Solves
    <3> QED BY <2>9, <3>1, <3>2
  <2>11. \A i \in 1..(n - 1) : g[i + 1] = Cat(g[i], f[i + 1])
    <3>1. SUFFICES ASSUME NEW i \in 1..(n - 1) PROVE g[i + 1] = Cat(g[i], f[i + 1])
      OBVIOUS
    <3>2. i \in 1..n /\ i # n
      OBVIOUS
    <3> HIDE DEF Solves, T, U
    <3>3. g[i + 1] = g[i] \o f[i + 1]
      BY <2>9, <3>2
    <3> QED BY <3>3 DEF Cat
  <2>12. Joins(n, g, f)
    BY <2>5, <2>10, <2>11 DEF Joins
  <2> HIDE DEF Solves, T, U
  <2> QED BY <2>10, <2>12
<1> QED BY <1>3

\* Concatenation keeps to the elements of the sequences.
LEMMA FlattenIn ==
    ASSUME NEW W, NEW n \in Nat, NEW f \in [1..n -> Seq(W)]
    PROVE  FlattenSeq(f) \in Seq(W)
<1>1. f \in Seq(Seq(W)) /\ Len(f) = n
  OBVIOUS
<1>2. CASE n = 0
  <2>1. FlattenSeq(f) = f
    BY <1>1, <1>2 DEF FlattenSeq
  <2>2. f = <<>>
    BY <1>1, <1>2
  <2> QED BY <2>1, <2>2
<1>3. CASE n # 0
  <2>1. \E g \in [1..n -> Seq(W)] : FlattenSeq(f) = g[n]
    BY <1>3, FlattenOf DEF Joins
  <2> QED BY <1>3, <2>1
<1> QED BY <1>2, <1>3

\* The elements of a sequence are finitely many.
LEMMA ToSetFinite ==
    ASSUME NEW S, NEW s \in Seq(S)
    PROVE  IsFiniteSet(ToSet(s)) /\ Cardinality(ToSet(s)) \in Nat
<1>1. IsFiniteSet(1..Len(s))
  BY FS_Interval
<1>2. s \in [1..Len(s) -> ToSet(s)] /\ \A x \in ToSet(s) : \E i \in 1..Len(s) : s[i] = x
  BY ToSetOf
<1>3. s \in Surjection(1..Len(s), ToSet(s))
  BY <1>2 DEF Surjection
<1> QED BY <1>1, <1>3, FS_Surjection, FS_CardinalityType

\* The modules of a builder.
ModulesTyped(ms) ==
    /\ DOMAIN ms \subseteq Nat /\ IsFiniteSet(DOMAIN ms)
    /\ \A m \in DOMAIN ms : ms[m] \in Registrations /\ ms[m].id = m

Slot == [id : Nat, ownership : {"declarative", "reactive"}, kind : Nat, identity : Nat,
         deps : Requirements]

\* Slots come from somewhere and are finitely many.
LEMMA SlotsTyped ==
    ASSUME NEW ms, ModulesTyped(ms)
    PROVE  /\ IsFiniteSet(SlotsOf(ms)) /\ SlotsOf(ms) \subseteq Slot
           /\ \A s \in SlotsOf(ms) : \E m \in DOMAIN ms : \E i \in DOMAIN ms[m].capabilities :
                 s = ms[m].capabilities[i]
<1> DEFINE C(m) == ToSet(ms[m].capabilities)
           U == {C(m) : m \in DOMAIN ms}
           f == [m \in DOMAIN ms |-> C(m)]
<1>1. SlotsOf(ms) = UNION U
  BY DEF SlotsOf, Contributions
<1>2. \A m \in DOMAIN ms : ms[m].capabilities \in Seq(Slot)
  BY DEF ModulesTyped, Registrations, Slot
<1>3. f \in [DOMAIN ms -> U] /\ \A c \in U : \E m \in DOMAIN ms : f[m] = c
  OBVIOUS
<1>4. f \in Surjection(DOMAIN ms, U)
  BY <1>3 DEF Surjection
<1>5. IsFiniteSet(U)
  BY <1>4, FS_Surjection DEF ModulesTyped
<1>6. \A c \in U : IsFiniteSet(c) /\ c \subseteq Slot
  BY <1>2, ToSetFinite, ToSetOf
<1>7. IsFiniteSet(UNION U)
  BY <1>5, <1>6, FS_UNION
<1>8. ASSUME NEW s \in SlotsOf(ms)
      PROVE  \E m \in DOMAIN ms : \E i \in DOMAIN ms[m].capabilities : s = ms[m].capabilities[i]
  <2>1. PICK m \in DOMAIN ms : s \in C(m)
    BY <1>1, <1>8
  <2> QED BY <1>2, <2>1, ToSetOf
<1> QED BY <1>1, <1>6, <1>7, <1>8

----------------------------------------------------------------------------
(* Checks in a row *)

\* Checks have names, none of them "none".
Checks(cs, n) ==
    Len(cs) = n /\ \A i \in 1..n : cs[i][1] # "none" /\ cs[i][2] \in BOOLEAN

\* Nothing is refused exactly when every check holds; else the name of one is.
LEMMA RefusalOf ==
    ASSUME NEW cs, NEW n \in Nat, Checks(cs, n)
    PROVE  /\ FirstRefusal(cs) = "none" <=> \A i \in 1..n : cs[i][2] = TRUE
           /\ FirstRefusal(cs) # "none" => \E i \in 1..n : FirstRefusal(cs) = cs[i][1] /\ cs[i][2] # TRUE
<1> DEFINE I == {i \in 1..Len(cs) : ~cs[i][2]}
           k == SelectInSeq(cs, LAMBDA c : ~c[2])
<1>1. Len(cs) = n /\ \A i \in 1..n : cs[i][2] \in BOOLEAN /\ cs[i][1] # "none"
  BY DEF Checks
<1>2. k = IF I # {} THEN Min(I) ELSE 0
  BY DEF SelectInSeq
<1>3. FirstRefusal(cs) = IF k = 0 THEN "none" ELSE cs[k][1]
  BY DEF FirstRefusal
<1>4. \A i \in 1..n : i \in I <=> cs[i][2] # TRUE
  BY <1>1
<1>5. I \subseteq 1..n /\ I \in SUBSET Nat
  BY <1>1
<1> HIDE DEF I, k
<1>6. CASE I = {}
  <2>1. k = 0 /\ FirstRefusal(cs) = "none"
    BY <1>2, <1>3, <1>6
  <2> QED BY <1>4, <1>6, <2>1
<1>7. CASE I # {}
  <2>1. k \in I
    BY <1>2, <1>5, <1>7, MinIn
  <2>2. k \in 1..n /\ k # 0
    BY <1>5, <2>1
  <2>3. FirstRefusal(cs) = cs[k][1] /\ cs[k][1] # "none" /\ cs[k][2] # TRUE
    BY <1>1, <1>3, <1>4, <2>1, <2>2
  <2> QED BY <2>2, <2>3
<1> QED BY <1>6, <1>7

\* What the builder has checked when nothing is refused.
LEMMA ContributionsPass ==
    ASSUME NEW ms
    PROVE  /\ RefusedContributions(ms) = "none" =>
                 /\ SlotsOwned(ms) /\ TasksOwned(ms) /\ RequirementsMet(ms)
                 /\ FactoriesFit(ms) /\ PluginsFit(ms) /\ ConfigurationAgrees(ms)
           /\ RefusedContributions(ms) \in {"none", "slots", "task_owners", "requirements", "factories",
                                            "plugins", "configuration"}
<1>1. PICK a, b, c, d, e, f \in BOOLEAN :
          /\ a = SlotsOwned(ms) /\ b = TasksOwned(ms) /\ c = RequirementsMet(ms)
          /\ d = FactoriesFit(ms) /\ e = PluginsFit(ms) /\ f = ConfigurationAgrees(ms)
  BY DEF SlotsOwned, TasksOwned, RequirementsMet, FactoriesFit, PluginsFit, ConfigurationAgrees, OneOwner
<1> DEFINE cs == << <<"slots", a>>, <<"task_owners", b>>, <<"requirements", c>>, <<"factories", d>>,
                    <<"plugins", e>>, <<"configuration", f>> >>
<1>2. RefusedContributions(ms) = FirstRefusal(cs)
  BY <1>1 DEF RefusedContributions
<1>3. Checks(cs, 6)
  <2>1. \A i \in 1..6 : cs[i][1] # "none"
    OBVIOUS
  <2>2. \A i \in 1..6 : cs[i][2] \in BOOLEAN
    OBVIOUS
  <2> QED BY <2>1, <2>2 DEF Checks
<1>4. \A i \in 1..6 : cs[i][1] \in {"slots", "task_owners", "requirements", "factories",
                                       "plugins", "configuration"}
  OBVIOUS
<1>5. (\A i \in 1..6 : cs[i][2] = TRUE) => a = TRUE /\ b = TRUE /\ c = TRUE /\ d = TRUE /\ e = TRUE /\ f = TRUE
  <2>1. cs[1][2] = a /\ cs[2][2] = b /\ cs[3][2] = c /\ cs[4][2] = d /\ cs[5][2] = e /\ cs[6][2] = f
    OBVIOUS
  <2> HIDE DEF cs
  <2> QED BY <2>1
<1> HIDE DEF cs
<1>6. /\ FirstRefusal(cs) = "none" <=> \A i \in 1..6 : cs[i][2] = TRUE
      /\ FirstRefusal(cs) # "none" => \E i \in 1..6 : FirstRefusal(cs) = cs[i][1]
  BY <1>3, RefusalOf
<1> QED BY <1>1, <1>2, <1>4, <1>5, <1>6

----------------------------------------------------------------------------
(* Definitions *)

\* The graphs of a definition are over numbers.
LEMMA DefinitionGraphs ==
    ASSUME NEW d \in RunDefinitions
    PROVE  /\ Materialized(d) \subseteq CapabilityDeclarations
           /\ {c.id : c \in Materialized(d)} \in SUBSET Nat
           /\ CapabilityEdges(d) \in SUBSET (Nat \X Nat)
           /\ ToSet(Ids(d.tasks)) \in SUBSET Nat
           /\ TaskEdges(d) \in SUBSET (Nat \X Nat)
<1>1. d.tasks \in Seq(TaskDeclarations) /\ d.capabilities \in Seq(CapabilityDeclarations)
  BY DEF RunDefinitions
<1>2. ToSet(d.tasks) \subseteq TaskDeclarations /\ ToSet(d.capabilities) \subseteq CapabilityDeclarations
  BY <1>1, ToSetOf
<1>3. \A t \in TaskDeclarations : ToSet(t.requires) \subseteq Nat \X Nat /\ ToSet(t.deps) \subseteq Nat
  <2>1. \A t \in TaskDeclarations : t.requires \in Seq(Nat \X Nat) /\ t.deps \in Seq(Nat)
    BY DEF TaskDeclarations, Requirements
  <2> QED BY <2>1, ToSetOf
<1>4. \A c \in CapabilityDeclarations : ToSet(c.deps) \subseteq Nat \X Nat /\ c.id \in Nat
  <2>1. \A c \in CapabilityDeclarations : c.deps \in Seq(Nat \X Nat) /\ c.id \in Nat
    BY DEF CapabilityDeclarations, Requirements
  <2> QED BY <2>1, ToSetOf
<1>5. Required(d) \subseteq Nat \X Nat
  BY <1>2, <1>3, <1>4 DEF Required
<1>6. \A r \in Nat \X Nat : Implicit(r) \in CapabilityDeclarations
  <2>1. \A r \in Nat \X Nat : r[1] \in Nat /\ r[2] \in Nat
    OBVIOUS
  <2>2. <<>> \in Requirements
    BY DEF Requirements
  <2> QED BY <2>1, <2>2 DEF Implicit, CapabilityDeclarations, DefaultKind
<1>7. Materialized(d) \subseteq CapabilityDeclarations
  BY <1>2, <1>5, <1>6 DEF Materialized
<1>8. CapabilityEdges(d) \subseteq Nat \X Nat
  <2>1. SUFFICES ASSUME NEW e \in CapabilityEdges(d) PROVE e \in Nat \X Nat
    OBVIOUS
  <2>a. PICK c \in Materialized(d) : \E r \in ToSet(c.deps) : e = <<c.id, r[1]>>
    BY DEF CapabilityEdges
  <2>2. PICK r \in ToSet(c.deps) : e = <<c.id, r[1]>>
    BY <2>a
  <2>3. c.id \in Nat /\ r \in Nat \X Nat
    BY <1>4, <1>7
  <2> QED BY <2>2, <2>3
<1>9. TaskEdges(d) \subseteq Nat \X Nat
  <2>1. SUFFICES ASSUME NEW e \in TaskEdges(d) PROVE e \in Nat \X Nat
    OBVIOUS
  <2>a. PICK u \in ToSet(d.tasks) : \E q \in ToSet(u.deps) : e = <<u.id, q>>
    BY DEF TaskEdges
  <2>2. PICK q \in ToSet(u.deps) : e = <<u.id, q>>
    BY <2>a
  <2>3. u.id \in Nat /\ q \in Nat
    BY <1>2, <1>3 DEF TaskDeclarations
  <2> QED BY <2>2, <2>3
<1>10. ToSet(Ids(d.tasks)) \subseteq Nat
  <2>1. DOMAIN d.tasks = 1..Len(d.tasks) /\ \A i \in 1..Len(d.tasks) : d.tasks[i].id \in Nat
    <3>1. DOMAIN d.tasks = 1..Len(d.tasks) /\ \A i \in 1..Len(d.tasks) : d.tasks[i] \in TaskDeclarations
      BY <1>1, ToSetOf
    <3> QED BY <3>1 DEF TaskDeclarations
  <2> QED BY <2>1 DEF Ids, ToSet
<1> QED BY <1>4, <1>7, <1>8, <1>9, <1>10

Declaration(s) == [id |-> s.id, kind |-> s.kind, identity |-> s.identity, deps |-> s.deps]
Declarative(ms) == {s \in SlotsOf(ms) : s.ownership = "declarative"}

\* The merged definition has the tasks of the modules and their declared slots.
LEMMA MergeOf ==
    ASSUME NEW ms, ModulesTyped(ms), SlotsOwned(ms), NEW by \in Seq(DOMAIN ms)
    PROVE  /\ MergeDefinition(ms, by) \in RunDefinitions
           /\ ToSet(MergeDefinition(ms, by).tasks) \subseteq Contributions(ms, "tasks")
           /\ ToSet(MergeDefinition(ms, by).capabilities) = {Declaration(s) : s \in Declarative(ms)}
<1> DEFINE D == Declarative(ms)
           s == SetToSeq(D)
           o == InOrder(s)
           W == Contributions(ms, "tasks") \cap TaskDeclarations
           f == [i \in DOMAIN by |-> ms[by[i]].tasks]
           tasks == FlattenSeq(f)
           caps == [i \in DOMAIN o |-> [id |-> o[i].id, kind |-> o[i].kind,
                                          identity |-> o[i].identity, deps |-> o[i].deps]]
<1>1. MergeDefinition(ms, by) = [tasks |-> tasks, capabilities |-> caps]
  BY DEF MergeDefinition, Declarative
<1>2. tasks \in Seq(W)
  <2>1. Len(by) \in Nat /\ DOMAIN by = 1..Len(by)
    OBVIOUS
  <2>2. ASSUME NEW m \in DOMAIN ms PROVE ms[m].tasks \in Seq(W)
    <3>1. ms[m].tasks \in Seq(TaskDeclarations)
      BY DEF ModulesTyped, Registrations
    <3>2. \A i \in 1..Len(ms[m].tasks) : ms[m].tasks[i] \in TaskDeclarations /\ ms[m].tasks[i] \in ToSet(ms[m].tasks)
      BY <3>1, ToSetOf
    <3>3. ToSet(ms[m].tasks) \subseteq Contributions(ms, "tasks")
      BY DEF Contributions
    <3> HIDE DEF W
    <3>4. \A i \in 1..Len(ms[m].tasks) : ms[m].tasks[i] \in W
      BY <3>2, <3>3 DEF W
    <3> QED BY <3>1, <3>4
  <2> HIDE DEF W
  <2>3. f \in [1..Len(by) -> Seq(W)]
    BY <2>1, <2>2
  <2> HIDE DEF f
  <2> QED BY <2>1, <2>3, FlattenIn
<1>3. ToSet(tasks) \subseteq Contributions(ms, "tasks")
  <2> HIDE DEF W, tasks
  <2>1. ToSet(tasks) \subseteq W
    BY <1>2, ToSetOf
  <2> QED BY <2>1 DEF W
<1>4. tasks \in Seq(TaskDeclarations)
  <2> HIDE DEF tasks
  <2>1. W \subseteq TaskDeclarations
    OBVIOUS
  <2> HIDE DEF W
  <2> QED BY <1>2, <2>1, SeqMonotonic
<1>5. IsFiniteSet(D) /\ D \subseteq Slot
  <2>1. D \in SUBSET SlotsOf(ms)
    BY DEF Declarative
  <2> QED BY <2>1, SlotsTyped, FS_Subset
<1>6. \A a, b \in D : a.id = b.id => a = b
  <2>1. SUFFICES ASSUME NEW a \in D, NEW b \in D, a.id = b.id PROVE a = b
    OBVIOUS
  <2>2. a \in SlotsOf(ms) /\ b \in SlotsOf(ms)
    BY DEF Declarative
  <2>a. PICK m \in DOMAIN ms : \E i \in DOMAIN ms[m].capabilities : a = ms[m].capabilities[i]
    BY <2>2, SlotsTyped
  <2>b. PICK n \in DOMAIN ms : \E j \in DOMAIN ms[n].capabilities : b = ms[n].capabilities[j]
    BY <2>2, SlotsTyped
  <2>3. PICK i \in DOMAIN ms[m].capabilities : a = ms[m].capabilities[i]
    BY <2>a
  <2>4. PICK j \in DOMAIN ms[n].capabilities : b = ms[n].capabilities[j]
    BY <2>b
  <2>5. m = n /\ i = j
    BY <2>1, <2>3, <2>4 DEF SlotsOwned, OneOwner
  <2> QED BY <2>3, <2>4, <2>5
<1> HIDE DEF D
<1>7. /\ s \in Seq(D) /\ ToSet(s) = D
      /\ \A i, j \in 1..Len(s) : s[i] = s[j] => i = j
  BY <1>5, SetToSeqOf
<1>8. \A i, j \in 1..Len(s) : s[i].id = s[j].id => i = j
  <2>1. \A i \in 1..Len(s) : s[i] \in D
    BY <1>7
  <2> QED BY <1>6, <1>7, <2>1
<1>9. \A x \in D : x.id \in Nat
  BY <1>5 DEF Slot
<1> HIDE DEF s
<1>10. o \in Seq(D) /\ ToSet(o) = D
  BY <1>7, <1>8, <1>9, InOrderOf
<1> HIDE DEF o
<1>11. DOMAIN o = 1..Len(o) /\ Len(o) \in Nat /\ \A i \in 1..Len(o) : o[i] \in D
  BY <1>10
<1>12. \A x \in D : Declaration(x) \in CapabilityDeclarations
  BY <1>5 DEF Slot, Declaration, CapabilityDeclarations
<1>13. \A i \in 1..Len(o) : caps[i] = Declaration(o[i])
  BY <1>11 DEF Declaration
<1>14. caps \in [1..Len(o) -> CapabilityDeclarations]
  BY <1>11, <1>12 DEF Declaration
<1> HIDE DEF caps
<1>15. caps \in Seq(CapabilityDeclarations) /\ Len(caps) = Len(o)
  BY <1>11, <1>14
<1>16. ToSet(caps) = {Declaration(x) : x \in D}
  <2>1. ToSet(caps) = {caps[i] : i \in 1..Len(o)} /\ ToSet(o) = {o[i] : i \in 1..Len(o)}
    BY <1>10, <1>15, ToSetOf
  <2>2. ToSet(caps) \subseteq {Declaration(x) : x \in D}
    BY <1>11, <1>13, <2>1
  <2>3. ASSUME NEW x \in D PROVE Declaration(x) \in ToSet(caps)
    <3>1. PICK i \in 1..Len(o) : o[i] = x
      BY <1>10, <2>1
    <3> QED BY <1>13, <2>1, <3>1
  <2> QED BY <2>2, <2>3
<1> HIDE DEF tasks
<1> QED BY <1>1, <1>3, <1>4, <1>15, <1>16 DEF RunDefinitions, D

----------------------------------------------------------------------------
(* The search *)

Nodes == DOMAIN marks

\* The graph, and the types of the state.
GraphInv ==
    /\ roots \subseteq Nodes /\ Nodes \subseteq Nat
    /\ \A e \in edges : e = <<e[1], e[2]>> /\ e[1] \in Nodes /\ e[2] \in Nodes
    /\ marks \in [Nodes -> {"None", "Active", "Complete"}]
    /\ stack \in Seq(Nodes) /\ order \in Seq(Nodes)
    /\ todo \in Seq(SUBSET Nodes) /\ Len(todo) = Len(stack)
    /\ result \in {"idle", "searching", "acyclic", "cyclic"}

\* The stack is a path of the graph and holds the Active nodes.
StackInv ==
    /\ \A n \in Nodes : marks[n] = "Active" <=> \E i \in 1..Len(stack) : stack[i] = n
    /\ \A i, j \in 1..Len(stack) : stack[i] = stack[j] => i = j
    /\ \A i \in 1..(Len(stack) - 1) : <<stack[i], stack[i + 1]>> \in edges

\* What an open call has looked at is Complete, or open right above it.
TodoInv ==
    \A i \in 1..Len(stack) :
        /\ \A d \in todo[i] : <<stack[i], d>> \in edges
        /\ \A d \in Nodes : <<stack[i], d>> \in edges /\ d \notin todo[i] =>
              marks[d] = "Complete" \/ (i < Len(stack) /\ d = stack[i + 1])

\* The Complete nodes are those of order, each after all it depends on.
OrderInv ==
    /\ \A n \in Nodes : marks[n] = "Complete" <=> \E i \in 1..Len(order) : order[i] = n
    /\ \A i, j \in 1..Len(order) : order[i] = order[j] => i = j
    /\ \A i \in 1..Len(order), d \in Nodes : <<order[i], d>> \in edges =>
          \E j \in 1..(i - 1) : order[j] = d

\* Only what is reached is marked, and an answer is right.
AnswerInv ==
    /\ \A n \in Nodes : marks[n] # "None" => n \in Reached
    /\ result = "cyclic" => IsCycleOf(path, edges) /\ path \in Seq(Nodes)
    /\ result = "acyclic" => stack = <<>> /\ Unmarked = {}

SearchInv == GraphInv /\ StackInv /\ TodoInv /\ OrderInv /\ AnswerInv

\* Dependencies are the ends of edges.
LEMMA DepsOf ==
    ASSUME GraphInv, NEW n
    PROVE  \A d : d \in Deps(n) <=> <<n, d>> \in edges
<1>1. ASSUME NEW d, d \in Deps(n) PROVE <<n, d>> \in edges
  <2>1. PICK e \in edges : e[1] = n /\ e[2] = d
    BY <1>1 DEF Deps
  <2>2. e = <<e[1], e[2]>>
    BY DEF GraphInv
  <2> QED BY <2>1, <2>2
<1>2. ASSUME NEW d, <<n, d>> \in edges PROVE d \in Deps(n)
  <2>1. <<n, d>>[1] = n /\ <<n, d>>[2] = d
    OBVIOUS
  <2> QED BY <1>2, <2>1 DEF Deps
<1> QED BY <1>1, <1>2

\* The roots are reached, and what a reached node depends on.
LEMMA ReachedClosed ==
    ASSUME GraphInv
    PROVE  /\ roots \subseteq Reached /\ Reached \subseteq Nodes
           /\ \A n \in Reached, d \in Nodes : <<n, d>> \in edges => d \in Reached
<1>1. roots \subseteq Reached /\ Reached \subseteq Nodes
  BY DEF GraphInv, Reached, Nodes
<1>2. ASSUME NEW n \in Reached, NEW d \in Nodes, <<n, d>> \in edges PROVE d \in Reached
  <2>1. SUFFICES ASSUME NEW S \in SUBSET Nodes, roots \subseteq S, \A e \in edges : e[1] \in S => e[2] \in S
                 PROVE  d \in S
    BY DEF Reached, Nodes
  <2>2. n \in S
    BY <2>1 DEF Reached, Nodes
  <2>3. <<n, d>>[1] = n /\ <<n, d>>[2] = d
    OBVIOUS
  <2> QED BY <1>2, <2>1, <2>2, <2>3
<1> QED BY <1>1, <1>2

\* A search begins with nothing marked.
LEMMA SearchStarts ==
    ASSUME NEW rs \in SUBSET Nat, NEW es \in SUBSET (Nat \X Nat), StartSearch(rs, es)
    PROVE  SearchInv'
<1> DEFINE M == rs \cup UNION {{e[1], e[2]} : e \in es}
<1>1. /\ roots' = rs /\ edges' = es /\ marks' = [n \in M |-> "None"]
      /\ stack' = <<>> /\ todo' = <<>> /\ order' = <<>> /\ result' = "searching"
  BY DEF StartSearch
<1>2. Nodes' = M /\ M \subseteq Nat
  BY <1>1 DEF Nodes
<1>3. \A e \in es : e = <<e[1], e[2]>> /\ e[1] \in M /\ e[2] \in M
  OBVIOUS
<1>4. \A n \in M : marks'[n] = "None"
  BY <1>1
<1>5. Len(stack') = 0 /\ Len(todo') = 0 /\ Len(order') = 0
  BY <1>1
<1> HIDE DEF M
<1>6. GraphInv'
  <2>1. rs \subseteq M
    BY DEF M
  <2>2. stack' \in Seq(M) /\ order' \in Seq(M) /\ todo' \in Seq(SUBSET M)
    BY <1>1
  <2>3. marks' \in [M -> {"None", "Active", "Complete"}]
    BY <1>1
  <2> QED BY <1>1, <1>2, <1>3, <1>5, <2>1, <2>2, <2>3 DEF GraphInv
<1>7. StackInv' /\ TodoInv' /\ OrderInv'
  BY <1>2, <1>4, <1>5 DEF StackInv, TodoInv, OrderInv
<1>8. AnswerInv'
  BY <1>1, <1>2, <1>4 DEF AnswerInv
<1> QED BY <1>6, <1>7, <1>8 DEF SearchInv

\* The reached nodes are those of the graph.
LEMMA ReachedSame ==
    ASSUME UNCHANGED <<roots, edges>>, Nodes' = Nodes
    PROVE  Reached' = Reached
BY DEF Reached, Nodes

\* The marks after one of them changed.
LEMMA MarkOne ==
    ASSUME GraphInv, NEW n \in Nodes, NEW m \in {"None", "Active", "Complete"},
           marks' = [marks EXCEPT ![n] = m]
    PROVE  /\ Nodes' = Nodes /\ marks' \in [Nodes -> {"None", "Active", "Complete"}]
           /\ marks'[n] = m /\ \A x \in Nodes : x # n => marks'[x] = marks[x]
BY DEF GraphInv, Nodes

\* What the open calls have still to look at when n is entered from the top.
Rested(rest, n) ==
    \A i \in 1..Len(stack) :
        /\ \A d \in rest[i] : <<stack[i], d>> \in edges
        /\ \A d \in Nodes : <<stack[i], d>> \in edges /\ d \notin rest[i] =>
              \/ marks[d] = "Complete"
              \/ i < Len(stack) /\ d = stack[i + 1]
              \/ i = Len(stack) /\ d = n

\* Entering an unmarked node that the top of the stack depends on.
LEMMA EnterKeeps ==
    ASSUME SearchInv, result = "searching", NEW n \in Nodes, marks[n] = "None", n \in Reached,
           NEW rest \in Seq(SUBSET Nodes), Len(rest) = Len(stack), Rested(rest, n),
           stack # <<>> => <<stack[Len(stack)], n>> \in edges,
           Enter(n, rest)
    PROVE  SearchInv'
<1> USE DEF SearchInv
<1>1. /\ roots' = roots /\ edges' = edges /\ order' = order /\ result' = result /\ path' = path
      /\ marks' = [marks EXCEPT ![n] = "Active"]
      /\ stack' = Append(stack, n) /\ todo' = Append(rest, Deps(n))
  BY DEF Enter
<1>2. /\ Nodes' = Nodes /\ marks' \in [Nodes -> {"None", "Active", "Complete"}]
      /\ marks'[n] = "Active" /\ \A x \in Nodes : x # n => marks'[x] = marks[x]
  BY <1>1, MarkOne
<1>3. Reached' = Reached
  BY <1>1, <1>2, ReachedSame
<1>4. Deps(n) \subseteq Nodes
  <2>1. \A d : <<n, d>> \in edges => d \in Nodes
    BY DEF GraphInv
  <2> QED BY <2>1, DepsOf
<1>5. /\ stack \in Seq(Nodes) /\ Len(stack) \in Nat
      /\ stack' \in Seq(Nodes) /\ Len(stack') = Len(stack) + 1
      /\ \A i \in 1..Len(stack) : stack'[i] = stack[i]
      /\ stack'[Len(stack) + 1] = n
  BY <1>1 DEF GraphInv
<1>6. /\ todo' \in Seq(SUBSET Nodes) /\ Len(todo') = Len(stack) + 1
      /\ \A i \in 1..Len(stack) : todo'[i] = rest[i]
      /\ todo'[Len(stack) + 1] = Deps(n)
  BY <1>1, <1>4
<1>7. \A i \in 1..(Len(stack) + 1) : i = Len(stack) + 1 \/ i \in 1..Len(stack)
  BY <1>5
<1>8. Len(stack) + 1 \in 1..(Len(stack) + 1) /\ \A i \in 1..Len(stack) : i \in 1..(Len(stack) + 1)
  BY <1>5
<1>9. \A i \in 1..Len(stack) : stack[i] # n /\ stack[i] \in Nodes
  <2>1. \A i \in 1..Len(stack) : stack[i] \in Nodes
    BY <1>5
  <2> QED BY <2>1 DEF StackInv
<1>10. GraphInv'
  BY <1>1, <1>2, <1>5, <1>6 DEF GraphInv
<1>11. StackInv'
  <2>1. \A x \in Nodes : marks'[x] = "Active" <=> \E i \in 1..(Len(stack) + 1) : stack'[i] = x
    <3>1. ASSUME NEW x \in Nodes, x # n
          PROVE  marks'[x] = "Active" <=> \E i \in 1..(Len(stack) + 1) : stack'[i] = x
      BY <1>2, <1>5, <1>7, <1>8, <3>1 DEF StackInv
    <3> QED BY <1>2, <1>5, <1>8, <3>1
  <2>2. \A i, j \in 1..(Len(stack) + 1) : stack'[i] = stack'[j] => i = j
    BY <1>5, <1>7, <1>9 DEF StackInv
  <2>3. \A i \in 1..Len(stack) : <<stack'[i], stack'[i + 1]>> \in edges
    <3>1. ASSUME NEW i \in 1..Len(stack), i # Len(stack) PROVE <<stack'[i], stack'[i + 1]>> \in edges
      <4>1. i \in 1..(Len(stack) - 1) /\ i + 1 \in 1..Len(stack)
        BY <1>5, <3>1
      <4> QED BY <1>5, <4>1 DEF StackInv
    <3>2. ASSUME NEW i \in 1..Len(stack), i = Len(stack) PROVE <<stack'[i], stack'[i + 1]>> \in edges
      <4>1. stack # <<>>
        BY <1>5, <3>2
      <4> QED BY <1>5, <3>2, <4>1
    <3> QED BY <3>1, <3>2
  <2>4. Len(stack') - 1 = Len(stack)
    BY <1>5
  <2> QED BY <1>1, <1>2, <1>5, <2>1, <2>2, <2>3, <2>4 DEF StackInv
<1>12. TodoInv'
  <2>1. ASSUME NEW i \in 1..Len(stack)
        PROVE  /\ \A d \in todo'[i] : <<stack'[i], d>> \in edges
               /\ \A d \in Nodes : <<stack'[i], d>> \in edges /\ d \notin todo'[i] =>
                     marks'[d] = "Complete" \/ (i < Len(stack) + 1 /\ d = stack'[i + 1])
    <3>1. stack'[i] = stack[i] /\ todo'[i] = rest[i]
      BY <1>5, <1>6
    <3>2. ASSUME NEW d \in Nodes, <<stack[i], d>> \in edges, d \notin rest[i]
          PROVE  marks'[d] = "Complete" \/ (i < Len(stack) + 1 /\ d = stack'[i + 1])
      <4>1. \/ marks[d] = "Complete"
            \/ i < Len(stack) /\ d = stack[i + 1]
            \/ i = Len(stack) /\ d = n
        BY <3>2 DEF Rested
      <4>2. CASE marks[d] = "Complete"
        BY <1>2, <4>2
      <4>3. CASE i < Len(stack) /\ d = stack[i + 1]
        <5>1. i + 1 \in 1..Len(stack) /\ i < Len(stack) + 1
          BY <1>5, <4>3
        <5> QED BY <1>5, <4>3, <5>1
      <4>4. CASE i = Len(stack) /\ d = n
        BY <1>5, <4>4
      <4> QED BY <4>1, <4>2, <4>3, <4>4
    <3> QED BY <3>1, <3>2 DEF Rested
  <2>2. /\ \A d \in todo'[Len(stack) + 1] : <<n, d>> \in edges
        /\ \A d \in Nodes : <<n, d>> \in edges => d \in todo'[Len(stack) + 1]
    BY <1>6, DepsOf
  <2> QED BY <1>1, <1>2, <1>5, <1>7, <2>1, <2>2 DEF TodoInv
<1>13. OrderInv'
  <2>1. \A x \in Nodes : marks'[x] = "Complete" <=> marks[x] = "Complete"
    BY <1>2
  <2> QED BY <1>1, <1>2, <2>1 DEF OrderInv
<1>14. AnswerInv'
  BY <1>1, <1>2, <1>3 DEF AnswerInv
<1> QED BY <1>10, <1>11, <1>12, <1>13, <1>14

\* The next dependency of the top of the stack.
LEMMA NextOne ==
    ASSUME SearchInv, stack # <<>>, Last(todo) # {}
    PROVE  /\ Len(stack) \in Nat /\ Len(stack) >= 1 /\ Len(stack) \in 1..Len(stack)
           /\ Last(todo) = todo[Len(stack)] /\ NextDependency \in todo[Len(stack)]
           /\ NextDependency \in Nodes /\ <<stack[Len(stack)], NextDependency>> \in edges
           /\ stack[Len(stack)] \in Nodes
<1> USE DEF SearchInv
<1>1. Len(stack) \in Nat /\ Len(stack) >= 1 /\ Len(stack) \in 1..Len(stack) /\ stack[Len(stack)] \in Nodes
  BY DEF GraphInv
<1>2. Last(todo) = todo[Len(stack)] /\ todo[Len(stack)] \in SUBSET Nodes
  BY <1>1 DEF GraphInv, Last
<1>3. NextDependency \in todo[Len(stack)]
  <2>1. todo[Len(stack)] \in SUBSET Nat
    BY <1>2 DEF GraphInv
  <2> QED BY <1>2, <2>1, MinIn DEF NextDependency
<1> QED BY <1>1, <1>2, <1>3 DEF TodoInv

\* The rest of the loops when the next dependency is taken.
LEMMA RestOf ==
    ASSUME SearchInv, stack # <<>>, Last(todo) # {}
    PROVE  /\ Rest \in Seq(SUBSET Nodes) /\ Len(Rest) = Len(stack)
           /\ Rested(Rest, NextDependency)
<1> USE DEF SearchInv
<1>1. /\ Len(stack) \in Nat /\ Len(stack) >= 1 /\ Len(stack) \in 1..Len(stack)
      /\ Last(todo) = todo[Len(stack)]
      /\ NextDependency \in Nodes
  BY NextOne
<1>2. todo \in Seq(SUBSET Nodes) /\ Len(todo) = Len(stack) /\ todo[Len(stack)] \in SUBSET Nodes
  BY <1>1 DEF GraphInv
<1> DEFINE less == todo[Len(stack)] \ {NextDependency}
<1>3. Rest = [todo EXCEPT ![Len(stack)] = less] /\ less \in SUBSET Nodes
  BY <1>1, <1>2 DEF Rest, ReplaceAt
<1>4. /\ Rest \in Seq(SUBSET Nodes) /\ Len(Rest) = Len(stack)
      /\ Rest[Len(stack)] = less
      /\ \A i \in 1..Len(stack) : i # Len(stack) => Rest[i] = todo[i]
  <2> HIDE DEF less
  <2> QED BY <1>1, <1>2, <1>3
<1>5. ASSUME NEW i \in 1..Len(stack)
      PROVE  /\ Rest[i] \subseteq todo[i]
             /\ \A d \in todo[i] : d \notin Rest[i] => i = Len(stack) /\ d = NextDependency
  BY <1>1, <1>4
<1>6. Rested(Rest, NextDependency)
  BY <1>5 DEF Rested, TodoInv
<1> QED BY <1>4, <1>6

\* A root without a mark is visited from an empty stack.
LEMMA VisitRootKeeps ==
    ASSUME SearchInv, VisitRoot
    PROVE  SearchInv'
<1> USE DEF SearchInv
<1> DEFINE n == Min(Unmarked)
<1>1. Unmarked # {} /\ Unmarked \in SUBSET Nat /\ Unmarked \subseteq Nodes
  BY DEF VisitRoot, Unmarked, GraphInv
<1>2. n \in Unmarked
  BY <1>1, MinIn
<1>3. n \in Nodes /\ marks[n] = "None" /\ n \in Reached
  BY <1>1, <1>2, ReachedClosed DEF Unmarked
<1>4. result = "searching" /\ stack = <<>> /\ Enter(n, todo)
  BY DEF VisitRoot
<1>5. todo \in Seq(SUBSET Nodes) /\ Len(todo) = Len(stack) /\ Len(stack) = 0
  BY <1>4 DEF GraphInv
<1>6. Rested(todo, n)
  BY <1>5 DEF Rested
<1> HIDE DEF n, SearchInv
<1> QED BY <1>3, <1>4, <1>5, <1>6, EnterKeeps

\* A dependency without a mark is visited: it becomes the top of the stack.
LEMMA VisitDependencyKeeps ==
    ASSUME SearchInv, VisitDependency
    PROVE  SearchInv'
<1>1. /\ result = "searching" /\ stack # <<>> /\ Last(todo) # {}
      /\ marks[NextDependency] = "None" /\ Enter(NextDependency, Rest)
  BY DEF VisitDependency
<1>2. /\ NextDependency \in Nodes /\ <<stack[Len(stack)], NextDependency>> \in edges
      /\ stack[Len(stack)] \in Nodes /\ Len(stack) \in 1..Len(stack)
  BY <1>1, NextOne
<1>3. stack[Len(stack)] \in Reached
  <2>1. marks[stack[Len(stack)]] = "Active"
    BY <1>2 DEF SearchInv, StackInv
  <2> QED BY <1>2, <2>1 DEF SearchInv, AnswerInv
<1>4. NextDependency \in Reached
  BY <1>2, <1>3, ReachedClosed DEF SearchInv
<1> QED BY <1>1, <1>2, <1>4, RestOf, EnterKeeps

\* A dependency that is complete is passed over.
LEMMA SkipCompleteKeeps ==
    ASSUME SearchInv, SkipComplete
    PROVE  SearchInv'
<1>1. /\ result = "searching" /\ stack # <<>> /\ Last(todo) # {}
      /\ marks[NextDependency] = "Complete" /\ todo' = Rest
      /\ UNCHANGED <<roots, edges, marks, stack, order, result, path>>
  BY DEF SkipComplete
<1>2. Nodes' = Nodes /\ Reached' = Reached /\ Unmarked' = Unmarked
  BY <1>1 DEF Nodes, Reached, Unmarked
<1>3. Rest \in Seq(SUBSET Nodes) /\ Len(Rest) = Len(stack) /\ Rested(Rest, NextDependency)
  BY <1>1, RestOf
<1>4. GraphInv'
  BY <1>1, <1>2, <1>3 DEF SearchInv, GraphInv
<1>5. StackInv' /\ OrderInv' /\ AnswerInv'
  BY <1>1, <1>2 DEF SearchInv, StackInv, OrderInv, AnswerInv
<1>6. TodoInv'
  BY <1>1, <1>2, <1>3 DEF TodoInv, Rested
<1> QED BY <1>4, <1>5, <1>6 DEF SearchInv

\* All nodes are complete: the order of completion excludes a cycle.
LEMMA ReportAcyclicKeeps ==
    ASSUME SearchInv, ReportAcyclic
    PROVE  SearchInv'
<1>1. /\ stack = <<>> /\ Unmarked = {} /\ result' = "acyclic"
      /\ UNCHANGED <<roots, edges, marks, stack, todo, order, path>>
  BY DEF ReportAcyclic
<1>2. Nodes' = Nodes /\ Reached' = Reached /\ Unmarked' = Unmarked
  BY <1>1 DEF Nodes, Reached, Unmarked
<1> QED BY <1>1, <1>2 DEF SearchInv, GraphInv, StackInv, TodoInv, OrderInv, AnswerInv

\* A stretch of the stack that the last element's edge closes.
LEMMA ClosedWalk ==
    ASSUME GraphInv, StackInv, NEW a \in 1..Len(stack),
           <<stack[Len(stack)], stack[a]>> \in edges
    PROVE  /\ IsCycleOf(SubSeq(stack, a, Len(stack)) \o <<stack[a]>>, edges)
           /\ SubSeq(stack, a, Len(stack)) \o <<stack[a]>> \in Seq(Nodes)
<1> DEFINE s == SubSeq(stack, a, Len(stack))
           p == s \o <<stack[a]>>
           k == Len(stack) - a + 1
<1>1. stack \in Seq(Nodes) /\ Len(stack) \in Nat /\ a \in Nat /\ a >= 1 /\ a <= Len(stack)
  BY DEF GraphInv
<1>2. k \in Nat /\ k >= 1
  BY <1>1
<1>3. \A i \in a..Len(stack) : stack[i] \in Nodes
  BY <1>1
<1>4. /\ s \in Seq(Nodes) /\ Len(s) = k
      /\ \A i \in 1..k : s[i] = stack[a + i - 1]
  BY <1>1, <1>3, SubSeqProperties
<1>5. stack[a] \in Nodes
  BY <1>1
<1> HIDE DEF s
<1>6. /\ p \in Seq(Nodes) /\ Len(p) = k + 1 /\ \A i \in 1..k : p[i] = s[i]
      /\ p[k + 1] = stack[a]
  <2> HIDE DEF k
  <2>1. p = Append(s, stack[a])
    BY <1>4, <1>5, AppendIsConcat
  <2> QED BY <1>2, <1>4, <1>5, <2>1
<1> HIDE DEF p
<1>7. p[1] = stack[a]
  BY <1>1, <1>2, <1>4, <1>6
<1>8. Last(p) = stack[a]
  BY <1>6 DEF Last
<1>9. ASSUME NEW i \in 1..k PROVE <<p[i], p[i + 1]>> \in edges
  <2>1. CASE i < k
    <3>1. /\ a + i - 1 \in 1..(Len(stack) - 1) /\ i + 1 \in 1..k
          /\ (a + i - 1) + 1 = a + (i + 1) - 1
      BY <1>1, <2>1
    <3>2. <<stack[a + i - 1], stack[(a + i - 1) + 1]>> \in edges
      BY <3>1 DEF StackInv
    <3>3. p[i] = stack[a + i - 1] /\ p[i + 1] = stack[a + (i + 1) - 1]
      BY <1>4, <1>6, <3>1
    <3> QED BY <3>1, <3>2, <3>3
  <2>2. CASE i = k
    <3>1. a + k - 1 = Len(stack) /\ k \in 1..k
      BY <1>1, <1>2
    <3>2. p[k] = stack[Len(stack)]
      BY <1>4, <1>6, <3>1
    <3> QED BY <1>6, <2>2, <3>2
  <2> QED BY <1>2, <2>1, <2>2
<1>10. Len(p) - 1 = k /\ Len(p) >= 2
  BY <1>2, <1>6
<1>11. IsCycleOf(p, edges)
  BY <1>7, <1>8, <1>9, <1>10 DEF IsCycleOf
<1> QED BY <1>6, <1>11 DEF p, s

\* A dependency that is on the stack closes a cycle of the graph.
LEMMA ReportCycleKeeps ==
    ASSUME SearchInv, ReportCycle
    PROVE  SearchInv'
<1> DEFINE d == NextDependency
           I == {i \in 1..Len(stack) : stack[i] = d}
           a == SelectInSeq(stack, LAMBDA x : x = NextDependency)
<1>1. /\ stack # <<>> /\ Last(todo) # {} /\ marks[d] = "Active" /\ result' = "cyclic"
      /\ path' = SubSeq(stack, a, Len(stack)) \o <<d>>
      /\ UNCHANGED <<roots, edges, marks, stack, todo, order>>
  BY DEF ReportCycle
<1>2. d \in Nodes /\ <<stack[Len(stack)], d>> \in edges
  BY <1>1, NextOne
<1>3. I # {} /\ I \in SUBSET Nat
  <2>1. \E i \in 1..Len(stack) : stack[i] = d
    BY <1>1, <1>2 DEF SearchInv, StackInv
  <2> QED BY <2>1
<1>4. a = Min(I)
  BY <1>3 DEF SelectInSeq
<1>5. a \in 1..Len(stack) /\ stack[a] = d
  <2>1. Min(I) \in I
    BY <1>3, MinIn
  <2> QED BY <1>4, <2>1
<1> HIDE DEF a, d
<1>6. IsCycleOf(path', edges) /\ path' \in Seq(Nodes)
  BY <1>1, <1>2, <1>5, ClosedWalk DEF SearchInv
<1>7. Nodes' = Nodes /\ Reached' = Reached
  BY <1>1 DEF Nodes, Reached
<1>8. GraphInv' /\ StackInv' /\ TodoInv' /\ OrderInv'
  BY <1>1, <1>7 DEF SearchInv, GraphInv, StackInv, TodoInv, OrderInv
<1>9. AnswerInv'
  BY <1>1, <1>6, <1>7 DEF SearchInv, AnswerInv
<1> QED BY <1>8, <1>9 DEF SearchInv

\* A node without dependencies left is complete, and so is all it reaches.
LEMMA ReturnKeeps ==
    ASSUME SearchInv, Return
    PROVE  SearchInv'
<1> DEFINE L == Len(stack)
           n == stack[L]
           N == Len(order)
<1>1. /\ result = "searching" /\ stack # <<>> /\ Last(todo) = {}
      /\ marks' = [marks EXCEPT ![Top] = "Complete"]
      /\ stack' = Front(stack) /\ order' = Append(order, Top) /\ todo' = Front(todo)
      /\ UNCHANGED <<roots, edges, result, path>>
  BY DEF Return
<1>2. /\ stack \in Seq(Nodes) /\ order \in Seq(Nodes) /\ todo \in Seq(SUBSET Nodes) /\ Len(todo) = L
      /\ N \in Nat
  BY DEF SearchInv, GraphInv
<1>3. /\ stack' \in Seq(Nodes) /\ Len(stack') = L - 1 /\ L \in Nat /\ L >= 1
      /\ \A i \in 1..(L - 1) : stack'[i] = stack[i] /\ i \in 1..L
      /\ Top = n /\ n \in Nodes
  <2>1. /\ Front(stack) \in Seq(Nodes) /\ Len(Front(stack)) = L - 1 /\ L \in Nat /\ L >= 1
        /\ \A i \in 1..(L - 1) : Front(stack)[i] = stack[i] /\ i \in 1..L
        /\ Last(stack) \in Nodes /\ Last(stack) = n
    BY <1>1, <1>2, FrontOf
  <2> QED BY <1>1, <2>1 DEF Top
<1>4. todo # <<>>
  BY <1>2, <1>3
<1>5. /\ todo' \in Seq(SUBSET Nodes) /\ Len(todo') = L - 1
      /\ \A i \in 1..(L - 1) : todo'[i] = todo[i]
      /\ todo[L] = {}
  BY <1>1, <1>2, <1>4, FrontOf
<1>6. /\ order' \in Seq(Nodes) /\ Len(order') = N + 1
      /\ \A i \in 1..N : order'[i] = order[i]
      /\ order'[N + 1] = n
  BY <1>1, <1>2, <1>3
<1>7. marks' = [marks EXCEPT ![n] = "Complete"]
  BY <1>1, <1>3
<1>8. /\ Nodes' = Nodes /\ marks' \in [Nodes -> {"None", "Active", "Complete"}]
      /\ marks'[n] = "Complete" /\ \A x \in Nodes : x # n => marks'[x] = marks[x]
  BY <1>3, <1>7, MarkOne DEF SearchInv
<1>9. Reached' = Reached
  BY <1>1, <1>8, ReachedSame
<1>10. L \in 1..L /\ \A i \in 1..L : i = L \/ i \in 1..(L - 1)
  BY <1>3
<1>11. marks[n] = "Active" /\ \A i \in 1..(L - 1) : stack[i] # n /\ stack[i] \in Nodes
  <2>1. \A i \in 1..L : stack[i] \in Nodes
    BY <1>2
  <2>2. marks[n] = "Active"
    BY <1>3, <1>10 DEF SearchInv, StackInv
  <2>3. \A i \in 1..(L - 1) : i # L
    BY <1>3
  <2> QED BY <1>3, <1>10, <2>1, <2>2, <2>3 DEF SearchInv, StackInv
<1>12. \A d \in Nodes : <<n, d>> \in edges => marks[d] = "Complete"
  <2>1. ~(L < L)
    BY <1>3
  <2> QED BY <1>5, <1>10, <2>1 DEF SearchInv, TodoInv
<1>13. /\ \A i \in 1..(N + 1) : i = N + 1 \/ i \in 1..N
       /\ N + 1 \in 1..(N + 1) /\ \A i \in 1..N : i \in 1..(N + 1)
  BY <1>2
<1> HIDE DEF L, n, N
<1>14. GraphInv'
  BY <1>1, <1>3, <1>5, <1>6, <1>8 DEF SearchInv, GraphInv
<1>15. StackInv'
  <2>1. \A x \in Nodes : marks'[x] = "Active" <=> \E i \in 1..(L - 1) : stack'[i] = x
    <3>1. ASSUME NEW x \in Nodes, x # n
          PROVE  marks'[x] = "Active" <=> \E i \in 1..(L - 1) : stack'[i] = x
      BY <1>3, <1>8, <1>10, <3>1 DEF SearchInv, StackInv, n, L
    <3> QED BY <1>3, <1>8, <1>11, <3>1
  <2>2. \A i, j \in 1..(L - 1) : stack'[i] = stack'[j] => i = j
    BY <1>3 DEF SearchInv, StackInv, L
  <2>3. \A i \in 1..(L - 2) : <<stack'[i], stack'[i + 1]>> \in edges
    <3>1. \A i \in 1..(L - 2) : i \in 1..(L - 1) /\ i + 1 \in 1..(L - 1)
      BY <1>3
    <3> QED BY <1>3, <3>1 DEF SearchInv, StackInv, L
  <2>4. Len(stack') - 1 = L - 2
    BY <1>3
  <2> QED BY <1>1, <1>3, <1>8, <2>1, <2>2, <2>3, <2>4 DEF StackInv
<1>16. TodoInv'
  <2>1. ASSUME NEW i \in 1..(L - 1), NEW d \in Nodes, <<stack[i], d>> \in edges, d \notin todo[i]
        PROVE  marks'[d] = "Complete" \/ (i < L - 1 /\ d = stack'[i + 1])
    <3>1. marks[d] = "Complete" \/ (i < L /\ d = stack[i + 1])
      BY <1>3, <2>1 DEF SearchInv, TodoInv, L
    <3>2. CASE marks[d] = "Complete"
      BY <1>8, <3>2
    <3>3. CASE i = L - 1 /\ d = stack[i + 1]
      <4>1. d = n
        BY <1>3, <3>3 DEF n
      <4> QED BY <1>8, <4>1
    <3>4. CASE i < L - 1 /\ d = stack[i + 1]
      <4>1. i + 1 \in 1..(L - 1)
        BY <1>3, <3>4
      <4> QED BY <1>3, <3>4, <4>1
    <3>5. i = L - 1 \/ i < L - 1
      BY <1>3
    <3> QED BY <3>1, <3>2, <3>3, <3>4, <3>5
  <2>2. \A i \in 1..(L - 1) : \A d \in todo[i] : <<stack[i], d>> \in edges
    BY <1>3 DEF SearchInv, TodoInv, L
  <2>3. edges' = edges /\ \A i \in 1..(L - 1) : stack'[i] = stack[i] /\ todo'[i] = todo[i]
    BY <1>1, <1>3, <1>5
  <2>4. \A i \in 1..(L - 1) :
            /\ \A d \in todo'[i] : <<stack'[i], d>> \in edges'
            /\ \A d \in Nodes : <<stack'[i], d>> \in edges' /\ d \notin todo'[i] =>
                  marks'[d] = "Complete" \/ (i < L - 1 /\ d = stack'[i + 1])
    BY <2>1, <2>2, <2>3
  <2> QED BY <1>3, <1>8, <2>4 DEF TodoInv
<1>17. OrderInv'
  <2>1. \A x \in Nodes : marks'[x] = "Complete" <=> \E i \in 1..(N + 1) : order'[i] = x
    <3>1. ASSUME NEW x \in Nodes, x # n
          PROVE  marks'[x] = "Complete" <=> \E i \in 1..(N + 1) : order'[i] = x
      BY <1>6, <1>8, <1>13, <3>1 DEF SearchInv, OrderInv, N
    <3> QED BY <1>6, <1>8, <1>13, <3>1
  <2>2. \A i \in 1..N : order[i] # n
    BY <1>3, <1>11 DEF SearchInv, OrderInv, N
  <2>3. \A i, j \in 1..(N + 1) : order'[i] = order'[j] => i = j
    BY <1>6, <1>13, <2>2 DEF SearchInv, OrderInv, N
  <2>4. ASSUME NEW i \in 1..(N + 1), NEW d \in Nodes, <<order'[i], d>> \in edges
        PROVE  \E j \in 1..(i - 1) : order'[j] = d
    <3>1. CASE i \in 1..N
      <4>1. \E j \in 1..(i - 1) : order[j] = d
        BY <1>6, <2>4, <3>1 DEF SearchInv, OrderInv, N
      <4>2. \A j \in 1..(i - 1) : j \in 1..N
        BY <1>2, <3>1 DEF N
      <4> QED BY <1>6, <4>1, <4>2
    <3>2. CASE i = N + 1
      <4>1. \E j \in 1..N : order[j] = d
        BY <1>6, <1>12, <2>4, <3>2 DEF SearchInv, OrderInv, N
      <4>2. i - 1 = N
        BY <1>2, <3>2 DEF N
      <4> QED BY <1>6, <4>1, <4>2
    <3> QED BY <1>13, <3>1, <3>2
  <2> QED BY <1>1, <1>6, <1>8, <2>1, <2>3, <2>4 DEF OrderInv
<1>18. AnswerInv'
  <2>1. n \in Reached
    BY <1>3, <1>11 DEF SearchInv, AnswerInv
  <2> QED BY <1>1, <1>8, <1>9, <2>1 DEF SearchInv, AnswerInv
<1> QED BY <1>14, <1>15, <1>16, <1>17, <1>18 DEF SearchInv

\* Every step of a search keeps its invariant.
LEMMA SearchKeeps ==
    ASSUME SearchInv, SearchStep
    PROVE  SearchInv'
BY VisitRootKeeps, VisitDependencyKeeps, ReportCycleKeeps, SkipCompleteKeeps, ReturnKeeps,
   ReportAcyclicKeeps DEF SearchStep

\* Before it is started, the search has nothing.
LEMMA SearchIdle ==
    ASSUME SearchInit
    PROVE  SearchInv
<1>1. /\ roots = {} /\ edges = {} /\ marks = <<>> /\ stack = <<>> /\ todo = <<>> /\ order = <<>>
      /\ result = "idle"
  BY DEF SearchInit
<1>2. Nodes = {}
  BY <1>1 DEF Nodes
<1>3. marks \in [{} -> {"None", "Active", "Complete"}]
  BY <1>1
<1>4. Len(stack) = 0 /\ Len(todo) = 0 /\ Len(order) = 0
  BY <1>1
<1>5. GraphInv
  BY <1>1, <1>2, <1>3, <1>4 DEF GraphInv
<1> QED BY <1>1, <1>2, <1>4, <1>5 DEF SearchInv, StackInv, TodoInv, OrderInv, AnswerInv

\* Nothing else changes the search.
LEMMA SearchStays ==
    ASSUME SearchInv, UNCHANGED searchVars
    PROVE  SearchInv'
<1>1. /\ roots' = roots /\ edges' = edges /\ marks' = marks /\ stack' = stack /\ todo' = todo
      /\ order' = order /\ result' = result /\ path' = path
  BY DEF searchVars
<1>2. Nodes' = Nodes /\ Reached' = Reached /\ Unmarked' = Unmarked
  BY <1>1 DEF Nodes, Reached, Unmarked
<1> QED BY <1>1, <1>2 DEF SearchInv, GraphInv, StackInv, TodoInv, OrderInv, AnswerInv

\* An order in which everything comes after all it depends on has no cycle.
LEMMA OrderedAcyclic ==
    ASSUME SearchInv, NEW S \in SUBSET ToSet(order), S # {},
           \A t \in S : \E d \in S : <<t, d>> \in edges
    PROVE  FALSE
<1> DEFINE I == {i \in 1..Len(order) : order[i] \in S}
<1>1. order \in Seq(Nodes)
  BY DEF SearchInv, GraphInv
<1>2. \A x \in S : x \in Nodes /\ \E i \in 1..Len(order) : order[i] = x
  BY <1>1, ToSetOf
<1>3. I # {} /\ I \in SUBSET Nat
  BY <1>2
<1>4. PICK i \in I : \A j \in I : i <= j
  BY <1>3, SmallestMember
<1>5. PICK d \in S : <<order[i], d>> \in edges
  OBVIOUS
<1>6. PICK j \in 1..(i - 1) : order[j] = d
  BY <1>2, <1>5 DEF SearchInv, OrderInv
<1>7. j \in 1..Len(order) /\ j < i
  BY <1>1
<1>8. j \in I
  BY <1>5, <1>6, <1>7
<1> QED BY <1>4, <1>7, <1>8

\* When a search ends, the order holds exactly what is reached.
LEMMA OrderReached ==
    ASSUME SearchInv, result = "acyclic"
    PROVE  ToSet(order) = Reached
<1>1. stack = <<>> /\ Unmarked = {} /\ order \in Seq(Nodes) /\ roots \subseteq Nodes
  BY DEF SearchInv, AnswerInv, GraphInv
<1>2. \A n \in Nodes : marks[n] = "Complete" <=> n \in ToSet(order)
  BY <1>1, ToSetOf DEF SearchInv, OrderInv
<1>3. \A n \in Nodes : marks[n] \in {"None", "Complete"}
  <2>1. Len(stack) = 0
    BY <1>1
  <2>2. \A n \in Nodes : marks[n] # "Active"
    BY <2>1 DEF SearchInv, StackInv
  <2> QED BY <2>2 DEF SearchInv, GraphInv
<1>4. ToSet(order) \subseteq Nodes
  BY <1>1, ToSetOf
<1>5. ToSet(order) \subseteq Reached
  BY <1>2, <1>4 DEF SearchInv, AnswerInv
<1>6. roots \subseteq ToSet(order)
  BY <1>1, <1>2, <1>3 DEF Unmarked
<1>7. \A e \in edges : e[1] \in ToSet(order) => e[2] \in ToSet(order)
  <2>1. SUFFICES ASSUME NEW e \in edges, e[1] \in ToSet(order) PROVE e[2] \in ToSet(order)
    OBVIOUS
  <2>2. PICK i \in 1..Len(order) : order[i] = e[1]
    BY <1>1, <2>1, ToSetOf
  <2>3. e = <<e[1], e[2]>> /\ e[2] \in Nodes
    BY DEF SearchInv, GraphInv
  <2>4. <<order[i], e[2]>> \in edges
    BY <2>2, <2>3
  <2>5. PICK j \in 1..(i - 1) : order[j] = e[2]
    BY <2>3, <2>4 DEF SearchInv, OrderInv
  <2>6. j \in 1..Len(order)
    BY <1>1
  <2> QED BY <1>1, <2>5, <2>6, ToSetOf
<1>8. Reached \subseteq ToSet(order)
  BY <1>4, <1>6, <1>7 DEF Reached, Nodes
<1> QED BY <1>5, <1>8

\* What the invariant says of a search is what is asked of it.
LEMMA SearchExact ==
    ASSUME SearchInv
    PROVE  SearchIsExact
<1>1. stack \in Seq(Nodes) /\ order \in Seq(Nodes)
  BY DEF SearchInv, GraphInv
<1>2. ToSet(stack) = {n \in Nodes : marks[n] = "Active"}
  BY <1>1, ToSetOf DEF SearchInv, StackInv
<1>3. IsInjective(stack) /\ IsInjective(order)
  <2>1. DOMAIN stack = 1..Len(stack) /\ DOMAIN order = 1..Len(order)
    BY <1>1
  <2> QED BY <2>1 DEF SearchInv, StackInv, OrderInv, IsInjective
<1>4. result = "cyclic" => IsCycleOf(path, edges)
  BY DEF SearchInv, AnswerInv
<1>5. ASSUME result = "acyclic" PROVE ~HasCycle({e \in edges : e[1] \in Reached})
  <2>1. SUFFICES ASSUME HasCycle({e \in edges : e[1] \in Reached}) PROVE FALSE
    OBVIOUS
  <2>2. PICK S \in SUBSET {e[1] : e \in {f \in edges : f[1] \in Reached}} :
            S # {} /\ \A t \in S : \E d \in S : <<t, d>> \in {f \in edges : f[1] \in Reached}
    BY <2>1 DEF HasCycle
  <2>3. S \subseteq Reached
    OBVIOUS
  <2>4. S \in SUBSET ToSet(order)
    BY <1>5, <2>3, OrderReached
  <2> QED BY <2>2, <2>4, OrderedAcyclic
<1>6. ASSUME NEW i \in DOMAIN order
      PROVE  Deps(order[i]) \subseteq ToSet(SubSeq(order, 1, i - 1))
  <2>1. SUFFICES ASSUME NEW d \in Deps(order[i]) PROVE d \in ToSet(SubSeq(order, 1, i - 1))
    OBVIOUS
  <2>2. i \in 1..Len(order) /\ Len(order) \in Nat
    BY <1>1
  <2>3. <<order[i], d>> \in edges
    BY <2>1, DepsOf DEF SearchInv
  <2>4. d \in Nodes
    BY <2>3 DEF SearchInv, GraphInv
  <2>5. PICK j \in 1..(i - 1) : order[j] = d
    BY <2>2, <2>3, <2>4 DEF SearchInv, OrderInv
  <2>6. \A k \in 1..(i - 1) : order[k] \in Nodes
    BY <1>1, <2>2
  <2>7. /\ SubSeq(order, 1, i - 1) \in Seq(Nodes) /\ Len(SubSeq(order, 1, i - 1)) = i - 1
        /\ \A k \in 1..(i - 1) : SubSeq(order, 1, i - 1)[k] = order[k]
    <3>1. SubSeq(order, 1, i - 1) = [k \in 1..(i - 1) |-> order[k]]
      BY <1>1, <2>2
    <3>2. i - 1 \in Nat
      BY <2>2
    <3>3. SubSeq(order, 1, i - 1) \in [1..(i - 1) -> Nodes]
      BY <2>6, <3>1
    <3>4. SubSeq(order, 1, i - 1) \in Seq(Nodes) /\ Len(SubSeq(order, 1, i - 1)) = i - 1
      <4>1. PICK q : q = SubSeq(order, 1, i - 1)
        OBVIOUS
      <4>2. q \in [1..(i - 1) -> Nodes]
        BY <3>3, <4>1
      <4>3. q \in Seq(Nodes) /\ Len(q) = i - 1
        BY <3>2, <4>2
      <4> QED BY <4>1, <4>3
    <3> QED BY <3>1, <3>4
  <2> QED BY <2>5, <2>7, ToSetOf
<1> QED BY <1>2, <1>3, <1>4, <1>5, <1>6, OrderReached DEF SearchIsExact, Nodes

----------------------------------------------------------------------------
(* The types of the pipeline *)

LoaderTypes ==
    /\ catalog = input.catalog /\ requested = input.roots
    /\ DOMAIN resolved \subseteq DOMAIN catalog
    /\ loaded \in Seq(Registrations)

PipelineTypes ==
    /\ input \in Inputs
    /\ ModulesTyped(modules)
    /\ ready \subseteq DOMAIN modules /\ placed \in Seq(DOMAIN modules)
    /\ stage \in {"load", "register", "build"} => ready = {} /\ placed = <<>>
    /\ definition \in RunDefinitions

TypeInv == LoaderTypes /\ PipelineTypes

\* The catalog and the roots of the host.
LEMMA CatalogTyped ==
    ASSUME TypeInv
    PROVE  /\ DOMAIN IdOf \subseteq Nat /\ IsFiniteSet(DOMAIN IdOf) /\ IdOf \in [DOMAIN IdOf -> Nat]
           /\ requested \in Seq(DOMAIN IdOf) /\ ToSet(requested) \subseteq DOMAIN IdOf
           /\ DOMAIN catalog \subseteq DOMAIN IdOf
           /\ \A r \in DOMAIN catalog :
                 /\ catalog[r].deps \in Seq(DOMAIN IdOf) /\ DependenciesOf(r) \subseteq DOMAIN IdOf
                 /\ catalog[r].makes \in Registrations \cup {None}
<1>1. /\ input \in Inputs /\ catalog = input.catalog /\ requested = input.roots
  BY DEF TypeInv, LoaderTypes, PipelineTypes
<1>2. /\ DOMAIN IdOf \subseteq Nat /\ IsFiniteSet(DOMAIN IdOf) /\ IdOf \in [DOMAIN IdOf -> Nat]
      /\ requested \in Seq(DOMAIN IdOf) /\ DOMAIN catalog \subseteq DOMAIN IdOf
  BY <1>1, PlanningAssumption
<1>3. ASSUME NEW r \in DOMAIN catalog
      PROVE  catalog[r].deps \in Seq(DOMAIN IdOf) /\ catalog[r].makes \in Registrations \cup {None}
  <2>1. catalog[r] \in [deps : Seq(DOMAIN IdOf), makes : Registrations \cup {None}]
    BY <1>1, PlanningAssumption
  <2> QED BY <2>1
<1> QED BY <1>2, <1>3, ToSetOf DEF DependenciesOf

\* The edges between references.
LEMMA ReferenceGraph ==
    ASSUME TypeInv, NEW R \in SUBSET (DOMAIN catalog)
    PROVE  UNION {{<<r, d>> : d \in DependenciesOf(r)} : r \in R} \in SUBSET (Nat \X Nat)
<1>1. \A r \in R : r \in Nat /\ DependenciesOf(r) \subseteq Nat
  BY CatalogTyped
<1> QED BY <1>1

\* Inputs and empty results have their types.
LEMMA TypesInit ==
    ASSUME Init
    PROVE  TypeInv
<1>1. /\ input \in Inputs /\ catalog = input.catalog /\ requested = input.roots
      /\ resolved = <<>> /\ loaded = <<>> /\ modules = <<>> /\ ready = {} /\ placed = <<>>
      /\ definition = input.definition
  BY DEF Init, LoaderInit
<1>2. DOMAIN resolved = {} /\ DOMAIN modules = {} /\ IsFiniteSet({})
  BY <1>1, FS_EmptySet
<1>3. definition \in RunDefinitions
  BY <1>1, PlanningAssumption
<1>4. loaded \in Seq(Registrations) /\ placed \in Seq(DOMAIN modules)
  BY <1>1
<1>5. ModulesTyped(modules)
  BY <1>2 DEF ModulesTyped
<1> QED BY <1>1, <1>2, <1>3, <1>4, <1>5 DEF TypeInv, LoaderTypes, PipelineTypes

\* The steps of the loader keep the types.
LEMMA LoadKeepsTypes ==
    ASSUME TypeInv, LoaderStep, UNCHANGED pipelineVars
    PROVE  TypeInv'
<1>1. /\ input' = input /\ modules' = modules /\ ready' = ready /\ placed' = placed /\ stage' = stage
      /\ definition' = definition
  BY DEF pipelineVars, kahnVars
<1>2. PipelineTypes'
  BY <1>1 DEF TypeInv, PipelineTypes
<1>3. SUFFICES LoaderTypes'
  BY <1>2 DEF TypeInv
<1>4. catalog' = catalog /\ requested' = requested
  BY DEF LoaderStep, CollectRoots, CloseLevel, EndClosure, EndCycles, ConstructModules
<1>5. CASE CloseLevel
  <2> DEFINE found == (DOMAIN frontier \ DOMAIN resolved) \cap DOMAIN catalog
  <2>1. resolved' = Joined(resolved, Restrict(frontier, found)) /\ loaded' = loaded
    BY <1>5 DEF CloseLevel
  <2>2. DOMAIN resolved' = DOMAIN resolved \cup found
    BY <2>1 DEF Joined, Restrict
  <2> QED BY <1>1, <1>4, <2>1, <2>2 DEF TypeInv, LoaderTypes
<1>6. CASE ConstructModules
  <2> DEFINE S == DOMAIN resolved
             rs == Ascending(S)
             n == Cardinality(S)
  <2>1. resolved' = resolved
    BY <1>6 DEF ConstructModules, closureVars
  <2>2. CASE {r \in S : ~MakesWhatItSays(r)} # {}
    <3>1. loaded' = loaded
      BY <1>6, <2>2 DEF ConstructModules
    <3> QED BY <1>1, <1>4, <2>1, <3>1 DEF TypeInv, LoaderTypes
  <2>3. CASE {r \in S : ~MakesWhatItSays(r)} = {}
    <3>1. loaded' = [i \in DOMAIN rs |-> catalog[rs[i]].makes]
      BY <1>6, <2>3 DEF ConstructModules
    <3>2. S \subseteq DOMAIN catalog
      BY DEF TypeInv, LoaderTypes
    <3>3. \A r \in S : catalog[r].makes \in Registrations
      BY <2>3, <3>2, CatalogTyped DEF MakesWhatItSays
    <3>4. S \in SUBSET Nat /\ IsFiniteSet(S)
      BY <3>2, CatalogTyped, FS_Subset
    <3>5. n \in Nat /\ DOMAIN rs = 1..n /\ \A i \in 1..n : rs[i] \in S
      BY <3>4, AscendingOf
    <3> HIDE DEF rs, n
    <3>6. loaded' \in [1..n -> Registrations]
      BY <3>1, <3>3, <3>5
    <3>7. loaded' \in Seq(Registrations)
      BY <3>5, <3>6
    <3> QED BY <1>1, <1>4, <2>1, <3>7 DEF TypeInv, LoaderTypes
  <2> QED BY <2>2, <2>3
<1>7. CASE CollectRoots \/ EndClosure \/ EndCycles
  <2>1. resolved' = resolved /\ loaded' = loaded
    BY <1>7 DEF CollectRoots, EndClosure, EndCycles, closureVars
  <2> QED BY <1>1, <1>4, <2>1 DEF TypeInv, LoaderTypes
<1> QED BY <1>5, <1>6, <1>7 DEF LoaderStep

\* A registration keeps the types, whether it is accepted or refused.
LEMMA RegisterKeepsTypes ==
    ASSUME TypeInv, Register
    PROVE  TypeInv'
<1> DEFINE regs == IF input.mode = "load" THEN loaded ELSE input.modules
<1>1. /\ stage = "register" /\ input' = input /\ ready' = ready /\ placed' = placed
      /\ definition' = definition /\ UNCHANGED loaderVars
  BY DEF Register, kahnVars
<1>2. LoaderTypes'
  BY <1>1 DEF TypeInv, LoaderTypes, loaderVars, closureVars
<1>3. regs \in Seq(Registrations)
  BY PlanningAssumption DEF TypeInv, LoaderTypes, PipelineTypes
<1>4. ready = {} /\ placed = <<>>
  BY <1>1 DEF TypeInv, PipelineTypes
<1>5. CASE UniqueIds(regs)
  <2>1. /\ modules' = [m \in ToSet(Ids(regs)) |-> CHOOSE r \in ToSet(regs) : r.id = m]
        /\ stage' = "build"
    BY <1>5 DEF Register
  <2> HIDE DEF regs
  <2>2. DOMAIN regs = 1..Len(regs) /\ \A i \in 1..Len(regs) : regs[i] \in Registrations /\ regs[i] \in ToSet(regs)
    BY <1>3, ToSetOf
  <2>3. \A r \in Registrations : r.id \in Nat
    BY DEF Registrations
  <2>4. Ids(regs) \in [1..Len(regs) -> Nat]
    BY <2>2, <2>3 DEF Ids
  <2>5. Ids(regs) \in Seq(Nat)
    BY <1>3, <2>4
  <2>6. ToSet(Ids(regs)) \subseteq Nat /\ IsFiniteSet(ToSet(Ids(regs)))
    BY <2>5, ToSetOf, ToSetFinite
  <2>7. ASSUME NEW m \in ToSet(Ids(regs)) PROVE modules'[m] \in Registrations /\ modules'[m].id = m
    <3>1. PICK i \in 1..Len(regs) : m = regs[i].id
      BY <2>2 DEF ToSet, Ids
    <3>2. \E r \in ToSet(regs) : r.id = m
      BY <2>2, <3>1
    <3>3. modules'[m] \in ToSet(regs) /\ modules'[m].id = m
      BY <2>1, <3>2
    <3> QED BY <1>3, <3>3, ToSetOf
  <2>8. DOMAIN modules' = ToSet(Ids(regs))
    BY <2>1
  <2>9. ModulesTyped(modules')
    BY <2>6, <2>7, <2>8 DEF ModulesTyped
  <2>10. placed' \in Seq(DOMAIN modules')
    BY <1>1, <1>4
  <2> QED BY <1>1, <1>2, <1>4, <2>9, <2>10 DEF TypeInv, PipelineTypes
<1>6. CASE ~UniqueIds(regs)
  <2>1. modules' = modules /\ stage' = "refused"
    BY <1>6 DEF Register, Refuse
  <2> QED BY <1>1, <1>2, <2>1 DEF TypeInv, PipelineTypes
<1> QED BY <1>5, <1>6

\* The steps of the ordering loop keep the types.
LEMMA KahnKeepsTypes ==
    ASSUME TypeInv, StartOrder \/ PlaceModule
    PROVE  TypeInv'
<1>1. input' = input /\ modules' = modules /\ definition' = definition /\ UNCHANGED loaderVars
  BY DEF StartOrder, PlaceModule
<1>2. LoaderTypes'
  BY <1>1 DEF TypeInv, LoaderTypes, loaderVars, closureVars
<1>3. CASE StartOrder
  <2>1. placed' = placed /\ stage' \in {"order", "refused"}
    BY <1>3 DEF StartOrder, Refuse
  <2>2. ready' \subseteq DOMAIN modules
    BY <1>3 DEF StartOrder, TypeInv, PipelineTypes
  <2> QED BY <1>1, <1>2, <2>1, <2>2 DEF TypeInv, PipelineTypes
<1>4. CASE PlaceModule
  <2> DEFINE m == TakeSmallest(ready)
  <2>1. /\ stage = "order" /\ stage' = stage /\ ready # {} /\ placed' = Append(placed, m)
    BY <1>4 DEF PlaceModule
  <2>2. ready \in SUBSET Nat /\ ready \subseteq DOMAIN modules
    BY DEF TypeInv, PipelineTypes, ModulesTyped
  <2>3. m \in DOMAIN modules
    BY <2>1, <2>2, MinIn DEF TakeSmallest
  <2>4. ready' \subseteq DOMAIN modules
    BY <1>4, <2>2 DEF PlaceModule
  <2>5. placed' \in Seq(DOMAIN modules)
    <3> HIDE DEF m
    <3> QED BY <2>1, <2>3 DEF TypeInv, PipelineTypes
  <2> QED BY <1>1, <1>2, <2>1, <2>4, <2>5 DEF TypeInv, PipelineTypes
<1> QED BY <1>3, <1>4

\* The merged definition, start and restore keep the types.
LEMMA BuildKeepsTypes ==
    ASSUME TypeInv, Build
    PROVE  TypeInv'
<1>1. /\ input' = input /\ modules' = modules /\ ready' = ready /\ placed' = placed
      /\ UNCHANGED loaderVars /\ stage' \in {"refused", "definition"}
  BY DEF Build, Refuse, kahnVars
<1>2. LoaderTypes'
  BY <1>1 DEF TypeInv, LoaderTypes, loaderVars, closureVars
<1>3. definition' \in RunDefinitions
  <2>1. CASE definition' = definition
    BY <2>1 DEF TypeInv, PipelineTypes
  <2>2. CASE definition' # definition
    <3>1. definition' = MergeDefinition(modules, placed) /\ RefusedContributions(modules) = "none"
      BY <2>2 DEF Build
    <3>2. ModulesTyped(modules) /\ placed \in Seq(DOMAIN modules)
      BY DEF TypeInv, PipelineTypes
    <3> QED BY <3>1, <3>2, ContributionsPass, MergeOf
  <2> QED BY <2>1, <2>2
<1> QED BY <1>1, <1>2, <1>3 DEF TypeInv, PipelineTypes

\* The other steps leave modules and placed alone.
LEMMA OthersKeepTypes ==
    ASSUME TypeInv,
           \/ EndLoad \/ ValidateDeclarations \/ Search \/ EndCapabilities \/ EndWorkflow \/ StartPlan
           \/ ConstructRuntime \/ Restart \/ UNCHANGED vars
    PROVE  TypeInv'
<1>1. /\ input' = input /\ modules' = modules /\ ready' = ready /\ placed' = placed
      /\ UNCHANGED loaderVars
  BY DEF EndLoad, ValidateDeclarations, Search, EndCapabilities, EndWorkflow, StartPlan,
         ConstructRuntime, Restart, vars, pipelineVars, kahnVars
<1>2. LoaderTypes'
  BY <1>1 DEF TypeInv, LoaderTypes, loaderVars, closureVars
<1>3. definition' \in RunDefinitions
  <2>1. definition' = definition \/ definition' \in Restarts
    BY DEF EndLoad, ValidateDeclarations, Search, EndCapabilities, EndWorkflow, StartPlan,
           ConstructRuntime, Restart, vars, pipelineVars
  <2> QED BY <2>1, PlanningAssumption DEF TypeInv, PipelineTypes
<1>4. stage' \in {"load", "register", "build"} => stage \in {"load", "register", "build"}
  BY DEF EndLoad, ValidateDeclarations, Search, EndCapabilities, EndWorkflow, StartPlan,
         ConstructRuntime, Restart, vars, pipelineVars, Refuse
<1> QED BY <1>1, <1>2, <1>3, <1>4 DEF TypeInv, PipelineTypes

\* Every step keeps the types.
LEMMA TypesKept ==
    ASSUME TypeInv, [Next]_vars
    PROVE  TypeInv'
<1>1. CASE Load
  BY <1>1, LoadKeepsTypes DEF Load
<1> QED BY <1>1, RegisterKeepsTypes, KahnKeepsTypes, BuildKeepsTypes, OthersKeepTypes DEF Next, Step

\* Every step keeps the invariant of the search.
LEMMA SearchInvKept ==
    ASSUME TypeInv, SearchInv, [Next]_vars
    PROVE  SearchInv'
<1>1. definition \in RunDefinitions
  BY DEF TypeInv, PipelineTypes
<1>2. CASE Load
  <2>1. CASE EndClosure /\ DOMAIN missing = {}
    <3>1. StartSearch(ToSet(requested), UNION {{<<r, d>> : d \in DependenciesOf(r)} : r \in DOMAIN resolved})
      BY <2>1 DEF EndClosure
    <3>2. ToSet(requested) \in SUBSET Nat
      BY CatalogTyped
    <3>3. DOMAIN resolved \in SUBSET (DOMAIN catalog)
      BY DEF TypeInv, LoaderTypes
    <3> QED BY <3>1, <3>2, <3>3, ReferenceGraph, SearchStarts
  <2>2. CASE ~(EndClosure /\ DOMAIN missing = {})
    <3>1. UNCHANGED searchVars
      BY <1>2, <2>2 DEF Load, LoaderStep, CollectRoots, CloseLevel, EndClosure, EndCycles, ConstructModules
    <3> QED BY <3>1, SearchStays
  <2> QED BY <2>1, <2>2
<1>3. CASE ValidateDeclarations
  <2>1. CASE RefusedDefinition(definition) = "none"
    BY <1>1, <1>3, <2>1, DefinitionGraphs, SearchStarts DEF ValidateDeclarations
  <2>2. CASE RefusedDefinition(definition) # "none"
    BY <1>3, <2>2, SearchStays DEF ValidateDeclarations
  <2> QED BY <2>1, <2>2
<1>4. CASE EndCapabilities
  <2>1. UNCHANGED searchVars \/ StartSearch(ToSet(Ids(definition.tasks)), TaskEdges(definition))
    BY <1>4 DEF EndCapabilities
  <2> QED BY <1>1, <2>1, DefinitionGraphs, SearchStarts, SearchStays
<1>5. CASE Search
  BY <1>5, SearchKeeps DEF Search
<1>6. CASE \/ EndLoad \/ Register \/ StartOrder \/ PlaceModule \/ Build \/ EndWorkflow \/ StartPlan
           \/ ConstructRuntime \/ Restart \/ UNCHANGED vars
  <2>1. UNCHANGED searchVars
    BY <1>6 DEF EndLoad, Register, StartOrder, PlaceModule, Build, EndWorkflow, StartPlan,
                ConstructRuntime, Restart, vars
  <2> QED BY <2>1, SearchStays
<1> QED BY <1>2, <1>3, <1>4, <1>5, <1>6 DEF Next, Step

\* The depth-first search of loader, resolver and workflow topology is exact,
\* whatever graph it is given: Active is on the stack, a reported cycle is one,
\* and a graph without a report has none and is ordered.
THEOREM SearchExactAlways == Spec => []SearchIsExact
<1>1. Init => TypeInv /\ SearchInv
  BY TypesInit, SearchIdle DEF Init
<1>2. TypeInv /\ SearchInv /\ [Next]_vars => (TypeInv /\ SearchInv)'
  BY TypesKept, SearchInvKept
<1>3. SearchInv => SearchIsExact
  BY SearchExact
<1> QED BY <1>1, <1>2, <1>3, PTL DEF Spec

----------------------------------------------------------------------------
(* The closure of the requested references *)

\* One step of dependencies more.
Grown(S) == S \cup UNION {DependenciesOf(r) : r \in S \cap DOMAIN catalog}
Grows(g, n) == g = [k \in 0..n |-> IF k = 0 THEN ToSet(requested) ELSE Grown(g[k - 1])]

\* The recursion of Within has a solution for every number of steps.
LEMMA GrowsExists ==
    ASSUME NEW n \in Nat
    PROVE  \E g : Grows(g, n)
<1> DEFINE T == {m \in Nat : \E g : Grows(g, m)}
<1>1. 0 \in T
  <2>1. Grows([k \in 0..0 |-> ToSet(requested)], 0)
    BY DEF Grows
  <2> QED BY <2>1
<1>2. ASSUME NEW m \in T PROVE m + 1 \in T
  <2>1. PICK f : Grows(f, m)
    BY <1>2
  <2> DEFINE g == [k \in 0..(m + 1) |-> IF k = m + 1 THEN Grown(f[m]) ELSE f[k]]
  <2>2. ASSUME NEW k \in 0..(m + 1)
        PROVE  g[k] = IF k = 0 THEN ToSet(requested) ELSE Grown(g[k - 1])
    <3>1. CASE k = m + 1
      <4>1. m \in 0..(m + 1) /\ m # m + 1 /\ k - 1 = m /\ k # 0
        BY <3>1, m \in Nat
      <4> QED BY <3>1, <4>1
    <3>2. CASE k # m + 1
      <4>1. k \in 0..m /\ (k # 0 => k - 1 \in 0..m /\ k - 1 \in 0..(m + 1) /\ k - 1 # m + 1)
        BY <3>2, m \in Nat
      <4>2. f[k] = IF k = 0 THEN ToSet(requested) ELSE Grown(f[k - 1])
        BY <2>1, <4>1 DEF Grows
      <4> QED BY <3>2, <4>1, <4>2
    <3> QED BY <3>1, <3>2
  <2>3. Grows(g, m + 1)
    <3>1. g = [k \in 0..(m + 1) |-> g[k]]
      OBVIOUS
    <3> HIDE DEF g
    <3> QED BY <2>2, <3>1 DEF Grows
  <2>4. m + 1 \in Nat
    OBVIOUS
  <2> HIDE DEF g
  <2> QED BY <2>3, <2>4
<1>3. T = Nat
  <2>1. T \in SUBSET Nat
    OBVIOUS
  <2> HIDE DEF T
  <2> QED BY <1>1, <1>2, <2>1, NatInduct
<1> QED BY <1>3

\* Two solutions agree where both are defined.
LEMMA GrowsAgree ==
    ASSUME NEW n \in Nat, NEW m \in Nat, n <= m, NEW f, Grows(f, n), NEW g, Grows(g, m)
    PROVE  \A k \in 0..n : f[k] = g[k]
<1> DEFINE T == {k \in 0..n : f[k] = g[k]}
<1>1. 0 \in T
  BY DEF Grows
<1>2. ASSUME NEW k \in 0..(n - 1), k \in T PROVE k + 1 \in T
  <2>1. k + 1 \in 0..n /\ k + 1 \in 0..m /\ k + 1 # 0 /\ (k + 1) - 1 = k
    OBVIOUS
  <2>2. f[k + 1] = Grown(f[k]) /\ g[k + 1] = Grown(g[k])
    BY <2>1 DEF Grows
  <2> QED BY <1>2, <2>1, <2>2
<1> HIDE DEF T
<1>3. \A k \in 0..n : k \in T
  BY <1>1, <1>2, NatInductTo
<1> QED BY <1>3 DEF T

\* Within, step by step.
LEMMA WithinStep ==
    /\ Within(0) = ToSet(requested)
    /\ \A n \in Nat : Within(n + 1) = Grown(Within(n))
<1>1. ASSUME NEW n \in Nat PROVE \E g : Grows(g, n) /\ Within(n) = g[n]
  <2>1. PICK f : Grows(f, n) /\ f = CHOOSE h : Grows(h, n)
    BY GrowsExists
  <2>2. Within(n) = f[n]
    BY <2>1 DEF Within, Grows, Grown
  <2> QED BY <2>1, <2>2
<1>2. Within(0) = ToSet(requested)
  <2>1. PICK g : Grows(g, 0) /\ Within(0) = g[0]
    BY <1>1
  <2> QED BY <2>1 DEF Grows
<1>3. ASSUME NEW n \in Nat PROVE Within(n + 1) = Grown(Within(n))
  <2>1. PICK f : Grows(f, n) /\ Within(n) = f[n]
    BY <1>1
  <2>2. n + 1 \in Nat /\ n <= n + 1 /\ n \in 0..n /\ n + 1 \in 0..(n + 1) /\ n + 1 # 0 /\ (n + 1) - 1 = n
    OBVIOUS
  <2>3. PICK g : Grows(g, n + 1) /\ Within(n + 1) = g[n + 1]
    BY <1>1, <2>2
  <2>4. f[n] = g[n]
    BY <2>1, <2>2, <2>3, GrowsAgree
  <2>5. g[n + 1] = Grown(g[n])
    BY <2>2, <2>3 DEF Grows
  <2> QED BY <2>1, <2>3, <2>4, <2>5
<1> QED BY <1>2, <1>3

\* Sets that hold the roots and what their members depend on.
ClosedSet(S) ==
    ToSet(requested) \subseteq S /\ \A r \in S \cap DOMAIN catalog : DependenciesOf(r) \subseteq S

\* A closed set holds what is within any number of steps.
LEMMA WithinClosed ==
    ASSUME NEW S, ClosedSet(S), NEW n \in Nat
    PROVE  Within(n) \subseteq S
<1> DEFINE T == {k \in Nat : Within(k) \subseteq S}
<1>1. 0 \in T
  BY WithinStep DEF ClosedSet
<1>2. ASSUME NEW k \in T PROVE k + 1 \in T
  <2>1. Within(k + 1) = Grown(Within(k)) /\ k + 1 \in Nat
    BY WithinStep
  <2>2. Grown(Within(k)) \subseteq S
    BY DEF Grown, ClosedSet
  <2> QED BY <2>1, <2>2
<1>3. T \in SUBSET Nat
  OBVIOUS
<1>4. T = Nat
  <2> HIDE DEF T
  <2> QED BY <1>1, <1>2, <1>3, NatInduct
<1> QED BY <1>4

\* More steps reach more, and nothing but references.
LEMMA WithinMore ==
    ASSUME TypeInv, NEW n \in Nat
    PROVE  Within(n) \subseteq Within(n + 1) /\ Within(n) \subseteq DOMAIN IdOf
<1>1. ClosedSet(DOMAIN IdOf)
  BY CatalogTyped DEF ClosedSet
<1> QED BY <1>1, WithinClosed, WithinStep DEF Grown

\* What is within as many steps as there are references is closed.
LEMMA ClosureClosed ==
    ASSUME TypeInv
    PROVE  ClosedSet(Closure)
<1> DEFINE R == DOMAIN IdOf
           N == Cardinality(R)
           T == {k \in Nat : ClosedSet(Within(k)) \/ Cardinality(Within(k)) >= k}
<1>1. IsFiniteSet(R) /\ N \in Nat
  BY CatalogTyped, FS_CardinalityType
<1>2. \A k \in Nat : /\ Within(k) \in SUBSET R /\ IsFiniteSet(Within(k)) /\ Cardinality(Within(k)) \in Nat
                     /\ Cardinality(Within(k)) <= N
  BY <1>1, WithinMore, FS_Subset, FS_CardinalityType
<1>3. 0 \in T
  BY <1>2
<1>4. \A k \in Nat : ToSet(requested) \subseteq Within(k)
  <2> DEFINE U == {k \in Nat : ToSet(requested) \subseteq Within(k)}
  <2>1. 0 \in U
    BY WithinStep
  <2>2. \A k \in U : k + 1 \in U
    BY WithinMore
  <2>3. U \in SUBSET Nat
    OBVIOUS
  <2>4. U = Nat
    <3> HIDE DEF U
    <3> QED BY <2>1, <2>2, <2>3, NatInduct
  <2> QED BY <2>4
<1>5. ASSUME NEW k \in T PROVE k + 1 \in T
  <2>1. k \in Nat /\ k + 1 \in Nat /\ Within(k + 1) = Grown(Within(k))
    BY WithinStep
  <2>2. CASE Within(k + 1) = Within(k)
    <3>1. \A r \in Within(k) \cap DOMAIN catalog : DependenciesOf(r) \subseteq Within(k)
      BY <2>1, <2>2 DEF Grown
    <3>2. ClosedSet(Within(k + 1))
      BY <1>4, <2>1, <2>2, <3>1 DEF ClosedSet
    <3> QED BY <2>1, <3>2
  <2>3. CASE Within(k + 1) # Within(k)
    <3>1. ~ClosedSet(Within(k))
      <4>1. ClosedSet(Within(k)) => Grown(Within(k)) = Within(k)
        BY DEF ClosedSet, Grown
      <4> QED BY <2>1, <2>3, <4>1
    <3>2. Cardinality(Within(k)) >= k
      BY <3>1
    <3>3. Within(k) \in SUBSET Within(k + 1)
      BY <2>1, WithinMore
    <3>4. Cardinality(Within(k)) <= Cardinality(Within(k + 1)) /\ Cardinality(Within(k)) # Cardinality(Within(k + 1))
      BY <1>2, <2>1, <2>3, <3>3, FS_Subset
    <3>5. Cardinality(Within(k + 1)) >= k + 1
      BY <1>2, <2>1, <3>2, <3>4
    <3> QED BY <2>1, <3>5
  <2> QED BY <2>2, <2>3
<1>6. T = Nat
  <2>1. T \in SUBSET Nat
    OBVIOUS
  <2> HIDE DEF T
  <2> QED BY <1>3, <1>5, <2>1, NatInduct
<1>7. ClosedSet(Within(N)) \/ Cardinality(Within(N)) >= N
  BY <1>1, <1>6
<1>8. CASE Cardinality(Within(N)) >= N
  <2>1. Cardinality(Within(N)) = N
    BY <1>1, <1>2, <1>8
  <2>2. Within(N) = R
    BY <1>1, <1>2, <2>1, FS_Subset
  <2>3. ClosedSet(R)
    BY CatalogTyped DEF ClosedSet
  <2> QED BY <2>2, <2>3 DEF Closure
<1> QED BY <1>7, <1>8 DEF Closure

\* The closure is the smallest closed set.
LEMMA ClosureLeast ==
    ASSUME TypeInv
    PROVE  /\ ClosedSet(Closure) /\ Closure \subseteq DOMAIN IdOf
           /\ \A S : ClosedSet(S) => Closure \subseteq S
           /\ \A n \in Nat : Within(n) \subseteq Closure
<1>1. Cardinality(DOMAIN IdOf) \in Nat
  BY CatalogTyped, FS_CardinalityType
<1> QED BY <1>1, ClosureClosed, WithinClosed, WithinMore DEF Closure

\* The closure is a matter of the catalog and the roots.
LEMMA ClosureSame ==
    ASSUME catalog' = catalog, requested' = requested
    PROVE  /\ Closure' = Closure /\ ReferenceEdges' = ReferenceEdges
           /\ \A n \in Nat : Within(n)' = Within(n)
           /\ \A r : DependenciesOf(r)' = DependenciesOf(r)
<1>1. \A r : DependenciesOf(r)' = DependenciesOf(r)
  BY DEF DependenciesOf
<1>2. \A n \in Nat : Within(n)' = Within(n)
  BY DEF Within, DependenciesOf
<1>3. Closure' = Closure
  BY DEF Closure, Within, DependenciesOf
<1>4. ReferenceEdges' = ReferenceEdges
  BY <1>1, <1>3 DEF ReferenceEdges
<1> QED BY <1>1, <1>2, <1>3, <1>4

\* A search without a report, all of whose edges start at reached nodes.
LEMMA NoCycleFound ==
    ASSUME SearchInv, result = "acyclic", \A e \in edges : e[1] \in Reached
    PROVE  ~HasCycle(edges)
<1>1. {e \in edges : e[1] \in Reached} = edges
  OBVIOUS
<1>2. ~HasCycle({e \in edges : e[1] \in Reached})
  BY SearchExact DEF SearchIsExact
<1> QED BY <1>1, <1>2

\* A closed walk is a cycle.
LEMMA WalkIsCycle ==
    ASSUME NEW N, NEW es, NEW p \in Seq(N), IsCycleOf(p, es)
    PROVE  HasCycle(es)
<1> DEFINE n == Len(p)
           S == {p[i] : i \in 1..(n - 1)}
<1>1. n \in Nat /\ n >= 2 /\ p[1] = p[n] /\ \A i \in 1..(n - 1) : <<p[i], p[i + 1]>> \in es
  BY DEF IsCycleOf, Last
<1>2. 1 \in 1..(n - 1)
  BY <1>1
<1>3. S # {}
  BY <1>2
<1>4. ASSUME NEW t \in S PROVE t \in {e[1] : e \in es} /\ \E d \in S : <<t, d>> \in es
  <2>1. PICK i \in 1..(n - 1) : t = p[i]
    OBVIOUS
  <2>2. <<t, p[i + 1]>> \in es
    BY <1>1, <2>1
  <2>3. <<t, p[i + 1]>>[1] = t
    OBVIOUS
  <2>4. p[i + 1] \in S
    <3>1. CASE i + 1 = n
      <4>1. p[i + 1] = p[1]
        BY <1>1, <3>1
      <4> QED BY <1>2, <4>1
    <3>2. CASE i + 1 # n
      <4>1. i + 1 \in 1..(n - 1)
        BY <1>1, <3>2
      <4> QED BY <4>1
    <3> QED BY <3>1, <3>2
  <2> HIDE DEF S
  <2> QED BY <2>2, <2>3, <2>4
<1> HIDE DEF S
<1>5. S \in SUBSET {e[1] : e \in es}
  BY <1>4
<1> QED BY <1>3, <1>4, <1>5 DEF HasCycle

\* A closed path started elsewhere is a closed path of the same references.
LEMMA Rotation ==
    ASSUME NEW es, NEW p \in Seq(Nat), IsCycleOf(p, es)
    PROVE  LET q == RotateToSmallest(p)
           IN  IsCycleOf(q, es) /\ q[1] = Min(ToSet(q))
<1> DEFINE open == Front(p)
           n == Len(p) - 1
           I == {j \in 1..Len(open) : open[j] = Min(ToSet(open))}
           i == SelectInSeq(open, LAMBDA r : r = Min(ToSet(open)))
           a == SubSeq(open, i, Len(open))
           b == SubSeq(open, 1, i)
           q == a \o b
<1>1. /\ Len(p) \in Nat /\ Len(p) >= 2 /\ p # <<>> /\ p[1] = p[Len(p)]
      /\ \A j \in 1..n : <<p[j], p[j + 1]>> \in es
  BY DEF IsCycleOf, Last
<1>2. n \in Nat /\ n >= 1 /\ Len(p) = n + 1
  BY <1>1
<1>3. open \in Seq(Nat) /\ Len(open) = n /\ \A j \in 1..n : open[j] = p[j]
  BY <1>1, FrontOf
<1> HIDE DEF open
<1>4. ToSet(open) = {open[j] : j \in 1..n} /\ ToSet(open) \in SUBSET Nat /\ ToSet(open) # {}
  <2>1. 1 \in 1..n
    BY <1>2
  <2> QED BY <1>3, <2>1, ToSetOf
<1>5. Min(ToSet(open)) \in ToSet(open) /\ Min(ToSet(open)) \in Nat
  BY <1>4, MinIn
<1>6. I # {} /\ I \in SUBSET Nat
  <2>1. PICK j \in 1..n : open[j] = Min(ToSet(open))
    BY <1>4, <1>5
  <2>2. j \in I
    BY <1>3, <2>1
  <2> QED BY <2>2
<1>7. i \in I
  <2>1. i = Min(I)
    BY <1>6 DEF SelectInSeq
  <2>2. Min(I) \in I
    BY <1>6, MinIn
  <2> HIDE DEF i, I
  <2> QED BY <2>1, <2>2
<1> HIDE DEF i
<1>8. i \in 1..n /\ i \in Nat /\ i >= 1 /\ i <= n /\ open[i] = Min(ToSet(open))
  BY <1>2, <1>3, <1>7
<1> HIDE DEF n
<1>9. a \in Seq(Nat) /\ Len(a) = n - i + 1 /\ \A j \in 1..(n - i + 1) : a[j] = open[i + j - 1]
  <2>1. \A k \in i..n : open[k] \in Nat
    BY <1>2, <1>3, <1>8
  <2> QED BY <1>2, <1>3, <1>8, <2>1, SubSeqProperties
<1>10. b \in Seq(Nat) /\ Len(b) = i /\ \A j \in 1..i : b[j] = open[j]
  <2>1. \A k \in 1..i : open[k] \in Nat /\ 1 + k - 1 = k
    BY <1>2, <1>3, <1>8
  <2>2. b \in Seq(Nat) /\ Len(b) = i - 1 + 1 /\ \A j \in 1..(i - 1 + 1) : b[j] = open[1 + j - 1]
    BY <1>2, <1>3, <1>8, <2>1, SubSeqProperties
  <2>3. i - 1 + 1 = i
    BY <1>8
  <2> QED BY <2>1, <2>2, <2>3
<1> DEFINE m == n - i + 1
<1>11. m \in Nat /\ m >= 1 /\ m + i = n + 1
  BY <1>2, <1>8
<1>12. Len(a) = m /\ \A j \in 1..m : a[j] = open[i + j - 1]
  BY <1>9
<1> HIDE DEF a, b
<1>13. /\ q \in Seq(Nat) /\ Len(q) = n + 1
       /\ \A j \in 1..m : q[j] = open[i + j - 1]
       /\ \A j \in 1..i : q[m + j] = open[j]
  <2> HIDE DEF m
  <2>1. q \in Seq(Nat) /\ Len(q) = m + i
    BY <1>8, <1>9, <1>10, <1>11, <1>12, ConcatProperties
  <2>2. ASSUME NEW j \in 1..m PROVE q[j] = a[j]
    BY <1>8, <1>9, <1>10, <1>11, <1>12
  <2>3. ASSUME NEW j \in 1..i PROVE q[m + j] = b[j]
    <3>1. m + j \in 1..(m + i) /\ ~(m + j <= m) /\ (m + j) - m = j
      BY <1>8, <1>11
    <3> QED BY <1>8, <1>9, <1>10, <1>11, <1>12, <3>1
  <2> QED BY <1>10, <1>11, <1>12, <2>1, <2>2, <2>3
<1> HIDE DEF q
<1>14. q[1] = open[i] /\ q[n + 1] = open[i]
  <2>1. 1 \in 1..m /\ i + 1 - 1 = i /\ i \in 1..i
    BY <1>8, <1>11
  <2>2. q[1] = open[i]
    BY <1>13, <2>1
  <2>3. q[m + i] = open[i]
    BY <1>13, <2>1
  <2> QED BY <1>11, <2>2, <2>3
<1>15. ASSUME NEW j \in 1..n PROVE <<q[j], q[j + 1]>> \in es
  <2>1. CASE j < m
    <3>1. j \in 1..m /\ j + 1 \in 1..m /\ i + j - 1 \in 1..n /\ i + j \in 1..n
          /\ i + (j + 1) - 1 = i + j /\ (i + j - 1) + 1 = i + j
      BY <1>2, <1>8, <1>11, <2>1
    <3>2. q[j] = p[i + j - 1] /\ q[j + 1] = p[i + j]
      BY <1>3, <1>13, <3>1
    <3>3. <<p[i + j - 1], p[(i + j - 1) + 1]>> \in es
      BY <1>1, <3>1
    <3> QED BY <3>1, <3>2, <3>3
  <2>2. CASE j = m
    <3>1. m \in 1..m /\ i + m - 1 = n /\ 1 \in 1..i /\ n \in 1..n /\ 1 \in 1..n
      BY <1>2, <1>8, <1>11
    <3>2. q[m] = open[i + m - 1] /\ q[m + 1] = open[1]
      BY <1>13, <3>1
    <3>3. q[m] = p[n] /\ q[m + 1] = p[1]
      BY <1>3, <3>1, <3>2
    <3>4. <<p[n], p[n + 1]>> \in es /\ p[n + 1] = p[1]
      BY <1>1, <1>2, <3>1
    <3> QED BY <2>2, <3>3, <3>4
  <2>3. CASE j > m
    <3> DEFINE k == j - m
    <3>1. k \in 1..i /\ k + 1 \in 1..i /\ m + k = j /\ m + (k + 1) = j + 1 /\ k \in 1..n /\ k + 1 \in 1..n
      BY <1>2, <1>8, <1>11, <2>3
    <3> HIDE DEF k
    <3>2. q[m + k] = p[k] /\ q[m + (k + 1)] = p[k + 1]
      BY <1>3, <1>13, <3>1
    <3>3. <<p[k], p[k + 1]>> \in es
      BY <1>1, <3>1
    <3> QED BY <3>1, <3>2, <3>3
  <2> QED BY <1>2, <1>11, <2>1, <2>2, <2>3
<1>16. IsCycleOf(q, es)
  <2>1. Last(q) = q[n + 1] /\ Len(q) - 1 = n /\ Len(q) >= 2
    BY <1>2, <1>13 DEF Last
  <2> QED BY <1>14, <1>15, <2>1 DEF IsCycleOf
<1>17. ToSet(q) = ToSet(open)
  <2>1. ToSet(q) = {q[j] : j \in 1..(n + 1)}
    BY <1>13, ToSetOf
  <2>2. ASSUME NEW j \in 1..(n + 1) PROVE q[j] \in ToSet(open)
    <3>1. CASE j <= m
      <4>1. j \in 1..m /\ i + j - 1 \in 1..n
        BY <1>2, <1>8, <1>11, <3>1
      <4> QED BY <1>4, <1>13, <4>1
    <3>2. CASE ~(j <= m)
      <4>1. j - m \in 1..i /\ m + (j - m) = j /\ j - m \in 1..n
        BY <1>2, <1>8, <1>11, <3>2
      <4>2. q[m + (j - m)] = open[j - m]
        BY <1>13, <4>1
      <4> QED BY <1>4, <4>1, <4>2
    <3> QED BY <3>1, <3>2
  <2>3. ASSUME NEW k \in 1..n PROVE open[k] \in ToSet(q)
    <3>1. CASE k <= i
      <4>1. k \in 1..i /\ m + k \in 1..(n + 1)
        BY <1>2, <1>8, <1>11, <3>1
      <4>2. q[m + k] = open[k]
        BY <1>13, <4>1
      <4> QED BY <2>1, <4>1, <4>2
    <3>2. CASE ~(k <= i)
      <4>1. k - i + 1 \in 1..m /\ i + (k - i + 1) - 1 = k /\ k - i + 1 \in 1..(n + 1)
        BY <1>2, <1>8, <1>11, <3>2
      <4>2. q[k - i + 1] = open[i + (k - i + 1) - 1]
        BY <1>13, <4>1
      <4> QED BY <2>1, <4>1, <4>2
    <3> QED BY <3>1, <3>2
  <2> QED BY <1>4, <2>1, <2>2, <2>3
<1>18. RotateToSmallest(p) = q
  BY DEF RotateToSmallest, q, a, b, i, open
<1> QED BY <1>8, <1>14, <1>16, <1>17, <1>18

----------------------------------------------------------------------------
(* The loader, level by level *)

\* A path of declared dependencies from a root.
PathTo(q, d) ==
    /\ q \in Seq(Nat) /\ Len(q) >= 1 /\ q[1] \in ToSet(requested) /\ q[Len(q)] = d
    /\ \A i \in 1..(Len(q) - 1) : <<q[i], q[i + 1]>> \in ReferenceEdges

\* What is closer than l steps.
Before(l) == IF l = 0 THEN {} ELSE Within(l - 1)

\* The l-th level: what is closer has been looked up, and the frontier is the
\* rest of what is within l steps, with shortest paths.
Level(l) ==
    /\ DOMAIN resolved \cup DOMAIN missing = Before(l)
    /\ DOMAIN frontier \subseteq Within(l) /\ Within(l) \subseteq DOMAIN frontier \cup Before(l)
    /\ \A d \in DOMAIN frontier : PathTo(frontier[d], d) /\ Len(frontier[d]) = l + 1

MissingInv ==
    /\ DOMAIN missing \cap DOMAIN catalog = {}
    /\ \A d \in DOMAIN missing :
          /\ PathTo(missing[d], d)
          /\ Len(missing[d]) > 1 => d \notin Within(Len(missing[d]) - 2)

\* The edges between references, one by one.
LEMMA EdgeIn ==
    ASSUME NEW r \in Closure, r \in DOMAIN catalog, NEW d \in DependenciesOf(r)
    PROVE  <<r, d>> \in ReferenceEdges
<1>1. <<r, d>> \in {<<r, x>> : x \in DependenciesOf(r)}
  OBVIOUS
<1>2. {<<r, x>> : x \in DependenciesOf(r)} \in {{<<s, x>> : x \in DependenciesOf(s)} : s \in Closure \cap DOMAIN catalog}
  OBVIOUS
<1> QED BY <1>1, <1>2 DEF ReferenceEdges

\* What is within l levels is before level l + 1, and one level more grows it once.
LEMMA BeforeMore ==
    ASSUME TypeInv, NEW l \in Nat
    PROVE  Before(l) \subseteq Within(l) /\ Before(l + 1) = Within(l) /\ Within(l + 1) = Grown(Within(l))
<1>1. CASE l = 0
  BY <1>1, WithinStep DEF Before
<1>2. CASE l # 0
  <2>1. l - 1 \in Nat /\ (l - 1) + 1 = l
    BY <1>2
  <2>2. Within(l - 1) \subseteq Within(l)
    BY <2>1, WithinMore
  <2> QED BY <1>2, <2>1, <2>2, WithinStep DEF Before
<1> QED BY <1>1, <1>2

\* A path, one dependency longer.
LEMMA LongerPath ==
    ASSUME NEW q, NEW r \in Nat, PathTo(q, r), NEW d \in Nat, <<r, d>> \in ReferenceEdges
    PROVE  PathTo(Append(q, d), d) /\ Len(Append(q, d)) = Len(q) + 1
<1> DEFINE n == Len(q)
           a == Append(q, d)
<1>1. q \in Seq(Nat) /\ n \in Nat /\ n >= 1 /\ q[n] = r
  BY DEF PathTo
<1>2. /\ a \in Seq(Nat) /\ Len(a) = n + 1 /\ a[n + 1] = d
      /\ \A i \in 1..n : a[i] = q[i]
  BY <1>1
<1> HIDE DEF a
<1>3. ASSUME NEW i \in 1..n PROVE <<a[i], a[i + 1]>> \in ReferenceEdges
  <2>1. CASE i = n
    BY <1>1, <1>2, <2>1
  <2>2. CASE i # n
    <3>1. i \in 1..(n - 1) /\ i + 1 \in 1..n
      BY <1>1, <2>2
    <3> QED BY <1>2, <3>1 DEF PathTo
  <2> QED BY <2>1, <2>2
<1>4. 1 \in 1..n /\ Len(a) - 1 = n /\ Len(a) >= 1
  BY <1>1, <1>2
<1>5. a[1] \in ToSet(requested)
  BY <1>2, <1>4 DEF PathTo
<1>6. PathTo(a, d)
  BY <1>2, <1>3, <1>4, <1>5 DEF PathTo
<1> QED BY <1>2, <1>6 DEF a

\* A turn of the closure resolves the references of exactly one level more.
LEMMA CloseLevelKeeps ==
    ASSUME TypeInv, NEW l \in Nat, Level(l), MissingInv, CloseLevel
    PROVE  Level(l + 1)' /\ MissingInv'
<1> DEFINE new == DOMAIN frontier \ DOMAIN resolved
           found == new \cap DOMAIN catalog
           Askers(d) == {r \in found : /\ d \in DependenciesOf(r)
                                       /\ d \notin DOMAIN resolved
                                       /\ ~(d \in found /\ d <= r)}
           next == {d \in UNION {DependenciesOf(r) : r \in found} : Askers(d) # {}}
<1>1. /\ resolved' = Joined(resolved, Restrict(frontier, found))
      /\ missing' = Joined(missing, Restrict(frontier, new \ found))
      /\ frontier' = [d \in next |-> Append(frontier[Min(Askers(d))], d)]
      /\ catalog' = catalog /\ requested' = requested
  BY DEF CloseLevel
<1>2. /\ Closure' = Closure /\ ReferenceEdges' = ReferenceEdges
      /\ \A n \in Nat : Within(n)' = Within(n)
      /\ \A r : DependenciesOf(r)' = DependenciesOf(r)
  BY <1>1, ClosureSame
<1>3. \A q, d : PathTo(q, d)' <=> PathTo(q, d)
  BY <1>1, <1>2 DEF PathTo
<1>4. /\ DOMAIN resolved' = DOMAIN resolved \cup found
      /\ DOMAIN missing' = DOMAIN missing \cup (new \ found)
      /\ \A d \in DOMAIN missing : missing'[d] = missing[d]
      /\ \A d \in new \ found : d \notin DOMAIN missing => missing'[d] = frontier[d]
  BY <1>1 DEF Joined, Restrict
<1>5. /\ Before(l) \subseteq Within(l) /\ Before(l + 1) = Within(l) /\ Within(l + 1) = Grown(Within(l))
      /\ Within(l) \subseteq Closure
  BY BeforeMore, ClosureLeast
<1>6. Before(l + 1)' = Before(l + 1) /\ l + 1 \in Nat
  <2>1. l \in Nat /\ (l + 1) - 1 = l /\ l + 1 # 0
    OBVIOUS
  <2> QED BY <1>2, <2>1 DEF Before
<1>7. found \subseteq Within(l) /\ found \subseteq Closure /\ found \subseteq DOMAIN catalog /\ found \subseteq Nat
  BY <1>5, CatalogTyped DEF Level
<1>8. \A r \in found : DependenciesOf(r) \subseteq DOMAIN IdOf /\ DependenciesOf(r) \subseteq Nat
  BY <1>7, CatalogTyped
<1> HIDE DEF found
<1>9. ASSUME NEW d \in next
      PROVE  LET r == Min(Askers(d)) IN r \in found /\ d \in DependenciesOf(r)
  <2>1. Askers(d) \in SUBSET Nat /\ Askers(d) # {}
    BY <1>7, <1>9
  <2>2. Min(Askers(d)) \in Askers(d)
    BY <2>1, MinIn
  <2> QED BY <2>2
<1>10. ASSUME NEW d \in next PROVE PathTo(frontier'[d], d) /\ Len(frontier'[d]) = l + 2 /\ d \in Within(l + 1)
  <2>1. PICK r \in found : r = Min(Askers(d)) /\ d \in DependenciesOf(r)
    BY <1>9
  <2>2. frontier'[d] = Append(frontier[r], d)
    BY <1>1, <2>1
  <2>3. PathTo(frontier[r], r) /\ Len(frontier[r]) = l + 1
    BY DEF Level, found
  <2>4. <<r, d>> \in ReferenceEdges
    BY <1>7, <2>1, EdgeIn
  <2>5. r \in Nat /\ d \in Nat
    BY <1>7, <1>8, <2>1
  <2>6. PathTo(frontier'[d], d) /\ Len(frontier'[d]) = (l + 1) + 1
    BY <2>2, <2>3, <2>4, <2>5, LongerPath
  <2>7. d \in Within(l + 1)
    BY <1>5, <1>7, <2>1 DEF Grown
  <2> QED BY <2>6, <2>7
<1>11. DOMAIN frontier' = next
  BY <1>1
<1>12. ASSUME NEW d \in Within(l + 1), d \notin Within(l) PROVE d \in next
  <2>1. PICK r \in Within(l) \cap DOMAIN catalog : d \in DependenciesOf(r)
    BY <1>5, <1>12 DEF Grown
  <2>2. r \notin Before(l)
    <3>1. SUFFICES ASSUME r \in Before(l) PROVE FALSE
      OBVIOUS
    <3>2. l # 0 /\ r \in Within(l - 1) /\ l - 1 \in Nat /\ (l - 1) + 1 = l
      BY <3>1 DEF Before
    <3>3. Within(l) = Grown(Within(l - 1))
      BY <3>2, WithinStep
    <3> QED BY <1>12, <2>1, <3>2, <3>3 DEF Grown
  <2>3. r \in DOMAIN frontier /\ r \notin DOMAIN resolved
    BY <2>1, <2>2 DEF Level
  <2>4. r \in found
    BY <2>1, <2>3 DEF found
  <2>5. d \notin DOMAIN resolved /\ d \notin found
    BY <1>5, <1>7, <1>12 DEF Level
  <2>6. r \in Askers(d)
    BY <2>1, <2>4, <2>5
  <2> QED BY <2>1, <2>4, <2>6
<1> HIDE DEF next, Askers
<1>13. DOMAIN resolved' \cup DOMAIN missing' = Within(l)
  <2>1. DOMAIN resolved' \cup DOMAIN missing' = DOMAIN resolved \cup DOMAIN missing \cup DOMAIN frontier
    BY <1>4 DEF found
  <2> QED BY <1>5, <2>1 DEF Level
<1>14. Level(l + 1)'
  <2>1. Within(l + 1)' = Within(l + 1) /\ (l + 1) + 1 = l + 2
    BY <1>2, <1>6
  <2>2. DOMAIN frontier' \subseteq Within(l + 1) /\ Within(l + 1) \subseteq DOMAIN frontier' \cup Before(l + 1)
    BY <1>5, <1>10, <1>11, <1>12
  <2>3. PICK F : F = frontier'
    OBVIOUS
  <2>4. \A d \in DOMAIN F : PathTo(F[d], d)' /\ Len(F[d]) = (l + 1) + 1
    BY <1>3, <1>10, <1>11, <2>1, <2>3
  <2>5. DOMAIN resolved' \cup DOMAIN missing' = Before(l + 1)'
    BY <1>5, <1>6, <1>13
  <2> QED BY <1>6, <2>1, <2>2, <2>3, <2>4, <2>5 DEF Level
<1>15. MissingInv'
  <2>1. ASSUME NEW d \in DOMAIN missing'
        PROVE  PathTo(missing'[d], d) /\ (Len(missing'[d]) > 1 => d \notin Within(Len(missing'[d]) - 2))
               /\ d \notin DOMAIN catalog
    <3>1. CASE d \in DOMAIN missing
      BY <1>4, <3>1 DEF MissingInv
    <3>2. CASE d \notin DOMAIN missing
      <4>1. d \in new \ found /\ missing'[d] = frontier[d]
        BY <1>4, <3>2
      <4>2. PathTo(frontier[d], d) /\ Len(frontier[d]) = l + 1 /\ d \notin DOMAIN resolved
        BY <4>1 DEF Level
      <4>3. d \notin Before(l)
        BY <3>2, <4>2 DEF Level
      <4>4. l + 1 > 1 => d \notin Within((l + 1) - 2)
        <5>1. l + 1 > 1 => l # 0 /\ (l + 1) - 2 = l - 1
          OBVIOUS
        <5> QED BY <4>3, <5>1 DEF Before
      <4>5. d \notin DOMAIN catalog
        BY <4>1 DEF found
      <4> QED BY <4>1, <4>2, <4>4, <4>5
    <3> QED BY <3>1, <3>2
  <2>2. PICK F : F = missing'
    OBVIOUS
  <2>3. ASSUME NEW d \in DOMAIN F
        PROVE  PathTo(F[d], d)' /\ (Len(F[d]) > 1 => d \notin Within(Len(F[d]) - 2)')
    <3>1. PathTo(F[d], d) /\ (Len(F[d]) > 1 => d \notin Within(Len(F[d]) - 2))
      BY <2>1, <2>2
    <3>2. Len(F[d]) > 1 => Len(F[d]) - 2 \in Nat
      BY <3>1 DEF PathTo
    <3> QED BY <1>2, <1>3, <3>1, <3>2
  <2>4. DOMAIN missing' \cap DOMAIN catalog' = {}
    BY <1>1, <2>1
  <2> QED BY <2>2, <2>3, <2>4 DEF MissingInv
<1> QED BY <1>14, <1>15

\* What is asked of the paths in a refusal.
MissingExact(q) ==
    /\ Last(q) = Min(Closure \ DOMAIN catalog)
    /\ q[1] \in ToSet(requested)
    /\ \A i \in 1..(Len(q) - 1) : <<q[i], q[i + 1]>> \in ReferenceEdges
    /\ Len(q) > 1 => Last(q) \notin Within(Len(q) - 2)
CycleExact(q) ==
    Closure \ DOMAIN catalog = {} /\ IsCycleOf(q, ReferenceEdges) /\ q[1] = Min(ToSet(q))
RefusalExact ==
    /\ loadError.by \in {"duplicate_root", "missing_reference", "dependency_cycle", "construction"}
    /\ loadError.by = "missing_reference" => MissingExact(loadError.path)
    /\ loadError.by = "dependency_cycle" => CycleExact(loadError.path)

\* The registrations that were made are those of the resolved references.
LoadedInv ==
    /\ \A r \in DOMAIN resolved : MakesWhatItSays(r) /\ \E i \in DOMAIN loaded : loaded[i] = catalog[r].makes
    /\ \A i \in DOMAIN loaded : \E r \in DOMAIN resolved : loaded[i] = catalog[r].makes

\* The loader, phase by phase.
ClosureInv ==
    /\ loading = "roots" => DOMAIN frontier = {} /\ DOMAIN resolved = {} /\ DOMAIN missing = {}
    /\ loading = "closure" => MissingInv /\ \E l \in Nat : Level(l)
    /\ loading \in {"cycles", "construct", "loaded"} =>
          DOMAIN resolved = Closure /\ Closure \subseteq DOMAIN catalog
    /\ loading \in {"construct", "loaded"} => ~HasCycle(ReferenceEdges)
    /\ loading = "loaded" => LoadedInv
    /\ loading # "refused" => loadError = None
    /\ loading = "refused" => RefusalExact
StageInv ==
    /\ stage = "load" => input.mode = "load"
    /\ stage # "load" => loading \in {"roots", "loaded", "refused"}
    /\ stage \notin {"load", "refused"} /\ input.mode = "load" => loading = "loaded"
SearchOfLoad == loading = "cycles" => roots = ToSet(requested) /\ edges = ReferenceEdges
LoadInv == ClosureInv /\ StageInv /\ SearchOfLoad

\* A load begins with nothing resolved and nothing missing.
LEMMA LoadInit ==
    ASSUME Init
    PROVE  LoadInv
<1>1. /\ loading = "roots" /\ frontier = <<>> /\ resolved = <<>> /\ missing = <<>> /\ loadError = None
      /\ input \in Inputs
      /\ stage = CASE input.mode = "load" -> "load"
                   [] input.mode = "compose" -> "register"
                   [] input.mode = "define" -> "definition"
  BY DEF Init, LoaderInit
<1>2. input.mode \in {"load", "compose", "define"}
  BY <1>1, PlanningAssumption
<1>3. stage = "load" <=> input.mode = "load"
  BY <1>1, <1>2
<1>4. DOMAIN frontier = {} /\ DOMAIN resolved = {} /\ DOMAIN missing = {}
  BY <1>1
<1> QED BY <1>1, <1>3, <1>4 DEF LoadInv, ClosureInv, StageInv, SearchOfLoad

\* The search of the loader starts with the closure complete.
LEMMA ClosureComplete ==
    ASSUME TypeInv, NEW l \in Nat, Level(l), MissingInv, DOMAIN frontier = {}
    PROVE  Closure = DOMAIN resolved \cup DOMAIN missing /\ Closure \ DOMAIN catalog = DOMAIN missing
<1> DEFINE S == DOMAIN resolved \cup DOMAIN missing
<1>1. S = Before(l) /\ Within(l) \subseteq S
  BY DEF Level
<1>2. S \subseteq Within(l)
  BY <1>1, BeforeMore
<1>3. S = Within(l) /\ ToSet(requested) \subseteq Within(l)
  <2>1. ToSet(requested) \subseteq Closure /\ Within(0) = ToSet(requested)
    BY WithinStep, ClosureLeast DEF ClosedSet
  <2>2. S = Within(l)
    BY <1>1, <1>2
  <2> DEFINE T == {k \in Nat : ToSet(requested) \subseteq Within(k)}
  <2>3. 0 \in T /\ T \in SUBSET Nat
    BY <2>1
  <2>4. \A k \in T : k + 1 \in T
    BY WithinMore
  <2>5. T = Nat
    <3> HIDE DEF T
    <3> QED BY <2>3, <2>4, NatInduct
  <2> QED BY <2>2, <2>5
<1>4. ClosedSet(S)
  <2>1. CASE l = 0
    <3>1. S = {}
      BY <1>1, <2>1 DEF Before
    <3> HIDE DEF S
    <3> QED BY <1>3, <3>1 DEF ClosedSet
  <2>2. CASE l # 0
    <3>1. l - 1 \in Nat /\ (l - 1) + 1 = l
      BY <2>2
    <3>2. S = Within(l - 1) /\ Within(l) = Grown(Within(l - 1))
      BY <1>1, <2>2, <3>1, WithinStep DEF Before
    <3> HIDE DEF S
    <3>3. \A r \in S \cap DOMAIN catalog : DependenciesOf(r) \subseteq S
      BY <1>3, <3>2 DEF Grown
    <3> QED BY <1>3, <3>3 DEF ClosedSet
  <2> QED BY <2>1, <2>2
<1>5. Closure = S
  <2>1. Within(l) \subseteq Closure
    BY ClosureLeast
  <2> HIDE DEF S
  <2> QED BY <1>3, <1>4, <2>1, ClosureLeast
<1>6. DOMAIN missing \cap DOMAIN catalog = {} /\ DOMAIN resolved \subseteq DOMAIN catalog
  BY DEF MissingInv, TypeInv, LoaderTypes
<1> QED BY <1>5, <1>6

\* A loader that searched its closure in vain has passed on no cycle.
LEMMA LoadedAcyclic ==
    ASSUME TypeInv, SearchInv, loading = "cycles", LoadInv, result = "acyclic"
    PROVE  ~HasCycle(ReferenceEdges)
<1>1. roots = ToSet(requested) /\ edges = ReferenceEdges /\ Closure \subseteq DOMAIN catalog
  BY DEF LoadInv, ClosureInv, SearchOfLoad
<1>2. roots \subseteq Reached /\ \A n \in Reached, d \in Nodes : <<n, d>> \in edges => d \in Reached
  BY ReachedClosed DEF SearchInv
<1> DEFINE S == Reached \cap Closure
<1>3. ClosedSet(S)
  <2>1. ClosedSet(Closure)
    BY ClosureLeast
  <2>2. ASSUME NEW r \in S, r \in DOMAIN catalog, NEW d \in DependenciesOf(r) PROVE d \in S
    <3>1. <<r, d>> \in edges
      BY <1>1, <2>2, EdgeIn
    <3>2. <<r, d>>[2] = d
      OBVIOUS
    <3>3. d \in Nodes
      BY <3>1, <3>2 DEF SearchInv, GraphInv
    <3> QED BY <1>2, <2>1, <2>2, <3>1, <3>3 DEF ClosedSet
  <2>3. ToSet(requested) \subseteq S
    BY <1>1, <1>2, <2>1 DEF ClosedSet
  <2> HIDE DEF S
  <2> QED BY <2>2, <2>3 DEF ClosedSet
<1>4. Closure \subseteq Reached
  BY <1>3, ClosureLeast
<1>5. \A e \in ReferenceEdges : e[1] \in Closure
  BY DEF ReferenceEdges
<1> QED BY <1>1, <1>4, <1>5, NoCycleFound

\* The first frontier is the roots, unless one is requested twice.
LEMMA CollectRootsKeeps ==
    ASSUME TypeInv, LoadInv, CollectRoots
    PROVE  ClosureInv'
<1> DEFINE again == {requested[i] : i \in {j \in DOMAIN requested :
                        \E k \in 1..(j - 1) : requested[k] = requested[j]}}
<1>1. /\ loading = "roots" /\ catalog' = catalog /\ requested' = requested /\ resolved' = resolved
      /\ missing' = missing
  BY DEF CollectRoots
<1>2. DOMAIN resolved = {} /\ DOMAIN missing = {} /\ loadError = None
  BY <1>1 DEF LoadInv, ClosureInv
<1>3. CASE again # {}
  <2>1. loading' = "refused" /\ loadError' = [by |-> "duplicate_root", path |-> <<Min(again)>>]
    BY <1>3 DEF CollectRoots, RefuseLoad
  <2> QED BY <2>1 DEF ClosureInv, RefusalExact
<1>4. CASE again = {}
  <2>1. frontier' = [r \in ToSet(requested) |-> <<r>>] /\ loading' = "closure" /\ loadError' = loadError
    BY <1>4 DEF CollectRoots
  <2>2. /\ ReferenceEdges' = ReferenceEdges /\ \A n \in Nat : Within(n)' = Within(n)
    BY <1>1, ClosureSame
  <2>3. Within(0) = ToSet(requested) /\ ToSet(requested) \subseteq Nat
    BY WithinStep, CatalogTyped
  <2>4. MissingInv'
    BY <1>1, <1>2 DEF MissingInv
  <2>5. PICK F : F = frontier'
    OBVIOUS
  <2>6. ASSUME NEW d \in DOMAIN F PROVE PathTo(F[d], d)' /\ Len(F[d]) = 0 + 1
    <3>1. F[d] = <<d>> /\ d \in ToSet(requested) /\ d \in Nat
      BY <2>1, <2>3, <2>5
    <3>2. PathTo(<<d>>, d)'
      BY <1>1, <3>1 DEF PathTo
    <3> QED BY <3>1, <3>2
  <2>7. Before(0)' = {} /\ Within(0)' = ToSet(requested)
    BY <2>2, <2>3 DEF Before
  <2>8. DOMAIN frontier' = ToSet(requested)
    BY <2>1
  <2>9. Level(0)'
    BY <1>1, <1>2, <2>5, <2>6, <2>7, <2>8 DEF Level
  <2>10. \E l \in Nat : Level(l)'
    BY <2>9
  <2> QED BY <1>2, <2>1, <2>4, <2>10 DEF ClosureInv
<1> QED BY <1>3, <1>4

\* An empty frontier means that the closure is complete; what is missing decides.
LEMMA EndClosureKeeps ==
    ASSUME TypeInv, LoadInv, EndClosure
    PROVE  ClosureInv' /\ SearchOfLoad'
<1>1. /\ loading = "closure" /\ DOMAIN frontier = {} /\ catalog' = catalog /\ requested' = requested
      /\ resolved' = resolved /\ missing' = missing
  BY DEF EndClosure, closureVars
<1>2. PICK l \in Nat : Level(l)
  BY <1>1 DEF LoadInv, ClosureInv
<1>3. MissingInv /\ loadError = None
  BY <1>1 DEF LoadInv, ClosureInv
<1>4. Closure = DOMAIN resolved \cup DOMAIN missing /\ Closure \ DOMAIN catalog = DOMAIN missing
  BY <1>1, <1>2, <1>3, ClosureComplete
<1>5. /\ Closure' = Closure /\ ReferenceEdges' = ReferenceEdges
      /\ \A n \in Nat : Within(n)' = Within(n)
  BY <1>1, ClosureSame
<1>6. CASE DOMAIN missing # {}
  <2> DEFINE d == Min(DOMAIN missing)
             q == missing[d]
  <2>1. loading' = "refused" /\ loadError' = [by |-> "missing_reference", path |-> q]
    BY <1>6 DEF EndClosure, RefuseLoad
  <2>2. DOMAIN missing \in SUBSET Nat
    BY <1>4, ClosureLeast, CatalogTyped
  <2>3. d \in DOMAIN missing
    BY <1>6, <2>2, MinIn
  <2>4. PathTo(q, d) /\ (Len(q) > 1 => d \notin Within(Len(q) - 2))
    BY <1>3, <2>3 DEF MissingInv
  <2>5. Last(q) = d
    BY <2>4 DEF PathTo, Last
  <2>6. Len(q) > 1 => Len(q) - 2 \in Nat
    BY <2>4 DEF PathTo
  <2>7. PICK x : x = q
    OBVIOUS
  <2>8. MissingExact(x)'
    BY <1>1, <1>4, <1>5, <2>4, <2>5, <2>6, <2>7 DEF MissingExact, PathTo
  <2> HIDE DEF q
  <2>9. loadError'.by = "missing_reference" /\ loadError'.path = x
    BY <2>1, <2>7
  <2>10. RefusalExact'
    BY <2>8, <2>9 DEF RefusalExact
  <2> QED BY <2>1, <2>10 DEF ClosureInv, SearchOfLoad
<1>7. CASE DOMAIN missing = {}
  <2>1. /\ StartSearch(ToSet(requested), UNION {{<<r, x>> : x \in DependenciesOf(r)} : r \in DOMAIN resolved})
        /\ loading' = "cycles" /\ loadError' = loadError
    BY <1>7 DEF EndClosure
  <2>2. DOMAIN resolved = Closure /\ Closure \subseteq DOMAIN catalog
    BY <1>4, <1>7
  <2>3. DOMAIN resolved = Closure \cap DOMAIN catalog
    BY <2>2
  <2>4. roots' = ToSet(requested) /\ edges' = ReferenceEdges
    BY <2>1, <2>3 DEF StartSearch, ReferenceEdges
  <2> QED BY <1>1, <1>3, <1>5, <2>1, <2>2, <2>4 DEF ClosureInv, SearchOfLoad
<1> QED BY <1>6, <1>7

\* The answer of the search is that of the closure of the roots.
LEMMA EndCyclesKeeps ==
    ASSUME TypeInv, SearchInv, LoadInv, EndCycles
    PROVE  ClosureInv'
<1>1. /\ loading = "cycles" /\ catalog' = catalog /\ requested' = requested
      /\ resolved' = resolved /\ missing' = missing
  BY DEF EndCycles, closureVars
<1>2. /\ Closure' = Closure /\ ReferenceEdges' = ReferenceEdges
  BY <1>1, ClosureSame
<1>3. /\ DOMAIN resolved = Closure /\ Closure \subseteq DOMAIN catalog /\ loadError = None
      /\ edges = ReferenceEdges
  BY <1>1 DEF LoadInv, ClosureInv, SearchOfLoad
<1>4. CASE result = "cyclic"
  <2> DEFINE q == RotateToSmallest(path)
  <2>1. loading' = "refused" /\ loadError' = [by |-> "dependency_cycle", path |-> q]
    BY <1>4 DEF EndCycles, RefuseLoad
  <2>2. IsCycleOf(path, ReferenceEdges) /\ path \in Seq(Nodes) /\ Nodes \subseteq Nat
    BY <1>3, <1>4 DEF SearchInv, AnswerInv, GraphInv
  <2>3. path \in Seq(Nat)
    BY <2>2, SeqMonotonic
  <2>4. IsCycleOf(q, ReferenceEdges) /\ q[1] = Min(ToSet(q))
    BY <2>2, <2>3, Rotation
  <2>5. PICK x : x = q
    OBVIOUS
  <2>6. CycleExact(x)'
    BY <1>1, <1>2, <1>3, <2>4, <2>5 DEF CycleExact
  <2> HIDE DEF q
  <2>7. loadError'.by = "dependency_cycle" /\ loadError'.path = x
    BY <2>1, <2>5
  <2>8. RefusalExact'
    BY <2>6, <2>7 DEF RefusalExact
  <2> QED BY <2>1, <2>8 DEF ClosureInv
<1>5. CASE result = "acyclic"
  <2>1. loading' = "construct" /\ loadError' = loadError
    BY <1>5 DEF EndCycles
  <2>2. ~HasCycle(ReferenceEdges)
    BY <1>1, <1>5, LoadedAcyclic
  <2> QED BY <1>1, <1>2, <1>3, <2>1, <2>2 DEF ClosureInv
<1> QED BY <1>4, <1>5 DEF EndCycles

\* Modules are made in the order of the references, up to the first that is not what it says.
LEMMA ConstructKeeps ==
    ASSUME TypeInv, LoadInv, ConstructModules
    PROVE  ClosureInv'
<1> DEFINE S == DOMAIN resolved
           rs == Ascending(S)
           bad == {r \in S : ~MakesWhatItSays(r)}
           n == Cardinality(S)
<1>1. /\ loading = "construct" /\ catalog' = catalog /\ requested' = requested
      /\ resolved' = resolved /\ missing' = missing
  BY DEF ConstructModules, closureVars
<1>2. /\ Closure' = Closure /\ ReferenceEdges' = ReferenceEdges
      /\ \A r : DependenciesOf(r)' = DependenciesOf(r)
  BY <1>1, ClosureSame
<1>3. /\ S = Closure /\ Closure \subseteq DOMAIN catalog /\ loadError = None
      /\ ~HasCycle(ReferenceEdges)
  BY <1>1 DEF LoadInv, ClosureInv
<1>4. CASE bad # {}
  <2>1. loading' = "refused" /\ loadError' = [by |-> "construction", path |-> <<Min(bad)>>]
    BY <1>4 DEF ConstructModules, RefuseLoad
  <2> QED BY <2>1 DEF ClosureInv, RefusalExact
<1>5. CASE bad = {}
  <2>1. /\ loaded' = [i \in DOMAIN rs |-> catalog[rs[i]].makes]
        /\ loading' = "loaded" /\ loadError' = loadError
    BY <1>5 DEF ConstructModules
  <2>2. S \in SUBSET Nat /\ IsFiniteSet(S)
    BY <1>3, CatalogTyped, FS_Subset
  <2>3. /\ DOMAIN rs = 1..n /\ \A i \in 1..n : rs[i] \in S
        /\ \A r \in S : \E i \in 1..n : rs[i] = r
    BY <2>2, AscendingOf
  <2>4. \A r \in S : MakesWhatItSays(r)
    BY <1>5
  <2>5. \A r \in S : MakesWhatItSays(r)'
    BY <1>1, <1>2, <2>4 DEF MakesWhatItSays
  <2> HIDE DEF rs, n
  <2>6. LoadedInv'
    BY <1>1, <2>1, <2>3, <2>5 DEF LoadedInv
  <2> QED BY <1>1, <1>2, <1>3, <2>1, <2>6 DEF ClosureInv
<1> QED BY <1>4, <1>5

\* A step that leaves the loader alone.
LEMMA ClosureStays ==
    ASSUME ClosureInv, UNCHANGED loaderVars
    PROVE  ClosureInv'
<1>1. /\ catalog' = catalog /\ requested' = requested /\ loading' = loading /\ frontier' = frontier
      /\ resolved' = resolved /\ missing' = missing /\ loaded' = loaded /\ loadError' = loadError
  BY DEF loaderVars, closureVars
<1>2. /\ Closure' = Closure /\ ReferenceEdges' = ReferenceEdges
      /\ \A r : DependenciesOf(r)' = DependenciesOf(r)
      /\ \A n \in Nat : Within(n)' = Within(n)
  BY <1>1, ClosureSame
<1>3. \A q, d : PathTo(q, d)' <=> PathTo(q, d)
  BY <1>1, <1>2 DEF PathTo
<1>4. MissingInv => MissingInv'
  <2>1. \A d \in DOMAIN missing : PathTo(missing[d], d) /\ Len(missing[d]) > 1 => Len(missing[d]) - 2 \in Nat
    BY DEF PathTo
  <2> QED BY <1>1, <1>2, <1>3, <2>1 DEF MissingInv
<1>5. \A l \in Nat : Level(l) => Level(l)'
  <2>1. \A l \in Nat : Before(l)' = Before(l)
    <3>1. \A l \in Nat : l # 0 => l - 1 \in Nat
      OBVIOUS
    <3> QED BY <1>2, <3>1 DEF Before
  <2> QED BY <1>1, <1>2, <1>3, <2>1 DEF Level
<1>6. RefusalExact => RefusalExact'
  <2>1. PICK x : x = loadError.path
    OBVIOUS
  <2>2. Within(Len(x) - 2)' = Within(Len(x) - 2)
    BY <1>1 DEF Within, DependenciesOf
  <2>3. (MissingExact(x)' <=> MissingExact(x)) /\ (CycleExact(x)' <=> CycleExact(x))
    BY <1>1, <1>2, <2>2 DEF MissingExact, CycleExact
  <2>4. RefusalExact <=>
          /\ loadError.by \in {"duplicate_root", "missing_reference", "dependency_cycle", "construction"}
          /\ loadError.by = "missing_reference" => MissingExact(x)
          /\ loadError.by = "dependency_cycle" => CycleExact(x)
    BY <2>1 DEF RefusalExact
  <2>5. RefusalExact' <=>
          /\ loadError'.by \in {"duplicate_root", "missing_reference", "dependency_cycle", "construction"}
          /\ loadError'.by = "missing_reference" => MissingExact(x)'
          /\ loadError'.by = "dependency_cycle" => CycleExact(x)'
    BY <1>1, <2>1 DEF RefusalExact
  <2> QED BY <1>1, <2>3, <2>4, <2>5
<1>7. LoadedInv => LoadedInv'
  BY <1>1, <1>2 DEF LoadedInv, MakesWhatItSays
<1> QED BY <1>1, <1>2, <1>4, <1>5, <1>6, <1>7 DEF ClosureInv

\* The search leaves its graph alone.
LEMMA SearchKeepsGraph ==
    ASSUME SearchStep
    PROVE  roots' = roots /\ edges' = edges
BY DEF SearchStep, VisitRoot, VisitDependency, Enter, ReportCycle, SkipComplete, Return, ReportAcyclic

\* Every step keeps the loader's invariant.
LEMMA LoadInvKept ==
    ASSUME TypeInv, SearchInv, LoadInv, [Next]_vars
    PROVE  LoadInv'
<1>1. CASE Load
  <2>1. stage = "load" /\ LoaderStep /\ stage' = stage /\ input' = input
    BY <1>1 DEF Load, pipelineVars
  <2>2. StageInv'
    BY <2>1 DEF LoadInv, StageInv
  <2>3. CASE CloseLevel
    <3>1. loading = "closure" /\ loading' = loading /\ loadError' = loadError
      BY <2>3 DEF CloseLevel
    <3>2. PICK l \in Nat : Level(l)
      BY <3>1 DEF LoadInv, ClosureInv
    <3>3. MissingInv /\ loadError = None
      BY <3>1 DEF LoadInv, ClosureInv
    <3>4. Level(l + 1)' /\ MissingInv' /\ l + 1 \in Nat
      BY <2>3, <3>2, <3>3, CloseLevelKeeps
    <3>5. \E k \in Nat : Level(k)'
      BY <3>4
    <3>6. ClosureInv'
      BY <3>1, <3>3, <3>4, <3>5 DEF ClosureInv
    <3> QED BY <2>2, <3>1, <3>6 DEF LoadInv, SearchOfLoad
  <2>4. CASE EndClosure
    BY <2>2, <2>4, EndClosureKeeps DEF LoadInv
  <2>5. CASE CollectRoots \/ EndCycles \/ ConstructModules
    <3>1. loading' # "cycles"
      BY <2>5 DEF CollectRoots, EndCycles, ConstructModules, RefuseLoad
    <3>2. ClosureInv'
      BY <2>5, CollectRootsKeeps, EndCyclesKeeps, ConstructKeeps
    <3> QED BY <2>2, <3>1, <3>2 DEF LoadInv, SearchOfLoad
  <2> QED BY <2>1, <2>3, <2>4, <2>5 DEF LoaderStep
<1>2. CASE Search
  <2>1. stage' = stage /\ input' = input /\ UNCHANGED loaderVars /\ roots' = roots /\ edges' = edges
    BY <1>2, SearchKeepsGraph DEF Search, pipelineVars
  <2>2. loading' = loading /\ catalog' = catalog /\ requested' = requested
    BY <2>1 DEF loaderVars
  <2>3. ReferenceEdges' = ReferenceEdges
    BY <2>2, ClosureSame
  <2> QED BY <2>1, <2>2, <2>3, ClosureStays DEF LoadInv, StageInv, SearchOfLoad
<1>3. CASE EndLoad
  <2>1. /\ loading \in {"loaded", "refused"} /\ input' = input /\ UNCHANGED loaderVars
        /\ \/ loading = "loaded" /\ stage' = "register"
           \/ loading = "refused" /\ stage' = "refused"
    BY <1>3 DEF EndLoad, Refuse
  <2>2. loading' = loading
    BY <2>1 DEF loaderVars
  <2> QED BY <2>1, <2>2, ClosureStays DEF LoadInv, StageInv, SearchOfLoad
<1>4. CASE \/ Register \/ StartOrder \/ PlaceModule \/ Build \/ ValidateDeclarations \/ EndCapabilities
           \/ EndWorkflow \/ StartPlan \/ ConstructRuntime \/ Restart
  <2>1. stage \notin {"load", "refused"} /\ stage' # "load" /\ input' = input /\ UNCHANGED loaderVars
    BY <1>4 DEF Register, StartOrder, PlaceModule, Build, ValidateDeclarations, EndCapabilities,
                EndWorkflow, StartPlan, ConstructRuntime, Restart, Refuse
  <2>2. loading' = loading /\ loading # "cycles"
    BY <2>1 DEF loaderVars, LoadInv, StageInv
  <2> QED BY <2>1, <2>2, ClosureStays DEF LoadInv, StageInv, SearchOfLoad
<1>5. CASE UNCHANGED vars
  <2>1. stage' = stage /\ input' = input /\ UNCHANGED loaderVars /\ roots' = roots /\ edges' = edges
    BY <1>5 DEF vars, pipelineVars, searchVars
  <2>2. loading' = loading /\ catalog' = catalog /\ requested' = requested
    BY <2>1 DEF loaderVars
  <2>3. ReferenceEdges' = ReferenceEdges
    BY <2>2, ClosureSame
  <2> QED BY <2>1, <2>2, <2>3, ClosureStays DEF LoadInv, StageInv, SearchOfLoad
<1> QED BY <1>1, <1>2, <1>3, <1>4, <1>5 DEF Next, Step

\* Types, search and loader together.
PlanInv == TypeInv /\ SearchInv /\ LoadInv

\* Types, search and loader are in order in every reachable state.
LEMMA PlanInvariant == Spec => []PlanInv
<1>1. Init => PlanInv
  BY TypesInit, SearchIdle, LoadInit DEF Init, PlanInv
<1>2. PlanInv /\ [Next]_vars => PlanInv'
  BY TypesKept, SearchInvKept, LoadInvKept DEF PlanInv
<1> QED BY <1>1, <1>2, PTL DEF Spec

\* The loader's answer is exact for every catalog and all roots: it passes on
\* the whole closure, complete and without a cycle, or reports the smallest
\* missing reference by a shortest path, or a cycle from its smallest member.
THEOREM LoadExact == Spec => []LoadIsExact
<1>1. PlanInv => LoadIsExact
  <2>1. SUFFICES ASSUME PlanInv PROVE LoadIsExact
    OBVIOUS
  <2>2. loadError # None => RefusalExact
    BY <2>1 DEF PlanInv, LoadInv, ClosureInv
  <2>3. loading = "construct" => DOMAIN resolved = Closure /\ Closure \ DOMAIN catalog = {} /\ ~HasCycle(ReferenceEdges)
    BY <2>1 DEF PlanInv, LoadInv, ClosureInv
  <2> QED BY <2>2, <2>3 DEF LoadIsExact, RefusalExact, MissingExact, CycleExact
<1> QED BY <1>1, PlanInvariant, PTL

----------------------------------------------------------------------------
(* The activation order *)

\* The first k elements.
First(o, k) == {o[i] : i \in 1..k}

\* Every module was the smallest of those available.
Greedy(o, mods, deps) ==
    \A k \in 1..Len(o) :
        /\ Available(mods, deps, First(o, k - 1)) # {}
        /\ o[k] = Min(Available(mods, deps, First(o, k - 1)))

\* The place before a place, counted from 0.
LEMMA Predecessor ==
    ASSUME NEW n \in Nat, NEW k \in 1..n
    PROVE  k - 1 \in 0..n /\ k \in 0..n /\ k \in Nat /\ (k - 1) + 1 = k
OBVIOUS

\* A sequence of different modules that takes the smallest available one until
\* none is left is the promised order.
LEMMA GreedyOrder ==
    ASSUME NEW mods \in SUBSET Nat, IsFiniteSet(mods), NEW deps, NEW o \in Seq(mods),
           Greedy(o, mods, deps), ToSet(o) = mods
    PROVE  o = ActivationOrder(mods, deps)
<1> DEFINE L == Len(o)
           Longer(s) == LET next == Available(mods, deps, ToSet(s))
                        IN  IF next = {} THEN s ELSE Append(s, Min(next))
           g == [k \in 0..L |-> SubSeq(o, 1, k)]
           Solves(f) == f = [k \in 0..L |-> IF k = 0 THEN <<>> ELSE Longer(f[k - 1])]
<1>1. L \in Nat /\ DOMAIN o = 1..L /\ ToSet(o) = {o[i] : i \in 1..L} /\ \A i \in 1..L : o[i] \in mods
  BY ToSetOf
<1>2. ASSUME NEW k \in 1..L
      PROVE  o[k] \notin First(o, k - 1)
  <2>1. Available(mods, deps, First(o, k - 1)) \in SUBSET Nat
    BY DEF Available
  <2>2. o[k] \in Available(mods, deps, First(o, k - 1))
    BY <2>1, MinIn DEF Greedy
  <2> QED BY <2>2 DEF Available
<1>3. \A i, j \in 1..L : o[i] = o[j] => i = j
  <2>1. ASSUME NEW i \in 1..L, NEW j \in 1..L, o[i] = o[j], i < j PROVE FALSE
    <3>1. i \in 1..(j - 1)
      BY <1>1, <2>1
    <3>2. o[i] \in First(o, j - 1)
      BY <3>1 DEF First
    <3> QED BY <1>2, <2>1, <3>2
  <2>2. \A i, j \in 1..L : i = j \/ i < j \/ j < i
    BY <1>1
  <2> QED BY <2>1, <2>2
<1>4. Cardinality(mods) = L
  <2>1. o \in [1..L -> mods] /\ \A x \in mods : \E i \in 1..L : o[i] = x
    BY <1>1
  <2>2. o \in Injection(1..L, mods) /\ o \in Surjection(1..L, mods)
    BY <1>3, <2>1 DEF Injection, IsInjective, Surjection
  <2>3. o \in Bijection(1..L, mods)
    BY <2>2 DEF Bijection
  <2>4. IsFiniteSet(1..L) /\ Cardinality(1..L) = L
    BY <1>1, FS_Interval
  <2> QED BY <2>3, <2>4, FS_Bijection DEF ExistsBijection
<1>5. ASSUME NEW k \in 0..L
      PROVE  /\ g[k] \in Seq(mods) /\ Len(g[k]) = k /\ \A i \in 1..k : g[k][i] = o[i]
             /\ ToSet(g[k]) = First(o, k)
  <2>1. g[k] = [i \in 1..k |-> o[i]]
    BY <1>1
  <2>2. \A i \in 1..k : o[i] \in mods
    BY <1>1
  <2> HIDE DEF g, L
  <2>3. g[k] \in [1..k -> mods] /\ k \in Nat
    <3>1. PICK x : x = g[k]
      OBVIOUS
    <3>2. x \in [1..k -> mods]
      BY <2>1, <2>2, <3>1
    <3>3. k \in Nat
      BY <1>1
    <3> QED BY <3>1, <3>2, <3>3
  <2>4. g[k] \in Seq(mods) /\ Len(g[k]) = k
    BY <2>3
  <2>5. \A i \in 1..k : g[k][i] = o[i]
    BY <2>1
  <2>6. ToSet(g[k]) = {g[k][i] : i \in 1..k}
    BY <2>4, ToSetOf
  <2>7. ToSet(g[k]) = First(o, k)
    BY <2>5, <2>6 DEF First
  <2> QED BY <2>4, <2>5, <2>7
<1>6. g = [k \in 0..L |-> g[k]] /\ g[0] = <<>> /\ g[L] = o
  <2>1. 0 \in 0..L /\ L \in 0..L
    BY <1>1
  <2>2. g = [k \in 0..L |-> g[k]]
    OBVIOUS
  <2> HIDE DEF g
  <2>3. g[0] = <<>>
    BY <1>5, <2>1
  <2>4. g[L] = o
    <3>1. g[L] \in Seq(mods) /\ Len(g[L]) = Len(o) /\ \A i \in 1..Len(o) : g[L][i] = o[i]
      BY <1>5, <2>1
    <3> QED BY <3>1, SeqEqual
  <2> QED BY <2>2, <2>3, <2>4
<1> HIDE DEF g
<1>7. ASSUME NEW k \in 1..L PROVE g[k] = Longer(g[k - 1])
  <2>1. k - 1 \in 0..L /\ k \in 0..L /\ k \in Nat /\ (k - 1) + 1 = k
    BY <1>1, Predecessor
  <2>2. g[k - 1] \in Seq(mods) /\ Len(g[k - 1]) = k - 1 /\ (\A i \in 1..(k - 1) : g[k - 1][i] = o[i])
        /\ ToSet(g[k - 1]) = First(o, k - 1)
    BY <1>5, <2>1
  <2>3. g[k] \in Seq(mods) /\ Len(g[k]) = k /\ \A i \in 1..k : g[k][i] = o[i]
    BY <1>5, <2>1
  <2>4. Longer(g[k - 1]) = Append(g[k - 1], o[k])
    BY <2>2 DEF Greedy
  <2>5. o[k] \in mods
    BY <1>1
  <2>6. /\ Append(g[k - 1], o[k]) \in Seq(mods) /\ Len(Append(g[k - 1], o[k])) = k
        /\ Append(g[k - 1], o[k])[k] = o[k]
        /\ \A i \in 1..(k - 1) : Append(g[k - 1], o[k])[i] = o[i]
    BY <2>1, <2>2, <2>5
  <2>7. \A i \in 1..k : i = k \/ i \in 1..(k - 1)
    BY <2>1
  <2>8. k \in 1..k
    BY <2>1
  <2>9. \A i \in 1..k : g[k][i] = Append(g[k - 1], o[k])[i]
    BY <2>3, <2>6, <2>7, <2>8
  <2>10. g[k] = Append(g[k - 1], o[k])
    BY <2>3, <2>6, <2>9, SeqEqual
  <2> QED BY <2>4, <2>10
<1>8. Solves(g)
  <2>1. \A k \in 0..L : g[k] = IF k = 0 THEN <<>> ELSE Longer(g[k - 1])
    <3>1. \A k \in 0..L : k # 0 => k \in 1..L
      BY <1>1
    <3> HIDE DEF Longer
    <3> QED BY <1>6, <1>7, <3>1
  <2> HIDE DEF Longer
  <2> QED BY <1>6, <2>1
<1>9. PICK f : Solves(f) /\ f = CHOOSE h : Solves(h)
  <2> HIDE DEF Solves
  <2> QED BY <1>8
<1>10. ActivationOrder(mods, deps) = f[L]
  BY <1>4, <1>9 DEF ActivationOrder
<1>11. \A k \in 0..L : f[k] = g[k]
  <2> DEFINE T == {k \in 0..L : f[k] = g[k]}
  <2> HIDE DEF Longer
  <2>1. 0 \in T
    BY <1>1, <1>6, <1>9
  <2>2. ASSUME NEW k \in 0..(L - 1), k \in T PROVE k + 1 \in T
    <3>1. k + 1 \in 0..L /\ k + 1 \in 1..L /\ k + 1 # 0 /\ (k + 1) - 1 = k
      <4> HIDE DEF L, Solves, T
      <4> QED BY <1>1
    <3>2. f[k + 1] = Longer(f[k])
      BY <1>9, <3>1
    <3>3. g[k + 1] = Longer(g[k])
      BY <1>7, <3>1
    <3> QED BY <2>2, <3>1, <3>2, <3>3
  <2> HIDE DEF T
  <2>3. \A k \in 0..L : k \in T
    BY <1>1, <2>1, <2>2, NatInductTo
  <2> QED BY <2>3 DEF T
<1>12. L \in 0..L
  BY <1>1
<1> QED BY <1>6, <1>10, <1>11, <1>12

\* Where every module left out depends on one left out, the walk of cycle_among
\* comes back to a module, and closes a path of dependencies.
LEMMA CycleAmongIsCycle ==
    ASSUME NEW R \in SUBSET Nat, IsFiniteSet(R), R # {}, NEW deps,
           \A r \in R : deps[r] \cap R # {},
           NEW es, \A r \in R : \A d \in deps[r] : <<r, d>> \in es
    PROVE  IsCycleOf(CycleAmong(R, deps), es)
<1> DEFINE N == Cardinality(R) + 1
           Onward(r) == Min(deps[r] \cap R)
           Solves(w, m) == w = [k \in 1..m |-> IF k = 1 THEN Min(R) ELSE Onward(w[k - 1])]
           T == {m \in Nat : \E w : Solves(w, m)}
<1>1. Cardinality(R) \in Nat /\ N \in Nat /\ N >= 1
  BY FS_CardinalityType
<1>2. \A r \in R : Onward(r) \in R /\ Onward(r) \in deps[r]
  <2>1. ASSUME NEW r \in R PROVE Onward(r) \in deps[r] \cap R
    <3>1. (deps[r] \cap R) \in SUBSET Nat /\ deps[r] \cap R # {}
      OBVIOUS
    <3> QED BY <3>1, MinIn
  <2> QED BY <2>1
<1>3. Min(R) \in R
  BY MinIn
<1> HIDE DEF Onward
<1>4. 0 \in T
  <2>1. Solves([k \in 1..0 |-> Min(R)], 0)
    OBVIOUS
  <2> QED BY <2>1
<1>5. ASSUME NEW m \in T PROVE m + 1 \in T
  <2>1. PICK w : Solves(w, m)
    BY <1>5
  <2> DEFINE v == [k \in 1..(m + 1) |-> IF k = 1 THEN Min(R) ELSE Onward(w[k - 1])]
  <2>2. ASSUME NEW k \in 1..(m + 1)
        PROVE  v[k] = IF k = 1 THEN Min(R) ELSE Onward(v[k - 1])
    <3>1. CASE k = 1
      BY <3>1
    <3>2. CASE k # 1
      <4>1. k - 1 \in 1..m /\ k - 1 \in 1..(m + 1)
        BY <3>2, m \in Nat
      <4>2. w[k - 1] = IF k - 1 = 1 THEN Min(R) ELSE Onward(w[(k - 1) - 1])
        BY <2>1, <4>1
      <4>3. v[k - 1] = w[k - 1]
        BY <4>1, <4>2
      <4>4. v[k] = Onward(w[k - 1])
        BY <3>2
      <4> QED BY <3>2, <4>3, <4>4
    <3> QED BY <3>1, <3>2
  <2>3. Solves(v, m + 1)
    <3>1. v = [k \in 1..(m + 1) |-> v[k]]
      OBVIOUS
    <3> HIDE DEF v
    <3> QED BY <2>2, <3>1
  <2>4. m + 1 \in Nat
    OBVIOUS
  <2> HIDE DEF v, Solves
  <2> QED BY <2>3, <2>4
<1>6. T = Nat
  <2>1. T \in SUBSET Nat
    OBVIOUS
  <2> HIDE DEF T
  <2> QED BY <1>4, <1>5, <2>1, NatInduct
<1>7. PICK w : Solves(w, N) /\ w = CHOOSE h : Solves(h, N)
  <2>1. \E h : Solves(h, N)
    BY <1>1, <1>6
  <2> HIDE DEF Solves
  <2> QED BY <2>1
<1> DEFINE Again(k) == {i \in 1..(k - 1) : w[i] = w[k]}
           K == {k \in DOMAIN w : Again(k) # {}}
           last == Min(K)
           start == Min(Again(last))
<1>8. CycleAmong(R, deps) = SubSeq(w, start, last)
  <2>1. w = CHOOSE h : h = [k \in 1..(Cardinality(R) + 1) |->
                                IF k = 1 THEN Min(R) ELSE Min(deps[h[k - 1]] \cap R)]
    BY <1>7 DEF Onward
  <2> HIDE DEF Solves
  <2> QED BY <2>1 DEF CycleAmong
<1>9. DOMAIN w = 1..N
  BY <1>7
<1>10. /\ w[1] = Min(R)
       /\ \A k \in 1..N : k # 1 => w[k] = Onward(w[k - 1])
  BY <1>1, <1>7
<1>11. w = [k \in 1..N |-> w[k]]
  BY <1>7
<1> HIDE DEF Solves, N
<1>12. \A k \in 1..N : w[k] \in R
  <2> DEFINE U == {k \in Nat : k + 1 <= N => w[k + 1] \in R}
  <2>1. 0 \in U
    BY <1>3, <1>10
  <2>2. ASSUME NEW k \in U PROVE k + 1 \in U
    <3>1. SUFFICES ASSUME (k + 1) + 1 <= N PROVE w[(k + 1) + 1] \in R
      OBVIOUS
    <3>2. k \in Nat /\ k + 1 <= N /\ (k + 1) + 1 \in 1..N /\ (k + 1) + 1 # 1 /\ ((k + 1) + 1) - 1 = k + 1
      BY <1>1, <3>1
    <3>3. w[(k + 1) + 1] = Onward(w[k + 1]) /\ w[k + 1] \in R
      BY <1>10, <3>2
    <3> QED BY <1>2, <3>3
  <2>3. U = Nat
    <3>1. U \in SUBSET Nat
      OBVIOUS
    <3> HIDE DEF U
    <3> QED BY <2>1, <2>2, <3>1, NatInduct
  <2>4. ASSUME NEW k \in 1..N PROVE w[k] \in R
    <3>1. k - 1 \in U /\ (k - 1) + 1 = k /\ k <= N
      BY <1>1, <2>3
    <3> QED BY <3>1
  <2> QED BY <2>4
<1>13. w \in [1..N -> R] /\ w \in Seq(R) /\ Len(w) = N
  <2>1. w \in [1..N -> R]
    BY <1>11, <1>12
  <2> QED BY <1>1, <2>1
<1>14. K # {} /\ K \in SUBSET Nat
  <2>1. IsFiniteSet(1..N) /\ Cardinality(1..N) = N /\ Cardinality(R) < N
    BY <1>1, FS_Interval DEF N
  <2>2. PICK x, y \in 1..N : x # y /\ w[x] = w[y]
    BY <1>13, <2>1, FS_PigeonHole
  <2>3. x < y \/ y < x
    BY <1>1, <2>2
  <2>4. CASE x < y
    <3>1. x \in Again(y)
      BY <1>1, <2>2, <2>4
    <3> QED BY <1>1, <1>9, <3>1
  <2>5. CASE y < x
    <3>1. y \in Again(x)
      BY <1>1, <2>2, <2>5
    <3> QED BY <1>1, <1>9, <3>1
  <2> QED BY <2>3, <2>4, <2>5
<1>15. last \in 1..N /\ Again(last) # {} /\ Again(last) \in SUBSET Nat
  <2>1. last \in K
    BY <1>14, MinIn
  <2> HIDE DEF last
  <2> QED BY <1>1, <1>9, <2>1
<1>16. start \in Again(last)
  <2> HIDE DEF last, Again
  <2> QED BY <1>15, MinIn
<1>17. start \in Nat /\ last \in Nat /\ start >= 1 /\ start < last /\ last <= N /\ w[start] = w[last]
  <2> HIDE DEF last, start
  <2> QED BY <1>1, <1>15, <1>16
<1> HIDE DEF last, start
<1> DEFINE q == SubSeq(w, start, last)
           n == last - start + 1
<1>18. n \in Nat /\ n >= 2
  BY <1>17
<1>19. /\ q \in Seq(R) /\ Len(q) = n /\ \A i \in 1..n : q[i] = w[start + i - 1]
  <2>1. \A i \in start..last : w[i] \in R
    BY <1>1, <1>12, <1>17
  <2> QED BY <1>1, <1>13, <1>17, <2>1, SubSeqProperties
<1> HIDE DEF q
<1>20. q[1] = w[start] /\ Last(q) = w[last]
  <2>1. 1 \in 1..n /\ n \in 1..n /\ start + 1 - 1 = start /\ start + n - 1 = last
    BY <1>17, <1>18
  <2>2. Last(q) = q[n]
    BY <1>19 DEF Last
  <2>3. q[1] = w[start + 1 - 1] /\ q[n] = w[start + n - 1]
    BY <1>19, <2>1
  <2> QED BY <2>1, <2>2, <2>3
<1>21. ASSUME NEW i \in 1..(n - 1) PROVE <<q[i], q[i + 1]>> \in es
  <2>1. /\ i \in 1..n /\ i + 1 \in 1..n /\ start + i \in 1..N /\ start + i # 1
        /\ start + (i + 1) - 1 = start + i /\ start + i - 1 \in 1..N
    BY <1>1, <1>17, <1>18
  <2>2. q[i] = w[start + i - 1] /\ q[i + 1] = w[start + i]
    BY <1>19, <2>1
  <2>3. PICK k : k = start + i
    OBVIOUS
  <2>4. w[k] = Onward(w[k - 1]) /\ w[k - 1] \in R
    <3>1. k \in 1..N /\ k # 1 /\ k - 1 \in 1..N
      BY <1>1, <1>17, <1>18, <2>1, <2>3
    <3> QED BY <1>10, <1>12, <3>1
  <2>5. q[i] \in R /\ q[i + 1] = Onward(q[i])
    <3>1. k - 1 = start + i - 1
      BY <1>17, <1>18, <2>3
    <3> QED BY <2>2, <2>3, <2>4, <3>1
  <2> QED BY <1>2, <2>5
<1>22. IsCycleOf(q, es)
  BY <1>17, <1>18, <1>19, <1>20, <1>21 DEF IsCycleOf
<1> QED BY <1>8, <1>22 DEF q

\* Kahn's loop: what is ready is what is available, and the counts are exact.
KahnInv ==
    stage = "order" =>
        /\ DependenciesKnown(modules)
        /\ ready = Available(DOMAIN modules, DependencySets(modules), ToSet(placed))
        /\ \A m \in DOMAIN modules : indegree[m] = Cardinality(ToSet(modules[m].deps) \ ToSet(placed))
        /\ \A m \in ToSet(placed) : ToSet(modules[m].deps) \subseteq ToSet(placed)
        /\ Greedy(placed, DOMAIN modules, DependencySets(modules))

\* The loop starts with the modules that depend on nothing, unless a dependency is unknown.
LEMMA StartOrderKeeps ==
    ASSUME TypeInv, StartOrder
    PROVE  KahnInv'
<1>1. stage = "build" /\ modules' = modules /\ placed' = placed
  BY DEF StartOrder
<1>2. placed = <<>>
  BY <1>1 DEF TypeInv, PipelineTypes
<1>3. CASE DependenciesKnown(modules)
  <2>1. /\ ready' = {m \in DOMAIN modules : DependencySets(modules)[m] = {}}
        /\ indegree' = [m \in DOMAIN modules |-> Cardinality(DependencySets(modules)[m])]
    BY <1>3 DEF StartOrder
  <2>2. ToSet(placed) = {} /\ Len(placed) = 0
    BY <1>2 DEF ToSet
  <2>3. \A m \in DOMAIN modules : DependencySets(modules)[m] = ToSet(modules[m].deps)
    BY DEF DependencySets
  <2>4. ready' = Available(DOMAIN modules, DependencySets(modules), {})
    BY <2>1 DEF Available
  <2>5. \A m \in DOMAIN modules : indegree'[m] = Cardinality(ToSet(modules[m].deps) \ {})
    <3>1. \A m \in DOMAIN modules : ToSet(modules[m].deps) \ {} = ToSet(modules[m].deps)
      OBVIOUS
    <3> QED BY <2>1, <2>3, <3>1
  <2>6. Greedy(placed, DOMAIN modules, DependencySets(modules))
    BY <2>2 DEF Greedy
  <2> QED BY <1>1, <1>3, <2>2, <2>4, <2>5, <2>6 DEF KahnInv
<1>4. CASE ~DependenciesKnown(modules)
  <2>1. stage' = "refused"
    BY <1>4 DEF StartOrder, Refuse
  <2> QED BY <2>1 DEF KahnInv
<1> QED BY <1>3, <1>4

\* The smallest ready module is placed, and what waited only for it becomes ready.
LEMMA PlaceModuleKeeps ==
    ASSUME TypeInv, KahnInv, PlaceModule
    PROVE  KahnInv'
<1> DEFINE mods == DOMAIN modules
           D(x) == ToSet(modules[x].deps)
           P == ToSet(placed)
           m == TakeSmallest(ready)
           waiting == {x \in mods : m \in D(x)}
<1>1. /\ stage = "order" /\ ready # {} /\ stage' = stage /\ modules' = modules
      /\ placed' = Append(placed, m)
      /\ indegree' = [x \in mods |-> IF x \in waiting THEN indegree[x] - 1 ELSE indegree[x]]
      /\ ready' = (ready \ {m}) \cup {x \in waiting : indegree[x] = 1}
  BY DEF PlaceModule
<1>2. /\ DependenciesKnown(modules)
      /\ ready = Available(mods, DependencySets(modules), P)
      /\ \A x \in mods : indegree[x] = Cardinality(D(x) \ P)
      /\ \A x \in P : D(x) \subseteq P
      /\ Greedy(placed, mods, DependencySets(modules))
  BY <1>1 DEF KahnInv
<1>3. /\ mods \subseteq Nat /\ placed \in Seq(mods) /\ ready \in SUBSET Nat
      /\ \A x \in mods : modules[x].deps \in Seq(Nat)
  BY DEF TypeInv, PipelineTypes, ModulesTyped, Registrations
<1>4. \A x \in mods : DependencySets(modules)[x] = D(x)
  BY DEF DependencySets
<1>5. \A x : x \in ready <=> x \in mods /\ x \notin P /\ D(x) \subseteq P
  BY <1>2, <1>4 DEF Available
<1>6. m \in ready /\ m = Min(ready)
  BY <1>1, <1>3, MinIn DEF TakeSmallest
<1>7. m \in mods /\ m \notin P /\ D(m) \subseteq P
  BY <1>5, <1>6
<1>8. \A x \in mods : IsFiniteSet(D(x)) /\ IsFiniteSet(D(x) \ P) /\ Cardinality(D(x) \ P) \in Nat
  <2>1. \A x \in mods : IsFiniteSet(D(x))
    BY <1>3, ToSetFinite
  <2> QED BY <2>1, FS_Subset, FS_CardinalityType
<1> HIDE DEF m, D, waiting
<1>9. ToSet(placed') = P \cup {m}
  BY <1>1, <1>3, <1>7, ToSetAppend
<1>10. ASSUME NEW x \in mods PROVE indegree'[x] = Cardinality(D(x) \ (P \cup {m}))
  <2>1. CASE m \in D(x)
    <3>1. D(x) \ (P \cup {m}) = (D(x) \ P) \ {m} /\ m \in D(x) \ P
      BY <1>7, <2>1
    <3>2. Cardinality((D(x) \ P) \ {m}) = Cardinality(D(x) \ P) - 1
      BY <1>8, <3>1, FS_RemoveElement
    <3> QED BY <1>1, <1>2, <2>1, <3>1, <3>2 DEF waiting
  <2>2. CASE m \notin D(x)
    <3>1. D(x) \ (P \cup {m}) = D(x) \ P
      BY <2>2
    <3> QED BY <1>1, <1>2, <2>2, <3>1 DEF waiting
  <2> QED BY <2>1, <2>2
<1>11. ASSUME NEW x PROVE x \in ready' <=> x \in mods /\ x \notin P \cup {m} /\ D(x) \subseteq P \cup {m}
  <2>1. CASE x \notin mods
    BY <1>1, <1>5, <2>1 DEF waiting
  <2>2. CASE x \in mods /\ m \notin D(x)
    BY <1>1, <1>5, <2>2 DEF waiting
  <2>3. CASE x \in mods /\ m \in D(x)
    <3>1. x \in ready' <=> indegree[x] = 1
      BY <1>1, <1>5, <1>7, <2>3 DEF waiting
    <3>2. x \notin P \cup {m}
      BY <1>2, <1>7, <2>3
    <3>3. indegree[x] = 1 <=> D(x) \ P = {m}
      <4>1. Cardinality(D(x) \ P) = 1 <=> \E y : D(x) \ P = {y}
        BY <1>8, <2>3, FS_Singleton
      <4>2. m \in D(x) \ P
        BY <1>7, <2>3
      <4> QED BY <1>2, <2>3, <4>1, <4>2
    <3>4. D(x) \ P = {m} <=> D(x) \subseteq P \cup {m}
      BY <1>7, <2>3
    <3> QED BY <2>3, <3>1, <3>2, <3>3, <3>4
  <2> QED BY <2>1, <2>2, <2>3
<1>12. ready' = Available(mods, DependencySets(modules), P \cup {m})
  BY <1>4, <1>11 DEF Available
<1>13. \A x \in P \cup {m} : D(x) \subseteq P \cup {m}
  BY <1>2, <1>7
<1>14. Greedy(placed', mods, DependencySets(modules))
  <2> DEFINE n == Len(placed)
  <2>1. /\ n \in Nat /\ Len(placed') = n + 1 /\ placed'[n + 1] = m
        /\ \A i \in 1..n : placed'[i] = placed[i]
    BY <1>1, <1>3, <1>7
  <2>2. P = {placed[i] : i \in 1..n}
    BY <1>3, ToSetOf
  <2>3. \A k \in 0..n : First(placed', k) = First(placed, k)
    <3>1. \A k \in 0..n : \A i \in 1..k : i \in 1..n
      BY <2>1
    <3> QED BY <2>1, <3>1 DEF First
  <2>4. First(placed', n) = P
    BY <2>1, <2>2 DEF First
  <2> HIDE DEF n, P
  <2>5. ASSUME NEW k \in 1..(n + 1)
        PROVE  /\ Available(mods, DependencySets(modules), First(placed', k - 1)) # {}
               /\ placed'[k] = Min(Available(mods, DependencySets(modules), First(placed', k - 1)))
    <3>1. CASE k = n + 1
      <4>1. k - 1 = n
        BY <2>1, <3>1
      <4> QED BY <1>1, <1>2, <1>6, <2>1, <2>4, <3>1, <4>1
    <3>2. CASE k # n + 1
      <4>1. k \in 1..n /\ k - 1 \in 0..n
        BY <2>1, <3>2
      <4> QED BY <1>2, <2>1, <2>3, <4>1 DEF Greedy, n
    <3> QED BY <3>1, <3>2
  <2> QED BY <2>1, <2>5 DEF Greedy
<1> QED BY <1>1, <1>2, <1>9, <1>10, <1>12, <1>13, <1>14 DEF KahnInv, D

----------------------------------------------------------------------------
(* What a pipeline ends with *)

\* The names of what is refused in a definition.
LEMMA DefinitionRefusals ==
    ASSUME NEW d
    PROVE  RefusedDefinition(d) \in {"none", "unique_tasks", "unique_capabilities", "tasks",
                                     "capabilities", "identities", "materialized"}
<1>1. PICK a1, a2, a3, a4, a5, a6 \in BOOLEAN :
          /\ a1 = UniqueIds(d.tasks) /\ a2 = UniqueIds(d.capabilities) /\ a3 = ValidTasks(d.tasks)
          /\ a4 = ValidCapabilities(ToSet(d.capabilities)) /\ a5 = IdentitiesAgree(d)
          /\ a6 = ValidCapabilities(Materialized(d))
  BY DEF UniqueIds, IsInjective, ValidTasks, ValidCapabilities, IdentitiesAgree
<1> DEFINE cs == << <<"unique_tasks", a1>>, <<"unique_capabilities", a2>>, <<"tasks", a3>>,
                    <<"capabilities", a4>>, <<"identities", a5>>, <<"materialized", a6>> >>
<1>2. RefusedDefinition(d) = FirstRefusal(cs)
  BY <1>1 DEF RefusedDefinition
<1>3. Checks(cs, 6)
  <2>1. \A i \in 1..6 : cs[i][1] # "none"
    OBVIOUS
  <2>2. \A i \in 1..6 : cs[i][2] \in BOOLEAN
    OBVIOUS
  <2> QED BY <2>1, <2>2 DEF Checks
<1>4. \A i \in 1..6 : cs[i][1] \in {"unique_tasks", "unique_capabilities", "tasks",
                                     "capabilities", "identities", "materialized"}
  OBVIOUS
<1> HIDE DEF cs
<1>5. FirstRefusal(cs) # "none" => \E i \in 1..6 : FirstRefusal(cs) = cs[i][1]
  BY <1>3, RefusalOf
<1> QED BY <1>2, <1>4, <1>5

\* Every capability is published after those it depends on.
Published ==
    \A c \in Materialized(definition) : \A r \in ToSet(c.deps) :
        SelectInSeq(construction, LAMBDA n : n = r[1]) < SelectInSeq(construction, LAMBDA n : n = c.id)

\* The names of what is refused at construction, and when nothing is.
LEMMA ConstructionRefusals ==
    /\ RefusedConstruction \in {"none", "missing_factory", "identity", "publication"}
    /\ (\A c \in Materialized(definition) : FactoryFor(c)) /\ purpose # "restore" /\ Published
          => RefusedConstruction = "none"
    /\ RefusedConstruction = "none" /\ purpose = "restore" => Restorable
    /\ RefusedConstruction = "identity" => purpose = "restore" /\ ~Restorable
<1>1. PICK a, b, c \in BOOLEAN :
          /\ a = (\A x \in Materialized(definition) : FactoryFor(x))
          /\ b = (purpose = "restore" => Restorable) /\ c = Published
  BY DEF Published
<1> DEFINE cs == << <<"missing_factory", a>>, <<"identity", b>>, <<"publication", c>> >>
<1>2. RefusedConstruction = FirstRefusal(cs)
  BY <1>1 DEF RefusedConstruction, Published
<1>3. Checks(cs, 3)
  <2>1. \A i \in 1..3 : cs[i][1] # "none"
    OBVIOUS
  <2>2. \A i \in 1..3 : cs[i][2] \in BOOLEAN
    OBVIOUS
  <2> QED BY <2>1, <2>2 DEF Checks
<1>4. \A i \in 1..3 : cs[i][1] \in {"missing_factory", "identity", "publication"}
  OBVIOUS
<1>5. a = TRUE /\ b = TRUE /\ c = TRUE => \A i \in 1..3 : cs[i][2] = TRUE
  <2>1. cs[1][2] = a /\ cs[2][2] = b /\ cs[3][2] = c
    OBVIOUS
  <2>2. \A i \in 1..3 : i = 1 \/ i = 2 \/ i = 3
    OBVIOUS
  <2> HIDE DEF cs
  <2> QED BY <2>1, <2>2
<1>a. cs[2][2] = b /\ \A i \in 1..3 : cs[i][1] = "identity" => i = 2
  OBVIOUS
<1> HIDE DEF cs
<1>6. /\ FirstRefusal(cs) = "none" <=> \A i \in 1..3 : cs[i][2] = TRUE
      /\ FirstRefusal(cs) # "none" => \E i \in 1..3 : FirstRefusal(cs) = cs[i][1] /\ cs[i][2] # TRUE
  BY <1>3, RefusalOf
<1>7. FirstRefusal(cs) \in {"none", "missing_factory", "identity", "publication"}
  BY <1>4, <1>6
<1>8. ASSUME \A x \in Materialized(definition) : FactoryFor(x), purpose # "restore", Published
      PROVE  FirstRefusal(cs) = "none"
  BY <1>1, <1>5, <1>6, <1>8
<1>9. ASSUME FirstRefusal(cs) = "none", purpose = "restore" PROVE Restorable
  <2>1. b = TRUE
    BY <1>6, <1>9, <1>a
  <2> QED BY <1>1, <1>9, <2>1
<1>10. ASSUME FirstRefusal(cs) = "identity" PROVE purpose = "restore" /\ ~Restorable
  <2>1. PICK i \in 1..3 : FirstRefusal(cs) = cs[i][1] /\ cs[i][2] # TRUE
    BY <1>6, <1>10
  <2>2. b # TRUE
    BY <1>10, <1>a, <2>1
  <2> QED BY <1>1, <2>2
<1> QED BY <1>2, <1>7, <1>8, <1>9, <1>10

\* The dependencies between the registered modules.
ModuleEdges == UNION {{<<m, d>> : d \in DependencySets(modules)[m]} : m \in DOMAIN modules}

\* The modules of a load are those of the resolved references.
FromCatalog ==
    /\ \A r \in DOMAIN resolved : IdOf[r] \in DOMAIN modules /\ modules[IdOf[r]] = catalog[r].makes
    /\ \A m \in DOMAIN modules : \E r \in DOMAIN resolved : IdOf[r] = m
RegisteredInv == input.mode = "load" /\ stage \in {"build", "order"} => FromCatalog

\* What the builder has checked and made of the modules.
PlanMade ==
    /\ input.mode # "define"
    /\ ToSet(placed) = DOMAIN modules
    /\ placed = ActivationOrder(DOMAIN modules, DependencySets(modules))
    /\ RefusedContributions(modules) = "none"
    /\ definition = MergeDefinition(modules, placed)
    /\ factories = Contributions(modules, "factories")

\* The pipeline's answers.
OutcomeInv ==
    /\ planned \in BOOLEAN
    /\ stage \in {"load", "register", "build", "order"} =>
          ~planned /\ purpose = "start" /\ input.mode # "define"
    /\ stage # "refused" => refusal.by = "none"
    /\ purpose = "restore" => input.mode = "define"
    /\ purpose \in {"plan", "start", "restore"}
    /\ stage = "planned" => planned
    /\ (planned \/ purpose = "plan") => PlanMade
    /\ refusal.by = "module_cycle" => IsCycleOf(refusal.path, ModuleEdges)
    /\ input.mode = "load" => refusal.by \notin {"module_dependencies", "module_cycle"}

\* What the loader passes on has all its modules and no cycle of them.
LEMMA LoadedModules ==
    ASSUME PlanInv, loading = "loaded", FromCatalog
    PROVE  /\ DependenciesKnown(modules)
           /\ \A R \in SUBSET (DOMAIN modules) :
                 R # {} => \E m \in R : ToSet(modules[m].deps) \cap R = {}
<1>1. /\ DOMAIN resolved = Closure /\ Closure \subseteq DOMAIN catalog /\ ~HasCycle(ReferenceEdges)
      /\ \A r \in DOMAIN resolved : MakesWhatItSays(r)
  BY DEF PlanInv, LoadInv, ClosureInv, LoadedInv
<1>2. ASSUME NEW m \in DOMAIN modules
      PROVE  \E r \in Closure : IdOf[r] = m /\ ToSet(modules[m].deps) = {IdOf[d] : d \in DependenciesOf(r)}
  <2>1. PICK r \in DOMAIN resolved : IdOf[r] = m
    BY DEF FromCatalog
  <2> QED BY <1>1, <2>1 DEF FromCatalog, MakesWhatItSays
<1>3. \A r \in Closure : DependenciesOf(r) \subseteq Closure
  BY <1>1, ClosureLeast DEF PlanInv, ClosedSet
<1>4. DependenciesKnown(modules)
  <2>1. ASSUME NEW m \in DOMAIN modules PROVE ToSet(modules[m].deps) \subseteq DOMAIN modules
    <3>1. PICK r \in Closure : ToSet(modules[m].deps) = {IdOf[d] : d \in DependenciesOf(r)}
      BY <1>2
    <3> QED BY <1>1, <1>3, <3>1 DEF FromCatalog
  <2> QED BY <2>1 DEF DependenciesKnown
<1>5. ASSUME NEW R \in SUBSET (DOMAIN modules), R # {}, \A m \in R : ToSet(modules[m].deps) \cap R # {}
      PROVE  FALSE
  <2> DEFINE S == {r \in Closure : IdOf[r] \in R}
  <2>1. S # {}
    BY <1>2, <1>5
  <2>2. ASSUME NEW r \in S PROVE \E d \in S : <<r, d>> \in ReferenceEdges
    <3>1. r \in Closure /\ IdOf[r] \in R /\ r \in DOMAIN catalog
      BY <1>1
    <3>2. ToSet(modules[IdOf[r]].deps) = {IdOf[d] : d \in DependenciesOf(r)}
      BY <1>1, <3>1 DEF FromCatalog, MakesWhatItSays
    <3>3. PICK d \in DependenciesOf(r) : IdOf[d] \in R
      BY <1>5, <3>1, <3>2
    <3>4. d \in S
      BY <1>3, <3>1, <3>3
    <3>5. <<r, d>> \in ReferenceEdges
      BY <3>1, <3>3, EdgeIn
    <3> QED BY <3>4, <3>5
  <2>3. S \in SUBSET {e[1] : e \in ReferenceEdges}
    <3>1. ASSUME NEW r \in S PROVE r \in {e[1] : e \in ReferenceEdges}
      <4>1. PICK d \in S : <<r, d>> \in ReferenceEdges
        BY <2>2
      <4>2. <<r, d>>[1] = r
        OBVIOUS
      <4> QED BY <4>1, <4>2
    <3> QED BY <3>1
  <2> HIDE DEF S
  <2>4. HasCycle(ReferenceEdges)
    BY <2>1, <2>2, <2>3 DEF HasCycle
  <2> QED BY <1>1, <2>4
<1> QED BY <1>4, <1>5

\* When nothing is ready, everything is placed, or what is left depends on it.
LEMMA KahnEnds ==
    ASSUME TypeInv, KahnInv, stage = "order", ready = {}
    PROVE  /\ ToSet(placed) = DOMAIN modules => placed = ActivationOrder(DOMAIN modules, DependencySets(modules))
           /\ \A m \in DOMAIN modules \ ToSet(placed) :
                 ToSet(modules[m].deps) \cap (DOMAIN modules \ ToSet(placed)) # {}
           /\ DOMAIN modules \ ToSet(placed) # {} =>
                 IsCycleOf(CycleAmong(DOMAIN modules \ ToSet(placed), DependencySets(modules)), ModuleEdges)
<1> DEFINE mods == DOMAIN modules
           deps == DependencySets(modules)
           R == mods \ ToSet(placed)
<1>1. /\ mods \in SUBSET Nat /\ IsFiniteSet(mods) /\ placed \in Seq(mods)
  BY DEF TypeInv, PipelineTypes, ModulesTyped
<1>2. /\ DependenciesKnown(modules) /\ Available(mods, deps, ToSet(placed)) = {}
      /\ Greedy(placed, mods, deps)
  BY DEF KahnInv
<1>3. \A m \in mods : deps[m] = ToSet(modules[m].deps)
  BY DEF DependencySets
<1>4. ASSUME ToSet(placed) = mods PROVE placed = ActivationOrder(mods, deps)
  BY <1>1, <1>2, <1>4, GreedyOrder
<1>5. ASSUME NEW m \in R PROVE deps[m] \cap R # {}
  <2>1. ~(deps[m] \subseteq ToSet(placed))
    BY <1>2 DEF Available
  <2> QED BY <1>2, <1>3, <2>1 DEF DependenciesKnown
<1>6. \A m \in R : \A d \in deps[m] : <<m, d>> \in ModuleEdges
  BY DEF ModuleEdges
<1>7. R \in SUBSET Nat /\ IsFiniteSet(R)
  BY <1>1, FS_Subset
<1>8. ASSUME R # {} PROVE IsCycleOf(CycleAmong(R, deps), ModuleEdges)
  <2> HIDE DEF R, deps
  <2> QED BY <1>5, <1>6, <1>7, <1>8, CycleAmongIsCycle
<1> QED BY <1>3, <1>4, <1>5, <1>8

\* Every step keeps the invariant of Kahn's loop.
LEMMA KahnInvKept ==
    ASSUME TypeInv, KahnInv, [Next]_vars
    PROVE  KahnInv'
<1>1. CASE StartOrder
  BY <1>1, StartOrderKeeps
<1>2. CASE PlaceModule
  BY <1>2, PlaceModuleKeeps
<1>3. CASE Load \/ Search \/ UNCHANGED vars
  <2>1. stage' = stage /\ modules' = modules /\ ready' = ready /\ indegree' = indegree /\ placed' = placed
    BY <1>3 DEF Load, Search, vars, pipelineVars, kahnVars
  <2> QED BY <2>1 DEF KahnInv
<1>4. CASE \/ EndLoad \/ Register \/ Build \/ ValidateDeclarations \/ EndCapabilities \/ EndWorkflow
           \/ StartPlan \/ ConstructRuntime \/ Restart
  <2>1. stage' # "order"
    BY <1>4 DEF EndLoad, Register, Build, ValidateDeclarations, EndCapabilities, EndWorkflow, StartPlan,
                ConstructRuntime, Restart, Refuse
  <2> QED BY <2>1 DEF KahnInv
<1> QED BY <1>1, <1>2, <1>3, <1>4 DEF Next, Step

\* Every step keeps what is known of the modules of a load.
LEMMA RegisteredKept ==
    ASSUME PlanInv, RegisteredInv, [Next]_vars
    PROVE  RegisteredInv'
<1>1. CASE Register
  <2>1. /\ stage = "register" /\ input' = input /\ resolved' = resolved /\ catalog' = catalog /\ loaded' = loaded
    BY <1>1 DEF Register, loaderVars, closureVars
  <2>2. SUFFICES ASSUME input.mode = "load", stage' = "build" PROVE FromCatalog'
    BY <1>1, <2>1 DEF RegisteredInv, Register, Refuse
  <2>3. /\ UniqueIds(loaded)
        /\ modules' = [m \in ToSet(Ids(loaded)) |-> CHOOSE r \in ToSet(loaded) : r.id = m]
    BY <1>1, <2>2 DEF Register, Refuse
  <2>4. loading = "loaded"
    BY <2>1, <2>2 DEF PlanInv, LoadInv, StageInv
  <2>5. LoadedInv
    BY <2>4 DEF PlanInv, LoadInv, ClosureInv
  <2>6. loaded \in Seq(Registrations)
    BY DEF PlanInv, TypeInv, LoaderTypes
  <2>7. DOMAIN Ids(loaded) = DOMAIN loaded /\ \A i \in DOMAIN loaded : Ids(loaded)[i] = loaded[i].id
    BY DEF Ids
  <2>8. ASSUME NEW i \in DOMAIN loaded
        PROVE  loaded[i].id \in DOMAIN modules' /\ modules'[loaded[i].id] = loaded[i]
    <3>1. loaded[i] \in ToSet(loaded) /\ loaded[i].id \in ToSet(Ids(loaded))
      BY <2>7 DEF ToSet
    <3>2. ASSUME NEW r \in ToSet(loaded), r.id = loaded[i].id PROVE r = loaded[i]
      <4>1. PICK j \in DOMAIN loaded : r = loaded[j]
        BY DEF ToSet
      <4>2. i = j
        BY <2>3, <2>7, <3>2, <4>1 DEF UniqueIds, IsInjective
      <4> QED BY <4>1, <4>2
    <3>3. modules'[loaded[i].id] = CHOOSE r \in ToSet(loaded) : r.id = loaded[i].id
      BY <2>3, <3>1
    <3> QED BY <2>3, <3>1, <3>2, <3>3
  <2>9. ASSUME NEW r \in DOMAIN resolved
        PROVE  IdOf[r] \in DOMAIN modules' /\ modules'[IdOf[r]] = catalog[r].makes
    <3>1. PICK i \in DOMAIN loaded : loaded[i] = catalog[r].makes
      BY <2>5 DEF LoadedInv
    <3>2. loaded[i].id = IdOf[r]
      BY <2>5, <3>1 DEF LoadedInv, MakesWhatItSays
    <3> QED BY <2>8, <3>1, <3>2
  <2>10. ASSUME NEW m \in DOMAIN modules' PROVE \E r \in DOMAIN resolved : IdOf[r] = m
    <3>1. m \in ToSet(Ids(loaded))
      BY <2>3
    <3>2. PICK i \in DOMAIN loaded : loaded[i].id = m
      BY <2>7, <3>1 DEF ToSet
    <3>3. PICK r \in DOMAIN resolved : loaded[i] = catalog[r].makes
      BY <2>5 DEF LoadedInv
    <3> QED BY <2>5, <3>2, <3>3 DEF LoadedInv, MakesWhatItSays
  <2> QED BY <2>1, <2>9, <2>10 DEF FromCatalog
<1>2. CASE StartOrder \/ PlaceModule \/ Search \/ UNCHANGED vars
  <2>1. /\ input' = input /\ modules' = modules /\ catalog' = catalog /\ resolved' = resolved
        /\ stage' \in {"build", "order"} => stage \in {"build", "order"}
    BY <1>2 DEF StartOrder, PlaceModule, Search, Refuse, vars, pipelineVars, loaderVars, closureVars
  <2> QED BY <2>1 DEF RegisteredInv, FromCatalog
<1>3. CASE \/ Load \/ EndLoad \/ Build \/ ValidateDeclarations \/ EndCapabilities \/ EndWorkflow
           \/ StartPlan \/ ConstructRuntime \/ Restart
  <2>1. stage' \notin {"build", "order"}
    BY <1>3 DEF Load, EndLoad, Build, ValidateDeclarations, EndCapabilities, EndWorkflow, StartPlan,
                ConstructRuntime, Restart, Refuse, pipelineVars
  <2> QED BY <2>1 DEF RegisteredInv
<1> QED BY <1>1, <1>2, <1>3 DEF Next, Step

\* The pipeline starts without an answer.
LEMMA OutcomeInit ==
    ASSUME Init
    PROVE  OutcomeInv
<1>1. /\ input \in Inputs /\ ~planned /\ planned \in BOOLEAN /\ purpose = "start" /\ refusal.by = "none"
      /\ stage = CASE input.mode = "load" -> "load"
                   [] input.mode = "compose" -> "register"
                   [] input.mode = "define" -> "definition"
  BY DEF Init
<1>2. input.mode \in {"load", "compose", "define"}
  BY <1>1, PlanningAssumption
<1>3. stage \in {"load", "register", "definition"} /\ (stage = "definition" <=> input.mode = "define")
  BY <1>1, <1>2
<1> QED BY <1>1, <1>3 DEF OutcomeInv

\* The builder's answer.
LEMMA BuildKeepsOutcome ==
    ASSUME PlanInv, KahnInv, RegisteredInv, OutcomeInv, Build
    PROVE  OutcomeInv'
<1> DEFINE R == DOMAIN modules \ ToSet(placed)
           by == RefusedContributions(modules)
<1>1. /\ stage = "order" /\ ready = {} /\ input' = input /\ modules' = modules /\ placed' = placed
      /\ planned' = planned
  BY DEF Build, kahnVars
<1>2. ~planned /\ planned \in BOOLEAN /\ purpose = "start" /\ input.mode # "define" /\ refusal.by = "none"
  BY <1>1 DEF OutcomeInv
<1>3. ModuleEdges' = ModuleEdges
  BY <1>1 DEF ModuleEdges
<1>4. placed \in Seq(DOMAIN modules) /\ ToSet(placed) \subseteq DOMAIN modules
  BY ToSetOf DEF PlanInv, TypeInv, PipelineTypes
<1>5. CASE /\ R # {} /\ Refuse("module_cycle", CycleAmong(R, DependencySets(modules)))
           /\ UNCHANGED <<definition, factories, purpose>>
  <2>1. stage' = "refused" /\ refusal'.by = "module_cycle" /\ refusal'.path = CycleAmong(R, DependencySets(modules))
    BY <1>5 DEF Refuse
  <2>2. IsCycleOf(refusal'.path, ModuleEdges)
    BY <1>1, <1>5, <2>1, KahnEnds DEF PlanInv
  <2>3. input.mode # "load"
    <3>1. SUFFICES ASSUME input.mode = "load" PROVE FALSE
      OBVIOUS
    <3>2. loading = "loaded" /\ FromCatalog
      BY <1>1, <3>1 DEF PlanInv, LoadInv, StageInv, RegisteredInv
    <3>3. R \in SUBSET (DOMAIN modules)
      OBVIOUS
    <3>4. PICK m \in R : ToSet(modules[m].deps) \cap R = {}
      BY <1>5, <3>2, <3>3, LoadedModules
    <3> QED BY <1>1, <3>4, KahnEnds DEF PlanInv
  <2> QED BY <1>1, <1>2, <1>3, <1>5, <2>1, <2>2, <2>3 DEF OutcomeInv
<1>6. CASE by # "none" /\ Refuse(by, <<>>) /\ UNCHANGED <<definition, factories, purpose>>
  <2>1. stage' = "refused" /\ refusal'.by = by
    BY <1>6 DEF Refuse
  <2>2. by \notin {"module_cycle", "module_dependencies"}
    BY ContributionsPass
  <2> QED BY <1>1, <1>2, <1>6, <2>1, <2>2 DEF OutcomeInv
<1>7. CASE /\ R = {} /\ by = "none" /\ definition' = MergeDefinition(modules, placed)
           /\ factories' = Contributions(modules, "factories") /\ purpose' = "plan"
           /\ stage' = "definition" /\ UNCHANGED refusal
  <2>1. ToSet(placed) = DOMAIN modules
    BY <1>4, <1>7
  <2>2. placed = ActivationOrder(DOMAIN modules, DependencySets(modules))
    BY <1>1, <2>1, KahnEnds DEF PlanInv
  <2>3. PlanMade'
    BY <1>1, <1>2, <1>7, <2>1, <2>2 DEF PlanMade
  <2> QED BY <1>1, <1>2, <1>7, <2>3 DEF OutcomeInv
<1> QED BY <1>5, <1>6, <1>7 DEF Build

\* Every step keeps the pipeline's answers.
LEMMA OutcomeKept ==
    ASSUME PlanInv, KahnInv, RegisteredInv, OutcomeInv, [Next]_vars
    PROVE  OutcomeInv'
<1>1. CASE Load \/ Search \/ UNCHANGED vars
  <2>1. UNCHANGED pipelineVars
    BY <1>1 DEF Load, Search, vars
  <2> QED BY <2>1 DEF OutcomeInv, PlanMade, ModuleEdges, pipelineVars, kahnVars
<1>2. CASE EndLoad
  <2>1. /\ stage = "load" /\ input' = input /\ planned' = planned /\ purpose' = purpose
        /\ \/ stage' = "register" /\ refusal' = refusal
           \/ loading = "refused" /\ stage' = "refused" /\ refusal'.by = loadError.by
    BY <1>2 DEF EndLoad, Refuse
  <2>2. loading = "refused" =>
          loadError.by \in {"duplicate_root", "missing_reference", "dependency_cycle", "construction"}
    BY DEF PlanInv, LoadInv, ClosureInv, RefusalExact
  <2> QED BY <2>1, <2>2 DEF OutcomeInv
<1>3. CASE Register
  <2>1. /\ stage = "register" /\ input' = input /\ planned' = planned /\ purpose' = purpose
        /\ \/ stage' = "build" /\ refusal' = refusal
           \/ stage' = "refused" /\ refusal'.by = "duplicate_module"
    BY <1>3 DEF Register, Refuse
  <2> QED BY <2>1 DEF OutcomeInv
<1>4. CASE StartOrder
  <2>1. /\ stage = "build" /\ input' = input /\ planned' = planned /\ purpose' = purpose
        /\ \/ stage' = "order" /\ refusal' = refusal
           \/ ~DependenciesKnown(modules) /\ stage' = "refused" /\ refusal'.by = "module_dependencies"
    BY <1>4 DEF StartOrder, Refuse
  <2>2. input.mode = "load" => DependenciesKnown(modules)
    <3>1. SUFFICES ASSUME input.mode = "load" PROVE DependenciesKnown(modules)
      OBVIOUS
    <3>2. loading = "loaded" /\ FromCatalog
      BY <2>1, <3>1 DEF PlanInv, LoadInv, StageInv, RegisteredInv
    <3> QED BY <3>2, LoadedModules
  <2> QED BY <2>1, <2>2 DEF OutcomeInv
<1>5. CASE PlaceModule
  <2>1. /\ stage = "order" /\ stage' = stage /\ input' = input /\ planned' = planned /\ purpose' = purpose
        /\ refusal' = refusal
    BY <1>5 DEF PlaceModule
  <2> QED BY <2>1 DEF OutcomeInv
<1>6. CASE Build
  BY <1>6, BuildKeepsOutcome
<1>7. CASE ValidateDeclarations \/ EndCapabilities \/ ConstructRuntime
  <2>1. /\ UNCHANGED <<input, modules, placed, definition, factories, purpose, planned>>
        /\ stage \in {"definition", "capabilities", "validated"}
        /\ stage' \in {"capabilities", "workflow", "running", "restored", "refused"}
    BY <1>7 DEF ValidateDeclarations, EndCapabilities, ConstructRuntime, Refuse, kahnVars
  <2>2. \/ refusal' = refusal
        \/ stage' = "refused" /\ refusal'.by \in {RefusedDefinition(definition), RefusedConstruction,
                                                  "factory_failed", "capability_cycle"}
    BY <1>7 DEF ValidateDeclarations, EndCapabilities, ConstructRuntime, Refuse
  <2>3. {RefusedDefinition(definition), RefusedConstruction, "factory_failed", "capability_cycle"}
          \cap {"module_cycle", "module_dependencies"} = {}
    BY DefinitionRefusals, ConstructionRefusals
  <2>4. PlanMade' <=> PlanMade
    BY <2>1 DEF PlanMade
  <2> QED BY <2>1, <2>2, <2>3, <2>4 DEF OutcomeInv
<1>8. CASE EndWorkflow
  <2>1. /\ UNCHANGED <<input, modules, placed, definition, factories, purpose>> /\ stage = "workflow"
        /\ \/ planned' = planned /\ stage' = "refused" /\ refusal'.by = "workflow_cycle"
           \/ /\ planned' = (planned \/ purpose = "plan") /\ refusal' = refusal
              /\ stage' = IF purpose = "plan" THEN "planned" ELSE "validated"
    BY <1>8 DEF EndWorkflow, Refuse, kahnVars
  <2>2. PlanMade' <=> PlanMade
    BY <2>1 DEF PlanMade
  <2>3. /\ planned' \in BOOLEAN
        /\ planned' => planned \/ purpose = "plan"
        /\ stage' \in {"refused", "planned", "validated"}
        /\ stage' = "planned" => planned'
    <3>1. planned \in BOOLEAN
      BY DEF OutcomeInv
    <3>2. CASE planned' = planned /\ stage' = "refused"
      BY <3>1, <3>2
    <3>3. CASE /\ planned' = (planned \/ purpose = "plan")
               /\ stage' = IF purpose = "plan" THEN "planned" ELSE "validated"
      <4>1. purpose = "plan" => planned' /\ stage' = "planned"
        BY <3>3
      <4>2. purpose # "plan" => (planned' <=> planned) /\ stage' = "validated"
        BY <3>3
      <4>3. planned' \in BOOLEAN
        BY <3>3
      <4> QED BY <4>1, <4>2, <4>3
    <3> QED BY <2>1, <3>2, <3>3
  <2>4. /\ stage' # "refused" => refusal'.by = "none"
        /\ refusal'.by \in {"none", "workflow_cycle"}
    BY <2>1 DEF OutcomeInv
  <2> QED BY <2>1, <2>2, <2>3, <2>4 DEF OutcomeInv
<1>9. CASE StartPlan
  <2>1. /\ UNCHANGED <<input, modules, placed, definition, factories, planned>> /\ stage = "planned"
        /\ purpose' = "start"
        /\ \/ stage' = "definition" /\ refusal' = refusal
           \/ stage' = "refused" /\ refusal'.by = "missing_configuration"
    BY <1>9 DEF StartPlan, Refuse, kahnVars
  <2>2. PlanMade' <=> PlanMade
    BY <2>1 DEF PlanMade
  <2> QED BY <2>1, <2>2 DEF OutcomeInv
<1>10. CASE Restart
  <2>1. /\ UNCHANGED <<input, modules, placed, planned, refusal>> /\ stage = "running" /\ stage' = "definition"
        /\ purpose' = "restore" /\ input.mode = "define"
    BY <1>10 DEF Restart, kahnVars
  <2> QED BY <2>1 DEF OutcomeInv, PlanMade
<1> QED BY <1>1, <1>2, <1>3, <1>4, <1>5, <1>6, <1>7, <1>8, <1>9, <1>10 DEF Next, Step

\* Types, search, loader, Kahn's loop and what the pipeline answers.
AnsweredInv == PlanInv /\ KahnInv /\ RegisteredInv /\ OutcomeInv

\* Every state satisfies it.
LEMMA Answered == Spec => []AnsweredInv
<1>1. Init => AnsweredInv
  <2>1. SUFFICES ASSUME Init PROVE AnsweredInv
    OBVIOUS
  <2>2. PlanInv
    BY <2>1, TypesInit, SearchIdle, LoadInit DEF Init, PlanInv
  <2>3. OutcomeInv
    BY <2>1, OutcomeInit
  <2>4. input.mode = "load" => stage = "load"
    BY <2>1 DEF Init
  <2>5. stage # "order"
    <3>1. input.mode \in {"load", "compose", "define"}
      BY <2>1, PlanningAssumption DEF Init
    <3> QED BY <2>1, <3>1 DEF Init
  <2> QED BY <2>2, <2>3, <2>4, <2>5 DEF AnsweredInv, KahnInv, RegisteredInv
<1>2. AnsweredInv /\ [Next]_vars => AnsweredInv'
  <2>1. SUFFICES ASSUME AnsweredInv, [Next]_vars PROVE AnsweredInv'
    OBVIOUS
  <2>2. PlanInv /\ KahnInv /\ RegisteredInv /\ OutcomeInv
    BY <2>1 DEF AnsweredInv
  <2>3. PlanInv'
    BY <2>1, <2>2, TypesKept, SearchInvKept, LoadInvKept DEF PlanInv
  <2>4. KahnInv'
    BY <2>1, <2>2, KahnInvKept DEF PlanInv
  <2>5. RegisteredInv' /\ OutcomeInv'
    BY <2>1, <2>2, RegisteredKept, OutcomeKept
  <2> QED BY <2>3, <2>4, <2>5 DEF AnsweredInv
<1> QED BY <1>1, <1>2, PTL DEF Spec

\* For every set of modules: an accepted plan has them all, in the order
\* deterministic_order promises; a module cycle is reported by a closed walk
\* of dependencies; and what the loader passed on has no missing module and no
\* cycle.
THEOREM OrderTopological == Spec => []OrderIsTopological
<1>1. AnsweredInv => OrderIsTopological
  <2>1. SUFFICES ASSUME AnsweredInv PROVE OrderIsTopological
    OBVIOUS
  <2>2. OutcomeInv
    BY <2>1 DEF AnsweredInv
  <2>3. stage = "planned" => PlanMade
    BY <2>2 DEF OutcomeInv
  <2>4. refusal.by = "module_cycle" => IsCycleOf(refusal.path, ModuleEdges)
    BY <2>2 DEF OutcomeInv
  <2>5. input.mode = "load" => refusal.by \notin {"module_dependencies", "module_cycle"}
    BY <2>2 DEF OutcomeInv
  <2> QED BY <2>3, <2>4, <2>5 DEF OrderIsTopological, PlanMade, ModuleEdges
<1> QED BY <1>1, Answered, PTL

----------------------------------------------------------------------------
(* A plan that was accepted *)

CapabilityIds(d) == {c.id : c \in Materialized(d)}

\* An order of construction: every capability once, after all it depends on.
Constructs(o, d) ==
    /\ o \in Seq(CapabilityIds(d))
    /\ \A i, j \in 1..Len(o) : o[i] = o[j] => i = j
    /\ \A c \in Materialized(d) : \E i \in 1..Len(o) : o[i] = c.id
    /\ \A i \in 1..Len(o) : \A n : <<o[i], n>> \in CapabilityEdges(d) => \E j \in 1..(i - 1) : o[j] = n

\* A definition that has passed validation.
Validated(d) ==
    /\ RefusedDefinition(d) = "none"
    /\ ~HasCycle(CapabilityEdges(d)) /\ ~HasCycle(TaskEdges(d))

\* Validation, stage by stage, and what an accepted plan can still meet.
ValidInv ==
    /\ stage = "capabilities" =>
          /\ roots = CapabilityIds(definition) /\ edges = CapabilityEdges(definition)
          /\ RefusedDefinition(definition) = "none"
    /\ stage = "workflow" =>
          /\ roots = ToSet(Ids(definition.tasks)) /\ edges = TaskEdges(definition)
          /\ RefusedDefinition(definition) = "none" /\ ~HasCycle(CapabilityEdges(definition))
    /\ stage \in {"workflow", "validated", "running"} => Constructs(construction, definition)
    /\ planned => Validated(definition)
    /\ planned => refusal.by \in {"none", "missing_configuration", "factory_failed"}

\* Every slot that a capability depends on is a capability, and the edges lead
\* from capability to capability.
LEMMA CapabilityGraph ==
    ASSUME NEW d \in RunDefinitions
    PROVE  /\ \A c \in Materialized(d) : \A r \in ToSet(c.deps) :
                 r[1] \in CapabilityIds(d) /\ <<c.id, r[1]>> \in CapabilityEdges(d)
           /\ \A e \in CapabilityEdges(d) : e[1] \in CapabilityIds(d) /\ e[2] \in CapabilityIds(d)
<1>1. ASSUME NEW c \in Materialized(d), NEW r \in ToSet(c.deps)
      PROVE  r[1] \in CapabilityIds(d)
  <2>1. CASE c \in ToSet(d.capabilities)
    <3>1. r \in Required(d)
      BY <2>1 DEF Required
    <3>2. CASE r[1] \in ToSet(Ids(d.capabilities))
      <4>1. PICK i \in DOMAIN d.capabilities : r[1] = d.capabilities[i].id
        BY <3>2 DEF ToSet, Ids
      <4>2. d.capabilities[i] \in Materialized(d)
        BY DEF Materialized, ToSet
      <4> QED BY <4>1, <4>2 DEF CapabilityIds
    <3>3. CASE r[1] \notin ToSet(Ids(d.capabilities))
      <4>1. Implicit(r) \in Materialized(d)
        BY <3>1, <3>3 DEF Materialized
      <4>2. Implicit(r).id = r[1]
        BY DEF Implicit
      <4> QED BY <4>1, <4>2 DEF CapabilityIds
    <3> QED BY <3>2, <3>3
  <2>2. CASE c \notin ToSet(d.capabilities)
    <3>1. PICK q : c = Implicit(q)
      BY <2>2 DEF Materialized
    <3>2. c.deps = <<>>
      BY <3>1 DEF Implicit
    <3> QED BY <3>2 DEF ToSet
  <2> QED BY <2>1, <2>2
<1>2. ASSUME NEW c \in Materialized(d), NEW r \in ToSet(c.deps)
      PROVE  <<c.id, r[1]>> \in CapabilityEdges(d)
  BY DEF CapabilityEdges
<1>3. ASSUME NEW e \in CapabilityEdges(d) PROVE e[1] \in CapabilityIds(d) /\ e[2] \in CapabilityIds(d)
  <2>1. PICK c \in Materialized(d) : e \in {<<c.id, r[1]>> : r \in ToSet(c.deps)}
    BY DEF CapabilityEdges
  <2>2. PICK r \in ToSet(c.deps) : e = <<c.id, r[1]>>
    BY <2>1
  <2>3. e[1] = c.id /\ e[2] = r[1]
    BY <2>2
  <2> QED BY <1>1, <2>3 DEF CapabilityIds
<1> QED BY <1>1, <1>2, <1>3

\* The search of the capability graph gives an order of construction.
LEMMA ResolverOrders ==
    ASSUME TypeInv, SearchInv, ValidInv, stage = "capabilities", result = "acyclic"
    PROVE  ~HasCycle(CapabilityEdges(definition)) /\ Constructs(order, definition)
<1>1. /\ roots = CapabilityIds(definition) /\ edges = CapabilityEdges(definition)
  BY DEF ValidInv
<1>2. definition \in RunDefinitions
  BY DEF TypeInv, PipelineTypes
<1>3. GraphInv /\ roots \subseteq Nodes /\ order \in Seq(Nodes)
  BY DEF SearchInv, GraphInv
<1>4. roots \subseteq Reached
  BY <1>3, ReachedClosed
<1>5. \A e \in edges : e[1] \in roots /\ e[2] \in roots
  BY <1>1, <1>2, CapabilityGraph
<1>6. ~HasCycle(edges)
  BY <1>4, <1>5, NoCycleFound
<1>7. Reached = roots
  BY <1>3, <1>4, <1>5 DEF Reached, Nodes
<1>8. ToSet(order) = roots
  BY <1>7, SearchExact DEF SearchIsExact
<1>9. ToSet(order) = {order[i] : i \in 1..Len(order)}
  BY <1>3, ToSetOf
<1>10. order \in Seq(roots)
  <2>1. Len(order) \in Nat /\ order \in [1..Len(order) -> Nodes] /\ \A i \in 1..Len(order) : order[i] \in roots
    BY <1>3, <1>8, <1>9
  <2>2. PICK n \in Nat : n = Len(order)
    BY <2>1
  <2>3. order \in [1..n -> roots]
    BY <2>1, <2>2
  <2> QED BY <2>3
<1>11. \A i, j \in 1..Len(order) : order[i] = order[j] => i = j
  BY DEF SearchInv, OrderInv
<1>12. \A i \in 1..Len(order) : \A n : <<order[i], n>> \in edges => \E j \in 1..(i - 1) : order[j] = n
  <2>1. ASSUME NEW i \in 1..Len(order), NEW n, <<order[i], n>> \in edges PROVE n \in Nodes
    <3>1. <<order[i], n>>[2] \in roots /\ <<order[i], n>>[2] = n
      BY <1>5, <2>1
    <3> QED BY <1>3, <3>1
  <2> QED BY <2>1 DEF SearchInv, OrderInv
<1>13. \A c \in Materialized(definition) : \E i \in 1..Len(order) : order[i] = c.id
  BY <1>1, <1>8, <1>9 DEF CapabilityIds
<1> QED BY <1>1, <1>6, <1>10, <1>11, <1>12, <1>13 DEF Constructs

\* The search of the workflow looks at every task.
LEMMA WorkflowAcyclic ==
    ASSUME TypeInv, SearchInv, ValidInv, stage = "workflow", result = "acyclic"
    PROVE  ~HasCycle(TaskEdges(definition))
<1>1. roots = ToSet(Ids(definition.tasks)) /\ edges = TaskEdges(definition)
  BY DEF ValidInv
<1>2. roots \subseteq Reached
  BY ReachedClosed DEF SearchInv
<1>3. ASSUME NEW e \in edges PROVE e[1] \in roots
  <2>1. PICK t \in ToSet(definition.tasks) : e \in {<<t.id, q>> : q \in ToSet(t.deps)}
    BY <1>1 DEF TaskEdges
  <2>2. e[1] = t.id
    BY <2>1
  <2>3. t.id \in ToSet(Ids(definition.tasks))
    BY DEF ToSet, Ids
  <2> QED BY <1>1, <2>2, <2>3
<1> QED BY <1>1, <1>2, <1>3, NoCycleFound

\* The place of an element that a sequence has once.
LEMMA PlaceOf ==
    ASSUME NEW W, NEW o \in Seq(W), NEW x, NEW i \in 1..Len(o), o[i] = x,
           \A j, k \in 1..Len(o) : o[j] = o[k] => j = k
    PROVE  /\ {j \in 1..Len(o) : o[j] = x} # {}
           /\ Min({j \in 1..Len(o) : o[j] = x}) = i
<1> DEFINE I == {j \in 1..Len(o) : o[j] = x}
<1>1. I = {i} /\ I \in SUBSET Nat
  OBVIOUS
<1> HIDE DEF I
<1>2. I # {} /\ Min(I) \in I
  BY <1>1, MinIn
<1>3. I # {} /\ Min(I) = i
  BY <1>1, <1>2
<1> QED BY <1>3 DEF I

\* An order of construction publishes every capability after those it needs.
LEMMA ConstructsPublishes ==
    ASSUME definition \in RunDefinitions, Constructs(construction, definition)
    PROVE  Published
<1> DEFINE o == construction
<1>1. o \in Seq(CapabilityIds(definition)) /\ Len(o) \in Nat /\ \A i, j \in 1..Len(o) : o[i] = o[j] => i = j
  BY DEF Constructs
<1>2. ASSUME NEW c \in Materialized(definition), NEW r \in ToSet(c.deps)
      PROVE  SelectInSeq(o, LAMBDA n : n = r[1]) < SelectInSeq(o, LAMBDA n : n = c.id)
  <2>1. PICK i \in 1..Len(o) : o[i] = c.id
    BY DEF Constructs
  <2>2. <<o[i], r[1]>> \in CapabilityEdges(definition)
    BY <2>1, CapabilityGraph
  <2>3. PICK j \in 1..(i - 1) : o[j] = r[1]
    BY <2>2 DEF Constructs
  <2>4. j \in 1..Len(o) /\ j < i
    BY <1>1
  <2> DEFINE I(x) == {k \in 1..Len(o) : o[k] = x}
  <2>5. /\ SelectInSeq(o, LAMBDA n : n = r[1]) = IF I(r[1]) # {} THEN Min(I(r[1])) ELSE 0
        /\ SelectInSeq(o, LAMBDA n : n = c.id) = IF I(c.id) # {} THEN Min(I(c.id)) ELSE 0
    BY DEF SelectInSeq
  <2>6. I(c.id) # {} /\ Min(I(c.id)) = i
    BY <1>1, <2>1, PlaceOf
  <2>7. I(r[1]) # {} /\ Min(I(r[1])) = j
    BY <1>1, <2>3, <2>4, PlaceOf
  <2> HIDE DEF I
  <2> QED BY <2>4, <2>5, <2>6, <2>7
<1> QED BY <1>2 DEF Published

\* The only slot of an identifier.
LEMMA OneSlot ==
    ASSUME NEW ms, ModulesTyped(ms), SlotsOwned(ms), NEW s \in SlotsOf(ms)
    PROVE  \A t \in SlotsOf(ms) : t.id = s.id => t = s
<1>1. ASSUME NEW t \in SlotsOf(ms), t.id = s.id PROVE t = s
  <2>1. PICK m \in DOMAIN ms : \E i \in DOMAIN ms[m].capabilities : s = ms[m].capabilities[i]
    BY SlotsTyped
  <2>2. PICK i \in DOMAIN ms[m].capabilities : s = ms[m].capabilities[i]
    BY <2>1
  <2>3. PICK n \in DOMAIN ms : \E j \in DOMAIN ms[n].capabilities : t = ms[n].capabilities[j]
    BY SlotsTyped
  <2>4. PICK j \in DOMAIN ms[n].capabilities : t = ms[n].capabilities[j]
    BY <2>3
  <2>5. m = n /\ i = j
    BY <1>1, <2>2, <2>4 DEF SlotsOwned, OneOwner
  <2> QED BY <2>2, <2>4, <2>5
<1> QED BY <1>1

\* A requirement that the builder found met is for a declared slot.
LEMMA MetIsDeclared ==
    ASSUME NEW ms, ModulesTyped(ms), SlotsOwned(ms), NEW r, RequirementMet(ms, r)
    PROVE  \E s \in Declarative(ms) : s.id = r[1] /\ s.identity = r[2]
<1>1. PICK s \in SlotsOf(ms) : s.id = r[1]
  BY DEF RequirementMet, HasSlot
<1>2. SlotOf(ms, r[1]) = s
  BY <1>1, OneSlot DEF SlotOf
<1> QED BY <1>1, <1>2 DEF RequirementMet, Declarative

\* A plan's definition has no capability but the declared slots, and the plan
\* has the factory of each.
LEMMA PlanComplete ==
    ASSUME NEW ms, ModulesTyped(ms), RefusedContributions(ms) = "none", NEW by \in Seq(DOMAIN ms),
           NEW d, d = MergeDefinition(ms, by)
    PROVE  \A c \in Materialized(d) : \E s \in Declarative(ms) :
              c.id = s.id /\ c.identity = s.identity /\ <<s.id, s.identity>> \in Contributions(ms, "factories")
<1>1. SlotsOwned(ms) /\ RequirementsMet(ms) /\ FactoriesFit(ms)
  BY ContributionsPass
<1>2. /\ ToSet(d.tasks) \subseteq Contributions(ms, "tasks")
      /\ ToSet(d.capabilities) = {Declaration(s) : s \in Declarative(ms)}
  BY <1>1, MergeOf
<1>3. \A s \in Declarative(ms) : <<s.id, s.identity>> \in Contributions(ms, "factories")
  BY <1>1 DEF FactoriesFit, Declarative
<1>4. \A s : Declaration(s).id = s.id /\ Declaration(s).identity = s.identity /\ Declaration(s).deps = s.deps
  BY DEF Declaration
<1>5. ASSUME NEW r \in Required(d) PROVE RequirementMet(ms, r)
  <2>1. CASE \E t \in ToSet(d.tasks) : r \in ToSet(t.requires)
    BY <1>1, <1>2, <2>1 DEF RequirementsMet
  <2>2. CASE \E c \in ToSet(d.capabilities) : r \in ToSet(c.deps)
    <3>1. PICK s \in Declarative(ms) : r \in ToSet(s.deps)
      BY <1>2, <1>4, <2>2
    <3> QED BY <1>1, <3>1 DEF RequirementsMet, Declarative
  <2> QED BY <2>1, <2>2 DEF Required
<1>6. ASSUME NEW r \in Required(d) PROVE r[1] \in ToSet(Ids(d.capabilities))
  <2>1. PICK s \in Declarative(ms) : s.id = r[1]
    BY <1>1, <1>5, MetIsDeclared
  <2>2. PICK i \in DOMAIN d.capabilities : d.capabilities[i] = Declaration(s)
    BY <1>2 DEF ToSet
  <2>3. d.capabilities[i].id = r[1]
    BY <1>4, <2>1, <2>2
  <2> QED BY <2>3 DEF ToSet, Ids
<1>7. Materialized(d) = ToSet(d.capabilities)
  BY <1>6 DEF Materialized
<1> QED BY <1>2, <1>3, <1>4, <1>7

\* Every step keeps the invariant of validation, and an accepted plan is not
\* refused for anything it could have been refused for before.
LEMMA ValidKept ==
    ASSUME AnsweredInv, ValidInv, [Next]_vars
    PROVE  ValidInv'
<1>1. TypeInv /\ SearchInv /\ OutcomeInv /\ definition \in RunDefinitions
  BY DEF AnsweredInv, PlanInv, TypeInv, PipelineTypes
<1>2. planned => PlanMade /\ purpose # "restore"
  BY <1>1 DEF OutcomeInv, PlanMade
<1>3. stage # "refused" => refusal.by = "none"
  BY <1>1 DEF OutcomeInv
<1>4. result = "cyclic" => HasCycle(edges)
  <2>1. SUFFICES ASSUME result = "cyclic" PROVE HasCycle(edges)
    OBVIOUS
  <2>2. IsCycleOf(path, edges) /\ path \in Seq(Nodes)
    BY <1>1, <2>1 DEF SearchInv, AnswerInv
  <2> QED BY <2>2, WalkIsCycle
<1>5. CASE Load \/ EndLoad \/ Register \/ StartOrder \/ PlaceModule \/ Build
  <2>1. stage \in {"load", "register", "build", "order"} /\ planned' = planned
        /\ stage' \in {"load", "register", "build", "order", "refused", "definition"}
    BY <1>5 DEF Load, EndLoad, Register, StartOrder, PlaceModule, Build, Refuse, pipelineVars
  <2>2. ~planned
    BY <1>1, <2>1 DEF OutcomeInv
  <2> QED BY <2>1, <2>2 DEF ValidInv
<1>6. CASE Search \/ UNCHANGED vars
  <2>1. UNCHANGED pipelineVars /\ roots' = roots /\ edges' = edges
    BY <1>6, SearchKeepsGraph DEF Search, vars, searchVars
  <2>2. UNCHANGED <<stage, definition, construction, planned, refusal>>
    BY <2>1 DEF pipelineVars
  <2> QED BY <2>1, <2>2 DEF ValidInv, Constructs, Validated
<1>7. CASE ValidateDeclarations
  <2>1. UNCHANGED <<definition, construction, planned>> /\ stage = "definition"
    BY <1>7 DEF ValidateDeclarations
  <2>2. CASE RefusedDefinition(definition) = "none"
    <3>1. /\ stage' = "capabilities" /\ refusal' = refusal
          /\ roots' = CapabilityIds(definition) /\ edges' = CapabilityEdges(definition)
      BY <1>7, <2>2 DEF ValidateDeclarations, StartSearch, CapabilityIds
    <3> QED BY <2>1, <2>2, <3>1 DEF ValidInv, Validated
  <2>3. CASE RefusedDefinition(definition) # "none"
    <3>1. stage' = "refused" /\ ~planned
      BY <1>7, <2>3 DEF ValidateDeclarations, Refuse, ValidInv, Validated
    <3> QED BY <2>1, <3>1 DEF ValidInv
  <2> QED BY <2>2, <2>3
<1>8. CASE EndCapabilities
  <2>1. UNCHANGED <<definition, planned>> /\ stage = "capabilities"
    BY <1>8 DEF EndCapabilities
  <2>2. edges = CapabilityEdges(definition) /\ RefusedDefinition(definition) = "none"
    BY <2>1 DEF ValidInv
  <2>3. CASE result = "cyclic"
    <3>1. stage' = "refused" /\ ~planned
      BY <1>4, <1>8, <2>2, <2>3 DEF EndCapabilities, Refuse, ValidInv, Validated
    <3> QED BY <2>1, <3>1 DEF ValidInv
  <2>4. CASE result = "acyclic"
    <3>1. /\ stage' = "workflow" /\ refusal' = refusal /\ construction' = order
          /\ roots' = ToSet(Ids(definition.tasks)) /\ edges' = TaskEdges(definition)
      BY <1>8, <2>4 DEF EndCapabilities, StartSearch
    <3>2. ~HasCycle(CapabilityEdges(definition)) /\ Constructs(order, definition)
      BY <1>1, <2>1, <2>4, ResolverOrders
    <3> QED BY <2>1, <2>2, <3>1, <3>2 DEF ValidInv, Validated
  <2> QED BY <1>8, <2>3, <2>4 DEF EndCapabilities
<1>9. CASE EndWorkflow
  <2>1. UNCHANGED <<definition, construction>> /\ stage = "workflow"
    BY <1>9 DEF EndWorkflow
  <2>2. /\ edges = TaskEdges(definition) /\ RefusedDefinition(definition) = "none"
        /\ ~HasCycle(CapabilityEdges(definition)) /\ Constructs(construction, definition)
    BY <2>1 DEF ValidInv
  <2>3. CASE result = "cyclic"
    <3>1. stage' = "refused" /\ planned' = planned /\ ~planned
      BY <1>4, <1>9, <2>2, <2>3 DEF EndWorkflow, Refuse, ValidInv, Validated
    <3> QED BY <3>1 DEF ValidInv
  <2>4. CASE result = "acyclic"
    <3>1. stage' \in {"planned", "validated"} /\ refusal' = refusal
      BY <1>9, <2>4 DEF EndWorkflow
    <3>2. Validated(definition)
      BY <1>1, <2>1, <2>2, <2>4, WorkflowAcyclic DEF Validated
    <3> QED BY <1>3, <2>1, <2>2, <3>1, <3>2 DEF ValidInv
  <2> QED BY <1>9, <2>3, <2>4 DEF EndWorkflow
<1>10. CASE StartPlan
  <2>1. /\ UNCHANGED <<definition, construction, planned>>
        /\ \/ stage' = "definition" /\ refusal' = refusal
           \/ stage' = "refused" /\ refusal'.by = "missing_configuration"
    BY <1>10 DEF StartPlan, Refuse
  <2> QED BY <2>1 DEF ValidInv
<1>11. CASE ConstructRuntime
  <2>1. /\ UNCHANGED <<definition, construction, planned>> /\ stage = "validated"
        /\ stage' \in {"running", "restored", "refused"}
        /\ \/ refusal' = refusal
           \/ stage' = "refused" /\ refusal'.by = "factory_failed"
           \/ RefusedConstruction # "none" /\ stage' = "refused"
    BY <1>11 DEF ConstructRuntime, Refuse
  <2>2. Constructs(construction, definition)
    BY <2>1 DEF ValidInv
  <2>3. planned => RefusedConstruction = "none"
    <3>1. SUFFICES ASSUME planned PROVE RefusedConstruction = "none"
      OBVIOUS
    <3>2. PlanMade /\ purpose # "restore"
      BY <1>2, <3>1
    <3>3. ModulesTyped(modules) /\ placed \in Seq(DOMAIN modules)
      BY <1>1 DEF TypeInv, PipelineTypes
    <3>4. /\ RefusedContributions(modules) = "none" /\ definition = MergeDefinition(modules, placed)
          /\ factories = Contributions(modules, "factories")
      BY <3>2 DEF PlanMade
    <3>5. \A c \in Materialized(definition) : FactoryFor(c)
      BY <3>3, <3>4, PlanComplete DEF FactoryFor
    <3>6. Published
      BY <1>1, <2>2, ConstructsPublishes
    <3> QED BY <3>2, <3>5, <3>6, ConstructionRefusals
  <2> QED BY <2>1, <2>2, <2>3 DEF ValidInv
<1>12. CASE Restart
  <2>1. stage' = "definition" /\ planned' = planned /\ input.mode = "define"
    BY <1>12 DEF Restart
  <2>2. ~planned
    BY <1>2, <2>1 DEF PlanMade
  <2> QED BY <2>1, <2>2 DEF ValidInv
<1> QED BY <1>5, <1>6, <1>7, <1>8, <1>9, <1>10, <1>11, <1>12 DEF Next, Step

\* Plugins of an accepted plan fill slots that nothing else fills.
LEMMA PluginsApart ==
    ASSUME TypeInv, PlanMade, Constructs(construction, definition),
           NEW p \in Contributions(modules, "plugins"), NEW q \in Contributions(modules, "plugins")
    PROVE  /\ p.capability \notin ToSet(construction)
           /\ p # q => p.capability # q.capability /\ p.id # q.id
<1>1. ModulesTyped(modules) /\ placed \in Seq(DOMAIN modules)
  BY DEF TypeInv, PipelineTypes
<1>2. RefusedContributions(modules) = "none" /\ definition = MergeDefinition(modules, placed)
  BY DEF PlanMade
<1>3. SlotsOwned(modules) /\ PluginsFit(modules)
  BY <1>2, ContributionsPass
<1>4. p.capability \notin ToSet(construction)
  <2>1. SUFFICES ASSUME p.capability \in ToSet(construction) PROVE FALSE
    OBVIOUS
  <2>2. p.capability \in CapabilityIds(definition)
    BY <2>1, ToSetOf DEF Constructs
  <2>3. PICK c \in Materialized(definition) : c.id = p.capability
    BY <2>2 DEF CapabilityIds
  <2>4. PICK s \in Declarative(modules) : s.id = p.capability
    <3>1. \A x \in Materialized(definition) : \E s \in Declarative(modules) :
             x.id = s.id /\ x.identity = s.identity /\ <<s.id, s.identity>> \in Contributions(modules, "factories")
      <4> HIDE <2>1, <2>2, <2>3
      <4> QED BY <1>1, <1>2, PlanComplete
    <3> QED BY <2>3, <3>1
  <2>5. s \in SlotsOf(modules) /\ s.ownership = "declarative"
    BY DEF Declarative
  <2>6. SlotOf(modules, p.capability) = s
    BY <1>1, <1>3, <2>4, <2>5, OneSlot DEF SlotOf
  <2>7. SlotOf(modules, p.capability).ownership = "reactive"
    BY <1>3 DEF PluginsFit
  <2> QED BY <2>5, <2>6, <2>7
<1>5. PICK m \in DOMAIN modules : \E i \in DOMAIN modules[m].plugins : p = modules[m].plugins[i]
  BY DEF Contributions, ToSet
<1>6. PICK i \in DOMAIN modules[m].plugins : p = modules[m].plugins[i]
  BY <1>5
<1>7. PICK n \in DOMAIN modules : \E j \in DOMAIN modules[n].plugins : q = modules[n].plugins[j]
  BY DEF Contributions, ToSet
<1>8. PICK j \in DOMAIN modules[n].plugins : q = modules[n].plugins[j]
  BY <1>7
<1>9. p.id = q.id => m = n /\ i = j
  BY <1>3, <1>6, <1>8 DEF PluginsFit, OneOwner
<1>10. p.capability = q.capability => m = n /\ i = j
  BY <1>3, <1>6, <1>8 DEF PluginsFit, OneOwner
<1> QED BY <1>4, <1>6, <1>8, <1>9, <1>10

\* Every state satisfies the invariant of validation.
LEMMA ValidInvariant == Spec => []ValidInv
<1>1. Init => ValidInv
  <2>1. SUFFICES ASSUME Init PROVE ValidInv
    OBVIOUS
  <2>2. input.mode \in {"load", "compose", "define"}
    BY <2>1, PlanningAssumption DEF Init
  <2>3. stage \in {"load", "register", "definition"} /\ ~planned
    BY <2>1, <2>2 DEF Init
  <2> QED BY <2>3 DEF ValidInv
<1>2. AnsweredInv /\ ValidInv /\ [Next]_vars => ValidInv'
  BY ValidKept
<1> QED BY <1>1, <1>2, Answered, PTL DEF Spec

\* For every set of modules: an accepted plan is not refused any more, but for
\* a configuration key or a failing factory, and its plugins fill slots that
\* neither the run definition nor another plugin fills.
THEOREM PlanSufficient == Spec => []PlanSuffices
<1>1. AnsweredInv /\ ValidInv => PlanSuffices
  <2>1. SUFFICES ASSUME AnsweredInv, ValidInv PROVE PlanSuffices
    OBVIOUS
  <2>2. ASSUME planned, stage = "running", NEW p \in Contributions(modules, "plugins"),
               NEW q \in Contributions(modules, "plugins")
        PROVE  /\ p.capability \notin ToSet(construction)
               /\ p # q => p.capability # q.capability /\ p.id # q.id
    <3>1. TypeInv /\ PlanMade
      BY <2>1, <2>2 DEF AnsweredInv, PlanInv, OutcomeInv
    <3>2. Constructs(construction, definition)
      BY <2>1, <2>2 DEF ValidInv
    <3> QED BY <3>1, <3>2, PluginsApart
  <2>3. planned => refusal.by \in {"none", "missing_configuration", "factory_failed"}
    BY <2>1 DEF ValidInv
  <2> QED BY <2>2, <2>3 DEF PlanSuffices
<1> QED BY <1>1, ValidInvariant, Answered, PTL

----------------------------------------------------------------------------
(* The canonical identity can be decoded *)

\* It keeps to the elements.
LEMMA CatRules ==
    ASSUME NEW W, NEW a \in Seq(W), NEW b \in Seq(W)
    PROVE  Cat(a, b) \in Seq(W) /\ Cat(<<>>, b) = b
BY ConcatProperties, ConcatEmptySeq DEF Cat

\* It is associative.
LEMMA CatAssociative ==
    ASSUME NEW W, NEW a \in Seq(W), NEW b \in Seq(W), NEW c \in Seq(W)
    PROVE  Cat(Cat(a, b), c) = Cat(a, Cat(b, c))
BY ConcatAssociative DEF Cat

\* Equal sequences that begin with parts of the same length.
LEMMA Cut ==
    ASSUME NEW W, NEW a \in Seq(W), NEW b \in Seq(W), NEW u \in Seq(W), NEW v \in Seq(W),
           Len(a) = Len(b), Cat(a, u) = Cat(b, v)
    PROVE  a = b /\ u = v
<1> DEFINE s == a \o u
           t == b \o v
<1>1. /\ s \in Seq(W) /\ Len(s) = Len(a) + Len(u)
      /\ \A i \in 1..(Len(a) + Len(u)) : s[i] = IF i <= Len(a) THEN a[i] ELSE u[i - Len(a)]
  BY ConcatProperties
<1>2. /\ t \in Seq(W) /\ Len(t) = Len(b) + Len(v)
      /\ \A i \in 1..(Len(b) + Len(v)) : t[i] = IF i <= Len(b) THEN b[i] ELSE v[i - Len(b)]
  BY ConcatProperties
<1>3. s = t
  BY DEF Cat
<1> HIDE DEF s, t
<1>4. Len(a) \in Nat /\ Len(u) \in Nat /\ Len(v) \in Nat
  OBVIOUS
<1>5. Len(u) = Len(v)
  BY <1>1, <1>2, <1>3, <1>4
<1>6. \A i \in 1..Len(a) : a[i] = b[i]
  <2>1. SUFFICES ASSUME NEW i \in 1..Len(a) PROVE a[i] = b[i]
    OBVIOUS
  <2>2. i \in 1..(Len(a) + Len(u)) /\ i <= Len(a)
    BY <1>4
  <2> QED BY <1>1, <1>2, <1>3, <1>5, <2>2
<1>7. \A i \in 1..Len(u) : u[i] = v[i]
  <2>1. SUFFICES ASSUME NEW i \in 1..Len(u) PROVE u[i] = v[i]
    OBVIOUS
  <2>2. /\ i + Len(a) \in 1..(Len(a) + Len(u)) /\ ~(i + Len(a) <= Len(a))
        /\ (i + Len(a)) - Len(a) = i
    BY <1>4
  <2>3. s[i + Len(a)] = u[i]
    BY <1>1, <2>2
  <2>4. t[i + Len(a)] = v[i]
    BY <1>2, <1>5, <2>2
  <2> QED BY <1>3, <2>3, <2>4
<1> QED BY <1>5, <1>6, <1>7, SeqEqual

\* A set of code words none of which continues another.
PrefixFree(W, C) ==
    /\ C \subseteq Seq(W)
    /\ \A a, b \in C : \A u, v \in Seq(W) : Cat(a, u) = Cat(b, v) => a = b /\ u = v

\* Two words and what follows them.
LEMMA CutWord ==
    ASSUME NEW W, NEW C, PrefixFree(W, C), NEW a \in C, NEW b \in C,
           NEW u \in Seq(W), NEW v \in Seq(W), Cat(a, u) = Cat(b, v)
    PROVE  a = b /\ u = v
BY DEF PrefixFree

\* A family of words.
Words(C, n, f) == f \in [1..n -> C]

\* Equally many words one after the other.
LEMMA CutWords ==
    ASSUME NEW W, NEW C, PrefixFree(W, C), NEW n \in Nat, NEW f, NEW g, Words(C, n, f), Words(C, n, g),
           NEW u \in Seq(W), NEW v \in Seq(W), Cat(FlattenSeq(f), u) = Cat(FlattenSeq(g), v)
    PROVE  f = g /\ u = v
<1>1. C \subseteq Seq(W)
  BY DEF PrefixFree
<1>2. /\ f \in [1..n -> C] /\ g \in [1..n -> C]
      /\ f \in [1..n -> Seq(W)] /\ g \in [1..n -> Seq(W)]
  BY <1>1 DEF Words
<1>3. CASE n = 0
  <2>1. f = <<>> /\ g = <<>> /\ FlattenSeq(f) = f /\ FlattenSeq(g) = g
    BY <1>2, <1>3 DEF FlattenSeq
  <2>2. u = v
    BY <2>1, CatRules
  <2> QED BY <2>1, <2>2
<1>4. CASE n # 0
  <2>1. PICK p \in [1..n -> Seq(W)] : Joins(n, p, f)
    BY <1>2, <1>4, FlattenOf
  <2>2. PICK q \in [1..n -> Seq(W)] : Joins(n, q, g)
    BY <1>2, <1>4, FlattenOf
  <2> DEFINE Same(m) == \A x, y \in Seq(W) :
                           Cat(p[m], x) = Cat(q[m], y) => x = y /\ \A i \in 1..m : f[i] = g[i]
             T == {m \in Nat : m + 1 <= n => Same(m + 1)}
  <2>3. 0 \in T
    <3>1. SUFFICES Same(1)
      OBVIOUS
    <3>2. f[1] \in C /\ g[1] \in C
      BY <1>2, <1>4
    <3>3. ASSUME NEW x \in Seq(W), NEW y \in Seq(W), Cat(f[1], x) = Cat(g[1], y)
          PROVE  x = y /\ f[1] = g[1]
      BY <3>2, <3>3, CutWord
    <3> QED BY <2>1, <2>2, <3>3 DEF Joins
  <2>4. ASSUME NEW m \in T PROVE m + 1 \in T
    <3>1. SUFFICES ASSUME (m + 1) + 1 <= n PROVE Same((m + 1) + 1)
      OBVIOUS
    <3>2. PICK k \in 1..(n - 1) : k = m + 1
      BY <3>1
    <3>3. Same(k) /\ k + 1 \in 1..n /\ k \in 1..n
      BY <3>2
    <3>4. /\ f[k + 1] \in C /\ g[k + 1] \in C /\ f[k + 1] \in Seq(W) /\ g[k + 1] \in Seq(W)
          /\ p[k] \in Seq(W) /\ q[k] \in Seq(W)
      BY <1>2, <3>3
    <3>5. ASSUME NEW x \in Seq(W), NEW y \in Seq(W), Cat(p[k + 1], x) = Cat(q[k + 1], y)
          PROVE  x = y /\ \A i \in 1..(k + 1) : f[i] = g[i]
      <4>1. p[k + 1] = Cat(p[k], f[k + 1]) /\ q[k + 1] = Cat(q[k], g[k + 1])
        BY <2>1, <2>2 DEF Joins
      <4>2. /\ Cat(p[k + 1], x) = Cat(p[k], Cat(f[k + 1], x))
            /\ Cat(q[k + 1], y) = Cat(q[k], Cat(g[k + 1], y))
        <5>1. Cat(Cat(p[k], f[k + 1]), x) = Cat(p[k], Cat(f[k + 1], x))
          BY <3>4, CatAssociative
        <5>2. Cat(Cat(q[k], g[k + 1]), y) = Cat(q[k], Cat(g[k + 1], y))
          BY <3>4, CatAssociative
        <5> QED BY <4>1, <5>1, <5>2
      <4>3. Cat(f[k + 1], x) \in Seq(W) /\ Cat(g[k + 1], y) \in Seq(W)
        BY <3>4, CatRules
      <4>4. Cat(f[k + 1], x) = Cat(g[k + 1], y) /\ \A i \in 1..k : f[i] = g[i]
        <5>1. PICK z \in Seq(W), w \in Seq(W) : z = Cat(f[k + 1], x) /\ w = Cat(g[k + 1], y)
          BY <4>3
        <5>2. Cat(p[k], z) = Cat(q[k], w)
          BY <3>5, <4>2, <5>1
        <5>3. z = w /\ \A i \in 1..k : f[i] = g[i]
          BY <3>3, <5>2
        <5> QED BY <5>1, <5>3
      <4>5. f[k + 1] = g[k + 1] /\ x = y
        BY <3>4, <4>4, CutWord
      <4>6. \A i \in 1..(k + 1) : i \in 1..k \/ i = k + 1
        OBVIOUS
      <4> QED BY <4>4, <4>5, <4>6
    <3>6. Same(k + 1)
      BY <3>5
    <3> HIDE DEF Same
    <3> QED BY <3>2, <3>6
  <2>5. T = Nat
    <3>1. T \in SUBSET Nat
      OBVIOUS
    <3> HIDE DEF T
    <3> QED BY <2>3, <2>4, <3>1, NatInduct
  <2>6. n - 1 \in T /\ (n - 1) + 1 = n
    <3> HIDE DEF T
    <3> QED BY <1>4, <2>5
  <2>7. Same(n)
    <3> HIDE DEF Same
    <3> QED BY <2>6
  <2>8. u = v /\ \A i \in 1..n : f[i] = g[i]
    BY <2>1, <2>2, <2>7 DEF Joins
  <2> QED BY <1>2, <2>8
<1> QED BY <1>3, <1>4

\* Concatenations are written from left to right and read from right to left.
LEMMA Regroup ==
    ASSUME NEW W, NEW a \in Seq(W), NEW b \in Seq(W), NEW c \in Seq(W), NEW u \in Seq(W)
    PROVE  /\ Cat(Cat(Cat(a, b), c), u) = Cat(a, Cat(b, Cat(c, u)))
           /\ Cat(a, Cat(b, Cat(c, u))) \in Seq(W) /\ Cat(b, Cat(c, u)) \in Seq(W)
           /\ Cat(c, u) \in Seq(W) /\ Cat(Cat(a, b), c) \in Seq(W)
<1>1. Cat(c, u) \in Seq(W) /\ Cat(a, b) \in Seq(W)
  BY CatRules
<1>2. Cat(b, Cat(c, u)) \in Seq(W) /\ Cat(Cat(a, b), c) \in Seq(W)
  BY <1>1, CatRules
<1>3. Cat(a, Cat(b, Cat(c, u))) \in Seq(W)
  BY <1>2, CatRules
<1>4. Cat(Cat(Cat(a, b), c), u) = Cat(Cat(a, b), Cat(c, u))
  BY <1>1, CatAssociative
<1>5. Cat(Cat(a, b), Cat(c, u)) = Cat(a, Cat(b, Cat(c, u)))
  BY <1>1, CatAssociative
<1> QED BY <1>1, <1>2, <1>3, <1>4, <1>5

\* What an identity is written in.
Names == {"capabilities", "tasks", "end", "capability", "task", "requires", "depends", "effect", "absent",
          "present", "idempotent", "non_idempotent"}
Token ==
    {RunDefinitionFormat} \cup {Tag(x) : x \in Names} \cup {Count(n) : n \in Nat} \cup {Value(v) : v \in Nat}

\* A token is what it was made of.
LEMMA Tokens ==
    /\ RunDefinitionFormat \in Token /\ \A x \in Names : Tag(x) \in Token
    /\ \A n \in Nat : Count(n) \in Token /\ Value(n) \in Token
    /\ \A m, n : (Count(m) = Count(n) => m = n) /\ (Value(m) = Value(n) => m = n)
    /\ \A x, y : Tag(x) = Tag(y) => x = y
<1>1. /\ \A m, n : (Count(m) = Count(n) => m = n) /\ (Value(m) = Value(n) => m = n)
      /\ \A x, y : Tag(x) = Tag(y) => x = y
  BY DEF Count, Value, Tag
<1> QED BY <1>1 DEF Token

----------------------------------------------------------------------------
(* Requirements *)

Requirement == Nat \X Nat
Pair(r) == <<Value(r[1]), Value(r[2])>>
Pairs == {Pair(r) : r \in Requirement}

\* Pairs of values are told apart.
LEMMA PairsFree ==
    /\ PrefixFree(Token, Pairs)
    /\ \A r, q \in Requirement : Pair(r) = Pair(q) => r = q
<1>1. ASSUME NEW r \in Requirement PROVE Pair(r) \in Seq(Token) /\ Len(Pair(r)) = 2
  <2>1. Value(r[1]) \in Token /\ Value(r[2]) \in Token
    BY Tokens DEF Requirement
  <2> QED BY <2>1 DEF Pair
<1>2. Pairs \subseteq Seq(Token)
  BY <1>1 DEF Pairs
<1>3. ASSUME NEW a \in Pairs, NEW b \in Pairs, NEW u \in Seq(Token), NEW v \in Seq(Token),
             Cat(a, u) = Cat(b, v)
      PROVE  a = b /\ u = v
  <2>1. a \in Seq(Token) /\ b \in Seq(Token) /\ Len(a) = 2 /\ Len(b) = 2
    BY <1>1 DEF Pairs
  <2> QED BY <1>3, <2>1, Cut
<1>4. PrefixFree(Token, Pairs)
  BY <1>2, <1>3 DEF PrefixFree
<1>5. ASSUME NEW r \in Requirement, NEW q \in Requirement, Pair(r) = Pair(q) PROVE r = q
  <2>1. Value(r[1]) = Value(q[1]) /\ Value(r[2]) = Value(q[2])
    BY <1>5 DEF Pair
  <2>2. r[1] = q[1] /\ r[2] = q[2]
    BY <2>1, Tokens
  <2> QED BY <2>2 DEF Requirement
<1> QED BY <1>4, <1>5

PairsOf(rs) == [i \in DOMAIN rs |-> Pair(rs[i])]
Listed(rs) ==
    Cat(Cat(<<Tag("requires"), Count(Len(rs))>>, FlattenSeq(PairsOf(rs))), <<Tag("end")>>)

\* Requirements are listed in the order of their slots.
LEMMA PushListed ==
    ASSUME NEW rs
    PROVE  PushRequirements(rs) = Listed(ByKey(rs, Slots(rs)))
BY DEF PushRequirements, Listed, Cat, Pair, PairsOf

\* The parts of a list.
LEMMA ListedParts ==
    ASSUME NEW rs \in Requirements
    PROVE  /\ Len(rs) \in Nat /\ PairsOf(rs) \in [1..Len(rs) -> Pairs]
           /\ <<Tag("requires"), Count(Len(rs))>> \in Seq(Token) /\ <<Tag("end")>> \in Seq(Token)
           /\ FlattenSeq(PairsOf(rs)) \in Seq(Token) /\ Listed(rs) \in Seq(Token)
<1>1. rs \in Seq(Requirement)
  BY DEF Requirements, Requirement
<1>2. Len(rs) \in Nat /\ DOMAIN rs = 1..Len(rs) /\ \A i \in 1..Len(rs) : rs[i] \in Requirement
  BY <1>1
<1>3. PairsOf(rs) \in [1..Len(rs) -> Pairs]
  BY <1>2 DEF PairsOf, Pairs
<1>4. Pairs \subseteq Seq(Token)
  BY PairsFree DEF PrefixFree
<1>5. Tag("requires") \in Token /\ Tag("end") \in Token /\ Count(Len(rs)) \in Token
  <2>1. "requires" \in Names /\ "end" \in Names
    BY DEF Names
  <2> QED BY <1>2, <2>1, Tokens
<1>6. <<Tag("requires"), Count(Len(rs))>> \in Seq(Token) /\ <<Tag("end")>> \in Seq(Token)
  BY <1>5
<1>7. FlattenSeq(PairsOf(rs)) \in Seq(Token)
  <2>1. PairsOf(rs) \in [1..Len(rs) -> Seq(Token)]
    BY <1>3, <1>4
  <2> QED BY <1>2, <2>1, FlattenIn
<1>8. Listed(rs) \in Seq(Token)
  BY <1>6, <1>7, CatRules DEF Listed
<1> QED BY <1>2, <1>3, <1>6, <1>7, <1>8

\* A list is told from another one, whatever follows.
LEMMA ListedCut ==
    ASSUME NEW a \in Requirements, NEW b \in Requirements, NEW u \in Seq(Token), NEW v \in Seq(Token),
           Cat(Listed(a), u) = Cat(Listed(b), v)
    PROVE  a = b /\ u = v
<1> DEFINE head(x) == <<Tag("requires"), Count(Len(x))>>
           flat(x) == FlattenSeq(PairsOf(x))
           end == <<Tag("end")>>
<1>1. \A x \in Requirements : /\ Len(x) \in Nat /\ PairsOf(x) \in [1..Len(x) -> Pairs]
                              /\ head(x) \in Seq(Token) /\ flat(x) \in Seq(Token) /\ end \in Seq(Token)
  BY ListedParts
<1>2. \A x : Len(head(x)) = 2 /\ head(x)[2] = Count(Len(x))
  OBVIOUS
<1>3. \A x : Listed(x) = Cat(Cat(head(x), flat(x)), end)
  BY DEF Listed
<1> HIDE DEF head, flat, end
<1>4. /\ Cat(Listed(a), u) = Cat(head(a), Cat(flat(a), Cat(end, u)))
      /\ Cat(Listed(b), v) = Cat(head(b), Cat(flat(b), Cat(end, v)))
  BY <1>1, <1>3, Regroup
<1>5. /\ Cat(end, u) \in Seq(Token) /\ Cat(flat(a), Cat(end, u)) \in Seq(Token)
      /\ Cat(end, v) \in Seq(Token) /\ Cat(flat(b), Cat(end, v)) \in Seq(Token)
  BY <1>1, CatRules
<1>6. head(a) = head(b) /\ Cat(flat(a), Cat(end, u)) = Cat(flat(b), Cat(end, v))
  <2>1. PICK h \in Seq(Token), k \in Seq(Token), x \in Seq(Token), y \in Seq(Token) :
           /\ h = head(a) /\ k = head(b)
           /\ x = Cat(flat(a), Cat(end, u)) /\ y = Cat(flat(b), Cat(end, v))
    BY <1>1, <1>5
  <2>2. Len(h) = Len(k) /\ Cat(h, x) = Cat(k, y)
    BY <1>2, <1>4, <2>1
  <2>3. h = k /\ x = y
    BY <2>2, Cut
  <2> QED BY <2>1, <2>3
<1>7. Len(a) = Len(b)
  BY <1>2, <1>6, Tokens
<1>8. PairsOf(a) = PairsOf(b) /\ Cat(end, u) = Cat(end, v)
  <2>1. PICK n \in Nat : n = Len(a) /\ n = Len(b)
    BY <1>1, <1>7
  <2>2. Words(Pairs, n, PairsOf(a)) /\ Words(Pairs, n, PairsOf(b))
    BY <1>1, <2>1 DEF Words
  <2>3. PICK x \in Seq(Token), y \in Seq(Token) : x = Cat(end, u) /\ y = Cat(end, v)
    BY <1>5
  <2>4. Cat(FlattenSeq(PairsOf(a)), x) = Cat(FlattenSeq(PairsOf(b)), y)
    BY <1>6, <2>3 DEF flat
  <2>5. PairsOf(a) = PairsOf(b) /\ x = y
    <3>1. PrefixFree(Token, Pairs)
      BY PairsFree
    <3> QED BY <2>2, <2>4, <3>1, CutWords
  <2> QED BY <2>3, <2>5
<1>9. u = v
  BY <1>1, <1>8, Cut
<1>10. a = b
  <2>1. /\ a \in Seq(Requirement) /\ b \in Seq(Requirement)
    BY DEF Requirements, Requirement
  <2>2. \A i \in 1..Len(a) : a[i] = b[i]
    <3>1. SUFFICES ASSUME NEW i \in 1..Len(a) PROVE a[i] = b[i]
      OBVIOUS
    <3>2. a[i] \in Requirement /\ b[i] \in Requirement /\ i \in DOMAIN a /\ i \in DOMAIN b
      BY <1>7, <2>1
    <3>3. PairsOf(a)[i] = Pair(a[i]) /\ PairsOf(b)[i] = Pair(b[i])
      BY <3>2 DEF PairsOf
    <3> QED BY <1>8, <3>2, <3>3, PairsFree
  <2> QED BY <1>7, <2>1, <2>2, SeqEqual
<1> QED BY <1>9, <1>10

\* Requirements without two of the same slot.
SlotKey == [r \in Requirement |-> r[1]]
OneEach == {rs \in Requirements : IsInjective(Slots(rs))}

\* They are sorted by slot.
LEMMA RequirementsSorted ==
    ASSUME NEW rs \in OneEach
    PROVE  /\ Sorted(Requirement, SlotKey, rs, ByKey(rs, Slots(rs))) /\ rs \in Seq(Requirement)
           /\ ByKey(rs, Slots(rs)) \in Requirements /\ ToSet(ByKey(rs, Slots(rs))) = ToSet(rs)
           /\ Keys(SlotKey, rs) = {r[1] : r \in ToSet(rs)}
           /\ \A r, q \in ToSet(rs) : r[1] = q[1] => r = q
<1>1. rs \in Seq(Requirement)
  BY DEF OneEach, Requirements, Requirement
<1>2. DOMAIN rs = 1..Len(rs) /\ \A i \in 1..Len(rs) : rs[i] \in Requirement
  BY <1>1
<1>3. SlotKey \in [Requirement -> Nat] /\ \A r \in Requirement : SlotKey[r] = r[1]
  BY DEF SlotKey, Requirement
<1>4. /\ DOMAIN Slots(rs) = 1..Len(rs) /\ \A i \in 1..Len(rs) : Slots(rs)[i] = rs[i][1]
  BY <1>2 DEF Slots
<1>5. \A i, j \in 1..Len(rs) : rs[i][1] = rs[j][1] => i = j
  BY <1>4 DEF OneEach, IsInjective
<1>6. Keyed(Requirement, SlotKey, rs, Slots(rs))
  <2>1. Slots(rs) \in [1..Len(rs) -> Nat]
    BY <1>2 DEF Slots, Requirement
  <2>2. \A i \in 1..Len(rs) : Slots(rs)[i] = SlotKey[rs[i]]
    BY <1>2, <1>3, <1>4
  <2> QED BY <1>1, <1>3, <1>4, <1>5, <2>1, <2>2 DEF Keyed
<1>7. Sorted(Requirement, SlotKey, rs, ByKey(rs, Slots(rs)))
  BY <1>6, SortedOf
<1>8. ByKey(rs, Slots(rs)) \in Requirements /\ ToSet(ByKey(rs, Slots(rs))) = ToSet(rs)
  BY <1>7 DEF Sorted, Requirements, Requirement
<1>9. ToSet(rs) = {rs[i] : i \in 1..Len(rs)}
  BY <1>1, ToSetOf
<1>10. Keys(SlotKey, rs) = {r[1] : r \in ToSet(rs)}
  BY <1>2, <1>3, <1>9 DEF Keys
<1>11. \A r, q \in ToSet(rs) : r[1] = q[1] => r = q
  BY <1>5, <1>9
<1> QED BY <1>1, <1>7, <1>8, <1>10, <1>11

\* The encoding of requirements is that of their set.
LEMMA RequirementsEncoded ==
    ASSUME NEW rs \in OneEach, NEW qs \in OneEach
    PROVE  /\ PushRequirements(rs) \in Seq(Token)
           /\ ToSet(rs) = ToSet(qs) => PushRequirements(rs) = PushRequirements(qs)
           /\ \A u, v \in Seq(Token) : Cat(PushRequirements(rs), u) = Cat(PushRequirements(qs), v) =>
                 ToSet(rs) = ToSet(qs) /\ PushRequirements(rs) = PushRequirements(qs) /\ u = v
<1> DEFINE A == ByKey(rs, Slots(rs))
           B == ByKey(qs, Slots(qs))
<1>1. /\ Sorted(Requirement, SlotKey, rs, A) /\ Sorted(Requirement, SlotKey, qs, B)
      /\ rs \in Seq(Requirement) /\ qs \in Seq(Requirement)
      /\ A \in Requirements /\ B \in Requirements /\ ToSet(A) = ToSet(rs) /\ ToSet(B) = ToSet(qs)
      /\ Keys(SlotKey, rs) = {r[1] : r \in ToSet(rs)} /\ Keys(SlotKey, qs) = {r[1] : r \in ToSet(qs)}
      /\ \A r, q \in ToSet(rs) : r[1] = q[1] => r = q
  BY RequirementsSorted
<1>2. PushRequirements(rs) = Listed(A) /\ PushRequirements(qs) = Listed(B)
  BY PushListed
<1> HIDE DEF A, B
<1>3. PushRequirements(rs) \in Seq(Token)
  BY <1>1, <1>2, ListedParts
<1>4. ASSUME NEW u \in Seq(Token), NEW v \in Seq(Token),
             Cat(PushRequirements(rs), u) = Cat(PushRequirements(qs), v)
      PROVE  ToSet(rs) = ToSet(qs) /\ PushRequirements(rs) = PushRequirements(qs) /\ u = v
  <2>1. A = B /\ u = v
    BY <1>1, <1>2, <1>4, ListedCut
  <2> QED BY <1>1, <1>2, <2>1
<1>5. ASSUME ToSet(rs) = ToSet(qs) PROVE PushRequirements(rs) = PushRequirements(qs)
  <2>1. Keys(SlotKey, rs) = Keys(SlotKey, qs)
    BY <1>1, <1>5
  <2>2. SlotKey \in [Requirement -> Nat] /\ \A r \in Requirement : SlotKey[r] = r[1]
    BY DEF SlotKey, Requirement
  <2>3. Len(rs) = Len(qs) /\ \A i \in 1..Len(rs) : SlotKey[A[i]] = SlotKey[B[i]]
    <3>1. /\ Sorted(Requirement, SlotKey, rs, A) /\ Sorted(Requirement, SlotKey, qs, B)
          /\ rs \in Seq(Requirement) /\ qs \in Seq(Requirement) /\ SlotKey \in [Requirement -> Nat]
      BY <1>1, <2>2
    <3> QED BY <2>1, <3>1, SortedSame
  <2>4. A \in Seq(Requirement) /\ B \in Seq(Requirement) /\ Len(A) = Len(rs) /\ Len(B) = Len(rs)
    BY <1>1, <2>3 DEF Sorted
  <2>5. \A i \in 1..Len(A) : A[i] = B[i]
    <3>1. SUFFICES ASSUME NEW i \in 1..Len(A) PROVE A[i] = B[i]
      OBVIOUS
    <3>2. A[i] \in ToSet(A) /\ B[i] \in ToSet(B) /\ A[i] \in Requirement /\ B[i] \in Requirement
      BY <2>4, ToSetOf
    <3>3. A[i][1] = B[i][1]
      BY <2>2, <2>3, <2>4, <3>2
    <3> QED BY <1>1, <1>5, <3>2, <3>3
  <2>6. A = B
    BY <2>4, <2>5, SeqEqual
  <2> QED BY <1>2, <2>6
<1> QED BY <1>3, <1>4, <1>5

----------------------------------------------------------------------------
(* Capabilities and tasks *)

\* Declarations as validation passes them, and what is written of them.
SoundCapability == {c \in CapabilityDeclarations : c.deps \in OneEach}
MeantCapability(c) == [id |-> c.id, kind |-> c.kind, identity |-> c.identity, deps |-> ToSet(c.deps)]
CapabilityHead(c) == <<Tag("capability"), Value(c.id), Value(c.kind), Value(c.identity)>>

\* The head of a capability is told from others.
LEMMA CapabilityHeads ==
    ASSUME NEW c \in SoundCapability
    PROVE  /\ CapabilityHead(c) \in Seq(Token) /\ Len(CapabilityHead(c)) = 4
           /\ \A e : CapabilityHead(c) = CapabilityHead(e) => c.id = e.id /\ c.kind = e.kind /\ c.identity = e.identity
<1>1. c.id \in Nat /\ c.kind \in Nat /\ c.identity \in Nat
  BY DEF SoundCapability, CapabilityDeclarations
<1>2. "capability" \in Names
  BY DEF Names
<1>3. Tag("capability") \in Token /\ Value(c.id) \in Token /\ Value(c.kind) \in Token /\ Value(c.identity) \in Token
  BY <1>1, <1>2, Tokens
<1>4. CapabilityHead(c) \in Seq(Token) /\ Len(CapabilityHead(c)) = 4
  BY <1>3 DEF CapabilityHead
<1>5. ASSUME NEW e, CapabilityHead(c) = CapabilityHead(e)
      PROVE  c.id = e.id /\ c.kind = e.kind /\ c.identity = e.identity
  <2>1. Value(c.id) = Value(e.id) /\ Value(c.kind) = Value(e.kind) /\ Value(c.identity) = Value(e.identity)
    BY <1>5 DEF CapabilityHead
  <2> QED BY <2>1, Tokens
<1> QED BY <1>4, <1>5

\* The encoding of a capability is that of what is meant.
LEMMA CapabilityEncoded ==
    ASSUME NEW c \in SoundCapability, NEW e \in SoundCapability
    PROVE  /\ PushCapability(c) \in Seq(Token)
           /\ MeantCapability(c) = MeantCapability(e) => PushCapability(c) = PushCapability(e)
           /\ \A u, v \in Seq(Token) : Cat(PushCapability(c), u) = Cat(PushCapability(e), v) =>
                 /\ MeantCapability(c) = MeantCapability(e) /\ PushCapability(c) = PushCapability(e)
                 /\ u = v
<1>1. c.deps \in OneEach /\ e.deps \in OneEach
  BY DEF SoundCapability
<1> DEFINE h == CapabilityHead(c)
           k == CapabilityHead(e)
           r == PushRequirements(c.deps)
           q == PushRequirements(e.deps)
<1>2. PushCapability(c) = Cat(h, r) /\ PushCapability(e) = Cat(k, q)
  BY DEF PushCapability, Cat, CapabilityHead
<1>3. /\ r \in Seq(Token) /\ q \in Seq(Token)
      /\ ToSet(c.deps) = ToSet(e.deps) => r = q
      /\ \A u, v \in Seq(Token) : Cat(r, u) = Cat(q, v) => ToSet(c.deps) = ToSet(e.deps) /\ r = q /\ u = v
  BY <1>1, RequirementsEncoded
<1>4. /\ h \in Seq(Token) /\ k \in Seq(Token) /\ Len(h) = Len(k)
      /\ h = k => c.id = e.id /\ c.kind = e.kind /\ c.identity = e.identity
  BY CapabilityHeads
<1>5. c.id = e.id /\ c.kind = e.kind /\ c.identity = e.identity => h = k
  BY DEF CapabilityHead
<1>6. MeantCapability(c) = MeantCapability(e) <=>
         c.id = e.id /\ c.kind = e.kind /\ c.identity = e.identity /\ ToSet(c.deps) = ToSet(e.deps)
  BY DEF MeantCapability
<1> HIDE DEF h, k, r, q
<1>7. PushCapability(c) \in Seq(Token)
  BY <1>2, <1>3, <1>4, CatRules
<1>8. ASSUME NEW u \in Seq(Token), NEW v \in Seq(Token), Cat(PushCapability(c), u) = Cat(PushCapability(e), v)
      PROVE  /\ MeantCapability(c) = MeantCapability(e) /\ PushCapability(c) = PushCapability(e)
             /\ u = v
  <2>1. Cat(Cat(h, r), u) = Cat(h, Cat(r, u)) /\ Cat(Cat(k, q), v) = Cat(k, Cat(q, v))
    BY <1>3, <1>4, CatAssociative
  <2>2. PICK x \in Seq(Token), y \in Seq(Token) : x = Cat(r, u) /\ y = Cat(q, v)
    BY <1>3, CatRules
  <2>3. Cat(h, x) = Cat(k, y)
    BY <1>2, <1>8, <2>1, <2>2
  <2>4. h = k /\ x = y
    BY <1>4, <2>3, Cut
  <2>5. ToSet(c.deps) = ToSet(e.deps) /\ r = q /\ u = v
    BY <1>3, <2>2, <2>4
  <2> QED BY <1>2, <1>4, <1>6, <2>4, <2>5
<1> QED BY <1>2, <1>3, <1>5, <1>6, <1>7, <1>8

SoundTask == {t \in TaskDeclarations : IsInjective(t.deps) /\ t.requires \in OneEach}
MeantTask(t) == [id |-> t.id, deps |-> ToSet(t.deps), requires |-> ToSet(t.requires), effect |-> t.effect]
TaskHead(t) == <<Tag("task"), Value(t.id), Tag("depends"), Count(Len(t.deps))>>
Valued(s) == [i \in DOMAIN s |-> Value(s[i])]
EffectText(t) ==
    IF t.effect = <<>> THEN <<Tag("absent")>>
    ELSE <<Tag("present"), Value(t.effect[1]), Tag(t.effect[2])>>

\* The dependencies of a task are sorted.
LEMMA DependenciesSorted ==
    ASSUME NEW s \in Seq(Nat), IsInjective(s)
    PROVE  /\ Sorted(Nat, [n \in Nat |-> n], s, ByKey(s, s)) /\ Keys([n \in Nat |-> n], s) = ToSet(s)
           /\ ByKey(s, s) \in Seq(Nat) /\ Len(ByKey(s, s)) = Len(s) /\ ToSet(ByKey(s, s)) = ToSet(s)
<1> DEFINE G == [n \in Nat |-> n]
<1>1. G \in [Nat -> Nat] /\ \A n \in Nat : G[n] = n
  OBVIOUS
<1>2. DOMAIN s = 1..Len(s) /\ \A i \in 1..Len(s) : s[i] \in Nat
  OBVIOUS
<1> HIDE DEF G
<1>3. Keyed(Nat, G, s, s)
  BY <1>1, <1>2 DEF Keyed, IsInjective
<1>4. Sorted(Nat, G, s, ByKey(s, s))
  BY <1>3, SortedOf
<1>5. ByKey(s, s) \in Seq(Nat) /\ Len(ByKey(s, s)) = Len(s) /\ ToSet(ByKey(s, s)) = ToSet(s)
  BY <1>4 DEF Sorted
<1>6. ToSet(s) = {s[i] : i \in 1..Len(s)}
  BY ToSetOf
<1>7. Keys(G, s) = ToSet(s)
  BY <1>1, <1>2, <1>6 DEF Keys
<1> QED BY <1>4, <1>5, <1>7 DEF G

\* Two lists of dependencies are written alike exactly when they are the same.
LEMMA DependenciesEncoded ==
    ASSUME NEW s \in Seq(Nat), IsInjective(s), NEW t \in Seq(Nat), IsInjective(t)
    PROVE  /\ Valued(ByKey(s, s)) \in Seq(Token) /\ Len(Valued(ByKey(s, s))) = Len(s)
           /\ ToSet(s) = ToSet(t) => Len(s) = Len(t) /\ Valued(ByKey(s, s)) = Valued(ByKey(t, t))
           /\ Valued(ByKey(s, s)) = Valued(ByKey(t, t)) => ToSet(s) = ToSet(t)
<1> DEFINE A == ByKey(s, s)
           B == ByKey(t, t)
           G == [n \in Nat |-> n]
<1>1. /\ Sorted(Nat, G, s, A) /\ Keys(G, s) = ToSet(s)
      /\ A \in Seq(Nat) /\ Len(A) = Len(s) /\ ToSet(A) = ToSet(s)
  BY DependenciesSorted
<1>2. /\ Sorted(Nat, G, t, B) /\ Keys(G, t) = ToSet(t)
      /\ B \in Seq(Nat) /\ Len(B) = Len(t) /\ ToSet(B) = ToSet(t)
  BY DependenciesSorted
<1>3. \A n \in Nat : G[n] = n
  OBVIOUS
<1> HIDE DEF A, B, G
<1>4. ASSUME NEW z \in Seq(Nat)
      PROVE  /\ Valued(z) \in Seq(Token) /\ Len(Valued(z)) = Len(z)
             /\ DOMAIN z = 1..Len(z) /\ \A i \in 1..Len(z) : Valued(z)[i] = Value(z[i]) /\ z[i] \in Nat
  <2>1. DOMAIN z = 1..Len(z) /\ Len(z) \in Nat /\ \A i \in 1..Len(z) : z[i] \in Nat
    OBVIOUS
  <2>2. \A i \in 1..Len(z) : Value(z[i]) \in Token
    BY <2>1, Tokens
  <2>3. Valued(z) = [i \in 1..Len(z) |-> Value(z[i])]
    BY <2>1 DEF Valued
  <2>4. Valued(z) \in [1..Len(z) -> Token]
    BY <2>2, <2>3
  <2>5. Valued(z) \in Seq(Token) /\ Len(Valued(z)) = Len(z)
    <3>a. PICK n \in Nat : n = Len(z)
      BY <2>1
    <3>1. PICK w \in [1..n -> Token] : w = Valued(z)
      BY <2>4, <3>a
    <3>2. w \in Seq(Token) /\ Len(w) = n
      OBVIOUS
    <3> QED BY <3>a, <3>1, <3>2
  <2> QED BY <2>1, <2>3, <2>5
<1>5. ASSUME ToSet(s) = ToSet(t) PROVE Len(s) = Len(t) /\ Valued(A) = Valued(B)
  <2>1. Keys(G, s) = Keys(G, t)
    BY <1>1, <1>2, <1>5
  <2>2. Len(s) = Len(t) /\ \A i \in 1..Len(s) : G[A[i]] = G[B[i]]
    BY <1>1, <1>2, <2>1, SortedSame
  <2>3. \A i \in 1..Len(A) : A[i] = B[i]
    <3>1. \A i \in 1..Len(A) : A[i] \in Nat /\ B[i] \in Nat /\ i \in 1..Len(s)
      BY <1>1, <1>2, <2>2
    <3> QED BY <1>3, <2>2, <3>1
  <2>4. A = B
    BY <1>1, <1>2, <2>2, <2>3, SeqEqual
  <2> QED BY <2>2, <2>4
<1>6. ASSUME Valued(A) = Valued(B) PROVE ToSet(s) = ToSet(t)
  <2>1. Len(A) = Len(B)
    BY <1>1, <1>2, <1>4, <1>6
  <2>2. \A i \in 1..Len(A) : Value(A[i]) = Value(B[i])
    BY <1>1, <1>2, <1>4, <1>6, <2>1
  <2>3. \A i \in 1..Len(A) : A[i] = B[i]
    BY <2>2, Tokens
  <2>4. A = B
    BY <1>1, <1>2, <2>1, <2>3, SeqEqual
  <2> QED BY <1>1, <1>2, <2>4
<1>7. Valued(A) \in Seq(Token) /\ Len(Valued(A)) = Len(s)
  BY <1>1, <1>4
<1> QED BY <1>5, <1>6, <1>7 DEF A, B

\* The text of a task's effect, and which of two it is.
LEMMA EffectEncoded ==
    ASSUME NEW t \in TaskDeclarations, NEW e \in TaskDeclarations
    PROVE  /\ EffectText(t) \in Seq(Token)
           /\ \A u, v \in Seq(Token) : Cat(EffectText(t), u) = Cat(EffectText(e), v) =>
                 t.effect = e.effect /\ u = v
<1> DEFINE Effects == Nat \X {"idempotent", "non_idempotent"}
           written(x) == <<Tag("present"), Value(x[1]), Tag(x[2])>>
<1>1. \A z \in TaskDeclarations : z.effect = <<>> \/ (z.effect \in Effects /\ z.effect # <<>>)
  BY DEF TaskDeclarations
<1>2. "absent" \in Names /\ "present" \in Names /\ "idempotent" \in Names /\ "non_idempotent" \in Names
  BY DEF Names
<1>3. <<Tag("absent")>> \in Seq(Token) /\ Len(<<Tag("absent")>>) = 1 /\ <<Tag("absent")>>[1] = Tag("absent")
  <2>1. Tag("absent") \in Token
    BY <1>2, Tokens
  <2> QED BY <2>1
<1>4. ASSUME NEW x \in Effects
      PROVE  written(x) \in Seq(Token) /\ Len(written(x)) = 3 /\ written(x)[1] = Tag("present")
  <2>1. Tag("present") \in Token /\ Value(x[1]) \in Token /\ Tag(x[2]) \in Token
    BY <1>2, Tokens
  <2> QED BY <2>1
<1>5. ASSUME NEW x \in Effects, NEW y \in Effects, written(x) = written(y) PROVE x = y
  <2>1. Value(x[1]) = Value(y[1]) /\ Tag(x[2]) = Tag(y[2])
    BY <1>5
  <2>2. x[1] = y[1] /\ x[2] = y[2]
    BY <2>1, Tokens
  <2> QED BY <2>2
<1>6. \A z : /\ z.effect = <<>> => EffectText(z) = <<Tag("absent")>>
             /\ z.effect # <<>> => EffectText(z) = written(z.effect)
  BY DEF EffectText
<1>7. Tag("absent") # Tag("present")
  BY Tokens
<1> HIDE DEF written, Effects
<1>8. \A z \in TaskDeclarations :
         /\ EffectText(z) \in Seq(Token) /\ Len(EffectText(z)) \in Nat /\ Len(EffectText(z)) >= 1
         /\ z.effect = <<>> => EffectText(z)[1] = Tag("absent") /\ Len(EffectText(z)) = 1
         /\ z.effect # <<>> => EffectText(z)[1] = Tag("present") /\ Len(EffectText(z)) = 3
  <2>1. SUFFICES ASSUME NEW z \in TaskDeclarations
        PROVE  /\ EffectText(z) \in Seq(Token) /\ Len(EffectText(z)) \in Nat /\ Len(EffectText(z)) >= 1
               /\ z.effect = <<>> => EffectText(z)[1] = Tag("absent") /\ Len(EffectText(z)) = 1
               /\ z.effect # <<>> => EffectText(z)[1] = Tag("present") /\ Len(EffectText(z)) = 3
    OBVIOUS
  <2>2. CASE z.effect = <<>>
    <3>1. EffectText(z) = <<Tag("absent")>>
      BY <1>6, <2>2
    <3> QED BY <1>3, <2>2, <3>1
  <2>3. CASE z.effect # <<>>
    <3>1. z.effect \in Effects /\ EffectText(z) = written(z.effect)
      BY <1>1, <1>6, <2>3
    <3>2. written(z.effect) \in Seq(Token) /\ Len(written(z.effect)) = 3 /\ written(z.effect)[1] = Tag("present")
      BY <1>4, <3>1
    <3> QED BY <2>3, <3>1, <3>2
  <2> QED BY <2>2, <2>3
<1>9. ASSUME NEW u \in Seq(Token), NEW v \in Seq(Token), Cat(EffectText(t), u) = Cat(EffectText(e), v)
      PROVE  t.effect = e.effect /\ u = v
  <2>1. PICK x \in Seq(Token) : x = EffectText(t)
    BY <1>8
  <2>2. PICK y \in Seq(Token) : y = EffectText(e)
    BY <1>8
  <2>3. x[1] = y[1]
    <3>1. Len(x) >= 1 /\ Len(y) >= 1 /\ x \o u = y \o v
      BY <1>8, <1>9, <2>1, <2>2 DEF Cat
    <3>2. (x \o u)[1] = x[1] /\ (y \o v)[1] = y[1]
      BY <3>1, ConcatProperties
    <3> QED BY <3>1, <3>2
  <2>4. t.effect = <<>> <=> e.effect = <<>>
    BY <1>7, <1>8, <2>1, <2>2, <2>3
  <2>5. Len(x) = Len(y)
    BY <1>8, <2>1, <2>2, <2>4
  <2>6. x = y /\ u = v
    BY <1>9, <2>1, <2>2, <2>5, Cut
  <2>7. t.effect = e.effect
    BY <1>1, <1>5, <1>6, <2>1, <2>2, <2>4, <2>6
  <2> QED BY <2>6, <2>7
<1> QED BY <1>8, <1>9

\* The parts a task is written in.
LEMMA TaskParts ==
    ASSUME NEW t \in SoundTask
    PROVE  /\ t \in TaskDeclarations /\ t.id \in Nat /\ t.deps \in Seq(Nat) /\ IsInjective(t.deps)
           /\ t.requires \in OneEach /\ Len(t.deps) \in Nat
           /\ TaskHead(t) \in Seq(Token) /\ Len(TaskHead(t)) = 4
           /\ TaskHead(t)[2] = Value(t.id) /\ TaskHead(t)[4] = Count(Len(t.deps))
           /\ <<Tag("end")>> \in Seq(Token) /\ <<Tag("effect")>> \in Seq(Token)
           /\ PushTask(t) = Cat(Cat(Cat(Cat(Cat(TaskHead(t), Valued(ByKey(t.deps, t.deps))), <<Tag("end")>>),
                                        PushRequirements(t.requires)), <<Tag("effect")>>), EffectText(t))
<1>1. /\ t \in TaskDeclarations /\ t.id \in Nat /\ t.deps \in Seq(Nat) /\ IsInjective(t.deps)
      /\ t.requires \in OneEach
  BY DEF SoundTask, TaskDeclarations
<1>2. Len(t.deps) \in Nat
  BY <1>1
<1>3. "task" \in Names /\ "depends" \in Names /\ "end" \in Names /\ "effect" \in Names
  BY DEF Names
<1>4. /\ Tag("task") \in Token /\ Tag("depends") \in Token /\ Tag("end") \in Token /\ Tag("effect") \in Token
      /\ Value(t.id) \in Token /\ Count(Len(t.deps)) \in Token
  BY <1>1, <1>2, <1>3, Tokens
<1>5. /\ TaskHead(t) \in Seq(Token) /\ Len(TaskHead(t)) = 4
      /\ TaskHead(t)[2] = Value(t.id) /\ TaskHead(t)[4] = Count(Len(t.deps))
  BY <1>4 DEF TaskHead
<1>6. <<Tag("end")>> \in Seq(Token) /\ <<Tag("effect")>> \in Seq(Token)
  BY <1>4
<1> DEFINE A == ByKey(t.deps, t.deps)
<1>7. Len(A) = Len(t.deps)
  BY <1>1, DependenciesSorted
<1>8. PushTask(t) = (((((<<Tag("task"), Value(t.id), Tag("depends"), Count(Len(A))>> \o Valued(A)) \o <<Tag("end")>>)
                       \o PushRequirements(t.requires)) \o <<Tag("effect")>>) \o EffectText(t))
  BY Zenon DEF PushTask, Valued, EffectText
<1> HIDE DEF A
<1>9. PushTask(t) = (((((TaskHead(t) \o Valued(A)) \o <<Tag("end")>>)
                       \o PushRequirements(t.requires)) \o <<Tag("effect")>>) \o EffectText(t))
  BY <1>7, <1>8, Zenon DEF TaskHead
<1>10. PushTask(t) = Cat(Cat(Cat(Cat(Cat(TaskHead(t), Valued(A)), <<Tag("end")>>),
                                 PushRequirements(t.requires)), <<Tag("effect")>>), EffectText(t))
  BY <1>9, Zenon DEF Cat
<1> QED BY <1>1, <1>2, <1>5, <1>6, <1>10 DEF A

\* Six parts and what follows them.
Parts(W, a, b, c, d, e, f, u) ==
    /\ a \in Seq(W) /\ b \in Seq(W) /\ c \in Seq(W) /\ d \in Seq(W)
    /\ e \in Seq(W) /\ f \in Seq(W) /\ u \in Seq(W)

\* They are read one after the other.
LEMMA RegroupSix ==
    ASSUME NEW W, NEW a, NEW b, NEW c, NEW d, NEW e, NEW f, NEW u, Parts(W, a, b, c, d, e, f, u)
    PROVE  /\ Cat(Cat(Cat(Cat(Cat(a, b), c), d), e), f) \in Seq(W)
           /\ Cat(Cat(Cat(Cat(Cat(Cat(a, b), c), d), e), f), u)
                 = Cat(a, Cat(b, Cat(c, Cat(d, Cat(e, Cat(f, u))))))
<1> DEFINE z == Cat(Cat(a, b), c)
<1>a. /\ a \in Seq(W) /\ b \in Seq(W) /\ c \in Seq(W) /\ d \in Seq(W)
      /\ e \in Seq(W) /\ f \in Seq(W) /\ u \in Seq(W)
  BY DEF Parts
<1>1. z \in Seq(W)
  BY <1>a, CatRules
<1>2. PICK w \in Seq(W) : w = Cat(d, Cat(e, Cat(f, u)))
  BY <1>a, CatRules
<1>3. Cat(z, w) = Cat(a, Cat(b, Cat(c, w)))
  BY <1>a, Regroup
<1> HIDE DEF z
<1>4. PICK y \in Seq(W) : y = Cat(z, d)
  BY <1>a, <1>1, CatRules
<1>5. Cat(Cat(Cat(y, e), f), u) = Cat(y, Cat(e, Cat(f, u))) /\ Cat(Cat(y, e), f) \in Seq(W)
  <2>1. Cat(y, e) \in Seq(W) /\ Cat(f, u) \in Seq(W)
    BY <1>a, CatRules
  <2>2. Cat(Cat(y, e), f) \in Seq(W)
    BY <1>a, <2>1, CatRules
  <2>3. Cat(Cat(Cat(y, e), f), u) = Cat(Cat(y, e), Cat(f, u))
    BY <1>a, <2>1, CatAssociative
  <2>4. Cat(Cat(y, e), Cat(f, u)) = Cat(y, Cat(e, Cat(f, u)))
    BY <1>a, <2>1, CatAssociative
  <2> QED BY <2>2, <2>3, <2>4
<1>6. Cat(Cat(z, d), Cat(e, Cat(f, u))) = Cat(z, w)
  <2>1. Cat(e, Cat(f, u)) \in Seq(W)
    BY <1>a, CatRules
  <2> QED BY <1>a, <1>1, <1>2, <2>1, CatAssociative
<1>7. /\ Cat(Cat(Cat(z, d), e), f) \in Seq(W)
      /\ Cat(Cat(Cat(Cat(z, d), e), f), u) = Cat(a, Cat(b, Cat(c, w)))
  BY <1>3, <1>4, <1>5, <1>6
<1> QED BY <1>2, <1>7 DEF z

\* The encoding of a task is that of what is meant.
LEMMA TaskEncoded ==
    ASSUME NEW t \in SoundTask, NEW e \in SoundTask
    PROVE  /\ PushTask(t) \in Seq(Token)
           /\ MeantTask(t) = MeantTask(e) => PushTask(t) = PushTask(e)
           /\ \A u, v \in Seq(Token) : Cat(PushTask(t), u) = Cat(PushTask(e), v) =>
                 MeantTask(t) = MeantTask(e) /\ PushTask(t) = PushTask(e) /\ u = v
<1> DEFINE a(x) == TaskHead(x)
           b(x) == Valued(ByKey(x.deps, x.deps))
           c == <<Tag("end")>>
           d(x) == PushRequirements(x.requires)
           f == <<Tag("effect")>>
           g(x) == EffectText(x)
<1>1. /\ t \in TaskDeclarations /\ t.deps \in Seq(Nat) /\ IsInjective(t.deps) /\ t.requires \in OneEach
      /\ a(t) \in Seq(Token) /\ Len(a(t)) = 4 /\ a(t)[2] = Value(t.id) /\ a(t)[4] = Count(Len(t.deps))
      /\ c \in Seq(Token) /\ f \in Seq(Token)
      /\ PushTask(t) = Cat(Cat(Cat(Cat(Cat(a(t), b(t)), c), d(t)), f), g(t))
  BY TaskParts
<1>2. /\ e \in TaskDeclarations /\ e.deps \in Seq(Nat) /\ IsInjective(e.deps) /\ e.requires \in OneEach
      /\ a(e) \in Seq(Token) /\ Len(a(e)) = 4 /\ a(e)[2] = Value(e.id) /\ a(e)[4] = Count(Len(e.deps))
      /\ PushTask(e) = Cat(Cat(Cat(Cat(Cat(a(e), b(e)), c), d(e)), f), g(e))
  BY TaskParts
<1>3. /\ b(t) \in Seq(Token) /\ Len(b(t)) = Len(t.deps)
      /\ ToSet(t.deps) = ToSet(e.deps) => Len(t.deps) = Len(e.deps) /\ b(t) = b(e)
      /\ b(t) = b(e) => ToSet(t.deps) = ToSet(e.deps)
  BY <1>1, <1>2, DependenciesEncoded
<1>4. b(e) \in Seq(Token) /\ Len(b(e)) = Len(e.deps)
  BY <1>2, DependenciesEncoded
<1>5. /\ d(t) \in Seq(Token) /\ d(e) \in Seq(Token)
      /\ ToSet(t.requires) = ToSet(e.requires) => d(t) = d(e)
      /\ \A u, v \in Seq(Token) : Cat(d(t), u) = Cat(d(e), v) =>
            ToSet(t.requires) = ToSet(e.requires) /\ d(t) = d(e) /\ u = v
  BY <1>1, <1>2, RequirementsEncoded
<1>6. /\ g(t) \in Seq(Token) /\ g(e) \in Seq(Token)
      /\ \A u, v \in Seq(Token) : Cat(g(t), u) = Cat(g(e), v) => t.effect = e.effect /\ u = v
  BY <1>1, <1>2, EffectEncoded
<1>7. t.effect = e.effect => g(t) = g(e)
  BY DEF EffectText
<1>8. t.id = e.id /\ Len(t.deps) = Len(e.deps) => a(t) = a(e)
  BY DEF TaskHead
<1>9. MeantTask(t) = MeantTask(e) <=>
         /\ t.id = e.id /\ ToSet(t.deps) = ToSet(e.deps) /\ ToSet(t.requires) = ToSet(e.requires)
         /\ t.effect = e.effect
  BY DEF MeantTask
<1> HIDE DEF a, b, c, d, f, g
<1>10. PushTask(t) \in Seq(Token)
  <2>1. Parts(Token, a(t), b(t), c, d(t), f, g(t), c)
    BY <1>1, <1>3, <1>5, <1>6 DEF Parts
  <2> QED BY <1>1, <2>1, RegroupSix
<1>11. MeantTask(t) = MeantTask(e) => PushTask(t) = PushTask(e)
  BY <1>1, <1>2, <1>3, <1>5, <1>7, <1>8, <1>9
<1>12. ASSUME NEW u \in Seq(Token), NEW v \in Seq(Token), Cat(PushTask(t), u) = Cat(PushTask(e), v)
       PROVE  MeantTask(t) = MeantTask(e) /\ PushTask(t) = PushTask(e) /\ u = v
  <2>1. PICK x1 \in Seq(Token), y1 \in Seq(Token) : x1 = Cat(g(t), u) /\ y1 = Cat(g(e), v)
    BY <1>6, CatRules
  <2>2. PICK x2 \in Seq(Token), y2 \in Seq(Token) : x2 = Cat(f, x1) /\ y2 = Cat(f, y1)
    BY <1>1, CatRules
  <2>3. PICK x3 \in Seq(Token), y3 \in Seq(Token) : x3 = Cat(d(t), x2) /\ y3 = Cat(d(e), y2)
    BY <1>5, CatRules
  <2>4. PICK x4 \in Seq(Token), y4 \in Seq(Token) : x4 = Cat(c, x3) /\ y4 = Cat(c, y3)
    BY <1>1, CatRules
  <2>5. PICK x5 \in Seq(Token), y5 \in Seq(Token) : x5 = Cat(b(t), x4) /\ y5 = Cat(b(e), y4)
    BY <1>3, <1>4, CatRules
  <2>6. Cat(PushTask(t), u) = Cat(a(t), x5)
    <3>1. Parts(Token, a(t), b(t), c, d(t), f, g(t), u)
      BY <1>1, <1>3, <1>5, <1>6 DEF Parts
    <3>2. Cat(Cat(Cat(Cat(Cat(Cat(a(t), b(t)), c), d(t)), f), g(t)), u)
             = Cat(a(t), Cat(b(t), Cat(c, Cat(d(t), Cat(f, Cat(g(t), u))))))
      BY <3>1, RegroupSix
    <3> QED BY <1>1, <1>2, <2>1, <2>2, <2>3, <2>4, <2>5, <3>2
  <2>7. Cat(PushTask(e), v) = Cat(a(e), y5)
    <3>1. Parts(Token, a(e), b(e), c, d(e), f, g(e), v)
      BY <1>1, <1>2, <1>4, <1>5, <1>6 DEF Parts
    <3>2. Cat(Cat(Cat(Cat(Cat(Cat(a(e), b(e)), c), d(e)), f), g(e)), v)
             = Cat(a(e), Cat(b(e), Cat(c, Cat(d(e), Cat(f, Cat(g(e), v))))))
      BY <3>1, RegroupSix
    <3> QED BY <1>1, <1>2, <2>1, <2>2, <2>3, <2>4, <2>5, <3>2
  <2>8. a(t) = a(e) /\ x5 = y5
    <3>1. /\ a(t) \in Seq(Token) /\ a(e) \in Seq(Token) /\ Len(a(t)) = Len(a(e))
          /\ Cat(a(t), x5) = Cat(a(e), y5)
      BY <1>1, <1>2, <1>12, <2>6, <2>7
    <3> QED BY <3>1, Cut
  <2>9. t.id = e.id /\ Len(t.deps) = Len(e.deps)
    BY <1>1, <1>2, <2>8, Tokens
  <2>10. b(t) = b(e) /\ x4 = y4
    BY <1>3, <1>4, <2>5, <2>8, <2>9, Cut
  <2>11. x3 = y3
    <3>1. c \in Seq(Token) /\ Cat(c, x3) = Cat(c, y3)
      BY <1>1, <2>4, <2>10
    <3> QED BY <3>1, Cut
  <2>12. ToSet(t.requires) = ToSet(e.requires) /\ x2 = y2
    BY <1>5, <2>3, <2>11
  <2>13. x1 = y1
    <3>1. f \in Seq(Token) /\ Cat(f, x1) = Cat(f, y1)
      BY <1>1, <2>2, <2>12
    <3> QED BY <3>1, Cut
  <2>14. t.effect = e.effect /\ u = v
    BY <1>6, <2>1, <2>13
  <2>15. MeantTask(t) = MeantTask(e)
    BY <1>3, <1>9, <2>9, <2>10, <2>12, <2>14
  <2> QED BY <1>11, <2>14, <2>15
<1> QED BY <1>10, <1>11, <1>12

----------------------------------------------------------------------------
(* The whole identity *)

CapabilityWords == {PushCapability(c) : c \in SoundCapability}
TaskWords == {PushTask(t) : t \in SoundTask}

\* Capabilities, and tasks, are told apart one after the other.
LEMMA WordsFree ==
    PrefixFree(Token, CapabilityWords) /\ PrefixFree(Token, TaskWords)
<1>1. CapabilityWords \subseteq Seq(Token) /\ TaskWords \subseteq Seq(Token)
  BY CapabilityEncoded, TaskEncoded DEF CapabilityWords, TaskWords
<1>2. ASSUME NEW x \in CapabilityWords, NEW y \in CapabilityWords, NEW u \in Seq(Token), NEW v \in Seq(Token),
             Cat(x, u) = Cat(y, v)
      PROVE  x = y /\ u = v
  <2>1. PICK c \in SoundCapability : x = PushCapability(c)
    BY DEF CapabilityWords
  <2>2. PICK e \in SoundCapability : y = PushCapability(e)
    BY DEF CapabilityWords
  <2> QED BY <1>2, <2>1, <2>2, CapabilityEncoded
<1>3. ASSUME NEW x \in TaskWords, NEW y \in TaskWords, NEW u \in Seq(Token), NEW v \in Seq(Token),
             Cat(x, u) = Cat(y, v)
      PROVE  x = y /\ u = v
  <2>1. PICK t \in SoundTask : x = PushTask(t)
    BY DEF TaskWords
  <2>2. PICK e \in SoundTask : y = PushTask(e)
    BY DEF TaskWords
  <2> QED BY <1>3, <2>1, <2>2, TaskEncoded
<1> QED BY <1>1, <1>2, <1>3 DEF PrefixFree

CapabilityTexts(s) == [i \in DOMAIN s |-> PushCapability(s[i])]
TaskTexts(s) == [i \in DOMAIN s |-> PushTask(s[i])]
FirstHead(cs) == <<RunDefinitionFormat, Tag("capabilities"), Count(Len(cs))>>
SecondHead(ts) == <<Tag("end"), Tag("tasks"), Count(Len(ts))>>
Written(cs, ts) ==
    Cat(Cat(Cat(Cat(FirstHead(cs), FlattenSeq(CapabilityTexts(cs))), SecondHead(ts)),
            FlattenSeq(TaskTexts(ts))), <<Tag("end")>>)

\* The parts of an identity.
LEMMA WrittenParts ==
    ASSUME NEW cs \in Seq(SoundCapability), NEW ts \in Seq(SoundTask)
    PROVE  /\ Len(cs) \in Nat /\ Len(ts) \in Nat
           /\ Words(CapabilityWords, Len(cs), CapabilityTexts(cs)) /\ Words(TaskWords, Len(ts), TaskTexts(ts))
           /\ FirstHead(cs) \in Seq(Token) /\ SecondHead(ts) \in Seq(Token) /\ <<Tag("end")>> \in Seq(Token)
           /\ Len(FirstHead(cs)) = 3 /\ FirstHead(cs)[3] = Count(Len(cs)) /\ FirstHead(cs)[1] = RunDefinitionFormat
           /\ Len(SecondHead(ts)) = 3 /\ SecondHead(ts)[3] = Count(Len(ts))
           /\ FlattenSeq(CapabilityTexts(cs)) \in Seq(Token) /\ FlattenSeq(TaskTexts(ts)) \in Seq(Token)
<1>1. /\ Len(cs) \in Nat /\ DOMAIN cs = 1..Len(cs) /\ \A i \in 1..Len(cs) : cs[i] \in SoundCapability
      /\ Len(ts) \in Nat /\ DOMAIN ts = 1..Len(ts) /\ \A i \in 1..Len(ts) : ts[i] \in SoundTask
  OBVIOUS
<1>2. /\ CapabilityTexts(cs) \in [1..Len(cs) -> CapabilityWords]
      /\ TaskTexts(ts) \in [1..Len(ts) -> TaskWords]
  BY <1>1 DEF CapabilityTexts, TaskTexts, CapabilityWords, TaskWords
<1>3. CapabilityWords \subseteq Seq(Token) /\ TaskWords \subseteq Seq(Token)
  BY WordsFree DEF PrefixFree
<1>4. /\ CapabilityTexts(cs) \in [1..Len(cs) -> Seq(Token)]
      /\ TaskTexts(ts) \in [1..Len(ts) -> Seq(Token)]
  BY <1>2, <1>3
<1>5. FlattenSeq(CapabilityTexts(cs)) \in Seq(Token) /\ FlattenSeq(TaskTexts(ts)) \in Seq(Token)
  BY <1>1, <1>4, FlattenIn
<1>6. "capabilities" \in Names /\ "tasks" \in Names /\ "end" \in Names
  BY DEF Names
<1>7. /\ RunDefinitionFormat \in Token /\ Tag("capabilities") \in Token /\ Tag("tasks") \in Token
      /\ Tag("end") \in Token /\ Count(Len(cs)) \in Token /\ Count(Len(ts)) \in Token
  BY <1>1, <1>6, Tokens
<1>8. /\ FirstHead(cs) \in Seq(Token) /\ <<Tag("end")>> \in Seq(Token)
      /\ Len(FirstHead(cs)) = 3 /\ FirstHead(cs)[3] = Count(Len(cs)) /\ FirstHead(cs)[1] = RunDefinitionFormat
  BY <1>7 DEF FirstHead
<1>9. SecondHead(ts) \in Seq(Token) /\ Len(SecondHead(ts)) = 3 /\ SecondHead(ts)[3] = Count(Len(ts))
  BY <1>7 DEF SecondHead
<1> QED BY <1>1, <1>2, <1>5, <1>8, <1>9 DEF Words

\* Equal identities are written of the same words.
LEMMA WrittenCut ==
    ASSUME NEW cs \in Seq(SoundCapability), NEW ts \in Seq(SoundTask),
           NEW es \in Seq(SoundCapability), NEW us \in Seq(SoundTask), Written(cs, ts) = Written(es, us)
    PROVE  CapabilityTexts(cs) = CapabilityTexts(es) /\ TaskTexts(ts) = TaskTexts(us)
<1> DEFINE end == <<Tag("end")>>
           p(x) == FlattenSeq(CapabilityTexts(x))
           q(x) == FlattenSeq(TaskTexts(x))
           h(x) == FirstHead(x)
           k(x) == SecondHead(x)
<1>1. /\ Len(cs) \in Nat /\ Len(ts) \in Nat
      /\ Words(CapabilityWords, Len(cs), CapabilityTexts(cs)) /\ Words(TaskWords, Len(ts), TaskTexts(ts))
      /\ h(cs) \in Seq(Token) /\ k(ts) \in Seq(Token) /\ end \in Seq(Token)
      /\ Len(h(cs)) = 3 /\ h(cs)[3] = Count(Len(cs)) /\ Len(k(ts)) = 3 /\ k(ts)[3] = Count(Len(ts))
      /\ p(cs) \in Seq(Token) /\ q(ts) \in Seq(Token)
  BY WrittenParts
<1>2. /\ Len(es) \in Nat /\ Len(us) \in Nat
      /\ Words(CapabilityWords, Len(es), CapabilityTexts(es)) /\ Words(TaskWords, Len(us), TaskTexts(us))
      /\ h(es) \in Seq(Token) /\ k(us) \in Seq(Token) /\ end \in Seq(Token)
      /\ Len(h(es)) = 3 /\ h(es)[3] = Count(Len(es)) /\ Len(k(us)) = 3 /\ k(us)[3] = Count(Len(us))
      /\ p(es) \in Seq(Token) /\ q(us) \in Seq(Token)
  BY WrittenParts
<1>3. /\ Written(cs, ts) = Cat(Cat(Cat(Cat(h(cs), p(cs)), k(ts)), q(ts)), end)
      /\ Written(es, us) = Cat(Cat(Cat(Cat(h(es), p(es)), k(us)), q(us)), end)
  BY DEF Written
<1> HIDE DEF end, p, q, h, k
<1>4. ASSUME NEW a \in Seq(Token), NEW b \in Seq(Token), NEW c \in Seq(Token), NEW d \in Seq(Token)
      PROVE  /\ Cat(Cat(Cat(Cat(a, b), c), d), end) = Cat(a, Cat(b, Cat(c, Cat(d, end))))
             /\ Cat(d, end) \in Seq(Token) /\ Cat(c, Cat(d, end)) \in Seq(Token)
             /\ Cat(b, Cat(c, Cat(d, end))) \in Seq(Token)
  <2>1. PICK w \in Seq(Token) : w = Cat(d, end)
    BY <1>1, CatRules
  <2>2. PICK z \in Seq(Token) : z = Cat(Cat(a, b), c)
    BY CatRules
  <2>3. Cat(Cat(z, d), end) = Cat(z, w)
    BY <1>1, <2>1, CatAssociative
  <2>4. Cat(z, w) = Cat(a, Cat(b, Cat(c, w))) /\ Cat(c, w) \in Seq(Token) /\ Cat(b, Cat(c, w)) \in Seq(Token)
    BY <2>2, Regroup
  <2> QED BY <2>1, <2>2, <2>3, <2>4
<1>5. PICK x1 \in Seq(Token), y1 \in Seq(Token) : x1 = Cat(q(ts), end) /\ y1 = Cat(q(us), end)
  BY <1>1, <1>2, CatRules
<1>6. PICK x2 \in Seq(Token), y2 \in Seq(Token) : x2 = Cat(k(ts), x1) /\ y2 = Cat(k(us), y1)
  BY <1>1, <1>2, CatRules
<1>7. PICK x3 \in Seq(Token), y3 \in Seq(Token) : x3 = Cat(p(cs), x2) /\ y3 = Cat(p(es), y2)
  BY <1>1, <1>2, CatRules
<1>8. Cat(h(cs), x3) = Cat(h(es), y3)
  <2>1. Written(cs, ts) = Cat(h(cs), x3)
    <3>1. Cat(Cat(Cat(Cat(h(cs), p(cs)), k(ts)), q(ts)), end) = Cat(h(cs), Cat(p(cs), Cat(k(ts), Cat(q(ts), end))))
      BY <1>1, <1>4
    <3> QED BY <1>3, <1>5, <1>6, <1>7, <3>1
  <2>2. Written(es, us) = Cat(h(es), y3)
    <3>1. Cat(Cat(Cat(Cat(h(es), p(es)), k(us)), q(us)), end) = Cat(h(es), Cat(p(es), Cat(k(us), Cat(q(us), end))))
      BY <1>2, <1>4
    <3> QED BY <1>3, <1>5, <1>6, <1>7, <3>1
  <2> QED BY <2>1, <2>2
<1>9. h(cs) = h(es) /\ x3 = y3
  <2>1. h(cs) \in Seq(Token) /\ h(es) \in Seq(Token) /\ Len(h(cs)) = Len(h(es))
    BY <1>1, <1>2
  <2> QED BY <1>8, <2>1, Cut
<1>10. Len(cs) = Len(es)
  BY <1>1, <1>2, <1>9, Tokens
<1>11. CapabilityTexts(cs) = CapabilityTexts(es) /\ x2 = y2
  <2>1. PICK n \in Nat : n = Len(cs) /\ n = Len(es)
    BY <1>1, <1>10
  <2>2. Words(CapabilityWords, n, CapabilityTexts(cs)) /\ Words(CapabilityWords, n, CapabilityTexts(es))
    BY <1>1, <1>2, <2>1
  <2>3. Cat(FlattenSeq(CapabilityTexts(cs)), x2) = Cat(FlattenSeq(CapabilityTexts(es)), y2)
    BY <1>7, <1>9 DEF p
  <2>4. PrefixFree(Token, CapabilityWords)
    BY WordsFree
  <2> QED BY <2>2, <2>3, <2>4, CutWords
<1>12. k(ts) = k(us) /\ x1 = y1
  <2>1. /\ k(ts) \in Seq(Token) /\ k(us) \in Seq(Token) /\ Len(k(ts)) = Len(k(us))
        /\ Cat(k(ts), x1) = Cat(k(us), y1)
    BY <1>1, <1>2, <1>6, <1>11
  <2> QED BY <2>1, Cut
<1>13. Len(ts) = Len(us)
  BY <1>1, <1>2, <1>12, Tokens
<1>14. TaskTexts(ts) = TaskTexts(us)
  <2>1. PICK n \in Nat : n = Len(ts) /\ n = Len(us)
    BY <1>1, <1>13
  <2>2. Words(TaskWords, n, TaskTexts(ts)) /\ Words(TaskWords, n, TaskTexts(us))
    BY <1>1, <1>2, <2>1
  <2>3. Cat(FlattenSeq(TaskTexts(ts)), end) = Cat(FlattenSeq(TaskTexts(us)), end)
    BY <1>5, <1>12 DEF q
  <2>4. PrefixFree(Token, TaskWords)
    BY WordsFree
  <2> QED BY <1>1, <2>2, <2>3, <2>4, CutWords
<1> QED BY <1>11, <1>14

\* A definition that validation passes is written of sound declarations.
ListedCapabilities(d) == InOrder(SetToSeq(Materialized(d)))
ListedTasks(d) == InOrder(d.tasks)

\* What validation has checked.
LEMMA DefinitionPasses ==
    ASSUME NEW d, RefusedDefinition(d) = "none"
    PROVE  /\ UniqueIds(d.tasks) /\ UniqueIds(d.capabilities) /\ ValidTasks(d.tasks)
           /\ IdentitiesAgree(d) /\ ValidCapabilities(Materialized(d))
<1>1. PICK a1, a2, a3, a4, a5, a6 \in BOOLEAN :
          /\ a1 = UniqueIds(d.tasks) /\ a2 = UniqueIds(d.capabilities) /\ a3 = ValidTasks(d.tasks)
          /\ a4 = ValidCapabilities(ToSet(d.capabilities)) /\ a5 = IdentitiesAgree(d)
          /\ a6 = ValidCapabilities(Materialized(d))
  BY DEF UniqueIds, IsInjective, ValidTasks, ValidCapabilities, IdentitiesAgree
<1> DEFINE cs == << <<"unique_tasks", a1>>, <<"unique_capabilities", a2>>, <<"tasks", a3>>,
                    <<"capabilities", a4>>, <<"identities", a5>>, <<"materialized", a6>> >>
<1>2. RefusedDefinition(d) = FirstRefusal(cs)
  BY <1>1 DEF RefusedDefinition
<1>3. Checks(cs, 6)
  <2>1. \A i \in 1..6 : cs[i][1] # "none"
    OBVIOUS
  <2>2. \A i \in 1..6 : cs[i][2] \in BOOLEAN
    OBVIOUS
  <2> QED BY <2>1, <2>2 DEF Checks
<1>4. cs[1][2] = a1 /\ cs[2][2] = a2 /\ cs[3][2] = a3 /\ cs[5][2] = a5 /\ cs[6][2] = a6
  OBVIOUS
<1> HIDE DEF cs
<1>5. \A i \in 1..6 : cs[i][2] = TRUE
  BY <1>2, <1>3, RefusalOf
<1>6. a1 = TRUE /\ a2 = TRUE /\ a3 = TRUE /\ a5 = TRUE /\ a6 = TRUE
  BY <1>4, <1>5
<1> QED BY <1>1, <1>6

----------------------------------------------------------------------------
(* Meaning *)

\* The keys of a sequence by its elements.
LEMMA KeysOf ==
    ASSUME NEW W, NEW s \in Seq(W), NEW G
    PROVE  Keys(G, s) = {G[x] : x \in ToSet(s)}
<1>1. ToSet(s) = {s[i] : i \in 1..Len(s)}
  BY ToSetOf
<1> QED BY <1>1 DEF Keys

\* No two members have the same key, and the meaning tells the key.
OneKey(G, S) == \A x, y \in S : G[x] = G[y] => x = y
Meanings(M, S) == {M[x] : x \in S}
Alike(M, A, B) == Len(A) = Len(B) /\ \A i \in 1..Len(A) : M[A[i]] = M[B[i]]
Tells(W, M, G) == \A x, y \in W : M[x] = M[y] => G[x] = G[y]

\* Two sorted lists agree in what is meant, place by place, exactly when the
\* sets they list do.
LEMMA ListedAlike ==
    ASSUME NEW W, NEW G, NEW M, NEW s, NEW t, NEW A, NEW B, Sorted(W, G, s, A), Sorted(W, G, t, B),
           Tells(W, M, G), OneKey(G, ToSet(s)), OneKey(G, ToSet(t))
    PROVE  Meanings(M, ToSet(s)) = Meanings(M, ToSet(t)) <=> Alike(M, A, B)
<1>1. /\ A \in Seq(W) /\ Len(A) = Len(s) /\ ToSet(A) = ToSet(s) /\ s \in Seq(W)
      /\ B \in Seq(W) /\ Len(B) = Len(t) /\ ToSet(B) = ToSet(t) /\ t \in Seq(W)
  BY DEF Sorted
<1>2. /\ ToSet(s) = {A[i] : i \in 1..Len(A)} /\ ToSet(t) = {B[i] : i \in 1..Len(B)}
      /\ ToSet(s) \subseteq W /\ ToSet(t) \subseteq W
      /\ ToSet(s) = {s[i] : i \in 1..Len(s)} /\ ToSet(t) = {t[i] : i \in 1..Len(t)}
  BY <1>1, ToSetOf
<1>3. ASSUME Len(A) = Len(B), \A i \in 1..Len(A) : M[A[i]] = M[B[i]]
      PROVE  {M[x] : x \in ToSet(s)} = {M[x] : x \in ToSet(t)}
  <2>1. \A x \in ToSet(s) : \E y \in ToSet(t) : M[x] = M[y]
    BY <1>2, <1>3
  <2>2. \A y \in ToSet(t) : \E x \in ToSet(s) : M[x] = M[y]
    BY <1>2, <1>3
  <2> QED BY <2>1, <2>2
<1>4. ASSUME {M[x] : x \in ToSet(s)} = {M[x] : x \in ToSet(t)}
      PROVE  Len(A) = Len(B) /\ \A i \in 1..Len(A) : M[A[i]] = M[B[i]]
  <2>1. \A x \in ToSet(s) : \E y \in ToSet(t) : M[x] = M[y]
    BY <1>4
  <2>2. \A y \in ToSet(t) : \E x \in ToSet(s) : M[x] = M[y]
    BY <1>4
  <2>3. Keys(G, s) = Keys(G, t)
    <3>1. Keys(G, s) = {G[x] : x \in ToSet(s)} /\ Keys(G, t) = {G[x] : x \in ToSet(t)}
      BY <1>1, KeysOf
    <3>2. \A x \in ToSet(s) : \E y \in ToSet(t) : G[x] = G[y]
      BY <1>2, <2>1 DEF Tells
    <3>3. \A y \in ToSet(t) : \E x \in ToSet(s) : G[x] = G[y]
      BY <1>2, <2>2 DEF Tells
    <3> QED BY <3>1, <3>2, <3>3
  <2>4. Len(s) = Len(t) /\ \A i \in 1..Len(s) : G[A[i]] = G[B[i]]
    BY <2>3, SortedSame
  <2>5. ASSUME NEW i \in 1..Len(A) PROVE M[A[i]] = M[B[i]]
    <3>1. PICK x \in ToSet(s), y \in ToSet(t) : x = A[i] /\ y = B[i]
      BY <1>1, <1>2, <2>4
    <3>2. PICK z \in ToSet(t) : M[x] = M[z]
      BY <2>1
    <3>3. G[x] = G[y] /\ G[x] = G[z]
      BY <1>1, <1>2, <2>4, <3>1, <3>2 DEF Tells
    <3>4. y = z
      BY <3>3 DEF OneKey
    <3> QED BY <3>1, <3>2, <3>4
  <2> QED BY <1>1, <2>4, <2>5
<1> QED BY <1>3, <1>4 DEF Meanings, Alike

\* The declarations of a valid definition are finitely many, sound and have
\* different identifiers.
LEMMA MaterializedSound ==
    ASSUME NEW d \in RunDefinitions, RefusedDefinition(d) = "none"
    PROVE  /\ IsFiniteSet(Materialized(d)) /\ Materialized(d) \subseteq SoundCapability
           /\ \A c, e \in Materialized(d) : c.id = e.id => c = e
<1>1. /\ UniqueIds(d.capabilities) /\ IdentitiesAgree(d) /\ ValidCapabilities(Materialized(d))
  BY DefinitionPasses
<1>2. d.tasks \in Seq(TaskDeclarations) /\ d.capabilities \in Seq(CapabilityDeclarations)
  BY DEF RunDefinitions
<1>3. Materialized(d) \subseteq SoundCapability
  <2>1. Materialized(d) \subseteq CapabilityDeclarations
    BY DefinitionGraphs
  <2>2. ASSUME NEW c \in Materialized(d) PROVE c.deps \in OneEach
    <3>1. c.deps \in Requirements
      BY <2>1 DEF CapabilityDeclarations
    <3>2. IsInjective(Slots(c.deps))
      BY <1>1 DEF ValidCapabilities, ValidRequirements
    <3> QED BY <3>1, <3>2 DEF OneEach
  <2> QED BY <2>1, <2>2 DEF SoundCapability
<1>4. ASSUME NEW c \in ToSet(d.capabilities), NEW e \in ToSet(d.capabilities), c.id = e.id PROVE c = e
  <2>1. PICK i \in DOMAIN d.capabilities : c = d.capabilities[i]
    BY DEF ToSet
  <2>2. PICK j \in DOMAIN d.capabilities : e = d.capabilities[j]
    BY DEF ToSet
  <2>3. i = j
    BY <1>1, <1>4, <2>1, <2>2 DEF UniqueIds, IsInjective, Ids
  <2> QED BY <2>1, <2>2, <2>3
<1> DEFINE Free == {q \in Required(d) : q[1] \notin ToSet(Ids(d.capabilities))}
<1>5. Materialized(d) = ToSet(d.capabilities) \cup {Implicit(r) : r \in Free}
  BY DEF Materialized
<1>6. \A c \in ToSet(d.capabilities) : c.id \in ToSet(Ids(d.capabilities))
  BY DEF ToSet, Ids
<1>7. ASSUME NEW r \in Free, NEW q \in Free, r[1] = q[1] PROVE Implicit(r) = Implicit(q)
  <2>1. r[2] = q[2]
    BY <1>1, <1>7 DEF IdentitiesAgree
  <2> QED BY <1>7, <2>1 DEF Implicit
<1>8. \A r : Implicit(r).id = r[1]
  BY DEF Implicit
<1>9. \A r \in Free : r[1] \notin ToSet(Ids(d.capabilities)) /\ r \in Required(d)
  OBVIOUS
<1> HIDE DEF Free
<1>10. ASSUME NEW c \in Materialized(d), NEW e \in Materialized(d), c.id = e.id PROVE c = e
  <2>1. CASE c \in ToSet(d.capabilities) /\ e \in ToSet(d.capabilities)
    BY <1>4, <1>10, <2>1
  <2>2. CASE c \notin ToSet(d.capabilities) \/ e \notin ToSet(d.capabilities)
    <3>1. c \in ToSet(d.capabilities) \/ \E r \in Free : c = Implicit(r)
      BY <1>5
    <3>2. e \in ToSet(d.capabilities) \/ \E r \in Free : e = Implicit(r)
      BY <1>5
    <3>3. (\E r \in Free : c = Implicit(r)) /\ (\E r \in Free : e = Implicit(r))
      BY <1>6, <1>8, <1>9, <1>10, <2>2, <3>1, <3>2
    <3>4. PICK r \in Free : c = Implicit(r)
      BY <3>3
    <3>5. PICK q \in Free : e = Implicit(q)
      BY <3>3
    <3> QED BY <1>7, <1>8, <1>10, <3>4, <3>5
  <2> QED BY <2>1, <2>2
<1>11. IsFiniteSet(Required(d))
  <2> DEFINE T == ToSet(d.tasks)
             C == ToSet(d.capabilities)
             P == {ToSet(t.requires) : t \in T}
             Q == {ToSet(c.deps) : c \in C}
             f == [t \in T |-> ToSet(t.requires)]
             g == [c \in C |-> ToSet(c.deps)]
  <2>1. IsFiniteSet(T) /\ IsFiniteSet(C) /\ T \subseteq TaskDeclarations /\ C \subseteq CapabilityDeclarations
    BY <1>2, ToSetFinite, ToSetOf
  <2>2. f \in Surjection(T, P) /\ g \in Surjection(C, Q)
    BY DEF Surjection
  <2>3. Required(d) = UNION (P \cup Q)
    BY DEF Required
  <2>4. \A x \in P \cup Q : IsFiniteSet(x)
    <3>1. \A t \in T : t.requires \in Seq(Nat \X Nat)
      BY <2>1 DEF TaskDeclarations, Requirements
    <3>2. \A c \in C : c.deps \in Seq(Nat \X Nat)
      BY <2>1 DEF CapabilityDeclarations, Requirements
    <3>3. ASSUME NEW x \in P PROVE IsFiniteSet(x)
      <4>1. PICK t \in T : x = ToSet(t.requires)
        OBVIOUS
      <4> QED BY <3>1, <4>1, ToSetFinite
    <3>4. ASSUME NEW x \in Q PROVE IsFiniteSet(x)
      <4>1. PICK c \in C : x = ToSet(c.deps)
        OBVIOUS
      <4> QED BY <3>2, <4>1, ToSetFinite
    <3> QED BY <3>3, <3>4
  <2> HIDE DEF P, Q, T, C, f, g
  <2>5. IsFiniteSet(P) /\ IsFiniteSet(Q)
    BY <2>1, <2>2, FS_Surjection
  <2>6. IsFiniteSet(P \cup Q)
    BY <2>5, FS_Union
  <2> QED BY <2>3, <2>4, <2>6, FS_UNION
<1>12. IsFiniteSet(Materialized(d))
  <2> DEFINE I == {Implicit(r) : r \in Free}
             f == [r \in Free |-> Implicit(r)]
  <2>1. IsFiniteSet(Free)
    <3>1. Free \subseteq Required(d)
      BY <1>9
    <3> QED BY <1>11, <3>1, FS_Subset
  <2>2. f \in Surjection(Free, I)
    BY DEF Surjection
  <2>3. Materialized(d) = ToSet(d.capabilities) \cup I
    BY <1>5
  <2> HIDE DEF I, f
  <2>4. IsFiniteSet(I)
    BY <2>1, <2>2, FS_Surjection
  <2>5. IsFiniteSet(ToSet(d.capabilities))
    BY <1>2, ToSetFinite
  <2> QED BY <2>3, <2>4, <2>5, FS_Union
<1> QED BY <1>3, <1>10, <1>12

CapabilityKey == [c \in SoundCapability |-> c.id]
TaskKey == [t \in SoundTask |-> t.id]
CapabilityMeaning == [c \in SoundCapability |-> MeantCapability(c)]
TaskMeaning == [t \in SoundTask |-> MeantTask(t)]

\* What is listed of a valid definition.
LEMMA ListedSound ==
    ASSUME NEW d \in RunDefinitions, RefusedDefinition(d) = "none"
    PROVE  /\ Sorted(SoundCapability, CapabilityKey, SetToSeq(Materialized(d)), ListedCapabilities(d))
           /\ ToSet(SetToSeq(Materialized(d))) = Materialized(d)
           /\ OneKey(CapabilityKey, Materialized(d))
           /\ Sorted(SoundTask, TaskKey, d.tasks, ListedTasks(d))
           /\ OneKey(TaskKey, ToSet(d.tasks))
<1>1. /\ IsFiniteSet(Materialized(d)) /\ Materialized(d) \subseteq SoundCapability
      /\ \A c, e \in Materialized(d) : c.id = e.id => c = e
  BY MaterializedSound
<1>2. UniqueIds(d.tasks) /\ ValidTasks(d.tasks)
  BY DefinitionPasses
<1>3. d.tasks \in Seq(TaskDeclarations)
  BY DEF RunDefinitions
<1>4. /\ CapabilityKey \in [SoundCapability -> Nat] /\ \A c \in SoundCapability : CapabilityKey[c] = c.id
      /\ TaskKey \in [SoundTask -> Nat] /\ \A t \in SoundTask : TaskKey[t] = t.id
  BY DEF CapabilityKey, TaskKey, SoundCapability, SoundTask, CapabilityDeclarations, TaskDeclarations
<1>5. PICK s : s = SetToSeq(Materialized(d))
  OBVIOUS
<1>6. /\ s \in Seq(Materialized(d)) /\ ToSet(s) = Materialized(d)
      /\ \A i, j \in 1..Len(s) : s[i] = s[j] => i = j
  BY <1>1, <1>5, SetToSeqOf
<1>7. /\ s \in Seq(SoundCapability) /\ DOMAIN s = 1..Len(s)
      /\ \A i \in 1..Len(s) : s[i] \in Materialized(d) /\ s[i] \in SoundCapability
  BY <1>1, <1>6
<1>8. Keyed(SoundCapability, CapabilityKey, s, Ids(s))
  <2>1. DOMAIN Ids(s) = 1..Len(s) /\ \A i \in 1..Len(s) : Ids(s)[i] = s[i].id
    BY <1>7 DEF Ids
  <2>2. \A i \in 1..Len(s) : Ids(s)[i] = CapabilityKey[s[i]] /\ Ids(s)[i] \in Nat
    BY <1>4, <1>7, <2>1
  <2>3. Ids(s) \in [1..Len(s) -> Nat]
    BY <1>7, <2>1, <2>2 DEF Ids
  <2>4. \A i, j \in 1..Len(s) : Ids(s)[i] = Ids(s)[j] => i = j
    BY <1>1, <1>6, <1>7, <2>1
  <2> QED BY <1>4, <1>7, <2>2, <2>3, <2>4 DEF Keyed
<1>9. Sorted(SoundCapability, CapabilityKey, s, ListedCapabilities(d))
  BY <1>5, <1>8, SortedOf DEF ListedCapabilities, InOrder
<1>10. OneKey(CapabilityKey, Materialized(d))
  BY <1>1, <1>4 DEF OneKey
<1>11. PICK t : t = d.tasks
  OBVIOUS
<1>12. \A i \in 1..Len(t) : t[i] \in SoundTask
  <2>1. SUFFICES ASSUME NEW i \in 1..Len(t) PROVE t[i] \in SoundTask
    OBVIOUS
  <2>2. t[i] \in TaskDeclarations /\ t[i] \in ToSet(t)
    BY <1>3, <1>11, ToSetOf
  <2>3. IsInjective(t[i].deps) /\ IsInjective(Slots(t[i].requires))
    BY <1>2, <1>11, <2>2 DEF ValidTasks, ValidRequirements
  <2>4. t[i].requires \in Requirements
    BY <2>2 DEF TaskDeclarations
  <2> QED BY <2>2, <2>3, <2>4 DEF SoundTask, OneEach
<1>13. t \in Seq(SoundTask) /\ DOMAIN t = 1..Len(t) /\ Len(t) \in Nat
  <2>1. Len(t) \in Nat /\ DOMAIN t = 1..Len(t) /\ t = [i \in 1..Len(t) |-> t[i]]
    BY <1>3, <1>11
  <2>2. t \in [1..Len(t) -> SoundTask]
    BY <1>12, <2>1
  <2> QED BY <2>1, <2>2
<1>14. Keyed(SoundTask, TaskKey, t, Ids(t))
  <2>1. DOMAIN Ids(t) = 1..Len(t) /\ \A i \in 1..Len(t) : Ids(t)[i] = t[i].id
    BY <1>13 DEF Ids
  <2>2. \A i \in 1..Len(t) : Ids(t)[i] = TaskKey[t[i]] /\ Ids(t)[i] \in Nat
    BY <1>4, <1>12, <2>1
  <2>3. Ids(t) \in [1..Len(t) -> Nat]
    BY <1>13, <2>1, <2>2 DEF Ids
  <2>4. \A i, j \in 1..Len(t) : Ids(t)[i] = Ids(t)[j] => i = j
    BY <1>2, <1>11, <2>1 DEF UniqueIds, IsInjective
  <2> QED BY <1>4, <1>13, <2>2, <2>3, <2>4 DEF Keyed
<1>15. Sorted(SoundTask, TaskKey, t, ListedTasks(d))
  BY <1>11, <1>14, SortedOf DEF ListedTasks, InOrder
<1>16. ASSUME NEW x \in ToSet(t), NEW y \in ToSet(t), TaskKey[x] = TaskKey[y] PROVE x = y
  <2>1. PICK i \in 1..Len(t) : x = t[i]
    BY <1>13, ToSetOf
  <2>2. PICK j \in 1..Len(t) : y = t[j]
    BY <1>13, ToSetOf
  <2>3. Ids(t)[i] = Ids(t)[j] /\ i \in DOMAIN Ids(t) /\ j \in DOMAIN Ids(t)
    BY <1>14, <1>16, <2>1, <2>2 DEF Keyed
  <2>4. i = j
    BY <1>2, <1>11, <2>3 DEF UniqueIds, IsInjective
  <2> QED BY <2>1, <2>2, <2>4
<1> QED BY <1>5, <1>6, <1>9, <1>10, <1>11, <1>15, <1>16 DEF OneKey

\* The canonical identity of valid definitions is the same exactly when they
\* mean the same: it leaves out the order in which they were written and the
\* labels, and nothing else.
THEOREM CanonicalExact ==
    ASSUME NEW d \in RunDefinitions, RefusedDefinition(d) = "none",
           NEW e \in RunDefinitions, RefusedDefinition(e) = "none"
    PROVE  CanonicalIdentity(d) = CanonicalIdentity(e) <=> Meaning(d) = Meaning(e)
<1> DEFINE s(x) == SetToSeq(Materialized(x))
           A(x) == ListedCapabilities(x)
           T(x) == ListedTasks(x)
           V == {d, e}
<1>1. \A x \in V : /\ Sorted(SoundCapability, CapabilityKey, s(x), A(x)) /\ ToSet(s(x)) = Materialized(x)
                   /\ OneKey(CapabilityKey, Materialized(x))
                   /\ Sorted(SoundTask, TaskKey, x.tasks, T(x))
                   /\ OneKey(TaskKey, ToSet(x.tasks))
  BY ListedSound
<1>2. \A x : CanonicalIdentity(x) = Written(A(x), T(x))
  BY DEF CanonicalIdentity, Written, Cat, FirstHead, SecondHead, CapabilityTexts, TaskTexts,
         ListedCapabilities, ListedTasks
<1> HIDE DEF s, A, T
<1>3. \A x \in V : A(x) \in Seq(SoundCapability) /\ T(x) \in Seq(SoundTask)
                   /\ Materialized(x) \subseteq SoundCapability /\ ToSet(x.tasks) \subseteq SoundTask
  <2>1. SUFFICES ASSUME NEW x \in V
        PROVE  A(x) \in Seq(SoundCapability) /\ T(x) \in Seq(SoundTask)
                   /\ Materialized(x) \subseteq SoundCapability /\ ToSet(x.tasks) \subseteq SoundTask
    OBVIOUS
  <2>2. s(x) \in Seq(SoundCapability) /\ A(x) \in Seq(SoundCapability) /\ T(x) \in Seq(SoundTask)
        /\ x.tasks \in Seq(SoundTask) /\ ToSet(s(x)) = Materialized(x)
    BY <1>1 DEF Sorted
  <2> QED BY <2>2, ToSetOf
<1>4. /\ \A c \in SoundCapability : CapabilityKey[c] = c.id /\ CapabilityMeaning[c] = MeantCapability(c)
      /\ \A t \in SoundTask : TaskKey[t] = t.id /\ TaskMeaning[t] = MeantTask(t)
  BY DEF CapabilityKey, TaskKey, CapabilityMeaning, TaskMeaning
<1>5. Tells(SoundCapability, CapabilityMeaning, CapabilityKey) /\ Tells(SoundTask, TaskMeaning, TaskKey)
  <2>1. \A p, q : MeantCapability(p) = MeantCapability(q) => p.id = q.id
    BY DEF MeantCapability
  <2>2. \A p, q : MeantTask(p) = MeantTask(q) => p.id = q.id
    BY DEF MeantTask
  <2> QED BY <1>4, <2>1, <2>2 DEF Tells
<1>6. Meaning(d) = Meaning(e) <=>
         /\ {CapabilityMeaning[c] : c \in Materialized(d)} = {CapabilityMeaning[c] : c \in Materialized(e)}
         /\ {TaskMeaning[t] : t \in ToSet(d.tasks)} = {TaskMeaning[t] : t \in ToSet(e.tasks)}
  <2>1. \A x \in V : /\ {CapabilityMeaning[c] : c \in Materialized(x)} = {MeantCapability(c) : c \in Materialized(x)}
                     /\ {TaskMeaning[t] : t \in ToSet(x.tasks)} = {MeantTask(t) : t \in ToSet(x.tasks)}
    BY <1>3, <1>4
  <2>2. \A x : Meaning(x) = [tasks |-> {MeantTask(t) : t \in ToSet(x.tasks)},
                             capabilities |-> {MeantCapability(c) : c \in Materialized(x)}]
    BY DEF Meaning, MeantTask, MeantCapability
  <2> QED BY <2>1, <2>2
<1>7. {CapabilityMeaning[c] : c \in Materialized(d)} = {CapabilityMeaning[c] : c \in Materialized(e)} <=>
         Alike(CapabilityMeaning, A(d), A(e))
  <2>1. /\ Sorted(SoundCapability, CapabilityKey, s(d), A(d)) /\ Sorted(SoundCapability, CapabilityKey, s(e), A(e))
        /\ OneKey(CapabilityKey, ToSet(s(d))) /\ OneKey(CapabilityKey, ToSet(s(e)))
        /\ ToSet(s(d)) = Materialized(d) /\ ToSet(s(e)) = Materialized(e)
    BY <1>1
  <2>2. Meanings(CapabilityMeaning, ToSet(s(d))) = Meanings(CapabilityMeaning, ToSet(s(e))) <=>
           Alike(CapabilityMeaning, A(d), A(e))
    BY <1>5, <2>1, ListedAlike
  <2> QED BY <2>1, <2>2 DEF Meanings
<1>8. {TaskMeaning[t] : t \in ToSet(d.tasks)} = {TaskMeaning[t] : t \in ToSet(e.tasks)} <=>
         Alike(TaskMeaning, T(d), T(e))
  <2>1. /\ Sorted(SoundTask, TaskKey, d.tasks, T(d)) /\ Sorted(SoundTask, TaskKey, e.tasks, T(e))
        /\ OneKey(TaskKey, ToSet(d.tasks)) /\ OneKey(TaskKey, ToSet(e.tasks))
    BY <1>1
  <2>2. Meanings(TaskMeaning, ToSet(d.tasks)) = Meanings(TaskMeaning, ToSet(e.tasks)) <=>
           Alike(TaskMeaning, T(d), T(e))
    BY <1>5, <2>1, ListedAlike
  <2> QED BY <2>2 DEF Meanings
<1>9. Alike(CapabilityMeaning, A(d), A(e)) <=> CapabilityTexts(A(d)) = CapabilityTexts(A(e))
  <2>1. PICK a \in Seq(SoundCapability), b \in Seq(SoundCapability) : a = A(d) /\ b = A(e)
    BY <1>3
  <2>2. \A i \in 1..Len(a) : a[i] \in SoundCapability
    OBVIOUS
  <2>3. \A i \in 1..Len(b) : b[i] \in SoundCapability
    OBVIOUS
  <2>4. \A p, q \in SoundCapability : CapabilityMeaning[p] = CapabilityMeaning[q] <=> PushCapability(p) = PushCapability(q)
    <3>1. SUFFICES ASSUME NEW p \in SoundCapability, NEW q \in SoundCapability
          PROVE  MeantCapability(p) = MeantCapability(q) <=> PushCapability(p) = PushCapability(q)
      BY <1>4
    <3>2. <<>> \in Seq(Token)
      OBVIOUS
    <3> QED BY <3>2, CapabilityEncoded
  <2>5. /\ DOMAIN CapabilityTexts(a) = 1..Len(a) /\ \A i \in 1..Len(a) : CapabilityTexts(a)[i] = PushCapability(a[i])
        /\ DOMAIN CapabilityTexts(b) = 1..Len(b) /\ \A i \in 1..Len(b) : CapabilityTexts(b)[i] = PushCapability(b[i])
    BY DEF CapabilityTexts
  <2>6. Len(a) \in Nat /\ Len(b) \in Nat
    OBVIOUS
  <2>7. ASSUME CapabilityTexts(a) = CapabilityTexts(b)
        PROVE  Len(a) = Len(b) /\ \A i \in 1..Len(a) : CapabilityMeaning[a[i]] = CapabilityMeaning[b[i]]
    <3>1. 1..Len(a) = 1..Len(b)
      BY <2>5, <2>7
    <3>2. Len(a) = Len(b)
      BY <2>6, <3>1
    <3> QED BY <2>2, <2>3, <2>4, <2>5, <2>7, <3>2
  <2>8. ASSUME Len(a) = Len(b), \A i \in 1..Len(a) : CapabilityMeaning[a[i]] = CapabilityMeaning[b[i]]
        PROVE  CapabilityTexts(a) = CapabilityTexts(b)
    <3>1. \A i \in 1..Len(a) : PushCapability(a[i]) = PushCapability(b[i])
      BY <2>2, <2>3, <2>4, <2>8
    <3>2. /\ CapabilityTexts(a) = [i \in 1..Len(a) |-> PushCapability(a[i])]
          /\ CapabilityTexts(b) = [i \in 1..Len(a) |-> PushCapability(b[i])]
      BY <2>8 DEF CapabilityTexts
    <3> QED BY <3>1, <3>2
  <2> QED BY <2>1, <2>7, <2>8 DEF Alike
<1>10. Alike(TaskMeaning, T(d), T(e)) <=> TaskTexts(T(d)) = TaskTexts(T(e))
  <2>1. PICK a \in Seq(SoundTask), b \in Seq(SoundTask) : a = T(d) /\ b = T(e)
    BY <1>3
  <2>2. \A i \in 1..Len(a) : a[i] \in SoundTask
    OBVIOUS
  <2>3. \A i \in 1..Len(b) : b[i] \in SoundTask
    OBVIOUS
  <2>4. \A p, q \in SoundTask : TaskMeaning[p] = TaskMeaning[q] <=> PushTask(p) = PushTask(q)
    <3>1. SUFFICES ASSUME NEW p \in SoundTask, NEW q \in SoundTask
          PROVE  MeantTask(p) = MeantTask(q) <=> PushTask(p) = PushTask(q)
      BY <1>4
    <3>2. <<>> \in Seq(Token)
      OBVIOUS
    <3> QED BY <3>2, TaskEncoded
  <2>5. /\ DOMAIN TaskTexts(a) = 1..Len(a) /\ \A i \in 1..Len(a) : TaskTexts(a)[i] = PushTask(a[i])
        /\ DOMAIN TaskTexts(b) = 1..Len(b) /\ \A i \in 1..Len(b) : TaskTexts(b)[i] = PushTask(b[i])
    BY DEF TaskTexts
  <2>6. Len(a) \in Nat /\ Len(b) \in Nat
    OBVIOUS
  <2>7. ASSUME TaskTexts(a) = TaskTexts(b)
        PROVE  Len(a) = Len(b) /\ \A i \in 1..Len(a) : TaskMeaning[a[i]] = TaskMeaning[b[i]]
    <3>1. 1..Len(a) = 1..Len(b)
      BY <2>5, <2>7
    <3>2. Len(a) = Len(b)
      BY <2>6, <3>1
    <3> QED BY <2>2, <2>3, <2>4, <2>5, <2>7, <3>2
  <2>8. ASSUME Len(a) = Len(b), \A i \in 1..Len(a) : TaskMeaning[a[i]] = TaskMeaning[b[i]]
        PROVE  TaskTexts(a) = TaskTexts(b)
    <3>1. \A i \in 1..Len(a) : PushTask(a[i]) = PushTask(b[i])
      BY <2>2, <2>3, <2>4, <2>8
    <3>2. /\ TaskTexts(a) = [i \in 1..Len(a) |-> PushTask(a[i])]
          /\ TaskTexts(b) = [i \in 1..Len(a) |-> PushTask(b[i])]
      BY <2>8 DEF TaskTexts
    <3> QED BY <3>1, <3>2
  <2> QED BY <2>1, <2>7, <2>8 DEF Alike
<1>11. ASSUME CanonicalIdentity(d) = CanonicalIdentity(e)
       PROVE  CapabilityTexts(A(d)) = CapabilityTexts(A(e)) /\ TaskTexts(T(d)) = TaskTexts(T(e))
  BY <1>2, <1>3, <1>11, WrittenCut
<1>12. ASSUME CapabilityTexts(A(d)) = CapabilityTexts(A(e)), TaskTexts(T(d)) = TaskTexts(T(e)),
              Len(A(d)) = Len(A(e)), Len(T(d)) = Len(T(e))
       PROVE  CanonicalIdentity(d) = CanonicalIdentity(e)
  BY <1>2, <1>12 DEF Written, FirstHead, SecondHead
<1>13. ASSUME Meaning(d) = Meaning(e) PROVE CanonicalIdentity(d) = CanonicalIdentity(e)
  <2>1. Alike(CapabilityMeaning, A(d), A(e)) /\ Alike(TaskMeaning, T(d), T(e))
    BY <1>6, <1>7, <1>8, <1>13
  <2> QED BY <1>9, <1>10, <1>12, <2>1 DEF Alike
<1> QED BY <1>6, <1>7, <1>8, <1>9, <1>10, <1>11, <1>13

----------------------------------------------------------------------------
(* Restoring a run *)

Begins(x) == x \in Seq(Token) /\ Len(x) > 1 /\ x[1] = RunDefinitionFormat

\* An identity is not empty and begins with its own format.
LEMMA IdentityFormat ==
    ASSUME NEW d \in RunDefinitions, RefusedDefinition(d) = "none"
    PROVE  /\ CanonicalIdentity(d) # <<>> /\ Head(CanonicalIdentity(d)) # LegacyFormat
           /\ CanonicalIdentity(d) # Legacy
<1>1. PICK cs \in Seq(SoundCapability), ts \in Seq(SoundTask) : cs = ListedCapabilities(d) /\ ts = ListedTasks(d)
  BY ListedSound DEF Sorted
<1>2. CanonicalIdentity(d) = Written(cs, ts)
  BY <1>1 DEF CanonicalIdentity, Written, Cat, FirstHead, SecondHead, CapabilityTexts, TaskTexts,
              ListedCapabilities, ListedTasks
<1>3. PICK a, b, c, e, f \in Seq(Token) :
         /\ a = FirstHead(cs) /\ b = FlattenSeq(CapabilityTexts(cs)) /\ c = SecondHead(ts)
         /\ e = FlattenSeq(TaskTexts(ts)) /\ f = <<Tag("end")>>
  BY WrittenParts
<1>4. Begins(a)
  BY <1>3, WrittenParts DEF Begins
<1>5. ASSUME NEW x, Begins(x), NEW y \in Seq(Token)
      PROVE  Begins(Cat(x, y))
  <2>1. x \in Seq(Token) /\ Len(x) > 1 /\ x[1] = RunDefinitionFormat /\ Len(x) \in Nat /\ Len(y) \in Nat
    BY <1>5 DEF Begins
  <2>2. PICK z : z = x \o y
    OBVIOUS
  <2>3. z \in Seq(Token) /\ Len(z) = Len(x) + Len(y) /\ z[1] = x[1]
    BY <2>1, <2>2, ConcatProperties
  <2> QED BY <2>1, <2>2, <2>3 DEF Begins, Cat
<1>6. Begins(Written(cs, ts))
  <2>1. Begins(Cat(a, b))
    BY <1>4, <1>5
  <2>2. Begins(Cat(Cat(a, b), c))
    BY <1>5, <2>1
  <2>3. Begins(Cat(Cat(Cat(a, b), c), e))
    BY <1>5, <2>2
  <2>4. Begins(Cat(Cat(Cat(Cat(a, b), c), e), f))
    BY <1>5, <2>3
  <2> QED BY <1>3, <2>4 DEF Written
<1>7. PICK s : s = CanonicalIdentity(d) /\ s \in Seq(Token) /\ Len(s) > 1 /\ s[1] = RunDefinitionFormat
  BY <1>2, <1>6 DEF Begins
<1>8. RunDefinitionFormat # LegacyFormat
  BY DEF RunDefinitionFormat, LegacyFormat
<1>9. s # <<>> /\ Head(s) = s[1]
  BY <1>7
<1>10. s # Legacy
  BY <1>7, <1>8 DEF Legacy
<1> QED BY <1>7, <1>8, <1>9, <1>10

\* The definition passed the checks of its declarations, and the identity is
\* the one made from it.
Identified ==
    RefusedDefinition(definition) = "none" /\ identity = CanonicalIdentity(definition)

\* A stored identity of this format was made from the run's valid definition.
StoredInv ==
    /\ "identity" \in DOMAIN durable
    /\ \/ durable.identity \in {<<>>, Legacy}
       \/ /\ durable.of \in RunDefinitions /\ RefusedDefinition(durable.of) = "none"
          /\ durable.identity = CanonicalIdentity(durable.of)

\* What is compared with the stored identity, and what the comparison decided.
ComparedInv ==
    /\ stage \in {"validated", "running", "restored"} => Identified
    /\ stage = "validated" => purpose # "plan"
    /\ stage = "restored" => Restorable
    /\ refusal.by = "identity" => Identified /\ ~Restorable

IdentityInv == StoredInv /\ ComparedInv

\* Every step keeps the invariant of the identity.
LEMMA IdentityKept ==
    ASSUME AnsweredInv, ValidInv, IdentityInv, [Next]_vars
    PROVE  IdentityInv'
<1>1. PlanInv /\ OutcomeInv /\ definition \in RunDefinitions
  BY DEF AnsweredInv, PlanInv, TypeInv, PipelineTypes
<1>2. /\ stage # "refused" => refusal.by = "none"
      /\ purpose \in {"plan", "start", "restore"}
  BY <1>1 DEF OutcomeInv
<1>3. StoredInv /\ ComparedInv
  BY DEF IdentityInv
\* Before validation nothing is compared.
<1>4. ASSUME durable' = durable, stage' \notin {"validated", "running", "restored"}, refusal'.by # "identity"
      PROVE  IdentityInv'
  BY <1>3, <1>4 DEF IdentityInv, StoredInv, ComparedInv
<1>5. CASE Load \/ Search \/ UNCHANGED vars
  <2>1. UNCHANGED <<stage, definition, identity, purpose, durable, refusal>>
    BY <1>5 DEF Load, Search, vars, pipelineVars
  <2> QED BY <1>3, <2>1 DEF IdentityInv, StoredInv, ComparedInv, Identified, Restorable
<1>6. CASE EndLoad
  <2>1. /\ stage = "load" /\ durable' = durable /\ stage' \in {"register", "refused"}
        /\ refusal' = refusal \/ (loading = "refused" /\ refusal'.by = loadError.by)
    BY <1>6 DEF EndLoad, Refuse
  <2>2. loading = "refused" =>
          loadError.by \in {"duplicate_root", "missing_reference", "dependency_cycle", "construction"}
    BY <1>1 DEF PlanInv, LoadInv, ClosureInv, RefusalExact
  <2> QED BY <1>2, <1>4, <2>1, <2>2
<1>7. CASE Register \/ StartOrder \/ PlaceModule
  <2>1. /\ stage # "refused" /\ durable' = durable /\ stage' \in {"build", "order", "refused"}
        /\ refusal' = refusal \/ refusal'.by \in {"duplicate_module", "module_dependencies"}
    BY <1>7 DEF Register, StartOrder, PlaceModule, Refuse
  <2> QED BY <1>2, <1>4, <2>1
<1>8. CASE Build
  <2>1. /\ stage # "refused" /\ durable' = durable /\ stage' \in {"definition", "refused"}
        /\ refusal' = refusal \/ refusal'.by \in {"module_cycle", RefusedContributions(modules)}
    BY <1>8 DEF Build, Refuse
  <2>2. RefusedContributions(modules) # "identity"
    BY ContributionsPass
  <2> QED BY <1>2, <1>4, <2>1, <2>2
<1>9. CASE ValidateDeclarations \/ EndCapabilities \/ StartPlan
  <2>1. /\ stage # "refused" /\ durable' = durable
        /\ stage' \in {"capabilities", "workflow", "definition", "refused"}
        /\ refusal' = refusal \/ refusal'.by \in {"capability_cycle", "missing_configuration",
                                                  RefusedDefinition(definition)}
    BY <1>9 DEF ValidateDeclarations, EndCapabilities, StartPlan, Refuse
  <2>2. RefusedDefinition(definition) # "identity"
    BY DefinitionRefusals
  <2> QED BY <1>2, <1>4, <2>1, <2>2
<1>10. CASE EndWorkflow
  <2>1. stage = "workflow" /\ UNCHANGED <<definition, purpose, durable>>
    BY <1>10 DEF EndWorkflow
  <2>2. CASE result = "cyclic"
    <3>1. stage' = "refused" /\ refusal'.by = "workflow_cycle"
      BY <1>10, <2>2 DEF EndWorkflow, Refuse
    <3> QED BY <1>4, <2>1, <3>1
  <2>3. CASE result = "acyclic"
    <3>1. /\ identity' = CanonicalIdentity(definition) /\ refusal' = refusal
          /\ stage' = IF purpose = "plan" THEN "planned" ELSE "validated"
      BY <1>10, <2>3 DEF EndWorkflow
    <3>2. Identified'
      BY <2>1, <3>1 DEF Identified, ValidInv
    <3>3. stage' \in {"planned", "validated"} /\ (stage' = "validated" => purpose' # "plan")
      BY <2>1, <3>1
    <3>4. StoredInv'
      BY <1>3, <2>1 DEF StoredInv
    <3> QED BY <1>2, <2>1, <3>1, <3>2, <3>3, <3>4 DEF IdentityInv, ComparedInv
  <2> QED BY <1>10, <2>2, <2>3 DEF EndWorkflow
<1>11. CASE ConstructRuntime
  <2>1. stage = "validated" /\ UNCHANGED <<definition, identity, purpose>> /\ refusal.by = "none"
    BY <1>2, <1>11 DEF ConstructRuntime
  <2>2. Identified /\ Identified' /\ purpose \in {"start", "restore"}
    BY <1>2, <1>3, <2>1 DEF ComparedInv, Identified
  <2>3. CASE RefusedConstruction = "none" /\ purpose = "start" /\ stage' = "running" /\ refusal' = refusal
             /\ durable' = [identity |-> identity, of |-> definition]
    <3>1. "identity" \in DOMAIN durable' /\ durable'.identity = identity /\ durable'.of = definition
      BY <2>3
    <3>2. StoredInv'
      BY <1>1, <2>2, <3>1 DEF StoredInv, Identified
    <3> QED BY <2>1, <2>2, <2>3, <3>2 DEF IdentityInv, ComparedInv
  <2>4. CASE RefusedConstruction = "none" /\ purpose = "restore" /\ stage' = "restored" /\ refusal' = refusal
             /\ durable' = durable
    <3>1. Restorable'
      BY <2>1, <2>4, ConstructionRefusals DEF Restorable
    <3> QED BY <1>3, <2>1, <2>2, <2>4, <3>1 DEF IdentityInv, StoredInv, ComparedInv
  <2>5. CASE stage' = "refused" /\ refusal'.by = "factory_failed" /\ durable' = durable
    BY <1>4, <2>5
  <2>6. CASE stage' = "refused" /\ refusal'.by = RefusedConstruction /\ durable' = durable
    <3>1. refusal'.by = "identity" => ~Restorable'
      BY <2>1, <2>6, ConstructionRefusals DEF Restorable
    <3> QED BY <1>3, <2>1, <2>2, <2>6, <3>1 DEF IdentityInv, StoredInv, ComparedInv
  <2>7. \/ /\ RefusedConstruction = "none" /\ refusal' = refusal
           /\ stage' = IF purpose = "start" THEN "running" ELSE "restored"
           /\ durable' = IF purpose = "start" THEN [identity |-> identity, of |-> definition] ELSE durable
        \/ stage' = "refused" /\ refusal'.by = "factory_failed" /\ durable' = durable
        \/ stage' = "refused" /\ refusal'.by = RefusedConstruction /\ durable' = durable
    BY <1>11 DEF ConstructRuntime, Refuse
  <2> QED BY <2>2, <2>3, <2>4, <2>5, <2>6, <2>7
<1>12. CASE Restart
  <2>1. stage = "running" /\ stage' = "definition" /\ refusal' = refusal /\ refusal.by = "none"
    BY <1>2, <1>12 DEF Restart
  <2>2. StoredInv'
    <3>1. CASE durable' = durable
      BY <1>3, <3>1 DEF StoredInv
    <3>2. ASSUME NEW i \in {Legacy, <<>>}, durable' = [durable EXCEPT !.identity = i]
          PROVE  StoredInv'
      BY <1>3, <3>2 DEF StoredInv
    <3> QED BY <1>12, <3>1, <3>2 DEF Restart
  <2> QED BY <2>1, <2>2 DEF IdentityInv, ComparedInv
<1> QED BY <1>5, <1>6, <1>7, <1>8, <1>9, <1>10, <1>11, <1>12 DEF Next, Step

\* For every definition and every restart: a run is restored exactly from a
\* definition that means what the run was started with, and never from an
\* identity of the first format or from none.
THEOREM RestoreExact == Spec => []RestoreIffSame
<1>1. Init => IdentityInv
  <2>1. SUFFICES ASSUME Init PROVE IdentityInv
    OBVIOUS
  <2>2. input.mode \in {"load", "compose", "define"}
    BY <2>1, PlanningAssumption DEF Init
  <2>3. stage \in {"load", "register", "definition"} /\ refusal.by = "none"
    BY <2>1, <2>2 DEF Init
  <2>4. "identity" \in DOMAIN durable /\ durable.identity = <<>>
    BY <2>1 DEF Init
  <2> QED BY <2>3, <2>4 DEF IdentityInv, StoredInv, ComparedInv
<1>2. AnsweredInv /\ ValidInv /\ IdentityInv /\ [Next]_vars => IdentityInv'
  BY IdentityKept
<1>3. AnsweredInv /\ IdentityInv => RestoreIffSame
  <2>1. SUFFICES ASSUME AnsweredInv, IdentityInv PROVE RestoreIffSame
    OBVIOUS
  <2>2. StoredInv /\ ComparedInv /\ definition \in RunDefinitions
    BY <2>1 DEF IdentityInv, AnsweredInv, PlanInv, TypeInv, PipelineTypes
  <2>3. ASSUME stage = "restored"
        PROVE  durable.identity \notin {<<>>, Legacy} /\ Meaning(definition) = Meaning(durable.of)
    <3>1. Identified /\ durable.identity # <<>> /\ Head(durable.identity) # LegacyFormat
          /\ durable.identity = identity
      BY <2>2, <2>3 DEF ComparedInv, Restorable
    <3>2. durable.identity \notin {<<>>, Legacy}
      BY <3>1 DEF Legacy
    <3>3. /\ durable.of \in RunDefinitions /\ RefusedDefinition(durable.of) = "none"
          /\ durable.identity = CanonicalIdentity(durable.of)
      BY <2>2, <3>2 DEF StoredInv
    <3>4. CanonicalIdentity(definition) = CanonicalIdentity(durable.of) /\ RefusedDefinition(definition) = "none"
      BY <3>1, <3>3 DEF Identified
    <3> QED BY <2>2, <3>2, <3>3, <3>4, CanonicalExact
  <2>4. ASSUME refusal.by = "identity", durable.identity \notin {<<>>, Legacy},
               Meaning(definition) = Meaning(durable.of)
        PROVE  FALSE
    <3>1. Identified /\ ~Restorable
      BY <2>2, <2>4 DEF ComparedInv
    <3>2. /\ durable.of \in RunDefinitions /\ RefusedDefinition(durable.of) = "none"
          /\ durable.identity = CanonicalIdentity(durable.of)
      BY <2>2, <2>4 DEF StoredInv
    <3>3. durable.identity = identity
      BY <2>2, <2>4, <3>1, <3>2, CanonicalExact DEF Identified
    <3>4. durable.identity # <<>> /\ Head(durable.identity) # LegacyFormat
      BY <3>2, IdentityFormat
    <3> QED BY <3>1, <3>3, <3>4 DEF Restorable
  <2> QED BY <2>3, <2>4 DEF RestoreIffSame
<1> QED BY <1>1, <1>2, <1>3, ValidInvariant, Answered, PTL DEF Spec

=============================================================================
