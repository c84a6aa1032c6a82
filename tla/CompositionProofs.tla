------------------------- MODULE CompositionProofs -------------------------
(***************************************************************************)
(* Theorems about Composition, for any compositions, modules, plugins and  *)
(* hooks and any number of interruptions: every cleanup step is started at *)
(* most once and in dependency order, reports are exact, what can be       *)
(* released leaves nothing behind, and an exit keeps its authority.        *)
(***************************************************************************)
EXTENDS Composition, Integers, WellFoundedInduction, SequenceTheorems,
        FiniteSetTheorems, TLAPS

----------------------------------------------------------------------------
(* Induction over the natural numbers, with a set in the place of the      *)
(* predicate: the numbers that have the property.                          *)

\* A nonempty set of natural numbers has a smallest member.
LEMMA SmallestMember ==
    ASSUME NEW T \in SUBSET Nat, T # {}
    PROVE  \E x \in T : \A y \in T : x <= y
<1> DEFINE R == {p \in Nat \X Nat : p[1] < p[2]}
<1>1. IsWellFoundedOn(R, Nat)
  BY NatLessThanWellFounded DEF OpToRel
<1>2. PICK x \in T : \A y \in T : ~(<<y, x>> \in R)
  BY <1>1, WFMin
<1>3. SUFFICES ASSUME NEW y \in T PROVE x <= y
  OBVIOUS
<1>4. /\ x \in Nat /\ y \in Nat /\ <<y, x>> \in Nat \X Nat
      /\ <<y, x>>[1] = y /\ <<y, x>>[2] = x
  OBVIOUS
<1>5. ~(<<y, x>>[1] < <<y, x>>[2])
  BY <1>2, <1>4
<1> QED BY <1>4, <1>5

\* A set of natural numbers that holds 0 and every successor holds them all.
LEMMA NatInduct ==
    ASSUME NEW T \in SUBSET Nat, 0 \in T, \A n \in T : n + 1 \in T
    PROVE  T = Nat
<1> SUFFICES ASSUME T # Nat PROVE FALSE
  OBVIOUS
<1>1. Nat \ T # {} /\ (Nat \ T) \in SUBSET Nat
  OBVIOUS
<1>2. PICK x \in Nat \ T : \A y \in Nat \ T : x <= y
  BY <1>1, SmallestMember
<1>3. x # 0 /\ x - 1 \in Nat /\ x - 1 < x
  BY <1>2
<1>4. x - 1 \in T
  BY <1>2, <1>3
<1>5. (x - 1) + 1 \in T
  BY <1>4
<1> QED BY <1>5, <1>2

----------------------------------------------------------------------------
(* The inductive invariant *)

\* The cleanup steps of a composition.
StepsIn(c) == UNION {StepsOf(m) : m \in ModulesOf[c]}

\* s is the beginning of t.
StartOf(s, t) == Len(s) <= Len(t) /\ \A i \in 1..Len(s) : s[i] = t[i]

\* The steps due for a module that has acquired this much.
Due(m, hook, fibers, plugins) ==
    {s \in {HookStep(m)} : hook} \cup {FiberStep(p) : p \in ToSet(fibers)}
                                 \cup {RemovalStep(p) : p \in ToSet(plugins)}
DueOf(a) == Due(a.id, a.armed /\ a.id \in DisposeHooks, a.fibers, a.plugins)

\* The steps of the current module that have not been started.
ToStart(l) == Due(l.current, l.hook, l.fibers, l.plugins)

\* The cleanup that is left; before there is a ledger it is that of all that
\* has been acquired.
Work(c) == IF ledger[c] = None THEN NewLedger(owned[c]) ELSE ledger[c]

\* The modules with a smaller index wait, the others are cleaned up.
Done(l) == Len(l.queue) + (IF l.current = None THEN 0 ELSE 1)

\* No step of c has been started or ended.
Untouched(c) == \A m \in ModulesOf[c] : \A s \in StepsOf(m) : starts[s] = 0 /\ outcome[s] = "none"

\* The types of the state.
TypeInv ==
    /\ phase \in [Compositions -> {"planned", "activating", "rollingBack", "failed", "assembly",
                                   "shuttingDown", "stopped", "driven", "abandoned"}]
    /\ at \in [Compositions -> [k : Nat, stage : {"enter", "instantiate", "start"}, i : Nat]]
    /\ owned \in [Compositions -> Seq(Acquired)]
    /\ registry \in [Compositions -> SUBSET Plugins]
    /\ fiber \in [Plugins -> {"none", "created", "started", "disposed"}]
    /\ ledger \in [Compositions -> Ledger \cup {None}]
    /\ call \in [Compositions -> Call \cup {None}]
    /\ driver \in [Compositions -> {"none", "Running", "Shutdown", "OwnerDropped"}]
    /\ exit \in [Compositions -> {"none", "host", "future", "lost", "consumed"}]
    /\ interrupts \in Nat
    /\ owed \in [Compositions -> SUBSET Steps]
    /\ starts \in [Steps -> Nat]
    /\ outcome \in [Steps -> {"none", "ok", "failed", "lost", "gone"}]
    /\ report \in [Compositions -> Report \cup {None}]

\* O is what the modules of c acquired, in the order of the plan.
FollowsPlan(c, O) ==
    /\ Len(O) <= Len(Order(c))
    /\ \A j \in 1..Len(O) :
          /\ O[j].id = Order(c)[j]
          /\ O[j].plugins = PluginsOf[Order(c)[j]]
          /\ StartOf(O[j].fibers, PluginsOf[Order(c)[j]])

\* The steps that O makes necessary.
AllDue(O) == UNION {DueOf(O[j]) : j \in 1..Len(O)}

\* The activation of c at module k has come as far as plugin i of the stage.
OwnedInv(c) ==
    /\ FollowsPlan(c, owned[c])
    /\ owed[c] = AllDue(owned[c])
    /\ phase[c] = "planned" => at[c].k = 1 /\ at[c].stage = "enter"
    /\ phase[c] \in {"planned", "activating"} =>
          IF at[c].stage = "enter"
          THEN at[c].k = Len(owned[c]) + 1
          ELSE /\ at[c].k = Len(owned[c])
               /\ at[c].k > 0
               /\ Len(owned[c][at[c].k].fibers) = at[c].i - 1
               /\ ~owned[c][at[c].k].armed
               /\ at[c].stage = "instantiate" => at[c].i = 1

\* Which of ledger, report, call, driver and exit a phase of life goes with.
PhaseInv(c) ==
    /\ phase[c] \in {"planned", "activating", "assembly"} =>
          ledger[c] = None /\ report[c] = None /\ Untouched(c)
    /\ phase[c] \in {"rollingBack", "shuttingDown"} => ledger[c] # None
    /\ phase[c] \in {"failed", "stopped", "abandoned"} => ledger[c] = None
    /\ phase[c] # "driven" => call[c] = None /\ driver[c] = "none" /\ exit[c] = "none"
    /\ phase[c] = "driven" => driver[c] # "none"
    /\ ledger[c] # None => report[c] = None

\* Nothing of c was released and its handle can take its exit.
Fresh(c) == ledger[c] # None /\ ~ledger[c].accepted /\ Untouched(c)

\* The call on the handle of h owns the exit of c.
Holds(h, c) == call[h] # None /\ call[h].kind # "ownerLoss" /\ call[h].exit = c

\* An exit belongs to a driver that shut down; one that the host has, or will get,
\* meets a handle that can use it; one in a future belongs to one call.
ExitInv(c) ==
    /\ driver[c] = "Shutdown" <=> exit[c] # "none"
    /\ exit[c] = "host" \/ driver[c] = "Running" => Fresh(c)
    /\ exit[c] = "future" => \E h \in Compositions : Holds(h, c)
    /\ \A g, h \in Compositions : Holds(g, c) /\ Holds(h, c) => g = h
    /\ exit[c] = "consumed" => ledger[c] = None

\* What a call on the handle was entitled to when it was made still holds.
CallInv(c) ==
    call[c] # None =>
        /\ call[c].kind = "ownerLoss" =>
              /\ ledger[c] # None /\ call[c].exit = None
              /\ driver[c] = "OwnerDropped" \/ exit[c] = "lost"
        /\ call[c].kind = "orderly" =>
              call[c].exit = c /\ exit[c] = "future" /\ ledger[c] # None /\ ledger[c].accepted
        /\ call[c].kind = "refused" =>
              /\ call[c].exit \in Compositions /\ exit[call[c].exit] = "future" /\ ~call[c].polled
              /\ Fresh(call[c].exit)

\* Who may release the composition.
AuthorityInv(c) == ExitInv(c) /\ CallInv(c)

\* The ledger l is on its way from the last module of O to the first.
Shape(O, l) ==
    /\ StartOf(l.queue, O)
    /\ l.current = None => ~l.hook /\ l.fibers = <<>> /\ l.plugins = <<>> /\ l.inFlight = None
    /\ l.current # None =>
          /\ Len(l.queue) < Len(O)
          /\ l.current = O[Len(l.queue) + 1].id
          /\ l.hook => /\ O[Len(l.queue) + 1].armed
                       /\ O[Len(l.queue) + 1].id \in DisposeHooks
          /\ StartOf(l.fibers, O[Len(l.queue) + 1].fibers)
          /\ StartOf(l.plugins, O[Len(l.queue) + 1].plugins)

\* With the starts st and outcomes oc of steps: waiting modules are untouched,
\* in the current one exactly the steps that are out of the ledger have ended
\* or are in flight, the others are through.
Progress(O, l, st, oc) ==
    /\ \A j \in 1..Len(l.queue) : \A s \in StepsOf(O[j].id) : st[s] = 0 /\ oc[s] = "none"
    /\ l.current # None =>
          \A s \in DueOf(O[Len(l.queue) + 1]) :
             IF s \in ToStart(l) THEN st[s] = 0 /\ oc[s] = "none" /\ s # l.inFlight
             ELSE oc[s] = "none" <=> s = l.inFlight
    /\ l.inFlight # None => l.current # None /\ l.inFlight \in DueOf(O[Len(l.queue) + 1])
    /\ \A j \in 1..Len(O) : j > Done(l) => \A s \in DueOf(O[j]) : oc[s] # "none"

\* The steps of D that did not succeed, and the modules with none of them.
Unsuccessful(D, oc) == {s \in D : oc[s] \in {"failed", "lost"}}
CleanFrom(O, n, failures) ==
    {O[j].id : j \in {i \in 1..Len(O) : i > n /\ StepsOf(O[i].id) \cap failures = {}}}

\* What the ledger says of the modules that are through, and of the current one.
Books(O, l, oc) ==
    /\ l.failures = Unsuccessful(AllDue(O), oc)
    /\ l.cleaned = CleanFrom(O, Done(l), l.failures)
    /\ l.current # None => (l.clean <=> StepsOf(l.current) \cap l.failures = {})

\* The ledger, the history and the books of a sweep agree.
Swept(O, l, st, oc) == Shape(O, l) /\ Progress(O, l, st, oc) /\ Books(O, l, oc)

\* The composition is not yet released, as a whole or in part.
Live(c) == phase[c] \in {"planned", "activating", "assembly"} \/ ledger[c] # None

\* Until a composition is released its books agree.
SweepInv(c) == Live(c) => Swept(owned[c], Work(c), starts, outcome)

\* The report, once there is one, is that of the completed sweep.
ReportInv(c) ==
    report[c] # None =>
        /\ \A s \in owed[c] : outcome[s] # "none"
        /\ report[c].failures = Unsuccessful(owed[c], outcome)
        /\ report[c].cleaned = CleanFrom(owned[c], 0, report[c].failures)

\* When a step of a module has been started, those of later modules have ended.
LaterFirst(O, st, oc) ==
    \A i, j \in 1..Len(O) : i < j /\ (\E s \in StepsOf(O[i].id) : st[s] > 0) =>
        \A s \in DueOf(O[j]) : oc[s] # "none"

\* Modules are cleaned up from the last to the first.
OrderInv(c) == LaterFirst(owned[c], starts, outcome)

\* The registry of c can still be reached.
InReach(c) ==
    \/ phase[c] \in {"planned", "activating", "rollingBack", "assembly", "shuttingDown"}
    \/ phase[c] = "driven" /\ driver[c] # "OwnerDropped" /\ exit[c] \notin {"lost", "consumed"}

\* The plugins whose removal the ledger l still asks for.
ToRemove(l) ==
    (UNION {ToSet(l.queue[j].plugins) : j \in 1..Len(l.queue)}) \cup ToSet(l.plugins)

\* While the registry can be reached, the ledger asks for every removal that is
\* left, and every live fiber belongs to a plugin that is to be removed.
ClearInv(c) ==
    /\ phase[c] = "planned" => registry[c] = {}
    /\ phase[c] = "activating" /\ at[c].stage # "enter" => ToSet(PluginsOf[Module(c)]) \subseteq registry[c]
    /\ InReach(c) =>
          /\ registry[c] \subseteq ToRemove(Work(c))
          /\ \A p \in PluginsIn(c) : fiber[p] \in {"created", "started"} =>
                p \in registry[c] \/ Work(c).inFlight = RemovalStep(p)
    /\ phase[c] \in {"failed", "stopped"} \/ exit[c] = "consumed" =>
          registry[c] = {} /\ \A p \in PluginsIn(c) : fiber[p] \in {"none", "disposed"}

\* The invariant of one composition.
CInv(c) ==
    /\ OwnedInv(c) /\ PhaseInv(c) /\ AuthorityInv(c) /\ SweepInv(c)
    /\ ReportInv(c) /\ OrderInv(c) /\ ClearInv(c)

\* No step is started twice.
Once == \A s \in Steps : starts[s] <= 1

\* The inductive invariant.
IInv == TypeInv /\ Once /\ \A c \in Compositions : CInv(c)

----------------------------------------------------------------------------
(* The plan *)

\* The modules of two compositions are different, and numbers.
LEMMA PlanFacts ==
    /\ \A c \in Compositions : /\ ModulesOf[c] \subseteq Modules /\ ModulesOf[c] \subseteq Nat
                               /\ IsFiniteSet(ModulesOf[c]) /\ PluginsIn(c) \subseteq Plugins
    /\ \A c, d \in Compositions : c # d => ModulesOf[c] \cap ModulesOf[d] = {}
    /\ \A m \in Modules : PluginsOf[m] \in Seq(Plugins) /\ ToSet(PluginsOf[m]) \subseteq Plugins
    /\ \A m, n \in Modules : m # n => ToSet(PluginsOf[m]) \cap ToSet(PluginsOf[n]) = {}
    /\ \A c, d \in Compositions : c # d => PluginsIn(c) \cap PluginsIn(d) = {}
<1>1. \A c \in Compositions : /\ ModulesOf[c] \subseteq Modules /\ ModulesOf[c] \subseteq Nat
                              /\ IsFiniteSet(ModulesOf[c])
  BY PlanAssumption DEF Modules
<1>2. \A m \in Modules : PluginsOf[m] \in Seq(Plugins) /\ ToSet(PluginsOf[m]) \subseteq Plugins
  BY PlanAssumption DEF Plugins
<1>3. /\ \A c, d \in Compositions : c # d => ModulesOf[c] \cap ModulesOf[d] = {}
      /\ \A m, n \in Modules : m # n => ToSet(PluginsOf[m]) \cap ToSet(PluginsOf[n]) = {}
  BY PlanAssumption
<1>4. \A c \in Compositions : PluginsIn(c) \subseteq Plugins
  BY <1>1 DEF PluginsIn, Plugins
<1>5. ASSUME NEW c \in Compositions, NEW d \in Compositions, c # d
      PROVE  PluginsIn(c) \cap PluginsIn(d) = {}
  <2>1. \A m \in ModulesOf[c], n \in ModulesOf[d] : m # n /\ m \in Modules /\ n \in Modules
    BY <1>1, <1>3, <1>5
  <2> QED BY <2>1, <1>3 DEF PluginsIn
<1> QED BY <1>1, <1>2, <1>3, <1>4, <1>5

\* A step says what it is a step of.
LEMMA StepFacts ==
    /\ \A m, n : HookStep(m) = HookStep(n) <=> m = n
    /\ \A p, q : FiberStep(p) = FiberStep(q) <=> p = q
    /\ \A p, q : RemovalStep(p) = RemovalStep(q) <=> p = q
    /\ \A m, p : HookStep(m) # FiberStep(p)
    /\ \A m, p : HookStep(m) # RemovalStep(p)
    /\ \A p, q : FiberStep(p) # RemovalStep(q)
BY DEF HookStep, FiberStep, RemovalStep

\* No step belongs to two modules.
LEMMA StepsApart ==
    /\ \A m \in Modules : StepsOf(m) \subseteq Steps
    /\ \A m, n \in Modules : m # n => StepsOf(m) \cap StepsOf(n) = {}
    /\ \A c \in Compositions : StepsIn(c) \subseteq Steps
    /\ \A c, d \in Compositions : c # d => StepsIn(c) \cap StepsIn(d) = {}
<1>1. \A m \in Modules : StepsOf(m) \subseteq Steps
  BY DEF Steps
<1>2. ASSUME NEW m \in Modules, NEW n \in Modules, m # n
      PROVE  StepsOf(m) \cap StepsOf(n) = {}
  <2>1. SUFFICES ASSUME NEW s \in StepsOf(m), s \in StepsOf(n) PROVE FALSE
    OBVIOUS
  <2>2. ToSet(PluginsOf[m]) \cap ToSet(PluginsOf[n]) = {}
    BY <1>2, PlanFacts
  <2>3. \/ s = HookStep(m)
        \/ \E p \in ToSet(PluginsOf[m]) : s = FiberStep(p)
        \/ \E p \in ToSet(PluginsOf[m]) : s = RemovalStep(p)
    BY <2>1 DEF StepsOf
  <2>4. \/ s = HookStep(n)
        \/ \E p \in ToSet(PluginsOf[n]) : s = FiberStep(p)
        \/ \E p \in ToSet(PluginsOf[n]) : s = RemovalStep(p)
    BY <2>1 DEF StepsOf
  <2> QED BY <1>2, <2>2, <2>3, <2>4, StepFacts
<1>3. ASSUME NEW c \in Compositions, NEW d \in Compositions, c # d
      PROVE  StepsIn(c) \cap StepsIn(d) = {}
  <2>1. \A m \in ModulesOf[c], n \in ModulesOf[d] : m # n /\ m \in Modules /\ n \in Modules
    BY <1>3, PlanFacts
  <2> QED BY <2>1, <1>2 DEF StepsIn
<1> QED BY <1>1, <1>2, <1>3, PlanFacts DEF StepsIn

\* Taking the last element off a sequence.
LEMMA FrontLast ==
    ASSUME NEW S, NEW s \in Seq(S), s # <<>>
    PROVE  /\ Front(s) \in Seq(S) /\ Len(Front(s)) = Len(s) - 1 /\ Len(s) \in Nat /\ Len(s) > 0
           /\ \A i \in 1..(Len(s) - 1) : Front(s)[i] = s[i]
           /\ Last(s) = s[Len(s)] /\ Last(s) \in S
           /\ ToSet(s) = ToSet(Front(s)) \cup {Last(s)}
<1>1. Len(s) \in Nat /\ Len(s) > 0 /\ DOMAIN s = 1..Len(s)
  BY EmptySeq, LenProperties
<1>2. /\ Front(s) \in Seq(S) /\ Len(Front(s)) = Len(s) - 1
      /\ \A i \in 1..(Len(s) - 1) : Front(s)[i] = s[i]
  BY <1>1, SubSeqProperties DEF Front
<1>3. Last(s) = s[Len(s)] /\ Last(s) \in S
  BY <1>1, ElementOfSeq DEF Last
<1>4. DOMAIN Front(s) = 1..(Len(s) - 1)
  BY <1>2, LenProperties
<1> QED BY <1>1, <1>2, <1>3, <1>4 DEF ToSet

\* A sequence that starts another, without its last element.
LEMMA FrontStart ==
    ASSUME NEW S, NEW s \in Seq(S), NEW t \in Seq(S), s # <<>>, StartOf(s, t)
    PROVE  StartOf(Front(s), t) /\ Last(s) = t[Len(s)] /\ Len(s) \in 1..Len(t)
<1>1. Len(t) \in Nat
  BY LenProperties
<1>2. /\ Len(Front(s)) = Len(s) - 1 /\ Len(s) \in Nat /\ Len(s) > 0 /\ Last(s) = s[Len(s)]
      /\ \A i \in 1..(Len(s) - 1) : Front(s)[i] = s[i]
  BY FrontLast
<1>3. Len(s) <= Len(t) /\ \A i \in 1..Len(s) : s[i] = t[i]
  BY DEF StartOf
<1>4. Len(s) \in 1..Len(t) /\ Last(s) = t[Len(s)]
  BY <1>1, <1>2, <1>3
<1>5. Len(Front(s)) <= Len(t) /\ \A i \in 1..Len(Front(s)) : Front(s)[i] = t[i]
  BY <1>1, <1>2, <1>3
<1> QED BY <1>4, <1>5 DEF StartOf

\* The last element of the beginning of a sequence without repetition.
LEMMA LastOnce ==
    ASSUME NEW S, NEW s \in Seq(S), NEW t \in Seq(S), s # <<>>, StartOf(s, t), IsInjective(t)
    PROVE  Last(s) \notin ToSet(Front(s))
<1>1. /\ Len(s) \in 1..Len(t) /\ Len(s) \in Nat /\ Len(t) \in Nat /\ DOMAIN t = 1..Len(t)
      /\ Last(s) = t[Len(s)] /\ DOMAIN Front(s) = 1..(Len(s) - 1)
  BY FrontStart, FrontLast, LenProperties
<1>2. \A i \in 1..(Len(s) - 1) : Front(s)[i] = t[i]
  BY <1>1, FrontLast DEF StartOf
<1>3. SUFFICES ASSUME NEW i \in 1..(Len(s) - 1), Front(s)[i] = Last(s) PROVE FALSE
  BY <1>1 DEF ToSet
<1> QED BY <1>1, <1>2, <1>3 DEF IsInjective

\* A sequence starts itself.
LEMMA StartOfSelf ==
    ASSUME NEW S, NEW s \in Seq(S)
    PROVE  StartOf(s, s)
BY LenProperties DEF StartOf

\* The elements of the beginning of a sequence are elements of it.
LEMMA StartSubset ==
    ASSUME NEW S, NEW s \in Seq(S), NEW t \in Seq(S), StartOf(s, t)
    PROVE  ToSet(s) \subseteq ToSet(t)
<1>1. /\ Len(s) \in Nat /\ Len(t) \in Nat /\ DOMAIN s = 1..Len(s) /\ DOMAIN t = 1..Len(t)
  BY LenProperties
<1> QED BY <1>1 DEF StartOf, ToSet

\* An order without repetition in which every module comes after those it
\* depends on.
DependenciesFirst(o, mods, deps) ==
    /\ o \in Seq(mods)
    /\ IsInjective(o)
    /\ \A i \in 1..Len(o) : deps[o[i]] \subseteq {o[j] : j \in 1..(i - 1)}

\* One module more.
Longer(o, mods, deps) ==
    LET next == Available(mods, deps, ToSet(o)) IN IF next = {} THEN o ELSE Append(o, Min(next))

\* A module whose dependencies are in the order may come next.
LEMMA LongerKeeps ==
    ASSUME NEW mods \in SUBSET Nat, NEW deps, NEW o, DependenciesFirst(o, mods, deps)
    PROVE  DependenciesFirst(Longer(o, mods, deps), mods, deps)
<1> DEFINE next == Available(mods, deps, ToSet(o))
           m == Min(next)
           n == Len(o)
<1>1. CASE next = {}
  BY <1>1 DEF Longer
<1>2. CASE next # {}
  <2>1. next \in SUBSET Nat
    BY DEF Available
  <2>2. m \in next
    <3> HIDE DEF next
    <3>1. \E x \in next : \A y \in next : x <= y
      BY <1>2, <2>1, SmallestMember
    <3> QED BY <3>1 DEF Min
  <2>3. m \in mods /\ m \notin ToSet(o) /\ deps[m] \subseteq ToSet(o)
    BY <2>2 DEF Available
  <2>4. Longer(o, mods, deps) = Append(o, m)
    BY <1>2 DEF Longer
  <2> HIDE DEF next, m
  <2>5. o \in Seq(mods) /\ n \in Nat /\ DOMAIN o = 1..n
    BY LenProperties DEF DependenciesFirst
  <2> DEFINE a == Append(o, m)
  <2>6. /\ a \in Seq(mods) /\ Len(a) = n + 1 /\ DOMAIN a = 1..(n + 1) /\ a[n + 1] = m
        /\ \A i \in 1..n : a[i] = o[i]
    BY <2>3, <2>5, AppendProperties, LenProperties
  <2> HIDE DEF a, n
  <2>7. ToSet(o) = {a[j] : j \in 1..n}
    BY <2>5, <2>6 DEF ToSet
  <2>8. IsInjective(a)
    <3>1. SUFFICES ASSUME NEW i \in 1..(n + 1), NEW j \in 1..(n + 1), a[i] = a[j], i < j
                   PROVE  FALSE
      BY <2>5, <2>6 DEF IsInjective
    <3>2. i \in 1..n /\ a[i] = o[i]
      BY <2>5, <2>6, <3>1
    <3>3. CASE j = n + 1
      BY <2>3, <2>6, <2>7, <3>1, <3>2, <3>3
    <3>4. CASE j # n + 1
      <4>1. j \in 1..n /\ a[j] = o[j]
        BY <2>5, <2>6, <3>4
      <4>2. i = j
        BY <2>5, <3>1, <3>2, <4>1 DEF DependenciesFirst, IsInjective
      <4> QED BY <3>1, <3>2, <4>1, <4>2
    <3> QED BY <3>3, <3>4
  <2>9. ASSUME NEW i \in 1..(n + 1)
        PROVE  deps[a[i]] \subseteq {a[j] : j \in 1..(i - 1)}
    <3>1. CASE i = n + 1
      BY <2>3, <2>5, <2>6, <2>7, <3>1
    <3>2. CASE i # n + 1
      <4>1. i \in 1..n /\ \A j \in 1..(i - 1) : j \in 1..n
        BY <2>5, <3>2
      <4>2. deps[o[i]] \subseteq {o[j] : j \in 1..(i - 1)}
        BY <4>1 DEF DependenciesFirst, n
      <4> QED BY <2>6, <4>1, <4>2
    <3> QED BY <3>1, <3>2
  <2>10. DependenciesFirst(a, mods, deps)
    BY <2>6, <2>8, <2>9 DEF DependenciesFirst
  <2> QED BY <2>4, <2>10 DEF a
<1> QED BY <1>1, <1>2

\* deterministic_order never repeats a module nor puts one before a module it
\* depends on, whatever the dependencies are.
LEMMA OrderKeepsDependencies ==
    ASSUME NEW mods \in SUBSET Nat, IsFiniteSet(mods), NEW deps
    PROVE  DependenciesFirst(ActivationOrder(mods, deps), mods, deps)
<1> DEFINE N == Cardinality(mods)
           Solves(f, n) ==
             f = [k \in 0..n |-> IF k = 0 THEN <<>> ELSE Longer(f[k - 1], mods, deps)]
           T == {n \in Nat : \E f : Solves(f, n)}
<1>0. N \in Nat
  BY FS_CardinalityType
<1>1. 0 \in T
  <2>1. Solves([k \in 0..0 |-> <<>>], 0)
    OBVIOUS
  <2> QED BY <2>1
<1>2. ASSUME NEW n \in T PROVE n + 1 \in T
  <2>1. PICK f : Solves(f, n)
    BY <1>2
  <2> DEFINE g == [k \in 0..(n + 1) |-> IF k = n + 1 THEN Longer(f[n], mods, deps) ELSE f[k]]
  <2>2. ASSUME NEW k \in 0..(n + 1)
        PROVE  g[k] = IF k = 0 THEN <<>> ELSE Longer(g[k - 1], mods, deps)
    <3>1. CASE k = n + 1
      BY <3>1, n \in Nat
    <3>2. CASE k # n + 1
      <4>1. k \in 0..n /\ (k # 0 => k - 1 \in 0..n /\ k - 1 \in 0..(n + 1) /\ k - 1 # n + 1)
        BY <3>2, n \in Nat
      <4>2. f[k] = IF k = 0 THEN <<>> ELSE Longer(f[k - 1], mods, deps)
        BY <2>1, <4>1
      <4> QED BY <3>2, <4>1, <4>2
    <3> QED BY <3>1, <3>2
  <2>3. Solves(g, n + 1)
    BY <2>2
  <2>4. n + 1 \in Nat
    OBVIOUS
  <2> QED
    <3> HIDE DEF g, Solves
    <3> QED BY <2>3, <2>4
<1>3. T = Nat
  <2>1. T \in SUBSET Nat
    OBVIOUS
  <2> HIDE DEF T
  <2> QED BY <1>1, <1>2, <2>1, NatInduct
<1>4. PICK f : Solves(f, N) /\ f = CHOOSE h : Solves(h, N)
  <2>1. \E f : Solves(f, N)
    BY <1>0, <1>3
  <2> HIDE DEF Solves
  <2> QED BY <2>1
<1>5. ActivationOrder(mods, deps) = f[N]
  BY <1>4 DEF ActivationOrder, Longer
<1> DEFINE G == {k \in Nat : k <= N => DependenciesFirst(f[k], mods, deps)}
<1> HIDE DEF N
<1>6. 0 \in G
  <2>1. f[0] = <<>>
    BY <1>0, <1>4
  <2>2. DependenciesFirst(<<>>, mods, deps)
    BY DEF DependenciesFirst, IsInjective
  <2> QED BY <2>1, <2>2
<1>7. ASSUME NEW k \in G PROVE k + 1 \in G
  <2>1. SUFFICES ASSUME k + 1 <= N PROVE DependenciesFirst(f[k + 1], mods, deps)
    OBVIOUS
  <2>2. k \in Nat /\ DependenciesFirst(f[k], mods, deps)
    BY <1>0, <2>1
  <2>3. k + 1 \in 0..N /\ k + 1 # 0 /\ (k + 1) - 1 = k
    BY <1>0, <2>1, <2>2
  <2>4. f[k + 1] = Longer(f[k], mods, deps)
    BY <1>4, <2>3
  <2> QED BY <2>2, <2>4, LongerKeeps
<1>8. G = Nat
  <2>1. G \in SUBSET Nat
    OBVIOUS
  <2> HIDE DEF G
  <2> QED BY <1>6, <1>7, <2>1, NatInduct
<1> QED BY <1>0, <1>5, <1>8

\* The plan of a composition.
LEMMA OrderFacts ==
    ASSUME NEW c \in Compositions
    PROVE  /\ Order(c) \in Seq(ModulesOf[c]) /\ Len(Order(c)) \in Nat
           /\ \A i, j \in 1..Len(Order(c)) : Order(c)[i] = Order(c)[j] => i = j
           /\ \A i \in 1..Len(Order(c)) :
                 /\ Order(c)[i] \in ModulesOf[c] /\ Order(c)[i] \in Modules
                 /\ DependsOn[Order(c)[i]] \subseteq {Order(c)[j] : j \in 1..(i - 1)}
<1>1. DependenciesFirst(Order(c), ModulesOf[c], DependsOn)
  BY PlanFacts, OrderKeepsDependencies DEF Order
<1>2. Order(c) \in Seq(ModulesOf[c])
  BY <1>1 DEF DependenciesFirst
<1>3. Len(Order(c)) \in Nat /\ DOMAIN Order(c) = 1..Len(Order(c))
  BY <1>2, LenProperties
<1>4. \A i \in 1..Len(Order(c)) : Order(c)[i] \in ModulesOf[c]
  BY <1>2, ElementOfSeq
<1> QED BY <1>1, <1>2, <1>3, <1>4, PlanFacts DEF DependenciesFirst, IsInjective

\* What is due for a module are steps of it.
LEMMA DueSubset ==
    ASSUME NEW a \in Acquired, a.plugins = PluginsOf[a.id], StartOf(a.fibers, a.plugins)
    PROVE  /\ DueOf(a) \subseteq StepsOf(a.id)
           /\ ToSet(a.fibers) \subseteq ToSet(PluginsOf[a.id])
<1>1. /\ a.fibers \in Seq(Plugins) /\ a.plugins \in Seq(Plugins)
  BY DEF Acquired
<1>2. ToSet(a.fibers) \subseteq ToSet(a.plugins)
  BY <1>1, StartSubset
<1> QED BY <1>2 DEF DueOf, Due, StepsOf

\* The modules that acquired something.
LEMMA AcquiredFacts ==
    ASSUME NEW c \in Compositions, NEW O \in Seq(Acquired), FollowsPlan(c, O)
    PROVE  /\ Len(O) \in Nat
           /\ \A j \in 1..Len(O) :
                 /\ O[j] \in Acquired
                 /\ O[j].id \in ModulesOf[c] /\ O[j].id \in Modules
                 /\ O[j].fibers \in Seq(Plugins) /\ O[j].plugins \in Seq(Plugins)
                 /\ O[j].plugins = PluginsOf[O[j].id]
                 /\ StartOf(O[j].fibers, O[j].plugins)
                 /\ IsInjective(O[j].plugins)
                 /\ ToSet(O[j].plugins) \subseteq PluginsIn(c)
                 /\ DueOf(O[j]) \subseteq StepsOf(O[j].id)
                 /\ StepsOf(O[j].id) \subseteq StepsIn(c)
           /\ \A i, j \in 1..Len(O) : i # j => /\ O[i].id # O[j].id
                                               /\ StepsOf(O[i].id) \cap StepsOf(O[j].id) = {}
<1>1. Len(O) \in Nat /\ Len(O) <= Len(Order(c)) /\ Len(Order(c)) \in Nat
  BY LenProperties, OrderFacts DEF FollowsPlan
<1>2. ASSUME NEW j \in 1..Len(O)
      PROVE  /\ O[j] \in Acquired /\ j \in 1..Len(Order(c))
             /\ O[j].id = Order(c)[j] /\ O[j].id \in ModulesOf[c] /\ O[j].id \in Modules
             /\ O[j].fibers \in Seq(Plugins) /\ O[j].plugins \in Seq(Plugins)
             /\ O[j].plugins = PluginsOf[O[j].id]
             /\ StartOf(O[j].fibers, O[j].plugins)
  <2>1. O[j] \in Acquired
    BY ElementOfSeq
  <2>2. j \in 1..Len(Order(c))
    BY <1>1
  <2>3. Order(c)[j] \in ModulesOf[c] /\ Order(c)[j] \in Modules
    BY <2>2, OrderFacts
  <2>4. O[j].id = Order(c)[j] /\ O[j].plugins = PluginsOf[Order(c)[j]]
        /\ StartOf(O[j].fibers, PluginsOf[Order(c)[j]])
    BY DEF FollowsPlan
  <2> QED BY <2>1, <2>2, <2>3, <2>4 DEF Acquired
<1>3. ASSUME NEW j \in 1..Len(O)
      PROVE  /\ IsInjective(O[j].plugins)
             /\ ToSet(O[j].plugins) \subseteq PluginsIn(c)
             /\ DueOf(O[j]) \subseteq StepsOf(O[j].id)
             /\ StepsOf(O[j].id) \subseteq StepsIn(c)
  <2>1. DueOf(O[j]) \subseteq StepsOf(O[j].id)
    BY <1>2, DueSubset
  <2>2. IsInjective(O[j].plugins)
    BY <1>2, PlanAssumption
  <2>3. ToSet(O[j].plugins) \subseteq PluginsIn(c)
    BY <1>2 DEF PluginsIn
  <2>4. StepsOf(O[j].id) \subseteq StepsIn(c)
    BY <1>2 DEF StepsIn
  <2> QED BY <2>1, <2>2, <2>3, <2>4
<1>4. ASSUME NEW i \in 1..Len(O), NEW j \in 1..Len(O), i # j
      PROVE  O[i].id # O[j].id /\ StepsOf(O[i].id) \cap StepsOf(O[j].id) = {}
  <2>1. O[i].id # O[j].id
    BY <1>2, <1>4, OrderFacts
  <2> QED BY <1>2, <2>1, StepsApart
<1> QED BY <1>1, <1>2, <1>3, <1>4

----------------------------------------------------------------------------
(* The ledger during a sweep *)

\* The fields of a ledger.
LEMMA LedgerFacts ==
    ASSUME NEW l \in Ledger
    PROVE  /\ l.queue \in Seq(Acquired) /\ Len(l.queue) \in Nat
           /\ l.current \in Modules \cup {None} /\ l.hook \in BOOLEAN
           /\ l.fibers \in Seq(Plugins) /\ l.plugins \in Seq(Plugins) /\ l.clean \in BOOLEAN
           /\ l.inFlight \in Steps \cup {None} /\ l.cleaned \subseteq Modules
           /\ l.failures \subseteq Steps
<1>1. l.queue \in Seq(Acquired)
  BY DEF Ledger
<1>2. Len(l.queue) \in Nat
  BY <1>1, LenProperties
<1> QED BY <1>1, <1>2 DEF Ledger

\* The module a sweep is at.
LEMMA CurrentFacts ==
    ASSUME NEW c \in Compositions, NEW O \in Seq(Acquired), FollowsPlan(c, O),
           NEW l \in Ledger, Shape(O, l), l.current # None
    PROVE  /\ Len(l.queue) + 1 \in 1..Len(O)
           /\ Done(l) = Len(l.queue) + 1
           /\ l.current = O[Len(l.queue) + 1].id
           /\ ToStart(l) \subseteq DueOf(O[Len(l.queue) + 1])
           /\ DueOf(O[Len(l.queue) + 1]) \subseteq StepsOf(l.current)
           /\ StepsOf(l.current) \subseteq Steps
           /\ DueOf(O[Len(l.queue) + 1]) \subseteq AllDue(O)
           /\ None \notin StepsOf(l.current)
<1> DEFINE n == Len(l.queue) + 1
           a == O[n]
<1>1. n \in 1..Len(O) /\ Done(l) = n /\ l.current = a.id
  BY LedgerFacts, AcquiredFacts DEF Shape, Done
<1>2. a \in Acquired /\ a.fibers \in Seq(Plugins) /\ a.plugins \in Seq(Plugins)
      /\ a.id \in Modules /\ DueOf(a) \subseteq StepsOf(a.id)
  <2> HIDE DEF n
  <2> QED BY <1>1, AcquiredFacts
<1>3. StartOf(l.fibers, a.fibers) /\ StartOf(l.plugins, a.plugins)
      /\ (l.hook => a.armed /\ a.id \in DisposeHooks)
  BY DEF Shape
<1>4. DueOf(a) \subseteq AllDue(O)
  BY <1>1 DEF AllDue
<1> HIDE DEF n, a
<1>5. ToSet(l.fibers) \subseteq ToSet(a.fibers) /\ ToSet(l.plugins) \subseteq ToSet(a.plugins)
  BY <1>2, <1>3, LedgerFacts, StartSubset
<1>6. ToStart(l) \subseteq DueOf(a)
  BY <1>1, <1>3, <1>5 DEF ToStart, DueOf, Due
<1>7. StepsOf(a.id) \subseteq Steps
  BY <1>2, StepsApart
<1> QED BY <1>1, <1>2, <1>4, <1>6, <1>7, NoneAssumption DEF n, a

\* A new ledger has the books of a composition no step of which was started.
LEMMA FreshSwept ==
    ASSUME NEW c \in Compositions, NEW O \in Seq(Acquired), FollowsPlan(c, O), NEW st, NEW oc,
           \A s \in StepsIn(c) : st[s] = 0 /\ oc[s] = "none"
    PROVE  Swept(O, NewLedger(O), st, oc)
<1> DEFINE l == NewLedger(O)
<1>1. /\ l.queue = O /\ l.current = None /\ l.hook = FALSE /\ l.fibers = <<>> /\ l.plugins = <<>>
      /\ l.inFlight = None /\ l.cleaned = {} /\ l.failures = {}
  BY DEF NewLedger
<1> HIDE DEF l
<1>2. Len(O) \in Nat /\ Done(l) = Len(O)
  BY <1>1, AcquiredFacts DEF Done
<1>3. Shape(O, l)
  BY <1>1, StartOfSelf DEF Shape
<1>4. \A j \in 1..Len(O) : \A s \in StepsOf(O[j].id) : st[s] = 0 /\ oc[s] = "none"
  BY AcquiredFacts
<1>5. Progress(O, l, st, oc)
  BY <1>1, <1>2, <1>4 DEF Progress
<1>6. \A s \in AllDue(O) : oc[s] = "none"
  <2>1. \A j \in 1..Len(O) : DueOf(O[j]) \subseteq StepsOf(O[j].id)
    BY AcquiredFacts
  <2> QED BY <1>4, <2>1 DEF AllDue
<1>7. Books(O, l, oc)
  BY <1>1, <1>2, <1>6 DEF Books, Unsuccessful, CleanFrom
<1> QED BY <1>3, <1>5, <1>7 DEF Swept, l

\* The books depend on the part of a ledger that a sweep works on, and on the
\* history of the composition's own steps.
SameWork(l, k) ==
    /\ k.queue = l.queue /\ k.current = l.current /\ k.hook = l.hook /\ k.fibers = l.fibers
    /\ k.plugins = l.plugins /\ k.clean = l.clean /\ k.inFlight = l.inFlight
    /\ k.cleaned = l.cleaned /\ k.failures = l.failures

\* The books agree after a change of what they do not depend on.
LEMMA SameSwept ==
    ASSUME NEW c \in Compositions, NEW O \in Seq(Acquired), FollowsPlan(c, O),
           NEW l \in Ledger, NEW k, SameWork(l, k), NEW st, NEW oc, NEW st2, NEW oc2,
           \A s \in StepsIn(c) : st2[s] = st[s] /\ oc2[s] = oc[s],
           Swept(O, l, st, oc)
    PROVE  Swept(O, k, st2, oc2)
<1>1. Shape(O, k)
  BY DEF Swept, Shape, SameWork
<1>2. ToStart(k) = ToStart(l) /\ Done(k) = Done(l)
  BY DEF SameWork, ToStart, Done
<1>3. /\ \A j \in 1..Len(O) : \A s \in StepsOf(O[j].id) : st2[s] = st[s] /\ oc2[s] = oc[s]
      /\ \A j \in 1..Len(O) : \A s \in DueOf(O[j]) : st2[s] = st[s] /\ oc2[s] = oc[s]
  BY AcquiredFacts
<1>4. /\ \A j \in 1..Len(l.queue) : j \in 1..Len(O)
      /\ l.current # None => Len(l.queue) + 1 \in 1..Len(O)
  BY LedgerFacts, AcquiredFacts, CurrentFacts DEF Swept, Shape, StartOf
<1>5. Progress(O, k, st2, oc2)
  BY <1>2, <1>3, <1>4 DEF Swept, Progress, SameWork
<1>6. Unsuccessful(AllDue(O), oc2) = Unsuccessful(AllDue(O), oc)
  BY <1>3 DEF AllDue, Unsuccessful
<1>7. Books(O, k, oc2)
  BY <1>2, <1>6 DEF Swept, Books, SameWork
<1> QED BY <1>1, <1>5, <1>7 DEF Swept

\* begin_next: the last module of the queue becomes the current one.
LEMMA BeginSwept ==
    ASSUME NEW c \in Compositions, NEW O \in Seq(Acquired), FollowsPlan(c, O),
           NEW l \in Ledger, NEW st, NEW oc, Swept(O, l, st, oc),
           l.current = None, l.queue # <<>>, NEW k,
           k.queue = Front(l.queue), k.current = Last(l.queue).id,
           k.hook = (Last(l.queue).armed /\ Last(l.queue).id \in DisposeHooks),
           k.fibers = Last(l.queue).fibers, k.plugins = Last(l.queue).plugins, k.clean = TRUE,
           k.inFlight = l.inFlight, k.cleaned = l.cleaned, k.failures = l.failures
    PROVE  Swept(O, k, st, oc)
<1> DEFINE n == Len(l.queue)
           a == O[n]
<1>1. l.queue \in Seq(Acquired) /\ StartOf(l.queue, O) /\ l.inFlight = None
  BY LedgerFacts DEF Swept, Shape
<1>2. n \in 1..Len(O) /\ Last(l.queue) = a /\ StartOf(k.queue, O)
  BY <1>1, FrontStart
<1>3. Len(k.queue) = n - 1 /\ Len(O) \in Nat /\ n \in Nat
  <2>1. Len(O) \in Nat /\ n \in Nat
    BY <1>1
  <2>2. Len(Front(l.queue)) = n - 1
    BY <1>1, FrontLast
  <2> QED BY <2>1, <2>2
<1>4. a \in Acquired /\ a.fibers \in Seq(Plugins) /\ a.plugins \in Seq(Plugins) /\ a.id \in Modules
      /\ DueOf(a) \subseteq StepsOf(a.id)
  BY <1>2, AcquiredFacts
<1>5. k.current # None /\ k.current = a.id /\ Len(k.queue) + 1 = n
  BY <1>2, <1>3, <1>4, NoneAssumption
<1> HIDE DEF a
<1>6. StartOf(k.fibers, a.fibers) /\ StartOf(k.plugins, a.plugins)
  BY <1>2, <1>4, StartOfSelf
<1>7. Shape(O, k)
  <2>1. O[Len(k.queue) + 1] = a /\ Len(k.queue) < Len(O)
    BY <1>2, <1>3, <1>5 DEF a
  <2>2. k.hook => a.armed /\ a.id \in DisposeHooks
    BY <1>2
  <2> QED BY <1>2, <1>5, <1>6, <2>1, <2>2 DEF Shape
<1>8. Done(l) = n /\ Done(k) = n
  BY <1>3, <1>5 DEF Done
<1>9. ToStart(k) = DueOf(a)
  BY <1>2, <1>5 DEF ToStart, DueOf
<1>10. \A s \in StepsOf(a.id) : st[s] = 0 /\ oc[s] = "none"
  BY <1>2, <1>3 DEF Swept, Progress, a
<1>11. \A s \in StepsOf(a.id) : s # None
  BY <1>4, StepsApart, NoneAssumption
<1>12. Progress(O, k, st, oc)
  <2>1. \A j \in 1..Len(k.queue) : \A s \in StepsOf(O[j].id) : st[s] = 0 /\ oc[s] = "none"
    BY <1>3 DEF Swept, Progress
  <2>2. \A s \in DueOf(a) : s \in ToStart(k) /\ st[s] = 0 /\ oc[s] = "none" /\ s # k.inFlight
    BY <1>1, <1>4, <1>9, <1>10, <1>11
  <2>3. \A j \in 1..Len(O) : j > Done(k) => \A s \in DueOf(O[j]) : oc[s] # "none"
    BY <1>8 DEF Swept, Progress
  <2> QED BY <1>1, <1>5, <2>1, <2>2, <2>3 DEF Progress, a
<1>13. StepsOf(k.current) \cap k.failures = {}
  BY <1>5, <1>10 DEF Swept, Books, Unsuccessful
<1>14. Books(O, k, oc)
  BY <1>8, <1>13 DEF Swept, Books
<1> QED BY <1>7, <1>12, <1>14 DEF Swept

\* The histories f and g agree except at s.
AgreeBut(s, f, g) == \A t \in Steps : t # s => g[t] = f[t]

\* From the ledger l the step s is taken and parked in k.
Parks(l, k, s) ==
    /\ l.current # None /\ l.inFlight = None /\ s \in ToStart(l)
    /\ k.queue = l.queue /\ k.current = l.current /\ k.inFlight = s
    /\ ToStart(k) = ToStart(l) \ {s}
    /\ k.clean = l.clean /\ k.cleaned = l.cleaned /\ k.failures = l.failures

\* They agree when a step is parked (run_sweep puts the future in the ledger).
LEMMA StartSwept ==
    ASSUME NEW c \in Compositions, NEW O \in Seq(Acquired), FollowsPlan(c, O),
           NEW l \in Ledger, NEW st, NEW oc, Swept(O, l, st, oc),
           NEW k, NEW s, Parks(l, k, s), Shape(O, k), NEW st2, AgreeBut(s, st, st2)
    PROVE  Swept(O, k, st2, oc) /\ st[s] = 0 /\ oc[s] = "none"
<1>0. /\ l.current # None /\ l.inFlight = None /\ s \in ToStart(l)
      /\ k.queue = l.queue /\ k.current = l.current /\ k.inFlight = s
      /\ ToStart(k) = ToStart(l) \ {s}
      /\ k.clean = l.clean /\ k.cleaned = l.cleaned /\ k.failures = l.failures
      /\ \A t \in Steps : t # s => st2[t] = st[t]
  BY DEF Parks, AgreeBut
<1> USE <1>0
<1> DEFINE n == Len(l.queue) + 1
<1>1. /\ n \in 1..Len(O) /\ l.current = O[n].id /\ ToStart(l) \subseteq DueOf(O[n])
      /\ DueOf(O[n]) \subseteq StepsOf(O[n].id) /\ StepsOf(O[n].id) \subseteq Steps
  BY CurrentFacts DEF Swept
<1>2. Len(O) \in Nat /\ n \in Nat /\ Len(k.queue) + 1 = n /\ Len(k.queue) < n
  BY LedgerFacts, AcquiredFacts
<1>3. s \in StepsOf(O[n].id) /\ s \in DueOf(O[n]) /\ s \in Steps /\ s # None
  BY <1>1, NoneAssumption
<1>4. Done(k) = Done(l)
  BY DEF Done
<1>5. st[s] = 0 /\ oc[s] = "none"
  BY <1>3 DEF Swept, Progress
<1>6. ASSUME NEW j \in 1..Len(k.queue), NEW t \in StepsOf(O[j].id)
      PROVE  st2[t] = 0 /\ oc[t] = "none"
  <2>1. j \in 1..Len(O) /\ j # n
    BY <1>1, <1>2
  <2>2. t # s /\ t \in Steps
    BY <1>1, <1>3, <2>1, AcquiredFacts, StepsApart
  <2> QED BY <2>2 DEF Swept, Progress
<1>7. ASSUME NEW t \in DueOf(O[n])
      PROVE  IF t \in ToStart(k) THEN st2[t] = 0 /\ oc[t] = "none" /\ t # k.inFlight
             ELSE oc[t] = "none" <=> t = k.inFlight
  <2>1. IF t \in ToStart(l) THEN st[t] = 0 /\ oc[t] = "none" ELSE oc[t] = "none" <=> t = l.inFlight
    BY DEF Swept, Progress
  <2>2. t \in Steps /\ t # None
    BY <1>1, NoneAssumption
  <2>3. CASE t = s
    BY <1>5, <2>3
  <2>4. CASE t # s
    BY <2>1, <2>2, <2>4
  <2> QED BY <2>3, <2>4
<1>8. \A j \in 1..Len(O) : j > Done(k) => \A t \in DueOf(O[j]) : oc[t] # "none"
  BY <1>4 DEF Swept, Progress
<1>9. Progress(O, k, st2, oc)
  BY <1>2, <1>3, <1>6, <1>7, <1>8 DEF Progress
<1>10. Books(O, k, oc)
  BY <1>4 DEF Swept, Books
<1> QED BY <1>5, <1>9, <1>10 DEF Swept

\* With the outcome o ends the step s: the one in flight, or one that needs no
\* future.
Settles(l, k, s, o) ==
    /\ l.current # None /\ s # None
    /\ k.queue = l.queue /\ k.current = l.current /\ k.inFlight = None /\ k.cleaned = l.cleaned
    /\ \/ s = l.inFlight /\ ToStart(k) = ToStart(l)
       \/ l.inFlight = None /\ s \in ToStart(l) /\ ToStart(k) = ToStart(l) \ {s}
    /\ \/ o \in {"ok", "gone"} /\ k.clean = l.clean /\ k.failures = l.failures
       \/ o \in {"failed", "lost"} /\ k.clean = FALSE /\ k.failures = l.failures \cup {s}

\* They agree when a step has ended, or needs no start.
LEMMA SettleSwept ==
    ASSUME NEW c \in Compositions, NEW O \in Seq(Acquired), FollowsPlan(c, O),
           NEW l \in Ledger, NEW st, NEW oc, Swept(O, l, st, oc),
           NEW k, NEW s, NEW o, Settles(l, k, s, o), Shape(O, k),
           NEW oc2, AgreeBut(s, oc, oc2), oc2[s] = o
    PROVE  Swept(O, k, st, oc2) /\ oc[s] = "none"
<1>0. /\ l.current # None /\ s # None
      /\ k.queue = l.queue /\ k.current = l.current /\ k.inFlight = None /\ k.cleaned = l.cleaned
      /\ \/ s = l.inFlight /\ ToStart(k) = ToStart(l)
         \/ l.inFlight = None /\ s \in ToStart(l) /\ ToStart(k) = ToStart(l) \ {s}
      /\ \/ oc2[s] \in {"ok", "gone"} /\ k.clean = l.clean /\ k.failures = l.failures
         \/ oc2[s] \in {"failed", "lost"} /\ k.clean = FALSE /\ k.failures = l.failures \cup {s}
      /\ \A t \in Steps : t # s => oc2[t] = oc[t]
  BY DEF Settles, AgreeBut
<1> USE <1>0
<1> DEFINE n == Len(l.queue) + 1
<1>1. /\ n \in 1..Len(O) /\ l.current = O[n].id /\ ToStart(l) \subseteq DueOf(O[n])
      /\ DueOf(O[n]) \subseteq StepsOf(O[n].id) /\ StepsOf(O[n].id) \subseteq Steps /\ Done(l) = n
      /\ DueOf(O[n]) \subseteq AllDue(O)
  BY CurrentFacts DEF Swept
<1>2. Len(O) \in Nat /\ n \in Nat /\ Len(k.queue) + 1 = n /\ Len(k.queue) < n
  BY LedgerFacts, AcquiredFacts
<1>3. s \in DueOf(O[n]) /\ s \in StepsOf(O[n].id) /\ s \in Steps /\ s \in AllDue(O)
  BY <1>1 DEF Swept, Progress
<1>4. Done(k) = Done(l)
  BY DEF Done
<1>5. oc[s] = "none"
  BY <1>3 DEF Swept, Progress
<1>6. \A j \in 1..Len(O) : j # n => \A t \in StepsOf(O[j].id) : t # s /\ t \in Steps /\ oc2[t] = oc[t]
  <2> HIDE DEF n
  <2>1. SUFFICES ASSUME NEW j \in 1..Len(O), j # n, NEW t \in StepsOf(O[j].id)
                 PROVE  t # s /\ t \in Steps
    OBVIOUS
  <2>2. O[j].id \in Modules /\ StepsOf(O[j].id) \cap StepsOf(O[n].id) = {}
    BY <1>1, <2>1, AcquiredFacts
  <2> QED BY <1>3, <2>2, StepsApart
<1>7. ASSUME NEW j \in 1..Len(k.queue), NEW t \in StepsOf(O[j].id)
      PROVE  st[t] = 0 /\ oc2[t] = "none"
  <2>1. j \in 1..Len(O) /\ j # n
    BY <1>1, <1>2
  <2>2. st[t] = 0 /\ oc[t] = "none"
    BY DEF Swept, Progress
  <2> QED BY <1>6, <2>1, <2>2
<1>8. ASSUME NEW t \in DueOf(O[n])
      PROVE  IF t \in ToStart(k) THEN st[t] = 0 /\ oc2[t] = "none" /\ t # k.inFlight
             ELSE oc2[t] = "none" <=> t = k.inFlight
  <2>1. IF t \in ToStart(l) THEN st[t] = 0 /\ oc[t] = "none" /\ t # l.inFlight
        ELSE oc[t] = "none" <=> t = l.inFlight
    BY DEF Swept, Progress
  <2>2. t \in Steps /\ t # None
    BY <1>1, NoneAssumption
  <2>3. CASE t = s
    BY <2>1, <2>2, <2>3
  <2>4. CASE t # s
    BY <2>1, <2>2, <2>4
  <2> QED BY <2>3, <2>4
<1>9. ASSUME NEW j \in 1..Len(O), j > Done(k), NEW t \in DueOf(O[j])
      PROVE  oc2[t] # "none"
  <2>1. j # n
    BY <1>1, <1>2, <1>4, <1>9
  <2>2. oc[t] # "none"
    BY <1>4, <1>9 DEF Swept, Progress
  <2>3. t \in StepsOf(O[j].id)
    BY AcquiredFacts
  <2> QED BY <1>6, <2>1, <2>2, <2>3
<1>10. Progress(O, k, st, oc2)
  BY <1>2, <1>7, <1>8, <1>9 DEF Progress
<1>11. AllDue(O) \subseteq Steps
  <2>1. \A j \in 1..Len(O) : DueOf(O[j]) \subseteq StepsOf(O[j].id) /\ O[j].id \in Modules
    BY AcquiredFacts
  <2>2. \A j \in 1..Len(O) : DueOf(O[j]) \subseteq Steps
    BY <2>1, StepsApart
  <2> QED BY <2>2 DEF AllDue
<1>12. l.failures = Unsuccessful(AllDue(O), oc) /\ s \notin l.failures
  BY <1>5 DEF Swept, Books, Unsuccessful
<1>13. k.failures = Unsuccessful(AllDue(O), oc2)
  BY <1>3, <1>11, <1>12 DEF Unsuccessful
<1>14. k.cleaned = CleanFrom(O, Done(k), k.failures)
  <2>1. \A i \in 1..Len(O) : i > Done(k) =>
           (StepsOf(O[i].id) \cap k.failures = {} <=> StepsOf(O[i].id) \cap l.failures = {})
    BY <1>1, <1>2, <1>4, <1>6
  <2>2. k.cleaned = CleanFrom(O, Done(k), l.failures)
    BY <1>4 DEF Swept, Books
  <2> QED BY <2>1, <2>2 DEF CleanFrom
<1>15. k.clean <=> StepsOf(k.current) \cap k.failures = {}
  <2>1. l.clean <=> StepsOf(l.current) \cap l.failures = {}
    BY DEF Swept, Books
  <2> QED BY <1>1, <1>3, <2>1
<1>16. Books(O, k, oc2)
  BY <1>13, <1>14, <1>15 DEF Books
<1> QED BY <1>5, <1>10, <1>16 DEF Swept

\* finish_current: every step of the module has ended.
LEMMA FinishSwept ==
    ASSUME NEW c \in Compositions, NEW O \in Seq(Acquired), FollowsPlan(c, O),
           NEW l \in Ledger, NEW st, NEW oc, Swept(O, l, st, oc), l.current # None,
           l.inFlight = None, ~l.hook, l.fibers = <<>>, l.plugins = <<>>,
           NEW k, k.queue = l.queue, k.current = None, k.hook = l.hook, k.fibers = l.fibers,
           k.plugins = l.plugins, k.inFlight = None, k.failures = l.failures,
           k.cleaned = l.cleaned \cup {m \in {l.current} : l.clean}
    PROVE  Swept(O, k, st, oc)
<1> DEFINE n == Len(l.queue) + 1
<1>1. /\ n \in 1..Len(O) /\ l.current = O[n].id /\ Done(l) = n
      /\ DueOf(O[n]) \subseteq StepsOf(O[n].id) /\ StepsOf(O[n].id) \subseteq Steps
  BY CurrentFacts DEF Swept
<1>2. Len(O) \in Nat /\ n \in Nat /\ Len(k.queue) = n - 1 /\ Done(k) = n - 1
  BY LedgerFacts, AcquiredFacts DEF Done
<1>3. Shape(O, k)
  BY DEF Swept, Shape
<1>4. ToStart(l) = {}
  BY DEF ToStart, Due, ToSet
<1>5. \A s \in DueOf(O[n]) : oc[s] # "none"
  <2>1. \A s \in DueOf(O[n]) : s # None
    BY <1>1, NoneAssumption
  <2> QED BY <1>4, <2>1 DEF Swept, Progress
<1>6. \A j \in 1..Len(O) : j > Done(k) => \A s \in DueOf(O[j]) : oc[s] # "none"
  <2>1. SUFFICES ASSUME NEW j \in 1..Len(O), j > Done(k) PROVE \A s \in DueOf(O[j]) : oc[s] # "none"
    OBVIOUS
  <2>2. j = n \/ j > Done(l)
    BY <1>1, <1>2, <2>1
  <2>3. CASE j = n
    BY <1>5, <2>3
  <2>4. CASE j > Done(l)
    BY <2>4 DEF Swept, Progress
  <2> QED BY <2>2, <2>3, <2>4
<1>7. Progress(O, k, st, oc)
  BY <1>2, <1>6 DEF Swept, Progress
<1>8. k.cleaned = CleanFrom(O, n - 1, k.failures)
  <2>1. l.cleaned = CleanFrom(O, n, l.failures) /\ (l.clean <=> StepsOf(O[n].id) \cap l.failures = {})
    BY <1>1 DEF Swept, Books
  <2> HIDE DEF n
  <2>2. \A i \in 1..Len(O) : i > n - 1 <=> i = n \/ i > n
    BY <1>1, <1>2
  <2>3. CleanFrom(O, n - 1, l.failures)
           = CleanFrom(O, n, l.failures) \cup {m \in {O[n].id} : StepsOf(O[n].id) \cap l.failures = {}}
    BY <1>1, <2>2 DEF CleanFrom
  <2> QED BY <1>1, <2>1, <2>3
<1>9. Books(O, k, oc)
  BY <1>2, <1>8 DEF Swept, Books
<1> QED BY <1>3, <1>7, <1>9 DEF Swept

----------------------------------------------------------------------------
(* The steps of a sweep *)

\* What a step of c leaves alone.
OnlyLedger(c, k) ==
    /\ ledger' = [ledger EXCEPT ![c] = k]
    /\ UNCHANGED <<phase, at, owned, release, interrupts, owed, report>>

\* Whoever sweeps has a ledger.
LEMMA SweepingLedger ==
    ASSUME NEW c \in Compositions, TypeInv, PhaseInv(c), AuthorityInv(c), Sweeping(c)
    PROVE  ledger[c] \in Ledger /\ ledger[c] # None
<1>1. ledger[c] # None
  BY DEF Sweeping, PhaseInv, AuthorityInv, CallInv, TypeInv, Call
<1> QED BY <1>1 DEF TypeInv

\* The ledger that begins with the last module of its queue.
LEMMA BeginShape ==
    ASSUME NEW c \in Compositions, TypeInv, ledger[c] \in Ledger, BeginModule(c)
    PROVE  \E k \in Ledger :
             LET l == ledger[c]
                 m == Last(l.queue)
             IN  /\ OnlyLedger(c, k) /\ UNCHANGED <<registry, fiber, starts, outcome>>
                 /\ l.current = None /\ l.queue # <<>>
                 /\ k.queue = Front(l.queue) /\ k.current = m.id
                 /\ k.hook = (m.armed /\ m.id \in DisposeHooks)
                 /\ k.fibers = m.fibers /\ k.plugins = m.plugins /\ k.clean = TRUE
                 /\ k.inFlight = l.inFlight /\ k.cleaned = l.cleaned /\ k.failures = l.failures
                 /\ k.accepted = l.accepted
<1> DEFINE l == ledger[c]
           m == Last(l.queue)
           k == [l EXCEPT !.queue = Front(l.queue), !.current = m.id,
                          !.hook = m.armed /\ m.id \in DisposeHooks,
                          !.fibers = m.fibers, !.plugins = m.plugins, !.clean = TRUE]
<1>1. l.queue # <<>> /\ l.current = None
  BY DEF BeginModule
<1>2. m \in Acquired /\ Front(l.queue) \in Seq(Acquired)
  BY <1>1, LedgerFacts, FrontLast
<1>3. m.id \in Modules /\ m.fibers \in Seq(Plugins) /\ m.plugins \in Seq(Plugins) /\ m.armed \in BOOLEAN
  BY <1>2 DEF Acquired
<1>4. TakeNext(l.queue)[1] = m /\ TakeNext(l.queue)[2] = Front(l.queue)
  BY DEF TakeNext
<1>5. ledger' = [ledger EXCEPT ![c] = k]
  BY <1>4 DEF BeginModule, TypeInv
<1> HIDE DEF m
<1>6. k \in Ledger
  BY <1>2, <1>3 DEF Ledger
<1>7. /\ k.queue = Front(l.queue) /\ k.current = m.id /\ k.hook = (m.armed /\ m.id \in DisposeHooks)
      /\ k.fibers = m.fibers /\ k.plugins = m.plugins /\ k.clean = TRUE /\ k.inFlight = l.inFlight
      /\ k.cleaned = l.cleaned /\ k.failures = l.failures /\ k.accepted = l.accepted
  BY DEF Ledger
<1>8. OnlyLedger(c, k) /\ UNCHANGED <<registry, fiber, starts, outcome>>
  BY <1>5 DEF BeginModule, OnlyLedger, history
<1> HIDE DEF k
<1> QED BY <1>1, <1>6, <1>7, <1>8 DEF m

\* The types of the history variables.
HistoryOK(st, oc) == st \in [Steps -> Nat] /\ oc \in [Steps -> {"none", "ok", "failed", "lost", "gone"}]

\* A step of c leaves the history of the other compositions alone, starts
\* nothing twice and undoes no outcome.
HistoryStep(c) ==
    /\ HistoryOK(starts', outcome')
    /\ \A s \in Steps : s \notin StepsIn(c) => starts'[s] = starts[s] /\ outcome'[s] = outcome[s]
    /\ \A s \in Steps : starts'[s] <= 1
    /\ \A s \in Steps : outcome[s] # "none" => outcome'[s] # "none"

\* The plugins of c are still accounted for by the ledger k.
Accounted(c, k, reg, fib) ==
    /\ reg \subseteq ToRemove(k)
    /\ \A p \in PluginsIn(c) : fib[p] \in {"created", "started"} =>
           p \in reg \/ k.inFlight = RemovalStep(p)

\* Only the composition's own plugins are touched.
PluginStep(c) ==
    /\ registry' \in [Compositions -> SUBSET Plugins]
    /\ fiber' \in [Plugins -> {"none", "created", "started", "disposed"}]
    /\ \A d \in Compositions : d # c => registry'[d] = registry[d]
    /\ \A p \in Plugins : p \notin PluginsIn(c) => fiber'[p] = fiber[p]

\* What every step of a sweep does.
SweepStep(c) ==
    \E k \in Ledger :
        /\ OnlyLedger(c, k) /\ k.accepted = ledger[c].accepted
        /\ Swept(owned[c], k, starts', outcome')
        /\ HistoryStep(c) /\ PluginStep(c)
        /\ InReach(c) => Accounted(c, k, registry'[c], fiber')

\* What a sweep finds.
LEMMA SweepFacts ==
    ASSUME IInv, NEW c \in Compositions, Sweeping(c)
    PROVE  /\ ledger[c] \in Ledger /\ ledger[c] # None
           /\ owned[c] \in Seq(Acquired) /\ FollowsPlan(c, owned[c])
           /\ HistoryOK(starts, outcome)
           /\ Swept(owned[c], ledger[c], starts, outcome)
           /\ InReach(c) => Accounted(c, ledger[c], registry[c], fiber)
<1>1. ledger[c] \in Ledger /\ ledger[c] # None
  BY SweepingLedger DEF IInv, CInv
<1>2. Work(c) = ledger[c] /\ Live(c)
  BY <1>1 DEF Work, Live
<1>3. Swept(owned[c], ledger[c], starts, outcome)
  BY <1>2 DEF IInv, CInv, SweepInv
<1>4. InReach(c) => Accounted(c, ledger[c], registry[c], fiber)
  BY <1>2 DEF IInv, CInv, ClearInv, Accounted
<1> QED BY <1>1, <1>3, <1>4 DEF IInv, TypeInv, CInv, OwnedInv, HistoryOK

\* The step a sweep may touch belongs to the composition.
LEMMA CurrentIn ==
    ASSUME NEW c \in Compositions, NEW O \in Seq(Acquired), FollowsPlan(c, O),
           NEW l \in Ledger, Shape(O, l), l.current # None
    PROVE  DueOf(O[Len(l.queue) + 1]) \subseteq StepsIn(c)
<1> DEFINE n == Len(l.queue) + 1
<1>1. n \in 1..Len(O)
  BY CurrentFacts
<1> HIDE DEF n
<1>2. DueOf(O[n]) \subseteq StepsIn(c)
  BY <1>1, AcquiredFacts
<1> QED BY <1>2 DEF n

\* A step is parked.
LEMMA ParkHistory ==
    ASSUME IInv, NEW c \in Compositions, Sweeping(c), NEW s,
           NEW k, Parks(ledger[c], k, s), Shape(owned[c], k),
           starts' = [starts EXCEPT ![s] = @ + 1], outcome' = outcome
    PROVE  Swept(owned[c], k, starts', outcome') /\ HistoryStep(c)
<1> DEFINE l == ledger[c]
           O == owned[c]
<1>1. /\ l \in Ledger /\ O \in Seq(Acquired) /\ FollowsPlan(c, O) /\ HistoryOK(starts, outcome)
      /\ Swept(O, l, starts, outcome) /\ Parks(l, k, s) /\ Shape(O, k)
  BY SweepFacts
<1>2. Shape(O, l) /\ l.current # None /\ s \in ToStart(l)
  BY <1>1 DEF Swept, Parks
<1> HIDE DEF l, O
<1>3. s \in StepsIn(c) /\ s \in Steps
  BY <1>1, <1>2, CurrentFacts, CurrentIn
<1>4. AgreeBut(s, starts, starts')
  BY <1>1 DEF HistoryOK, AgreeBut
<1>5. Swept(O, k, starts', outcome) /\ starts[s] = 0
  BY <1>1, <1>4, StartSwept
<1>6. HistoryStep(c)
  BY <1>1, <1>3, <1>5 DEF HistoryOK, HistoryStep, IInv, Once
<1> QED BY <1>5, <1>6 DEF O

\* A step ends.
LEMMA SettleHistory ==
    ASSUME IInv, NEW c \in Compositions, Sweeping(c), NEW s \in Steps,
           NEW o \in {"ok", "gone", "failed", "lost"},
           NEW k, Settles(ledger[c], k, s, o), Shape(owned[c], k),
           starts' = starts, outcome' = [outcome EXCEPT ![s] = o]
    PROVE  Swept(owned[c], k, starts', outcome') /\ HistoryStep(c)
<1> DEFINE l == ledger[c]
           O == owned[c]
<1>1. /\ l \in Ledger /\ O \in Seq(Acquired) /\ FollowsPlan(c, O) /\ HistoryOK(starts, outcome)
      /\ Swept(O, l, starts, outcome) /\ Settles(l, k, s, o) /\ Shape(O, k)
  BY SweepFacts
<1>2. /\ Shape(O, l) /\ l.current # None /\ s # None
      /\ s \in ToStart(l) \/ s = l.inFlight
  BY <1>1 DEF Swept, Settles
<1> HIDE DEF l, O
<1>4. s \in StepsIn(c)
  <2>1. s \in DueOf(O[Len(l.queue) + 1])
    BY <1>1, <1>2, CurrentFacts DEF Swept, Progress
  <2> QED BY <1>1, <1>2, <2>1, CurrentIn
<1>5. AgreeBut(s, outcome, outcome') /\ outcome'[s] = o
  BY <1>1 DEF HistoryOK, AgreeBut
<1>6. Swept(O, k, starts, outcome')
  BY <1>1, <1>5, SettleSwept
<1>7. HistoryStep(c)
  <2>1. \A t \in Steps : t # s => outcome'[t] = outcome[t]
    BY <1>5 DEF AgreeBut
  <2> QED BY <1>1, <1>4, <1>5, <2>1 DEF HistoryOK, HistoryStep, IInv, Once
<1> QED BY <1>6, <1>7 DEF O

\* Parked steps and None.
LEMMA RemovalNotNone ==
    ASSUME NEW c \in Compositions, NEW p \in PluginsIn(c)
    PROVE  RemovalStep(p) # None /\ RemovalStep(p) \in Steps
<1>1. PICK m \in ModulesOf[c] : p \in ToSet(PluginsOf[m])
  BY DEF PluginsIn
<1>2. RemovalStep(p) \in StepsOf(m) /\ m \in Modules
  BY <1>1, PlanFacts DEF StepsOf
<1> QED BY <1>2, StepsApart, NoneAssumption

\* BeginModule is such a step.
LEMMA BeginStep ==
    ASSUME IInv, NEW c \in Compositions, BeginModule(c)
    PROVE  SweepStep(c)
<1> DEFINE l == ledger[c]
           O == owned[c]
           m == Last(l.queue)
<1>1. /\ l \in Ledger /\ O \in Seq(Acquired) /\ FollowsPlan(c, O) /\ HistoryOK(starts, outcome)
      /\ Swept(O, l, starts, outcome)
      /\ InReach(c) => Accounted(c, l, registry[c], fiber)
  BY SweepFacts DEF BeginModule, Idle
<1>2. TypeInv
  BY DEF IInv
<1>3. PICK k \in Ledger :
         /\ OnlyLedger(c, k) /\ UNCHANGED <<registry, fiber, starts, outcome>>
         /\ l.current = None /\ l.queue # <<>>
         /\ k.queue = Front(l.queue) /\ k.current = m.id
         /\ k.hook = (m.armed /\ m.id \in DisposeHooks)
         /\ k.fibers = m.fibers /\ k.plugins = m.plugins /\ k.clean = TRUE
         /\ k.inFlight = l.inFlight /\ k.cleaned = l.cleaned /\ k.failures = l.failures
         /\ k.accepted = l.accepted
  BY <1>1, <1>2, BeginShape
<1> HIDE DEF l, O
<1>4. Swept(O, k, starts, outcome)
  BY <1>1, <1>3, BeginSwept DEF m
<1>5. HistoryStep(c) /\ PluginStep(c)
  BY <1>1, <1>2, <1>3 DEF HistoryStep, HistoryOK, PluginStep, IInv, Once, TypeInv
<1>6. ToRemove(l) \subseteq ToRemove(k)
  <2>1. l.queue \in Seq(Acquired) /\ l.queue # <<>> /\ l.plugins = <<>>
    BY <1>1, <1>3, LedgerFacts DEF Swept, Shape
  <2>2. /\ Len(k.queue) = Len(l.queue) - 1 /\ Len(l.queue) \in Nat
        /\ \A j \in 1..(Len(l.queue) - 1) : k.queue[j] = l.queue[j]
        /\ k.plugins = l.queue[Len(l.queue)].plugins
    BY <1>3, <2>1, FrontLast DEF m
  <2>3. ASSUME NEW j \in 1..Len(l.queue) PROVE ToSet(l.queue[j].plugins) \subseteq ToRemove(k)
    <3>1. CASE j = Len(l.queue)
      <4>1. l.queue[j].plugins = k.plugins
        BY <2>2, <3>1
      <4>2. ToSet(k.plugins) \subseteq ToRemove(k)
        BY DEF ToRemove
      <4> QED BY <4>1, <4>2
    <3>2. CASE j # Len(l.queue)
      <4>1. j \in 1..Len(k.queue) /\ k.queue[j] = l.queue[j]
        BY <2>2, <3>2
      <4> QED BY <4>1 DEF ToRemove
    <3> QED BY <3>1, <3>2
  <2>4. ToSet(l.plugins) = {}
    BY <2>1 DEF ToSet
  <2> QED BY <2>3, <2>4 DEF ToRemove
<1>7. InReach(c) => Accounted(c, k, registry'[c], fiber')
  BY <1>1, <1>3, <1>6 DEF Accounted
<1> QED BY <1>3, <1>4, <1>5, <1>7 DEF SweepStep, l, O

\* A step that is not a removal is parked, and nothing leaves the registry.
LEMMA ParkStep ==
    ASSUME IInv, NEW c \in Compositions, Sweeping(c), NEW s,
           NEW k \in Ledger, Parks(ledger[c], k, s), Shape(owned[c], k),
           k.plugins = ledger[c].plugins, k.accepted = ledger[c].accepted,
           starts' = [starts EXCEPT ![s] = @ + 1], OnlyLedger(c, k),
           UNCHANGED <<registry, fiber, outcome>>
    PROVE  SweepStep(c)
<1>1. /\ Swept(owned[c], k, starts', outcome') /\ HistoryStep(c)
  BY ParkHistory
<1>2. PluginStep(c)
  BY DEF PluginStep, IInv, TypeInv
<1>3. InReach(c) => Accounted(c, k, registry'[c], fiber')
  <2>1. ToRemove(k) = ToRemove(ledger[c]) /\ ledger[c].inFlight = None
    BY DEF ToRemove, Parks
  <2> QED BY <2>1, SweepFacts, RemovalNotNone DEF Accounted
<1> QED BY <1>1, <1>2, <1>3 DEF SweepStep

\* StartHook is such a step.
LEMMA HookStepStarts ==
    ASSUME IInv, NEW c \in Compositions, StartHook(c)
    PROVE  SweepStep(c)
<1> DEFINE l == ledger[c]
           s == HookStep(l.current)
           k == [l EXCEPT !.hook = FALSE, !.inFlight = s]
<1>1. /\ Sweeping(c) /\ l.inFlight = None /\ l.current # None /\ l.hook
  BY DEF StartHook, InModule, Idle
<1>2. l \in Ledger /\ Swept(owned[c], l, starts, outcome)
  BY <1>1, SweepFacts
<1>3. s \in ToStart(l)
  BY <1>1 DEF ToStart, Due
<1>4. s \in Steps
  BY <1>1, <1>2, <1>3, CurrentFacts, SweepFacts DEF Swept
<1>5. OnlyLedger(c, k) /\ starts' = [starts EXCEPT ![s] = @ + 1] /\ UNCHANGED <<registry, fiber, outcome>>
  BY <1>2 DEF StartHook, Park, OnlyLedger
<1> HIDE DEF s
<1>6. k \in Ledger
  BY <1>2, <1>4 DEF Ledger
<1>7. /\ k.queue = l.queue /\ k.current = l.current /\ k.hook = FALSE /\ k.fibers = l.fibers
      /\ k.plugins = l.plugins /\ k.clean = l.clean /\ k.inFlight = s /\ k.cleaned = l.cleaned
      /\ k.failures = l.failures /\ k.accepted = l.accepted
  BY <1>2 DEF Ledger
<1> HIDE DEF k
<1>8. ToStart(k) = ToStart(l) \ {s}
  BY <1>1, <1>7, StepFacts DEF ToStart, Due, s
<1>9. Shape(owned[c], k)
  BY <1>1, <1>2, <1>7 DEF Swept, Shape
<1>10. Parks(l, k, s)
  BY <1>1, <1>3, <1>7, <1>8 DEF Parks
<1> QED BY <1>1, <1>5, <1>6, <1>7, <1>9, <1>10, ParkStep

\* The ledger without its last fiber or plugin.
LEMMA TakeLast ==
    ASSUME NEW c \in Compositions, NEW O \in Seq(Acquired), FollowsPlan(c, O),
           NEW l \in Ledger, Shape(O, l), l.current # None, NEW k \in Ledger,
           k.queue = l.queue, k.current = l.current, k.hook = l.hook,
           \/ l.fibers # <<>> /\ k.fibers = Front(l.fibers) /\ k.plugins = l.plugins
           \/ l.plugins # <<>> /\ k.fibers = l.fibers /\ k.plugins = Front(l.plugins)
    PROVE  /\ Shape(O, k)
           /\ k.plugins = l.plugins =>
                 /\ FiberStep(Last(l.fibers)) \in ToStart(l)
                 /\ ToStart(k) = ToStart(l) \ {FiberStep(Last(l.fibers))}
           /\ k.fibers = l.fibers =>
                 /\ RemovalStep(Last(l.plugins)) \in ToStart(l)
                 /\ ToStart(k) = ToStart(l) \ {RemovalStep(Last(l.plugins))}
<1> DEFINE n == Len(l.queue) + 1
           a == O[n]
<1>1. n \in 1..Len(O) /\ l.current = a.id
  BY CurrentFacts
<1>2. /\ a.fibers \in Seq(Plugins) /\ a.plugins \in Seq(Plugins) /\ StartOf(a.fibers, a.plugins)
      /\ IsInjective(a.plugins)
  <2> HIDE DEF n
  <2> QED BY <1>1, AcquiredFacts
<1>3. StartOf(l.fibers, a.fibers) /\ StartOf(l.plugins, a.plugins)
      /\ l.fibers \in Seq(Plugins) /\ l.plugins \in Seq(Plugins)
  BY LedgerFacts DEF Shape
<1>4. StartOf(l.fibers, a.plugins)
  <2> HIDE DEF a
  <2>1. Len(l.fibers) \in Nat /\ Len(a.fibers) \in Nat /\ Len(a.plugins) \in Nat
    BY <1>2, <1>3, LenProperties
  <2> QED BY <1>2, <1>3, <2>1 DEF StartOf
<1>5. CASE l.fibers # <<>> /\ k.fibers = Front(l.fibers) /\ k.plugins = l.plugins
  <2>1. StartOf(k.fibers, a.fibers) /\ Last(l.fibers) \notin ToSet(k.fibers)
        /\ ToSet(l.fibers) = ToSet(k.fibers) \cup {Last(l.fibers)}
    <3> HIDE DEF a
    <3>1. StartOf(k.fibers, a.fibers)
      BY <1>2, <1>3, <1>5, FrontStart
    <3>2. Last(l.fibers) \notin ToSet(k.fibers)
      BY <1>2, <1>3, <1>4, <1>5, LastOnce
    <3>3. ToSet(l.fibers) = ToSet(k.fibers) \cup {Last(l.fibers)}
      BY <1>3, <1>5, FrontLast
    <3> QED BY <3>1, <3>2, <3>3
  <2>2. Shape(O, k)
    BY <1>5, <2>1 DEF Shape
  <2>3. /\ FiberStep(Last(l.fibers)) \in ToStart(l)
        /\ ToStart(k) = ToStart(l) \ {FiberStep(Last(l.fibers))}
    BY <1>5, <2>1, StepFacts DEF ToStart, Due
  <2>4. k.fibers # l.fibers
    <3>1. Len(k.fibers) = Len(l.fibers) - 1 /\ Len(l.fibers) \in Nat
      BY <1>3, <1>5, FrontLast
    <3> QED BY <3>1
  <2> QED BY <2>2, <2>3, <2>4
<1>6. CASE l.plugins # <<>> /\ k.fibers = l.fibers /\ k.plugins = Front(l.plugins)
  <2>1. StartOf(k.plugins, a.plugins) /\ Last(l.plugins) \notin ToSet(k.plugins)
        /\ ToSet(l.plugins) = ToSet(k.plugins) \cup {Last(l.plugins)}
    <3> HIDE DEF a
    <3>1. StartOf(k.plugins, a.plugins)
      BY <1>2, <1>3, <1>6, FrontStart
    <3>2. Last(l.plugins) \notin ToSet(k.plugins)
      BY <1>2, <1>3, <1>3, <1>6, LastOnce
    <3>3. ToSet(l.plugins) = ToSet(k.plugins) \cup {Last(l.plugins)}
      BY <1>3, <1>6, FrontLast
    <3> QED BY <3>1, <3>2, <3>3
  <2>2. Shape(O, k)
    BY <1>6, <2>1 DEF Shape
  <2>3. /\ RemovalStep(Last(l.plugins)) \in ToStart(l)
        /\ ToStart(k) = ToStart(l) \ {RemovalStep(Last(l.plugins))}
    BY <1>6, <2>1, StepFacts DEF ToStart, Due
  <2>4. k.plugins # l.plugins
    <3>1. Len(k.plugins) = Len(l.plugins) - 1 /\ Len(l.plugins) \in Nat
      BY <1>3, <1>6, FrontLast
    <3> QED BY <3>1
  <2> QED BY <2>2, <2>3, <2>4
<1> QED BY <1>5, <1>6

\* StartFiberDisposal is such a step.
LEMMA FiberStepStarts ==
    ASSUME IInv, NEW c \in Compositions, StartFiberDisposal(c)
    PROVE  SweepStep(c)
<1> DEFINE l == ledger[c]
           s == FiberStep(Last(l.fibers))
           k == [l EXCEPT !.fibers = Front(l.fibers), !.inFlight = s]
<1>1. /\ Sweeping(c) /\ l.inFlight = None /\ l.current # None /\ l.fibers # <<>>
  BY DEF StartFiberDisposal, InModule, Idle
<1>2. /\ l \in Ledger /\ Swept(owned[c], l, starts, outcome)
      /\ owned[c] \in Seq(Acquired) /\ FollowsPlan(c, owned[c])
  BY <1>1, SweepFacts
<1>3. Front(l.fibers) \in Seq(Plugins) /\ Last(l.fibers) \in Plugins /\ Last(l.fibers) \in ToSet(l.fibers)
  BY <1>1, <1>2, LedgerFacts, FrontLast
<1>4. s \in ToStart(l) /\ s \in Steps
  <2>1. s \in ToStart(l)
    BY <1>3 DEF ToStart, Due
  <2> QED BY <1>1, <1>2, <2>1, CurrentFacts DEF Swept
<1>5. OnlyLedger(c, k) /\ starts' = [starts EXCEPT ![s] = @ + 1] /\ UNCHANGED <<registry, fiber, outcome>>
  BY <1>2 DEF StartFiberDisposal, Park, OnlyLedger
<1> HIDE DEF s
<1>6. k \in Ledger
  BY <1>2, <1>3, <1>4 DEF Ledger
<1>7. /\ k.queue = l.queue /\ k.current = l.current /\ k.hook = l.hook /\ k.fibers = Front(l.fibers)
      /\ k.plugins = l.plugins /\ k.clean = l.clean /\ k.inFlight = s /\ k.cleaned = l.cleaned
      /\ k.failures = l.failures /\ k.accepted = l.accepted
  BY <1>2 DEF Ledger
<1> HIDE DEF k, l
<1>8. Shape(owned[c], l)
  BY <1>2 DEF Swept
<1>9. ToStart(k) = ToStart(l) \ {s} /\ Shape(owned[c], k)
  BY <1>1, <1>2, <1>6, <1>7, <1>8, TakeLast DEF s
<1>10. Parks(l, k, s)
  BY <1>1, <1>4, <1>7, <1>9 DEF Parks
<1> QED BY <1>1, <1>5, <1>6, <1>7, <1>9, <1>10, ParkStep DEF l

\* The ledger asks for one removal less.
LEMMA RemoveLast ==
    ASSUME NEW l \in Ledger, l.plugins # <<>>, NEW k, k.queue = l.queue, k.plugins = Front(l.plugins)
    PROVE  ToRemove(l) \subseteq ToRemove(k) \cup {Last(l.plugins)}
<1>1. ToSet(l.plugins) = ToSet(k.plugins) \cup {Last(l.plugins)}
  BY LedgerFacts, FrontLast
<1> QED BY <1>1 DEF ToRemove

\* The last registration of the current module.
LEMMA LastPlugin ==
    ASSUME IInv, NEW c \in Compositions, AtPlugins(c)
    PROVE  LET l == ledger[c]
               p == Last(l.plugins)
           IN  /\ Sweeping(c) /\ l.inFlight = None /\ l.current # None /\ l.plugins # <<>>
               /\ l \in Ledger /\ Front(l.plugins) \in Seq(Plugins) /\ p \in Plugins
               /\ RemovalStep(p) \in ToStart(l) /\ RemovalStep(p) \in Steps /\ RemovalStep(p) # None
<1> DEFINE l == ledger[c]
           p == Last(l.plugins)
<1>1. /\ Sweeping(c) /\ l.inFlight = None /\ l.current # None /\ l.plugins # <<>>
  BY DEF AtPlugins, InModule, Idle
<1>2. /\ l \in Ledger /\ Swept(owned[c], l, starts, outcome)
      /\ owned[c] \in Seq(Acquired) /\ FollowsPlan(c, owned[c])
  BY <1>1, SweepFacts
<1>3. Front(l.plugins) \in Seq(Plugins) /\ p \in Plugins /\ p \in ToSet(l.plugins)
  BY <1>1, <1>2, LedgerFacts, FrontLast
<1>4. RemovalStep(p) \in ToStart(l)
  BY <1>3 DEF ToStart, Due
<1>5. RemovalStep(p) \in Steps
  BY <1>1, <1>2, <1>4, CurrentFacts DEF Swept
<1> QED BY <1>1, <1>2, <1>3, <1>4, <1>5, NoneAssumption

\* TakeRegistration is such a step.
LEMMA TakeRegistrationStep ==
    ASSUME IInv, NEW c \in Compositions, TakeRegistration(c)
    PROVE  SweepStep(c)
<1> DEFINE l == ledger[c]
           p == Last(l.plugins)
           s == RemovalStep(p)
           k == [l EXCEPT !.plugins = Front(l.plugins), !.inFlight = s]
<1>1. /\ Sweeping(c) /\ l.inFlight = None /\ l.current # None /\ l.plugins # <<>>
      /\ l \in Ledger /\ Front(l.plugins) \in Seq(Plugins) /\ p \in Plugins
      /\ s \in ToStart(l) /\ s \in Steps
  BY LastPlugin DEF TakeRegistration
<1>2. /\ Swept(owned[c], l, starts, outcome)
      /\ owned[c] \in Seq(Acquired) /\ FollowsPlan(c, owned[c])
      /\ InReach(c) => Accounted(c, l, registry[c], fiber)
  BY <1>1, SweepFacts
<1>3. /\ OnlyLedger(c, k) /\ starts' = [starts EXCEPT ![s] = @ + 1] /\ UNCHANGED <<fiber, outcome>>
      /\ registry' = [registry EXCEPT ![c] = @ \ {p}]
  BY <1>1 DEF TakeRegistration, Park, OnlyLedger
<1> HIDE DEF s
<1>4. k \in Ledger
  BY <1>1 DEF Ledger
<1>5. /\ k.queue = l.queue /\ k.current = l.current /\ k.hook = l.hook /\ k.fibers = l.fibers
      /\ k.plugins = Front(l.plugins) /\ k.clean = l.clean /\ k.inFlight = s
      /\ k.cleaned = l.cleaned /\ k.failures = l.failures /\ k.accepted = l.accepted
  BY <1>1 DEF Ledger
<1> HIDE DEF k, l
<1>6. Shape(owned[c], l)
  BY <1>2 DEF Swept
<1>7. ToStart(k) = ToStart(l) \ {s} /\ Shape(owned[c], k)
  BY <1>1, <1>2, <1>4, <1>5, <1>6, TakeLast DEF s
<1>8. Parks(l, k, s)
  BY <1>1, <1>5, <1>7 DEF Parks
<1>9. Swept(owned[c], k, starts', outcome') /\ HistoryStep(c)
  BY <1>1, <1>3, <1>7, <1>8, ParkHistory DEF l
<1>10. PluginStep(c) /\ registry'[c] = registry[c] \ {p}
  BY <1>3 DEF PluginStep, IInv, TypeInv
<1>11. InReach(c) => Accounted(c, k, registry'[c], fiber')
  <2>1. SUFFICES ASSUME InReach(c) PROVE Accounted(c, k, registry'[c], fiber')
    OBVIOUS
  <2>2. registry'[c] \subseteq ToRemove(k)
    BY <1>1, <1>2, <1>5, <1>10, <2>1, RemoveLast DEF Accounted
  <2>3. ASSUME NEW q \in PluginsIn(c), fiber'[q] \in {"created", "started"}
        PROVE  q \in registry'[c] \/ k.inFlight = RemovalStep(q)
    <3>1. q \in registry[c]
      BY <1>1, <1>2, <1>3, <2>1, <2>3, RemovalNotNone DEF Accounted
    <3> QED BY <3>1, <1>5, <1>10 DEF s
  <2> QED BY <2>2, <2>3 DEF Accounted
<1> QED BY <1>3, <1>4, <1>5, <1>9, <1>10, <1>11 DEF SweepStep, l

\* A registration that is out of the sweep's hands is struck off the ledger.
LEMMA StrikeStep ==
    ASSUME IInv, NEW c \in Compositions, AtPlugins(c), NEW o \in {"gone", "lost"}, NEW k \in Ledger,
           k.queue = ledger[c].queue, k.current = ledger[c].current, k.hook = ledger[c].hook,
           k.fibers = ledger[c].fibers, k.plugins = Front(ledger[c].plugins),
           k.inFlight = ledger[c].inFlight, k.cleaned = ledger[c].cleaned,
           IF o = "gone"
           THEN k.clean = ledger[c].clean /\ k.failures = ledger[c].failures
           ELSE k.clean = FALSE /\ k.failures = ledger[c].failures \cup {RemovalStep(Last(ledger[c].plugins))},
           k.accepted = ledger[c].accepted,
           OnlyLedger(c, k), UNCHANGED <<registry, fiber, starts>>,
           outcome' = [outcome EXCEPT ![RemovalStep(Last(ledger[c].plugins))] = o],
           InReach(c) => Last(ledger[c].plugins) \notin registry[c]
    PROVE  SweepStep(c)
<1> DEFINE l == ledger[c]
           p == Last(l.plugins)
           s == RemovalStep(p)
<1>1. /\ Sweeping(c) /\ l.inFlight = None /\ l.current # None /\ l.plugins # <<>>
      /\ l \in Ledger /\ s \in ToStart(l) /\ s \in Steps /\ s # None
  BY LastPlugin
<1>2. /\ Swept(owned[c], l, starts, outcome)
      /\ owned[c] \in Seq(Acquired) /\ FollowsPlan(c, owned[c])
      /\ InReach(c) => Accounted(c, l, registry[c], fiber)
  BY <1>1, SweepFacts
<1>3. /\ k.queue = l.queue /\ k.current = l.current /\ k.hook = l.hook /\ k.fibers = l.fibers
      /\ k.plugins = Front(l.plugins) /\ k.inFlight = l.inFlight /\ k.cleaned = l.cleaned
      /\ \/ o \in {"ok", "gone"} /\ k.clean = l.clean /\ k.failures = l.failures
         \/ o \in {"failed", "lost"} /\ k.clean = FALSE /\ k.failures = l.failures \cup {s}
  OBVIOUS
<1>4. outcome' = [outcome EXCEPT ![s] = o] /\ (InReach(c) => p \notin registry[c])
  OBVIOUS
<1> HIDE DEF s, l
<1>5. Shape(owned[c], l)
  BY <1>2 DEF Swept
<1>6. ToStart(k) = ToStart(l) \ {s} /\ Shape(owned[c], k)
  BY <1>1, <1>2, <1>3, <1>5, TakeLast DEF s
<1>7. Settles(l, k, s, o)
  BY <1>1, <1>3, <1>6 DEF Settles
<1>8. Swept(owned[c], k, starts', outcome') /\ HistoryStep(c)
  BY <1>1, <1>4, <1>6, <1>7, SettleHistory DEF l
<1>9. PluginStep(c)
  BY DEF PluginStep, IInv, TypeInv
<1>10. InReach(c) => Accounted(c, k, registry'[c], fiber')
  BY <1>1, <1>2, <1>3, <1>4, RemoveLast DEF Accounted
<1> QED BY <1>8, <1>9, <1>10 DEF SweepStep

\* RegistrationGone is such a step.
LEMMA RegistrationGoneStep ==
    ASSUME IInv, NEW c \in Compositions, RegistrationGone(c)
    PROVE  SweepStep(c)
<1> DEFINE l == ledger[c]
           k == [l EXCEPT !.plugins = Front(l.plugins)]
<1>1. AtPlugins(c) /\ l \in Ledger /\ Front(l.plugins) \in Seq(Plugins)
  BY LastPlugin DEF RegistrationGone
<1>2. /\ OnlyLedger(c, k) /\ UNCHANGED <<registry, fiber, starts>>
      /\ outcome' = [outcome EXCEPT ![RemovalStep(Last(l.plugins))] = "gone"]
      /\ Last(l.plugins) \notin registry[c]
  BY DEF RegistrationGone, OnlyLedger
<1>3. k \in Ledger
  BY <1>1 DEF Ledger
<1>4. /\ k.queue = l.queue /\ k.current = l.current /\ k.hook = l.hook /\ k.fibers = l.fibers
      /\ k.plugins = Front(l.plugins) /\ k.clean = l.clean /\ k.inFlight = l.inFlight
      /\ k.cleaned = l.cleaned /\ k.failures = l.failures /\ k.accepted = l.accepted
  BY <1>1 DEF Ledger
<1> HIDE DEF k
<1> QED BY <1>1, <1>2, <1>3, <1>4, StrikeStep

\* A sweep without the registry is one after the loss of the owner.
LEMMA NoRegistryNoReach ==
    ASSUME IInv, NEW c \in Compositions, Sweeping(c), ~HasRegistry(c)
    PROVE  ~InReach(c)
<1>1. call[c] # None /\ call[c].kind = "ownerLoss" /\ phase[c] \notin {"rollingBack", "shuttingDown"}
  <2>1. call[c] # None /\ call[c].kind # "refused" /\ ~Releasing(c, "orderly")
        /\ phase[c] \notin {"rollingBack", "shuttingDown"}
    BY DEF Sweeping, HasRegistry
  <2>2. call[c] \in Call
    BY <2>1 DEF IInv, TypeInv
  <2> QED BY <2>1, <2>2 DEF Releasing, Call
<1>2. phase[c] = "driven"
  BY <1>1 DEF IInv, CInv, PhaseInv
<1>3. driver[c] = "OwnerDropped" \/ exit[c] = "lost"
  BY <1>1 DEF IInv, CInv, AuthorityInv, CallInv
<1> QED BY <1>2, <1>3 DEF InReach

\* RegistrationLost is such a step.
LEMMA RegistrationLostStep ==
    ASSUME IInv, NEW c \in Compositions, RegistrationLost(c)
    PROVE  SweepStep(c)
<1> DEFINE l == ledger[c]
           s == RemovalStep(Last(l.plugins))
           k == [l EXCEPT !.plugins = Front(l.plugins), !.clean = FALSE,
                          !.failures = l.failures \cup {s}]
<1>1. AtPlugins(c) /\ l \in Ledger /\ Front(l.plugins) \in Seq(Plugins) /\ s \in Steps /\ Sweeping(c)
  BY LastPlugin DEF RegistrationLost
<1>2. ~InReach(c)
  BY <1>1, NoRegistryNoReach DEF RegistrationLost
<1>3. /\ OnlyLedger(c, k) /\ UNCHANGED <<registry, fiber, starts>>
      /\ outcome' = [outcome EXCEPT ![s] = "lost"]
  BY DEF RegistrationLost, OnlyLedger, IInv, TypeInv
<1>4. k \in Ledger
  BY <1>1 DEF Ledger
<1>5. /\ k.queue = l.queue /\ k.current = l.current /\ k.hook = l.hook /\ k.fibers = l.fibers
      /\ k.plugins = Front(l.plugins) /\ k.clean = FALSE /\ k.inFlight = l.inFlight
      /\ k.cleaned = l.cleaned /\ k.failures = l.failures \cup {s} /\ k.accepted = l.accepted
  BY <1>1 DEF Ledger
<1> HIDE DEF k
<1> QED BY <1>1, <1>2, <1>3, <1>4, <1>5, StrikeStep

\* StepEnds is such a step.
LEMMA StepEndsStep ==
    ASSUME IInv, NEW c \in Compositions, StepEnds(c)
    PROVE  SweepStep(c)
<1> DEFINE l == ledger[c]
           s == l.inFlight
<1>1. Sweeping(c) /\ s # None
  BY DEF StepEnds
<1>2. /\ l \in Ledger /\ Swept(owned[c], l, starts, outcome)
      /\ owned[c] \in Seq(Acquired) /\ FollowsPlan(c, owned[c])
      /\ InReach(c) => Accounted(c, l, registry[c], fiber)
  BY <1>1, SweepFacts
<1>3. l.current # None /\ s \in DueOf(owned[c][Len(l.queue) + 1]) /\ Shape(owned[c], l)
  BY <1>1, <1>2 DEF Swept, Progress
<1>4. s \in Steps /\ s \in StepsIn(c)
  BY <1>1, <1>2, <1>3, LedgerFacts, CurrentIn
<1>5. PICK o \in {"ok", "failed"} :
         /\ outcome' = [outcome EXCEPT ![s] = o]
         /\ ledger' = [ledger EXCEPT ![c] =
               IF o = "ok" THEN [l EXCEPT !.inFlight = None]
               ELSE [l EXCEPT !.inFlight = None, !.clean = FALSE, !.failures = l.failures \cup {s}]]
  BY DEF StepEnds, IInv, TypeInv
<1> DEFINE k == IF o = "ok" THEN [l EXCEPT !.inFlight = None]
                ELSE [l EXCEPT !.inFlight = None, !.clean = FALSE, !.failures = l.failures \cup {s}]
<1>6. OnlyLedger(c, k) /\ UNCHANGED <<registry, starts>>
      /\ fiber' = [p \in Plugins |-> IF p \in FibersOf(s) THEN "disposed" ELSE fiber[p]]
  BY <1>5 DEF StepEnds, OnlyLedger
<1>7. k \in Ledger
  BY <1>2, <1>4 DEF Ledger
<1>8. /\ k.queue = l.queue /\ k.current = l.current /\ k.hook = l.hook /\ k.fibers = l.fibers
      /\ k.plugins = l.plugins /\ k.inFlight = None
      /\ k.cleaned = l.cleaned /\ k.accepted = l.accepted
      /\ \/ o \in {"ok", "gone"} /\ k.clean = l.clean /\ k.failures = l.failures
         \/ o \in {"failed", "lost"} /\ k.clean = FALSE /\ k.failures = l.failures \cup {s}
  BY <1>2 DEF Ledger
<1> HIDE DEF k, s, l
<1>9. ToStart(k) = ToStart(l) /\ Shape(owned[c], k)
  BY <1>3, <1>8 DEF ToStart, Shape
<1>10. Settles(l, k, s, o)
  BY <1>1, <1>3, <1>8, <1>9 DEF Settles, s
<1>11. Swept(owned[c], k, starts', outcome') /\ HistoryStep(c)
  BY <1>1, <1>4, <1>5, <1>6, <1>9, <1>10, SettleHistory DEF l
<1>12. \A p \in FibersOf(s) : p \in PluginsIn(c)
  <2>1. PICK m \in ModulesOf[c] : s \in StepsOf(m)
    BY <1>4 DEF StepsIn
  <2>2. \/ s = HookStep(m)
        \/ \E p \in ToSet(PluginsOf[m]) : s = FiberStep(p)
        \/ \E p \in ToSet(PluginsOf[m]) : s = RemovalStep(p)
    BY <2>1 DEF StepsOf
  <2>3. \A p \in FibersOf(s) : p \in ToSet(PluginsOf[m])
    BY <2>2 DEF FibersOf, HookStep, FiberStep, RemovalStep
  <2> QED BY <2>1, <2>3 DEF PluginsIn
<1>13. PluginStep(c)
  BY <1>6, <1>12 DEF PluginStep, IInv, TypeInv
<1>14. InReach(c) => Accounted(c, k, registry'[c], fiber')
  <2>1. SUFFICES ASSUME InReach(c) PROVE Accounted(c, k, registry'[c], fiber')
    OBVIOUS
  <2>2. ToRemove(k) = ToRemove(l)
    BY <1>8 DEF ToRemove
  <2>3. ASSUME NEW p \in PluginsIn(c), fiber'[p] \in {"created", "started"}
        PROVE  p \in registry'[c]
    <3>1. p \in Plugins
      BY PlanFacts
    <3>2. p \notin FibersOf(s) /\ fiber[p] \in {"created", "started"}
      BY <1>6, <2>3, <3>1
    <3>3. s # RemovalStep(p)
      BY <3>1, <3>2 DEF FibersOf, RemovalStep
    <3> QED BY <1>2, <1>6, <2>1, <3>2, <3>3 DEF Accounted, s
  <2> QED BY <1>2, <1>6, <2>1, <2>2, <2>3 DEF Accounted
<1> QED BY <1>6, <1>7, <1>8, <1>11, <1>13, <1>14 DEF SweepStep, l

\* FinishModule is such a step.
LEMMA FinishStep ==
    ASSUME IInv, NEW c \in Compositions, FinishModule(c)
    PROVE  SweepStep(c)
<1> DEFINE l == ledger[c]
           k == [l EXCEPT !.current = None, !.clean = TRUE,
                          !.cleaned = l.cleaned \cup {m \in {l.current} : l.clean}]
<1>1. /\ Sweeping(c) /\ l.inFlight = None /\ l.current # None /\ ~l.hook
      /\ l.fibers = <<>> /\ l.plugins = <<>>
  BY DEF FinishModule, InModule, Idle
<1>2. /\ l \in Ledger /\ Swept(owned[c], l, starts, outcome)
      /\ owned[c] \in Seq(Acquired) /\ FollowsPlan(c, owned[c])
      /\ InReach(c) => Accounted(c, l, registry[c], fiber)
  BY <1>1, SweepFacts
<1>3. OnlyLedger(c, k) /\ UNCHANGED <<registry, fiber, starts, outcome>>
  BY DEF FinishModule, OnlyLedger, IInv, TypeInv, history
<1>4. k \in Ledger
  BY <1>1, <1>2 DEF Ledger
<1>5. /\ k.queue = l.queue /\ k.current = None /\ k.hook = l.hook /\ k.fibers = l.fibers
      /\ k.plugins = l.plugins /\ k.inFlight = None /\ k.failures = l.failures
      /\ k.cleaned = l.cleaned \cup {m \in {l.current} : l.clean} /\ k.accepted = l.accepted
  BY <1>1, <1>2 DEF Ledger
<1> HIDE DEF k, l
<1>6. Swept(owned[c], k, starts, outcome)
  BY <1>1, <1>2, <1>5, FinishSwept
<1>7. HistoryStep(c) /\ PluginStep(c)
  BY <1>3 DEF HistoryStep, HistoryOK, PluginStep, IInv, Once, TypeInv
<1>8. InReach(c) => Accounted(c, k, registry'[c], fiber')
  <2>1. ToRemove(k) = ToRemove(l) /\ l.inFlight = None
    BY <1>1, <1>5 DEF ToRemove
  <2> QED BY <1>2, <1>3, <1>5, <2>1 DEF Accounted
<1> QED BY <1>3, <1>4, <1>5, <1>6, <1>7, <1>8 DEF SweepStep, l

\* Every step of a sweep but its return.
LEMMA SweepSteps ==
    ASSUME IInv, NEW c \in Compositions, Sweep(c), ~SweepReturns(c)
    PROVE  SweepStep(c)
BY BeginStep, HookStepStarts, FiberStepStarts, TakeRegistrationStep, RegistrationGoneStep,
   RegistrationLostStep, StepEndsStep, FinishStep DEF Sweep

----------------------------------------------------------------------------
(* Steps that leave a composition alone *)

\* A sweep goes from the last module to the first.
LEMMA SweptInOrder ==
    ASSUME NEW c \in Compositions, NEW O \in Seq(Acquired), FollowsPlan(c, O),
           NEW l, l.queue \in Seq(Acquired), NEW st, NEW oc, Swept(O, l, st, oc)
    PROVE  LaterFirst(O, st, oc)
<1>1. SUFFICES ASSUME NEW i \in 1..Len(O), NEW j \in 1..Len(O), i < j,
                      NEW s \in StepsOf(O[i].id), st[s] > 0
               PROVE  \A t \in DueOf(O[j]) : oc[t] # "none"
  BY DEF LaterFirst
<1>2. Len(O) \in Nat /\ Len(l.queue) \in Nat
  BY LenProperties
<1>3. i \notin 1..Len(l.queue)
  BY <1>1 DEF Swept, Progress
<1>4. j > Done(l)
  <2>1. j > Len(l.queue) + 1 /\ j > Len(l.queue) + 0
    BY <1>1, <1>2, <1>3
  <2> QED BY <2>1 DEF Done
<1> QED BY <1>4 DEF Swept, Progress

\* c keeps what the books are about; its ledger may change hands.
Calm(c) ==
    /\ phase'[c] = phase[c] /\ at'[c] = at[c] /\ owned'[c] = owned[c] /\ registry'[c] = registry[c]
    /\ owed'[c] = owed[c] /\ report'[c] = report[c]
    /\ ledger'[c] = None <=> ledger[c] = None
    /\ ledger[c] # None => SameWork(ledger[c], ledger'[c])
    /\ \A s \in StepsIn(c) : starts'[s] = starts[s] /\ outcome'[s] = outcome[s]
    /\ \A p \in PluginsIn(c) : fiber'[p] = fiber[p]
    /\ InReach(c)' => InReach(c)
    /\ exit'[c] = "consumed" => exit[c] = "consumed"

\* The part of the invariant that is about books, and not about authority.
BooksInv(c) == OwnedInv(c) /\ SweepInv(c) /\ ReportInv(c) /\ OrderInv(c) /\ ClearInv(c)

\* The cleanup that is left is a ledger.
LEMMA WorkType ==
    ASSUME TypeInv, NEW c \in Compositions
    PROVE  Work(c) \in Ledger
<1>1. CASE ledger[c] # None
  BY <1>1 DEF Work, TypeInv
<1>2. CASE ledger[c] = None
  <2>1. <<>> \in Seq(Plugins) /\ owned[c] \in Seq(Acquired)
    BY DEF TypeInv
  <2> QED BY <1>2, <2>1 DEF Work, NewLedger, Ledger
<1> QED BY <1>1, <1>2

\* Then its books still agree.
LEMMA CalmKeeps ==
    ASSUME TypeInv, NEW c \in Compositions, BooksInv(c), Calm(c)
    PROVE  BooksInv(c)'
<1>1. /\ owned[c] \in Seq(Acquired) /\ FollowsPlan(c, owned[c]) /\ Work(c) \in Ledger
  BY WorkType DEF TypeInv, BooksInv, OwnedInv
<1>2. OwnedInv(c)'
  BY DEF BooksInv, OwnedInv, Calm
<1>3. /\ \A j \in 1..Len(owned[c]) : \A s \in StepsOf(owned[c][j].id) : starts'[s] = starts[s]
      /\ \A j \in 1..Len(owned[c]) : \A s \in DueOf(owned[c][j]) : outcome'[s] = outcome[s]
  BY <1>1, AcquiredFacts DEF Calm
<1>4. OrderInv(c)'
  BY <1>3 DEF BooksInv, OrderInv, LaterFirst, Calm
<1>5. \A s \in owed[c] : outcome'[s] = outcome[s]
  BY <1>3 DEF BooksInv, OwnedInv, AllDue
<1>6. ReportInv(c)'
  BY <1>5 DEF BooksInv, ReportInv, Unsuccessful, Calm
<1>7. SameWork(Work(c), Work(c)') /\ (Live(c)' <=> Live(c))
  BY DEF Calm, Work, SameWork, Live
<1>8. SweepInv(c)'
  <2>1. SUFFICES ASSUME Live(c) PROVE Swept(owned[c], Work(c)', starts', outcome')
    BY <1>7 DEF SweepInv, Calm
  <2>2. Swept(owned[c], Work(c), starts, outcome)
    BY <2>1 DEF BooksInv, SweepInv
  <2>3. \A s \in StepsIn(c) : starts'[s] = starts[s] /\ outcome'[s] = outcome[s]
    BY DEF Calm
  <2> HIDE DEF Work
  <2> QED BY <1>1, <1>7, <2>2, <2>3, SameSwept
<1>9. ClearInv(c)'
  <2>1. ToRemove(Work(c)') = ToRemove(Work(c)) /\ Work(c)'.inFlight = Work(c).inFlight
    BY <1>7 DEF SameWork, ToRemove
  <2>2. Module(c)' = Module(c)
    BY DEF Module, Calm
  <2> QED BY <2>1, <2>2 DEF BooksInv, ClearInv, Calm
<1> QED BY <1>2, <1>4, <1>6, <1>8, <1>9 DEF BooksInv

\* Who sweeps has used up the authority of the composition's exit.
LEMMA SweepingExcludes ==
    ASSUME IInv, NEW c \in Compositions, Sweeping(c)
    PROVE  /\ exit[c] # "host" /\ driver[c] # "Running" /\ exit[c] # "consumed"
           /\ \A h \in Compositions : call[h] # None /\ call[h].kind = "refused" => call[h].exit # c
           /\ phase[c] \in {"rollingBack", "shuttingDown", "driven"}
           /\ phase[c] = "driven" => call[c] # None /\ call[c].kind \in {"orderly", "ownerLoss"}
<1>1. ledger[c] # None
  BY SweepFacts
<1>2. \A h \in Compositions : CallInv(h) /\ ExitInv(h) /\ PhaseInv(h)
  BY DEF IInv, CInv, AuthorityInv
<1>3. CASE phase[c] \in {"rollingBack", "shuttingDown"}
  BY <1>2, <1>3 DEF PhaseInv, CallInv
<1>4. CASE phase[c] \notin {"rollingBack", "shuttingDown"}
  <2>1. call[c] # None /\ call[c].kind # "refused"
    BY <1>4 DEF Sweeping
  <2>2. call[c] \in Call
    BY <2>1 DEF IInv, TypeInv
  <2>3. call[c].kind \in {"orderly", "ownerLoss"}
    BY <2>1, <2>2 DEF Call
  <2>4. phase[c] = "driven"
    BY <1>2, <2>1 DEF PhaseInv
  <2>5. CASE call[c].kind = "orderly"
    BY <1>2, <2>1, <2>4, <2>5 DEF CallInv, ExitInv, Fresh
  <2>6. CASE call[c].kind = "ownerLoss"
    BY <1>1, <1>2, <2>1, <2>4, <2>6 DEF CallInv, ExitInv
  <2> QED BY <2>3, <2>5, <2>6
<1> QED BY <1>3, <1>4

\* A composition whose exit can be presented, by the host or by a refused call.
Presentable(c) ==
    \/ exit[c] = "host" \/ driver[c] = "Running"
    \/ \E h \in Compositions : call[h] # None /\ call[h].kind = "refused" /\ call[h].exit = c

\* Steps that leave calls, drivers and exits alone, and touch no composition
\* whose exit can be presented.
LEMMA AuthorityFrame ==
    ASSUME IInv, call' = call, driver' = driver, exit' = exit,
           \A d \in Compositions :
              /\ ledger'[d] = None <=> ledger[d] = None
              /\ ledger[d] # None => ledger'[d].accepted = ledger[d].accepted
              /\ Presentable(d) => (Untouched(d) => Untouched(d)'),
           NEW c \in Compositions
    PROVE  AuthorityInv(c)'
<1>1. ExitInv(c) /\ CallInv(c)
  BY DEF IInv, CInv, AuthorityInv
<1>2. \A d \in Compositions : Presentable(d) => (Fresh(d) => Fresh(d)')
  BY DEF Fresh
<1>3. \A d, h \in Compositions : Holds(h, d)' = Holds(h, d)
  BY DEF Holds
<1>4. ExitInv(c)'
  BY <1>1, <1>2, <1>3 DEF ExitInv, Presentable
<1>5. CallInv(c)'
  BY <1>1, <1>2 DEF CallInv, Presentable
<1> QED BY <1>4, <1>5 DEF AuthorityInv

\* A step of c does not touch another composition.
LEMMA OtherCalm ==
    ASSUME IInv, NEW c \in Compositions, NEW d \in Compositions, d # c,
           phase'[d] = phase[d], at'[d] = at[d], owned'[d] = owned[d], registry'[d] = registry[d],
           owed'[d] = owed[d], report'[d] = report[d], ledger'[d] = ledger[d], driver'[d] = driver[d],
           exit'[d] = exit[d] \/ (exit[d] # "lost" /\ exit'[d] # "consumed" /\ exit[d] # "consumed"),
           \A s \in Steps : s \notin StepsIn(c) => starts'[s] = starts[s] /\ outcome'[s] = outcome[s],
           \A p \in Plugins : p \notin PluginsIn(c) => fiber'[p] = fiber[p]
    PROVE  BooksInv(d)' /\ (Untouched(d)' <=> Untouched(d))
<1>1. \A s \in StepsIn(d) : starts'[s] = starts[s] /\ outcome'[s] = outcome[s]
  BY StepsApart
<1>2. \A p \in PluginsIn(d) : fiber'[p] = fiber[p]
  BY PlanFacts
<1>3. InReach(d)' => InReach(d)
  BY DEF InReach
<1>4. Calm(d)
  BY <1>1, <1>2, <1>3 DEF Calm, SameWork
<1>5. TypeInv /\ BooksInv(d)
  BY DEF IInv, CInv, BooksInv
<1>6. BooksInv(d)'
  BY <1>4, <1>5, CalmKeeps
<1> QED BY <1>1, <1>6 DEF Untouched, StepsIn

\* A step of a sweep keeps the invariant.
LEMMA SweepKeeps ==
    ASSUME IInv, NEW c \in Compositions, Sweeping(c), SweepStep(c)
    PROVE  IInv'
<1>1. PICK k \in Ledger :
        /\ OnlyLedger(c, k) /\ k.accepted = ledger[c].accepted
        /\ Swept(owned[c], k, starts', outcome')
        /\ HistoryStep(c) /\ PluginStep(c)
        /\ InReach(c) => Accounted(c, k, registry'[c], fiber')
  BY DEF SweepStep
<1>2. /\ ledger' = [ledger EXCEPT ![c] = k]
      /\ UNCHANGED <<phase, at, owned, call, driver, exit, interrupts, owed, report>>
  BY <1>1 DEF OnlyLedger, release
<1>3. TypeInv' /\ Once'
  BY <1>1, <1>2 DEF IInv, TypeInv, HistoryStep, HistoryOK, PluginStep, Once
<1>4. /\ ledger'[c] = k /\ k # None /\ ledger[c] # None
      /\ \A d \in Compositions : d # c => ledger'[d] = ledger[d]
  BY <1>2, SweepFacts, NoneAssumption DEF IInv, TypeInv
<1>5. ASSUME NEW d \in Compositions, d # c
      PROVE  BooksInv(d)' /\ (Untouched(d)' <=> Untouched(d))
  BY <1>1, <1>2, <1>4, <1>5, OtherCalm DEF HistoryStep, PluginStep
<1>6. /\ ~Presentable(c) /\ exit[c] # "consumed"
      /\ phase[c] \in {"rollingBack", "shuttingDown", "driven"}
  BY SweepingExcludes DEF Presentable
<1>7. ASSUME NEW d \in Compositions PROVE AuthorityInv(d)'
  BY <1>1, <1>2, <1>4, <1>5, <1>6, AuthorityFrame
<1>8. ASSUME NEW d \in Compositions PROVE PhaseInv(d)'
  <2>1. PhaseInv(d)
    BY DEF IInv, CInv
  <2>2. CASE d = c
    BY <1>2, <1>4, <1>6, <2>1, <2>2 DEF PhaseInv
  <2>3. CASE d # c
    BY <1>2, <1>4, <1>5, <2>1, <2>3 DEF PhaseInv
  <2> QED BY <2>2, <2>3
<1>9. BooksInv(c)'
  <2>1. OwnedInv(c)'
    BY <1>2 DEF IInv, CInv, OwnedInv
  <2>2. Work(c)' = k /\ InReach(c)' = InReach(c)
    BY <1>2, <1>4 DEF Work, InReach
  <2>3. SweepInv(c)'
    BY <1>1, <1>2, <2>2 DEF SweepInv
  <2>4. report[c] = None
    BY <1>4 DEF IInv, CInv, PhaseInv
  <2>5. ReportInv(c)'
    BY <1>2, <2>4 DEF ReportInv
  <2>6. OrderInv(c)'
    <3>1. owned[c] \in Seq(Acquired) /\ FollowsPlan(c, owned[c]) /\ k.queue \in Seq(Acquired)
      BY LedgerFacts DEF IInv, TypeInv, CInv, OwnedInv
    <3>2. LaterFirst(owned[c], starts', outcome')
      BY <1>1, <3>1, SweptInOrder
    <3> QED BY <1>2, <3>2 DEF OrderInv
  <2>7. ClearInv(c)'
    BY <1>1, <1>2, <1>6, <2>2 DEF ClearInv, Accounted
  <2> QED BY <2>1, <2>3, <2>5, <2>6, <2>7 DEF BooksInv
<1> QED BY <1>3, <1>5, <1>7, <1>8, <1>9 DEF IInv, CInv, BooksInv

\* The end of a sweep.
LEMMA ReturnKeeps ==
    ASSUME IInv, NEW c \in Compositions, SweepReturns(c)
    PROVE  IInv'
<1> DEFINE l == ledger[c]
           O == owned[c]
           r == [cleaned |-> l.cleaned, failures |-> l.failures]
           x == IF call[c] # None /\ call[c].kind = "orderly" THEN "consumed" ELSE exit[c]
<1>1. Sweeping(c) /\ l.inFlight = None /\ l.current = None /\ l.queue = <<>>
  BY DEF SweepReturns, Idle
<1>2. /\ l \in Ledger /\ l # None /\ Swept(O, l, starts, outcome)
      /\ O \in Seq(Acquired) /\ FollowsPlan(c, O)
      /\ InReach(c) => Accounted(c, l, registry[c], fiber)
  BY <1>1, SweepFacts
<1>3. /\ exit[c] # "host" /\ driver[c] # "Running" /\ exit[c] # "consumed"
      /\ \A h \in Compositions : call[h] # None /\ call[h].kind = "refused" => call[h].exit # c
      /\ phase[c] \in {"rollingBack", "shuttingDown", "driven"}
      /\ phase[c] = "driven" => call[c] # None /\ call[c].kind \in {"orderly", "ownerLoss"}
  BY <1>1, SweepingExcludes
<1>4. TypeInv /\ Once
  BY DEF IInv
<1>5. /\ ledger' = [ledger EXCEPT ![c] = None] /\ call' = [call EXCEPT ![c] = None]
      /\ report' = [report EXCEPT ![c] = r] /\ exit' = [exit EXCEPT ![c] = x]
      /\ UNCHANGED <<at, owned, registry, fiber, driver, interrupts, owed, starts, outcome>>
  BY <1>4 DEF SweepReturns, Releasing, TypeInv
<1>6. PICK ph \in {"failed", "stopped", "driven"} :
         /\ phase' = [phase EXCEPT ![c] = ph]
         /\ ph = "failed" => phase[c] = "rollingBack"
         /\ ph = "stopped" => phase[c] = "shuttingDown"
         /\ ph = "driven" => phase[c] = "driven"
  <2>1. phase[c] = "rollingBack" => phase' = [phase EXCEPT ![c] = "failed"]
    BY DEF SweepReturns
  <2>2. phase[c] = "shuttingDown" => phase' = [phase EXCEPT ![c] = "stopped"]
    BY DEF SweepReturns
  <2>3. phase[c] = "driven" => phase' = [phase EXCEPT ![c] = "driven"]
    BY DEF SweepReturns
  <2> QED BY <1>3, <2>1, <2>2, <2>3
<1>7. r \in Report /\ r.cleaned = l.cleaned /\ r.failures = l.failures
  BY <1>2, LedgerFacts DEF Report
<1>8. x \in {"none", "host", "future", "lost", "consumed"}
  BY <1>4 DEF TypeInv
<1> HIDE DEF r, x
<1>9. TypeInv' /\ Once'
  BY <1>4, <1>5, <1>6, <1>7, <1>8 DEF TypeInv, Once
<1>10. /\ ledger'[c] = None /\ call'[c] = None /\ report'[c] = r /\ exit'[c] = x /\ phase'[c] = ph
       /\ \A d \in Compositions : d # c =>
             /\ ledger'[d] = ledger[d] /\ call'[d] = call[d] /\ report'[d] = report[d]
             /\ exit'[d] = exit[d] /\ phase'[d] = phase[d]
  BY <1>4, <1>5, <1>6 DEF TypeInv
<1>11. ASSUME NEW d \in Compositions, d # c PROVE BooksInv(d)'
  BY <1>5, <1>10, <1>11, OtherCalm
<1>12. \A d \in Compositions : Untouched(d)' = Untouched(d)
  BY <1>5 DEF Untouched
<1>13. \A d \in Compositions : PhaseInv(d) /\ ExitInv(d) /\ CallInv(d)
  BY DEF IInv, CInv, AuthorityInv
<1>14. x # "host" /\ (x = "none" <=> exit[c] = "none") /\ (x = "future" => exit[c] = "future")
       /\ (x = "future" => call[c] = None \/ call[c].kind # "orderly")
       /\ (x = "lost" => exit[c] = "lost")
  BY <1>3, <1>13 DEF x, CallInv
<1>15. ASSUME NEW d \in Compositions PROVE PhaseInv(d)'
  <2>1. CASE d = c
    <3>1. PhaseInv(c)
      BY <1>13
    <3> QED BY <1>3, <1>5, <1>6, <1>10, <1>14, <2>1, <3>1 DEF PhaseInv
  <2>2. CASE d # c
    <3>1. PhaseInv(d)
      BY <1>13
    <3> QED BY <1>5, <1>10, <1>12, <2>2, <3>1 DEF PhaseInv
  <2> QED BY <2>1, <2>2
<1>16. \A h, d \in Compositions : Holds(h, d)' <=> h # c /\ Holds(h, d)
  BY <1>10 DEF Holds
<1>17. \A d \in Compositions : d # c => Fresh(d)' = Fresh(d)
  BY <1>10, <1>12 DEF Fresh
<1>18. ASSUME NEW d \in Compositions PROVE ExitInv(d)'
  <2>1. CASE d = c
    <3>1. ExitInv(c)
      BY <1>13
    <3>2. exit'[c] = "future" => \E h \in Compositions : Holds(h, c)'
      <4>1. SUFFICES ASSUME x = "future" PROVE \E h \in Compositions : Holds(h, c)'
        BY <1>10
      <4>2. PICK h \in Compositions : Holds(h, c)
        BY <1>14, <3>1, <4>1 DEF ExitInv
      <4>3. h # c
        BY <1>3, <1>14, <4>1, <4>2, <1>13 DEF Holds, PhaseInv
      <4> QED BY <1>16, <4>2, <4>3
    <3> QED BY <1>3, <1>5, <1>10, <1>14, <1>16, <2>1, <3>1, <3>2 DEF ExitInv
  <2>2. CASE d # c
    <3>1. ExitInv(d) /\ CallInv(c)
      BY <1>13
    <3>2. ~Holds(c, d)
      BY <1>3, <1>13, <2>2 DEF Holds, CallInv, PhaseInv
    <3> QED BY <1>5, <1>10, <1>16, <1>17, <2>2, <3>1, <3>2 DEF ExitInv
  <2> QED BY <2>1, <2>2
<1>19. ASSUME NEW d \in Compositions PROVE CallInv(d)'
  <2>1. CASE d = c
    BY <1>10, <2>1 DEF CallInv
  <2>2. CASE d # c
    <3>1. CallInv(d)
      BY <1>13
    <3>2. SUFFICES ASSUME call[d] # None PROVE CallInv(d)'
      BY <1>10, <2>2 DEF CallInv
    <3>3. call[d].kind = "refused" => call[d].exit # c /\ call[d].exit \in Compositions
      BY <1>3, <3>1, <3>2 DEF CallInv
    <3> QED BY <1>5, <1>10, <1>17, <2>2, <3>1, <3>3 DEF CallInv
  <2> QED BY <2>1, <2>2
<1>20. BooksInv(c)'
  <2>1. /\ Len(O) \in Nat /\ Done(l) = 0 /\ l.plugins = <<>>
    BY <1>1, <1>2, AcquiredFacts DEF Done, Swept, Shape
  <2>2. OwnedInv(c)'
    BY <1>5, <1>6, <1>10 DEF IInv, CInv, OwnedInv
  <2>3. SweepInv(c)'
    BY <1>6, <1>10 DEF SweepInv, Live
  <2>4. OrderInv(c)'
    BY <1>5 DEF IInv, CInv, OrderInv
  <2>5. ReportInv(c)'
    <3>1. owed[c] = AllDue(O)
      BY DEF IInv, CInv, OwnedInv
    <3>2. \A j \in 1..Len(O) : \A s \in DueOf(O[j]) : outcome[s] # "none"
      BY <1>2, <2>1 DEF Swept, Progress
    <3>3. \A s \in AllDue(O) : outcome[s] # "none"
      BY <3>2 DEF AllDue
    <3>4. /\ r.failures = Unsuccessful(AllDue(O), outcome)
          /\ r.cleaned = CleanFrom(O, 0, r.failures)
      BY <1>2, <1>7, <2>1 DEF Swept, Books
    <3> QED BY <1>5, <1>10, <3>1, <3>3, <3>4 DEF ReportInv
  <2>6. ClearInv(c)'
    <3>1. ToRemove(l) = {}
      BY <1>1, <2>1 DEF ToRemove, ToSet
    <3>2. InReach(c) => registry[c] = {} /\ \A p \in PluginsIn(c) : fiber[p] \in {"none", "disposed"}
      <4>1. \A p \in PluginsIn(c) : fiber[p] \in {"none", "created", "started", "disposed"}
        BY <1>4, PlanFacts DEF TypeInv
      <4> QED BY <1>1, <1>2, <3>1, <4>1, RemovalNotNone DEF Accounted
    <3>3. ph \in {"failed", "stopped"} \/ x = "consumed" => InReach(c)
      <4>1. CASE ph \in {"failed", "stopped"}
        BY <1>6, <4>1 DEF InReach
      <4>2. CASE x = "consumed"
        <5>1. call[c] # None /\ call[c].kind = "orderly"
          BY <1>3, <4>2 DEF x
        <5>2. exit[c] = "future" /\ driver[c] = "Shutdown" /\ phase[c] = "driven"
          BY <1>13, <5>1 DEF CallInv, ExitInv, PhaseInv
        <5> QED BY <5>2 DEF InReach
      <4> QED BY <4>1, <4>2
    <3>4. ~InReach(c)'
      <4>1. CASE ph = "driven"
        <5>1. call[c] # None /\ call[c].kind \in {"orderly", "ownerLoss"}
          BY <1>3, <1>6, <4>1
        <5>2. CASE call[c].kind = "orderly"
          BY <1>6, <1>10, <4>1, <5>1, <5>2 DEF InReach, x
        <5>3. CASE call[c].kind = "ownerLoss"
          <6>1. driver[c] = "OwnerDropped" \/ x = "lost"
            BY <1>13, <5>1, <5>3 DEF CallInv, x
          <6> QED BY <1>5, <1>10, <4>1, <6>1 DEF InReach
        <5> QED BY <5>1, <5>2, <5>3
      <4>2. CASE ph # "driven"
        BY <1>6, <1>10, <4>2 DEF InReach
      <4> QED BY <4>1, <4>2
    <3> QED BY <1>5, <1>6, <1>10, <3>2, <3>3, <3>4 DEF ClearInv
  <2> QED BY <2>2, <2>3, <2>4, <2>5, <2>6 DEF BooksInv
<1> QED BY <1>9, <1>11, <1>15, <1>18, <1>19, <1>20 DEF IInv, CInv, BooksInv, AuthorityInv

----------------------------------------------------------------------------
(* Drivers, exits and calls *)

\* Only calls, drivers, exits and the flags of a ledger change.
AllCalm ==
    /\ UNCHANGED <<phase, at, owned, registry, fiber, owed, starts, outcome, report>>
    /\ \A d \in Compositions :
          /\ ledger'[d] = None <=> ledger[d] = None
          /\ ledger[d] # None => SameWork(ledger[d], ledger'[d])
          /\ InReach(d)' => InReach(d)
          /\ exit'[d] = "consumed" => exit[d] = "consumed"

\* Then the books of all compositions still agree.
LEMMA AllCalmKeeps ==
    ASSUME IInv, AllCalm, NEW c \in Compositions
    PROVE  /\ BooksInv(c)' /\ Untouched(c)' = Untouched(c)
           /\ PhaseInv(c) /\ ExitInv(c) /\ CallInv(c)
           /\ phase[c] = "driven" /\ driver'[c] # "none" => PhaseInv(c)'
<1>1. Calm(c) /\ TypeInv /\ BooksInv(c)
  BY DEF IInv, CInv, BooksInv, Calm, AllCalm
<1>2. BooksInv(c)'
  BY <1>1, CalmKeeps
<1>3. Untouched(c)' = Untouched(c)
  BY DEF Untouched, AllCalm
<1>4. PhaseInv(c) /\ ExitInv(c) /\ CallInv(c)
  BY DEF IInv, CInv, AuthorityInv
<1>5. phase[c] = "driven" /\ driver'[c] # "none" => PhaseInv(c)'
  BY <1>3, <1>4 DEF PhaseInv, AllCalm
<1> QED BY <1>2, <1>3, <1>4, <1>5

\* An exit in a future belongs to one call.
LEMMA HeldExit ==
    ASSUME IInv
    PROVE  /\ \A h, d \in Compositions : Holds(h, d) => exit[d] = "future" /\ phase[h] = "driven"
           /\ \A h \in Compositions : call[h] # None => call[h] \in Call /\ phase[h] = "driven"
           /\ \A d \in Compositions : exit[d] # "none" => phase[d] = "driven" /\ driver[d] = "Shutdown"
           /\ \A d \in Compositions : driver[d] # "none" => phase[d] = "driven"
<1>1. \A d \in Compositions : PhaseInv(d) /\ ExitInv(d) /\ CallInv(d)
  BY DEF IInv, CInv, AuthorityInv
<1>2. ASSUME NEW h \in Compositions, call[h] # None PROVE call[h] \in Call /\ phase[h] = "driven"
  BY <1>1, <1>2 DEF PhaseInv, IInv, TypeInv
<1>3. ASSUME NEW h \in Compositions, NEW d \in Compositions, Holds(h, d) PROVE exit[d] = "future"
  <2>1. call[h] # None /\ call[h] \in Call /\ call[h].kind # "ownerLoss" /\ call[h].exit = d
    BY <1>2, <1>3 DEF Holds
  <2>2. call[h].kind \in {"orderly", "refused"}
    BY <2>1 DEF Call
  <2>3. CallInv(h)
    BY <1>1
  <2> QED BY <2>1, <2>2, <2>3 DEF CallInv
<1>4. \A d \in Compositions : exit[d] # "none" => phase[d] = "driven" /\ driver[d] = "Shutdown"
  BY <1>1 DEF PhaseInv, ExitInv
<1>5. \A d \in Compositions : driver[d] # "none" => phase[d] = "driven"
  BY <1>1 DEF PhaseInv
<1> QED BY <1>2, <1>3, <1>4, <1>5 DEF Holds

\* The driver of c ends.
LEMMA DriverEnds ==
    ASSUME IInv, NEW c \in Compositions, DriverReturns(c) \/ DriverLost(c)
    PROVE  IInv'
<1>1. /\ driver[c] = "Running" /\ exit[c] = "none" /\ phase[c] = "driven" /\ Fresh(c)
  BY HeldExit DEF DriverReturns, DriverLost, IInv, CInv, AuthorityInv, ExitInv
<1>2. PICK v \in {"Shutdown", "OwnerDropped"} :
         /\ driver' = [driver EXCEPT ![c] = v]
         /\ exit' = [exit EXCEPT ![c] = IF v = "Shutdown" THEN "host" ELSE "none"]
         /\ UNCHANGED <<phase, at, owned, registry, fiber, ledger, call, interrupts, owed, starts,
                        outcome, report>>
  <2>1. exit = [exit EXCEPT ![c] = "none"]
    BY <1>1 DEF IInv, TypeInv
  <2> QED BY <2>1 DEF DriverReturns, DriverLost, history
<1>3. /\ driver'[c] = v /\ exit'[c] = IF v = "Shutdown" THEN "host" ELSE "none"
      /\ \A d \in Compositions : d # c => driver'[d] = driver[d] /\ exit'[d] = exit[d]
  BY <1>2 DEF IInv, TypeInv
<1>4. TypeInv' /\ Once'
  BY <1>2 DEF IInv, TypeInv, Once
<1>5. AllCalm
  <2>1. \A d \in Compositions : InReach(d)' => InReach(d)
    BY <1>1, <1>2, <1>3 DEF InReach
  <2> QED BY <1>2, <1>3, <2>1 DEF AllCalm, SameWork
<1>6. \A d, h \in Compositions : Holds(h, d)' = Holds(h, d) /\ Fresh(d)' = Fresh(d)
  BY <1>2 DEF Holds, Fresh, Untouched
<1>7. ASSUME NEW d \in Compositions PROVE PhaseInv(d)'
  <2>1. CASE d = c
    BY <1>1, <1>3, <1>5, <2>1, AllCalmKeeps
  <2>2. CASE d # c
    <3>1. PhaseInv(d) /\ Untouched(d)' = Untouched(d)
      BY <1>5, AllCalmKeeps
    <3> QED BY <1>2, <1>3, <2>2, <3>1 DEF PhaseInv
  <2> QED BY <2>1, <2>2
<1>8. ASSUME NEW d \in Compositions PROVE ExitInv(d)'
  <2>1. ExitInv(d)
    BY <1>5, AllCalmKeeps
  <2>2. CASE d = c
    BY <1>1, <1>2, <1>3, <1>6, <2>1, <2>2 DEF ExitInv
  <2>3. CASE d # c
    BY <1>2, <1>3, <1>6, <2>1, <2>3 DEF ExitInv
  <2> QED BY <2>2, <2>3
<1>9. ASSUME NEW d \in Compositions PROVE CallInv(d)'
  <2>1. CallInv(d)
    BY <1>5, AllCalmKeeps
  <2>2. d = c => call[c] = None \/ call[c].kind \notin {"ownerLoss", "orderly"}
    BY <1>1, <2>1 DEF CallInv
  <2>3. call[d] # None /\ call[d].kind = "refused" => call[d].exit # c
    BY <1>1, <2>1 DEF CallInv
  <2> QED BY <1>2, <1>3, <1>6, <2>1, <2>2, <2>3 DEF CallInv
<1> QED BY <1>4, <1>5, <1>7, <1>8, <1>9, AllCalmKeeps DEF IInv, CInv, BooksInv, AuthorityInv

\* The host throws an exit away.
LEMMA DropExitKeeps ==
    ASSUME IInv, NEW c \in Compositions, DropExit(c)
    PROVE  IInv'
<1>1. /\ exit[c] = "host" /\ phase[c] = "driven" /\ driver[c] = "Shutdown"
  BY HeldExit DEF DropExit
<1>2. /\ exit' = [exit EXCEPT ![c] = "lost"] /\ interrupts' = interrupts + 1
      /\ UNCHANGED <<phase, at, owned, registry, fiber, ledger, call, driver, owed, starts,
                     outcome, report>>
  BY DEF DropExit, Interrupt, history
<1>3. exit'[c] = "lost" /\ \A d \in Compositions : d # c => exit'[d] = exit[d]
  BY <1>2 DEF IInv, TypeInv
<1>4. TypeInv' /\ Once'
  BY <1>2 DEF IInv, TypeInv, Once
<1>5. AllCalm
  <2>1. \A d \in Compositions : InReach(d)' => InReach(d)
    BY <1>1, <1>2, <1>3 DEF InReach
  <2> QED BY <1>2, <1>3, <2>1 DEF AllCalm, SameWork
<1>6. \A d, h \in Compositions : Holds(h, d)' = Holds(h, d) /\ Fresh(d)' = Fresh(d)
  BY <1>2 DEF Holds, Fresh, Untouched
<1>7. ASSUME NEW d \in Compositions PROVE PhaseInv(d)'
  <2>1. PhaseInv(d) /\ Untouched(d)' = Untouched(d)
    BY <1>5, AllCalmKeeps
  <2> QED BY <1>1, <1>2, <1>3, <2>1 DEF PhaseInv
<1>8. ASSUME NEW d \in Compositions PROVE ExitInv(d)'
  <2>1. ExitInv(d)
    BY <1>5, AllCalmKeeps
  <2> QED BY <1>1, <1>2, <1>3, <1>6, <2>1 DEF ExitInv
<1>9. ASSUME NEW d \in Compositions PROVE CallInv(d)'
  <2>1. CallInv(d)
    BY <1>5, AllCalmKeeps
  <2> QED BY <1>1, <1>2, <1>3, <1>6, <2>1 DEF CallInv
<1> QED BY <1>4, <1>5, <1>7, <1>8, <1>9, AllCalmKeeps DEF IInv, CInv, BooksInv, AuthorityInv

\* An exit is passed to a handle.
LEMMA DisposeKeeps ==
    ASSUME IInv, NEW c \in Compositions, NEW e \in Compositions, DisposeAfterDriver(c, e)
    PROVE  IInv'
<1>1. /\ phase[c] = "driven" /\ call[c] = None /\ exit[e] = "host"
      /\ exit' = [exit EXCEPT ![e] = "future"]
      /\ UNCHANGED <<phase, at, owned, registry, fiber, driver, owed, starts, outcome, report>>
      /\ interrupts' \in Nat
  BY DEF DisposeAfterDriver, history, Interrupt, IInv, TypeInv
<1>2. /\ phase[e] = "driven" /\ driver[e] = "Shutdown" /\ Fresh(e)
      /\ \A h \in Compositions : ~Holds(h, e)
  BY <1>1, HeldExit DEF IInv, CInv, AuthorityInv, ExitInv
<1>3. PICK k \in {"orderly", "refused"} :
         /\ call' = [call EXCEPT ![c] = [kind |-> k, exit |-> e, polled |-> FALSE]]
         /\ k = "orderly" => e = c /\ ledger' = [ledger EXCEPT ![c].accepted = TRUE]
         /\ k = "refused" => e # c /\ ledger' = ledger
  <2>1. AcceptsExit(c, e) <=> e = c
    BY <1>2 DEF AcceptsExit, Fresh
  <2>2. CASE e = c
    BY <2>1, <2>2 DEF DisposeAfterDriver
  <2>3. CASE e # c
    BY <2>1, <2>3 DEF DisposeAfterDriver
  <2> QED BY <2>2, <2>3
<1> DEFINE r == [kind |-> k, exit |-> e, polled |-> FALSE]
<1>4. /\ r \in Call /\ r # None /\ r.kind = k /\ r.exit = e /\ ~r.polled
  <2>1. r \in Call
    BY <1>3 DEF Call
  <2>2. r.kind = k /\ r.exit = e /\ ~r.polled
    OBVIOUS
  <2> QED BY <2>1, <2>2, NoneAssumption
<1> HIDE DEF r
<1>5. /\ call'[c] = r /\ exit'[e] = "future"
      /\ \A d \in Compositions : d # c => call'[d] = call[d]
      /\ \A d \in Compositions : d # e => exit'[d] = exit[d]
  BY <1>1, <1>3 DEF IInv, TypeInv, r
<1>6. /\ \A d \in Compositions : k = "refused" \/ d # c => ledger'[d] = ledger[d]
      /\ k = "orderly" =>
            /\ ledger'[c] # None /\ ledger'[c].accepted /\ ledger'[c] \in Ledger
            /\ SameWork(ledger[c], ledger'[c])
  <2>1. CASE k = "refused"
    BY <1>3, <2>1
  <2>2. CASE k = "orderly"
    <3>1. ledger[c] \in Ledger /\ ledger' = [ledger EXCEPT ![c] = [ledger[c] EXCEPT !.accepted = TRUE]]
      BY <1>2, <1>3, <2>2 DEF Fresh, IInv, TypeInv
    <3>2. /\ ledger'[c] = [ledger[c] EXCEPT !.accepted = TRUE]
          /\ \A d \in Compositions : d # c => ledger'[d] = ledger[d]
      BY <3>1 DEF IInv, TypeInv
    <3>3. /\ [ledger[c] EXCEPT !.accepted = TRUE] \in Ledger
          /\ [ledger[c] EXCEPT !.accepted = TRUE].accepted
          /\ SameWork(ledger[c], [ledger[c] EXCEPT !.accepted = TRUE])
      BY <3>1 DEF Ledger, SameWork
    <3> QED BY <2>2, <3>2, <3>3, NoneAssumption
  <2> QED BY <2>1, <2>2
<1>7. ledger' \in [Compositions -> Ledger \cup {None}] /\ call' \in [Compositions -> Call \cup {None}]
  <2>1. DOMAIN ledger' = Compositions /\ ledger' = [d \in Compositions |-> ledger'[d]]
    BY <1>3 DEF IInv, TypeInv
  <2>2. \A d \in Compositions : ledger'[d] \in Ledger \cup {None}
    BY <1>3, <1>6 DEF IInv, TypeInv
  <2>3. call' \in [Compositions -> Call \cup {None}]
    BY <1>3, <1>4 DEF IInv, TypeInv, r
  <2> QED BY <2>1, <2>2, <2>3
<1>8. TypeInv' /\ Once'
  BY <1>1, <1>7 DEF IInv, TypeInv, Once
<1>9. AllCalm
  <2>1. \A d \in Compositions : InReach(d)' => InReach(d)
    BY <1>1, <1>2, <1>5 DEF InReach
  <2>2. \A d \in Compositions :
            /\ ledger'[d] = None <=> ledger[d] = None
            /\ ledger[d] # None => SameWork(ledger[d], ledger'[d])
    BY <1>2, <1>3, <1>6 DEF SameWork, Fresh
  <2>3. \A d \in Compositions : exit'[d] = "consumed" => exit[d] = "consumed"
    BY <1>5
  <2> QED BY <1>1, <2>1, <2>2, <2>3 DEF AllCalm
<1>10. /\ \A h, d \in Compositions : Holds(h, d)' <=> (h # c /\ Holds(h, d)) \/ (h = c /\ d = e)
       /\ \A d \in Compositions : k = "refused" \/ d # c => Fresh(d)' = Fresh(d)
  <2>1. \A h, d \in Compositions : Holds(h, d)' <=> (h # c /\ Holds(h, d)) \/ (h = c /\ d = e)
    BY <1>3, <1>4, <1>5 DEF Holds
  <2> QED BY <1>6, <1>9, <2>1, AllCalmKeeps DEF Fresh
<1>11. ASSUME NEW d \in Compositions PROVE PhaseInv(d)'
  <2>1. PhaseInv(d) /\ Untouched(d)' = Untouched(d) /\ (ledger'[d] = None <=> ledger[d] = None)
    BY <1>9, AllCalmKeeps DEF AllCalm
  <2>2. phase[d] # "driven" => d # c /\ d # e
    BY <1>1, <1>2
  <2> QED BY <1>1, <1>5, <2>1, <2>2 DEF PhaseInv
<1>12. ASSUME NEW d \in Compositions PROVE ExitInv(d)'
  <2>1. ExitInv(d)
    BY <1>9, AllCalmKeeps
  <2>2. CASE d = e
    BY <1>1, <1>2, <1>5, <1>10, <2>1, <2>2 DEF ExitInv
  <2>3. CASE d # e
    <3>1. k = "refused" \/ d # c
      BY <1>3, <2>3
    <3>2. ~Holds(c, d)
      BY <1>1 DEF Holds
    <3>3. exit[d] = "consumed" => ledger'[d] = None
      BY <1>6, <2>1, <3>1 DEF ExitInv
    <3> QED BY <1>1, <1>5, <1>10, <2>1, <2>3, <3>1, <3>2, <3>3 DEF ExitInv
  <2> QED BY <2>2, <2>3
<1>13. ASSUME NEW d \in Compositions PROVE CallInv(d)'
  <2>1. CallInv(d)
    BY <1>9, AllCalmKeeps
  <2>2. CASE d = c
    <3>1. CASE k = "orderly"
      BY <1>3, <1>4, <1>5, <1>6, <2>2, <3>1 DEF CallInv
    <3>2. CASE k = "refused"
      <4>1. Fresh(e)'
        BY <1>2, <1>10, <3>2
      <4> QED BY <1>4, <1>5, <2>2, <3>2, <4>1 DEF CallInv
    <3> QED BY <3>1, <3>2
  <2>3. CASE d # c
    <3>1. SUFFICES ASSUME call[d] # None PROVE CallInv(d)'
      BY <1>5, <2>3 DEF CallInv
    <3>2. call'[d] = call[d] /\ ledger'[d] = ledger[d]
      BY <1>5, <1>6, <2>3
    <3>3. call[d].kind = "ownerLoss" => CallInv(d)'
      BY <1>1, <1>5, <1>2, <2>1, <3>1, <3>2 DEF CallInv
    <3>4. call[d].kind = "orderly" => CallInv(d)'
      BY <1>1, <1>5, <2>1, <3>1, <3>2 DEF CallInv
    <3>5. call[d].kind = "refused" => CallInv(d)'
      <4>1. SUFFICES ASSUME call[d].kind = "refused" PROVE CallInv(d)'
        OBVIOUS
      <4>2. PICK g \in Compositions : g = call[d].exit /\ exit[g] = "future" /\ ~call[d].polled /\ Fresh(g)
        BY <2>1, <3>1, <4>1 DEF CallInv
      <4>3. g # e /\ (k = "refused" \/ g # c)
        BY <1>1, <1>3, <4>2
      <4>4. exit'[g] = "future" /\ Fresh(g)'
        BY <1>5, <1>10, <4>2, <4>3
      <4>5. call'[d].exit = g /\ call'[d].kind = "refused" /\ ~call'[d].polled
        BY <3>2, <4>1, <4>2
      <4>6. (Fresh(call[d].exit))'
        BY <3>2, <4>2, <4>4
      <4> QED BY <4>2, <4>4, <4>5, <4>6 DEF CallInv
    <3>6. call[d].kind \in {"orderly", "refused", "ownerLoss"}
      BY <3>1, HeldExit DEF Call
    <3> QED BY <3>3, <3>4, <3>5, <3>6
  <2> QED BY <2>2, <2>3
<1> QED BY <1>8, <1>9, <1>11, <1>12, <1>13, AllCalmKeeps DEF IInv, CInv, BooksInv, AuthorityInv

\* A call whose exit and ledger stay where they are stays justified.
LEMMA CallStays ==
    ASSUME IInv, NEW d \in Compositions, call'[d] = call[d], driver'[d] = driver[d],
           exit[d] = "lost" => exit'[d] = "lost",
           ledger'[d] = None <=> ledger[d] = None,
           ledger[d] # None /\ ledger[d].accepted => ledger'[d].accepted,
           \A g \in Compositions : Holds(d, g) => exit'[g] = exit[g] /\ (Fresh(g) => Fresh(g)')
    PROVE  CallInv(d)'
<1>1. CallInv(d)
  BY DEF IInv, CInv, AuthorityInv
<1>2. CASE call[d] = None
  BY <1>2 DEF CallInv
<1>3. CASE call[d] # None /\ call[d].kind = "ownerLoss"
  BY <1>1, <1>3 DEF CallInv
<1>4. CASE call[d] # None /\ call[d].kind = "orderly"
  <2>1. Holds(d, d) /\ exit[d] = "future" /\ ledger[d] # None /\ ledger[d].accepted /\ call[d].exit = d
    BY <1>1, <1>4 DEF CallInv, Holds
  <2>2. exit'[d] = "future"
    BY <2>1
  <2> QED BY <1>4, <2>1, <2>2 DEF CallInv
<1>5. CASE call[d] # None /\ call[d].kind = "refused"
  <2>1. PICK g \in Compositions : g = call[d].exit /\ exit[g] = "future" /\ ~call[d].polled /\ Fresh(g)
    BY <1>1, <1>5 DEF CallInv
  <2>2. Holds(d, g)
    BY <1>5, <2>1 DEF Holds
  <2>3. exit'[g] = "future" /\ Fresh(g)'
    BY <2>1, <2>2
  <2>4. (Fresh(call[d].exit))'
    BY <2>1, <2>3
  <2> QED BY <1>5, <2>1, <2>3, <2>4 DEF CallInv
<1>6. call[d] # None => call[d].kind \in {"orderly", "refused", "ownerLoss"}
  BY HeldExit DEF Call
<1> QED BY <1>2, <1>3, <1>4, <1>5, <1>6

\* An accepted call is polled for the first time.
LEMMA FirstPollKeeps ==
    ASSUME IInv, NEW c \in Compositions, FirstPoll(c)
    PROVE  IInv'
<1>1. /\ call[c] # None /\ call[c].kind = "orderly"
      /\ call' = [call EXCEPT ![c] = [call[c] EXCEPT !.polled = TRUE]]
      /\ UNCHANGED <<phase, at, owned, registry, fiber, ledger, driver, exit, interrupts, owed, starts,
                     outcome, report>>
  BY DEF FirstPoll, Releasing, history
<1>2. call[c] \in Call /\ phase[c] = "driven"
  BY <1>1, HeldExit
<1> DEFINE r == [call[c] EXCEPT !.polled = TRUE]
<1>3. r \in Call /\ r.kind = "orderly" /\ r.exit = call[c].exit
  BY <1>1, <1>2 DEF Call
<1>4. r # None
  BY <1>3, NoneAssumption
<1> HIDE DEF r
<1>5. call'[c] = r /\ \A d \in Compositions : d # c => call'[d] = call[d]
  BY <1>1 DEF IInv, TypeInv, r
<1>6. TypeInv' /\ Once'
  BY <1>1, <1>3 DEF IInv, TypeInv, Once, r
<1>7. AllCalm
  <2>1. \A d \in Compositions : InReach(d)' => InReach(d)
    BY <1>1 DEF InReach
  <2> QED BY <1>1, <2>1 DEF AllCalm, SameWork
<1>8. \A h, d \in Compositions : Holds(h, d)' = Holds(h, d) /\ Fresh(d)' = Fresh(d)
  BY <1>1, <1>3, <1>4, <1>5 DEF Holds, Fresh, Untouched
<1>9. ASSUME NEW d \in Compositions PROVE PhaseInv(d)'
  <2>1. PhaseInv(d) /\ Untouched(d)' = Untouched(d)
    BY <1>7, AllCalmKeeps
  <2> QED BY <1>1, <1>2, <1>5, <2>1 DEF PhaseInv
<1>10. ASSUME NEW d \in Compositions PROVE ExitInv(d)'
  <2>1. ExitInv(d)
    BY <1>7, AllCalmKeeps
  <2> QED BY <1>1, <1>8, <2>1 DEF ExitInv
<1>11. ASSUME NEW d \in Compositions PROVE CallInv(d)'
  <2>1. CASE d = c
    <3>1. CallInv(c)
      BY <1>7, AllCalmKeeps
    <3> QED BY <1>1, <1>3, <1>5, <2>1, <3>1 DEF CallInv
  <2>2. CASE d # c
    BY <1>1, <1>5, <1>8, <2>2, CallStays
  <2> QED BY <2>1, <2>2
<1> QED BY <1>6, <1>7, <1>9, <1>10, <1>11, AllCalmKeeps DEF IInv, CInv, BooksInv, AuthorityInv

\* A refused call hands back the exit.
LEMMA RefusalKeeps ==
    ASSUME IInv, NEW c \in Compositions, RefusalReturns(c)
    PROVE  IInv'
<1>1. /\ call[c] # None /\ call[c].kind = "refused"
      /\ exit' = [exit EXCEPT ![call[c].exit] = "host"] /\ call' = [call EXCEPT ![c] = None]
      /\ UNCHANGED <<phase, at, owned, registry, fiber, ledger, driver, interrupts, owed, starts,
                     outcome, report>>
  BY DEF RefusalReturns, Releasing, history
<1>2. PICK e \in Compositions : e = call[c].exit /\ exit[e] = "future" /\ Fresh(e)
  BY <1>1 DEF IInv, CInv, AuthorityInv, CallInv
<1>3. /\ phase[c] = "driven" /\ phase[e] = "driven" /\ driver[e] = "Shutdown" /\ Holds(c, e)
      /\ \A h \in Compositions : Holds(h, e) => h = c
  <2>1. Holds(c, e) /\ ExitInv(e)
    BY <1>1, <1>2 DEF Holds, IInv, CInv, AuthorityInv
  <2> QED BY <1>1, <1>2, <2>1, HeldExit DEF ExitInv
<1>4. /\ call'[c] = None /\ exit'[e] = "host"
      /\ \A d \in Compositions : d # c => call'[d] = call[d]
      /\ \A d \in Compositions : d # e => exit'[d] = exit[d]
  BY <1>1, <1>2 DEF IInv, TypeInv
<1>5. TypeInv' /\ Once'
  BY <1>1 DEF IInv, TypeInv, Once
<1>6. AllCalm
  <2>1. \A d \in Compositions : InReach(d)' => InReach(d)
    BY <1>1, <1>2, <1>4 DEF InReach
  <2>2. \A d \in Compositions : exit'[d] = "consumed" => exit[d] = "consumed"
    BY <1>4
  <2> QED BY <1>1, <2>1, <2>2 DEF AllCalm, SameWork
<1>7. /\ \A h, d \in Compositions : Holds(h, d)' <=> h # c /\ Holds(h, d)
      /\ \A d \in Compositions : Fresh(d)' = Fresh(d)
  BY <1>1, <1>4 DEF Holds, Fresh, Untouched
<1>8. ASSUME NEW d \in Compositions PROVE PhaseInv(d)'
  <2>1. PhaseInv(d) /\ Untouched(d)' = Untouched(d)
    BY <1>6, AllCalmKeeps
  <2> QED BY <1>1, <1>3, <1>4, <2>1 DEF PhaseInv
<1>9. ASSUME NEW d \in Compositions PROVE ExitInv(d)'
  <2>1. ExitInv(d)
    BY <1>6, AllCalmKeeps
  <2>2. CASE d = e
    BY <1>1, <1>2, <1>3, <1>4, <1>7, <2>1, <2>2 DEF ExitInv
  <2>3. CASE d # e
    <3>1. ~Holds(c, d)
      BY <1>2, <2>3 DEF Holds
    <3> QED BY <1>1, <1>4, <1>7, <2>1, <2>3, <3>1 DEF ExitInv
  <2> QED BY <2>2, <2>3
<1>10. ASSUME NEW d \in Compositions PROVE CallInv(d)'
  <2>1. CASE d = c
    BY <1>4, <2>1 DEF CallInv
  <2>2. CASE d # c
    <3>1. \A g \in Compositions : Holds(d, g) => exit'[g] = exit[g] /\ (Fresh(g) => Fresh(g)')
      BY <1>3, <1>4, <1>7, <2>2
    <3>2. exit[d] = "lost" => exit'[d] = "lost"
      BY <1>2, <1>4
    <3> QED BY <1>1, <1>4, <2>2, <3>1, <3>2, CallStays
  <2> QED BY <2>1, <2>2
<1> QED BY <1>5, <1>6, <1>8, <1>9, <1>10, AllCalmKeeps DEF IInv, CInv, BooksInv, AuthorityInv

\* The host releases without an exit.
LEMMA OwnerLossKeeps ==
    ASSUME IInv, NEW c \in Compositions, ReleaseAfterOwnerLoss(c)
    PROVE  IInv'
<1> DEFINE r == [kind |-> "ownerLoss", exit |-> None, polled |-> TRUE]
<1>1. /\ phase[c] = "driven" /\ call[c] = None /\ ledger[c] # None
      /\ call' = [call EXCEPT ![c] = r] /\ AuthorityLost(c)
      /\ UNCHANGED <<phase, at, owned, registry, fiber, ledger, driver, exit, interrupts, owed, starts,
                     outcome, report>>
  BY DEF ReleaseAfterOwnerLoss, history
<1>2. r \in Call /\ r.kind = "ownerLoss" /\ r.exit = None
  BY DEF Call
<1>3. r # None
  BY <1>2, NoneAssumption
<1> HIDE DEF r
<1>4. call'[c] = r /\ \A d \in Compositions : d # c => call'[d] = call[d]
  BY <1>1 DEF IInv, TypeInv
<1>5. TypeInv' /\ Once'
  BY <1>1, <1>2 DEF IInv, TypeInv, Once
<1>6. AllCalm
  <2>1. \A d \in Compositions : InReach(d)' => InReach(d)
    BY <1>1 DEF InReach
  <2> QED BY <1>1, <2>1 DEF AllCalm, SameWork
<1>7. /\ \A h, d \in Compositions : Holds(h, d)' = Holds(h, d)
      /\ \A d \in Compositions : Fresh(d)' = Fresh(d)
  BY <1>1, <1>2, <1>4 DEF Holds, Fresh, Untouched
<1>8. ASSUME NEW d \in Compositions PROVE PhaseInv(d)'
  <2>1. PhaseInv(d) /\ Untouched(d)' = Untouched(d)
    BY <1>6, AllCalmKeeps
  <2> QED BY <1>1, <1>4, <2>1 DEF PhaseInv
<1>9. ASSUME NEW d \in Compositions PROVE ExitInv(d)'
  <2>1. ExitInv(d)
    BY <1>6, AllCalmKeeps
  <2> QED BY <1>1, <1>7, <2>1 DEF ExitInv
<1>10. driver[c] = "OwnerDropped" \/ exit[c] = "lost"
  <2>1. SUFFICES ASSUME driver[c] = "Shutdown", ledger[c].accepted PROVE exit[c] = "lost"
    BY <1>1 DEF AuthorityLost
  <2>2. exit[c] \in {"none", "host", "future", "lost", "consumed"} /\ ExitInv(c)
    BY <1>6, AllCalmKeeps DEF IInv, TypeInv
  <2>3. exit[c] \notin {"none", "host", "consumed"}
    BY <1>1, <2>1, <2>2 DEF ExitInv, Fresh
  <2>4. exit[c] # "future"
    <3>1. SUFFICES ASSUME exit[c] = "future" PROVE FALSE
      OBVIOUS
    <3>2. PICK h \in Compositions : Holds(h, c)
      BY <2>2, <3>1 DEF ExitInv
    <3>3. call[h] # None /\ call[h] \in Call /\ call[h].kind # "ownerLoss" /\ call[h].exit = c
      BY <3>2, HeldExit DEF Holds
    <3>4. CallInv(h) /\ call[h].kind \in {"orderly", "refused"}
      BY <1>6, <3>3, AllCalmKeeps DEF Call
    <3>5. call[h].kind = "orderly" => h = c
      BY <3>3, <3>4 DEF CallInv
    <3>6. call[h].kind = "refused" => Fresh(c)
      BY <3>3, <3>4 DEF CallInv
    <3> QED BY <1>1, <2>1, <3>3, <3>4, <3>5, <3>6 DEF Fresh
  <2> QED BY <2>2, <2>3, <2>4
<1>11. ASSUME NEW d \in Compositions PROVE CallInv(d)'
  <2>1. CASE d = c
    BY <1>1, <1>2, <1>4, <1>10, <2>1 DEF CallInv
  <2>2. CASE d # c
    BY <1>1, <1>4, <1>7, <2>2, CallStays
  <2> QED BY <2>1, <2>2
<1> QED BY <1>5, <1>6, <1>8, <1>9, <1>11, AllCalmKeeps DEF IInv, CInv, BooksInv, AuthorityInv

----------------------------------------------------------------------------
(* Interruptions *)

\* A release future is gone: its exit is lost and the handle keeps the ledger.
LEMMA ReleaseGone ==
    ASSUME IInv, NEW c \in Compositions, NEW l, FutureGone(c, l), interrupts' \in Nat,
           phase[c] = "driven", call[c] # None,
           ledger[c] = None => l = None,
           ledger[c] # None => l \in Ledger /\ SameWork(ledger[c], l) /\ l.accepted = ledger[c].accepted
    PROVE  IInv'
<1>1. /\ ledger' = [ledger EXCEPT ![c] = l] /\ call' = [call EXCEPT ![c] = None]
      /\ exit' = [d \in Compositions |-> IF call[c].exit = d THEN "lost" ELSE exit[d]]
      /\ UNCHANGED <<phase, at, owned, registry, fiber, driver, owed, starts, outcome, report>>
  BY DEF FutureGone, history
<1>2. TypeInv' /\ Once'
  BY <1>1 DEF IInv, TypeInv, Once
<1>3. /\ call'[c] = None /\ ledger'[c] = l
      /\ \A d \in Compositions : d # c => call'[d] = call[d] /\ ledger'[d] = ledger[d]
      /\ \A d \in Compositions : exit'[d] = IF call[c].exit = d THEN "lost" ELSE exit[d]
  BY <1>1 DEF IInv, TypeInv
<1>4. \A d \in Compositions : call[c].exit = d => Holds(c, d) /\ exit[d] = "future" /\ driver[d] = "Shutdown"
  <2>1. SUFFICES ASSUME NEW d \in Compositions, call[c].exit = d
                 PROVE  Holds(c, d) /\ exit[d] = "future" /\ driver[d] = "Shutdown"
    OBVIOUS
  <2>2. CallInv(c) /\ d # None
    BY <2>1, NoneAssumption DEF IInv, CInv, AuthorityInv
  <2>3. Holds(c, d)
    BY <2>1, <2>2 DEF CallInv, Holds
  <2> QED BY <2>3, HeldExit
<1>5. /\ ledger'[c] = None <=> ledger[c] = None
      /\ ledger[c] # None => SameWork(ledger[c], ledger'[c]) /\ ledger'[c].accepted = ledger[c].accepted
  BY <1>3, NoneAssumption
<1>6. AllCalm
  <2>1. \A d \in Compositions : InReach(d)' => InReach(d)
    BY <1>1, <1>3, <1>4 DEF InReach
  <2>2. \A d \in Compositions : exit'[d] = "consumed" => exit[d] = "consumed"
    BY <1>3
  <2>3. \A d \in Compositions :
            /\ ledger'[d] = None <=> ledger[d] = None
            /\ ledger[d] # None => SameWork(ledger[d], ledger'[d])
    BY <1>3, <1>5 DEF SameWork
  <2> QED BY <1>1, <2>1, <2>2, <2>3 DEF AllCalm
<1>7. /\ \A h, d \in Compositions : Holds(h, d)' <=> h # c /\ Holds(h, d)
      /\ \A d \in Compositions : Fresh(d)' = Fresh(d)
  <2>1. \A h, d \in Compositions : Holds(h, d)' <=> h # c /\ Holds(h, d)
    BY <1>3 DEF Holds
  <2>2. \A d \in Compositions : Untouched(d)' = Untouched(d)
    BY <1>6, AllCalmKeeps
  <2> QED BY <1>3, <1>5, <2>1, <2>2 DEF Fresh
<1>8. ASSUME NEW d \in Compositions PROVE PhaseInv(d)'
  <2>1. PhaseInv(d) /\ Untouched(d)' = Untouched(d) /\ (ledger'[d] = None <=> ledger[d] = None)
    BY <1>6, AllCalmKeeps DEF AllCalm
  <2>2. phase[d] # "driven" => d # c /\ exit'[d] = exit[d]
    BY <1>3, <1>4, <2>1 DEF PhaseInv
  <2> QED BY <1>1, <1>3, <2>1, <2>2 DEF PhaseInv
<1>9. ASSUME NEW d \in Compositions PROVE ExitInv(d)'
  <2>1. ExitInv(d) /\ (ledger'[d] = None <=> ledger[d] = None)
    BY <1>6, AllCalmKeeps DEF AllCalm
  <2>2. CASE call[c].exit = d
    <3>1. exit'[d] = "lost" /\ driver'[d] = "Shutdown"
      BY <1>1, <1>3, <1>4, <2>2
    <3> QED BY <1>7, <2>1, <3>1 DEF ExitInv
  <2>3. CASE call[c].exit # d
    <3>1. ~Holds(c, d) /\ exit'[d] = exit[d]
      BY <1>3, <2>3 DEF Holds
    <3> QED BY <1>1, <1>7, <2>1, <3>1 DEF ExitInv
  <2> QED BY <2>2, <2>3
<1>10. ASSUME NEW d \in Compositions PROVE CallInv(d)'
  <2>1. CASE d = c
    BY <1>3, <2>1 DEF CallInv
  <2>2. CASE d # c
    <3>1. ASSUME NEW g \in Compositions, Holds(d, g)
          PROVE  exit'[g] = exit[g] /\ (Fresh(g) => Fresh(g)')
      <4>1. call[c].exit # g
        BY <1>4, <2>2, <3>1 DEF IInv, CInv, AuthorityInv, ExitInv
      <4> QED BY <1>3, <1>7, <4>1
    <3>2. exit[d] = "lost" => exit'[d] = "lost"
      BY <1>3
    <3> QED BY <1>1, <1>3, <2>2, <3>1, <3>2, CallStays
  <2> QED BY <2>1, <2>2
<1> QED BY <1>2, <1>6, <1>8, <1>9, <1>10, AllCalmKeeps DEF IInv, CInv, BooksInv, AuthorityInv

\* A startup or shutdown future is gone, and the composition with it.
LEMMA StartupGone ==
    ASSUME IInv, NEW c \in Compositions, NEW l, FutureGone(c, l), interrupts' \in Nat,
           phase[c] \in {"activating", "rollingBack", "shuttingDown"}
    PROVE  IInv'
<1>1. /\ ledger' = [ledger EXCEPT ![c] = None] /\ phase' = [phase EXCEPT ![c] = "abandoned"]
      /\ UNCHANGED <<at, owned, registry, fiber, driver, call, exit, owed, starts, outcome, report>>
  BY DEF FutureGone, history
<1>2. TypeInv' /\ Once'
  BY <1>1 DEF IInv, TypeInv, Once
<1>3. /\ ledger'[c] = None /\ phase'[c] = "abandoned"
      /\ \A d \in Compositions : d # c => ledger'[d] = ledger[d] /\ phase'[d] = phase[d]
  BY <1>1 DEF IInv, TypeInv
<1>4. \A d \in Compositions : PhaseInv(d) /\ ExitInv(d) /\ CallInv(d)
  BY DEF IInv, CInv, AuthorityInv
<1>5. call[c] = None /\ driver[c] = "none" /\ exit[c] = "none" /\ report[c] = None
  BY <1>4 DEF PhaseInv
<1>6. ASSUME NEW d \in Compositions, d # c PROVE BooksInv(d)'
  BY <1>1, <1>3, <1>6, OtherCalm
<1>7. /\ \A d \in Compositions : Untouched(d)' = Untouched(d)
      /\ \A d \in Compositions : d # c => Fresh(d)' = Fresh(d)
      /\ \A h, d \in Compositions : Holds(h, d)' = Holds(h, d)
  BY <1>1, <1>3 DEF Untouched, Fresh, Holds
<1>8. ASSUME NEW d \in Compositions PROVE PhaseInv(d)'
  <2>1. CASE d = c
    BY <1>1, <1>3, <1>5, <2>1 DEF PhaseInv
  <2>2. CASE d # c
    <3>1. PhaseInv(d)
      BY <1>4
    <3> QED BY <1>1, <1>3, <1>7, <2>2, <3>1 DEF PhaseInv
  <2> QED BY <2>1, <2>2
<1>9. ASSUME NEW d \in Compositions PROVE ExitInv(d)'
  <2>1. ExitInv(d)
    BY <1>4
  <2>2. CASE d = c
    BY <1>1, <1>3, <1>5, <1>7, <2>1, <2>2 DEF ExitInv
  <2>3. CASE d # c
    BY <1>1, <1>3, <1>7, <2>1, <2>3 DEF ExitInv
  <2> QED BY <2>2, <2>3
<1>10. ASSUME NEW d \in Compositions PROVE CallInv(d)'
  <2>1. CASE d = c
    BY <1>1, <1>5, <2>1 DEF CallInv
  <2>2. CASE d # c
    <3>1. \A g \in Compositions : Holds(d, g) => g # c
      BY <1>5, HeldExit
    <3> QED BY <1>1, <1>3, <1>7, <2>2, <3>1, CallStays
  <2> QED BY <2>1, <2>2
<1>11. BooksInv(c)'
  <2>1. OwnedInv(c)'
    BY <1>1, <1>3 DEF IInv, CInv, OwnedInv
  <2>2. SweepInv(c)' /\ ReportInv(c)'
    BY <1>1, <1>3, <1>5 DEF SweepInv, Live, ReportInv
  <2>3. OrderInv(c)'
    BY <1>1 DEF IInv, CInv, OrderInv
  <2>4. ClearInv(c)'
    BY <1>1, <1>3, <1>5 DEF ClearInv, InReach
  <2> QED BY <2>1, <2>2, <2>3, <2>4 DEF BooksInv
<1> QED BY <1>2, <1>6, <1>8, <1>9, <1>10, <1>11 DEF IInv, CInv, BooksInv, AuthorityInv

\* The host drops a future, or a hook or a parked future panics.
LEMMA DisturbKeeps ==
    ASSUME IInv, NEW c \in Compositions, DropFuture(c) \/ HookPanics(c) \/ StepPanics(c)
    PROVE  IInv'
<1>1. interrupts' \in Nat
  BY DEF DropFuture, HookPanics, StepPanics, Interrupt, IInv, TypeInv
<1>2. CASE Sweeping(c)
  <2>1. /\ ledger[c] \in Ledger /\ ledger[c] # None
        /\ phase[c] \in {"rollingBack", "shuttingDown", "driven"}
        /\ phase[c] = "driven" => call[c] # None
    BY <1>2, SweepFacts, SweepingExcludes
  <2>2. PICK l : /\ FutureGone(c, l) /\ l \in Ledger /\ SameWork(ledger[c], l)
                 /\ l.accepted = ledger[c].accepted
    <3>1. /\ SameWork(ledger[c], ledger[c])
          /\ [ledger[c] EXCEPT !.poisoned = TRUE] \in Ledger
          /\ SameWork(ledger[c], [ledger[c] EXCEPT !.poisoned = TRUE])
          /\ [ledger[c] EXCEPT !.poisoned = TRUE].accepted = ledger[c].accepted
      BY <2>1 DEF SameWork, Ledger
    <3> QED BY <2>1, <3>1 DEF DropFuture, HookPanics, StepPanics
  <2>3. CASE phase[c] = "driven"
    BY <1>1, <2>1, <2>2, <2>3, ReleaseGone
  <2>4. CASE phase[c] # "driven"
    BY <1>1, <2>1, <2>2, <2>4, StartupGone
  <2> QED BY <2>3, <2>4
<1>3. CASE ~Sweeping(c)
  <2>1. /\ FutureGone(c, ledger[c])
        /\ (call[c] # None /\ ~call[c].polled) \/ phase[c] = "activating"
    BY <1>3 DEF DropFuture, HookPanics, StepPanics, InModule, Idle, Sweeping, Activating
  <2>2. CASE phase[c] = "activating"
    BY <1>1, <2>1, <2>2, StartupGone
  <2>3. CASE call[c] # None
    <3>1. phase[c] = "driven"
      BY <2>3, HeldExit
    <3>2. ledger[c] # None => ledger[c] \in Ledger /\ SameWork(ledger[c], ledger[c])
      BY DEF SameWork, IInv, TypeInv
    <3> QED BY <1>1, <2>1, <2>3, <3>1, <3>2, ReleaseGone
  <2> QED BY <2>1, <2>2, <2>3
<1> QED BY <1>2, <1>3

----------------------------------------------------------------------------
(* Activation *)

\* The plugins that the modules of O registered.
Removals(O) == UNION {ToSet(O[j].plugins) : j \in 1..Len(O)}

\* Registered plugins can be removed, and live fibers are registered ones.
Kept(c, O, reg, fib) ==
    /\ reg \subseteq Removals(O)
    /\ \A p \in PluginsIn(c) : fib[p] \in {"created", "started"} => p \in reg

\* A step of c before there is a ledger, or one that makes it.
OwnStep(c) ==
    /\ UNCHANGED <<call, exit, interrupts, starts, outcome>>
    /\ \A d \in Compositions : d # c =>
          /\ phase'[d] = phase[d] /\ at'[d] = at[d] /\ owned'[d] = owned[d] /\ registry'[d] = registry[d]
          /\ ledger'[d] = ledger[d] /\ driver'[d] = driver[d] /\ owed'[d] = owed[d]
          /\ report'[d] = report[d]
    /\ \A p \in Plugins : p \notin PluginsIn(c) => fiber'[p] = fiber[p]

\* What a new ledger asks for.
LEMMA NewLedgerFacts ==
    ASSUME NEW O \in Seq(Acquired)
    PROVE  /\ NewLedger(O) \in Ledger /\ NewLedger(O) # None /\ ~NewLedger(O).accepted
           /\ ToRemove(NewLedger(O)) = Removals(O) /\ NewLedger(O).inFlight = None
<1>1. <<>> \in Seq(Plugins) /\ ToSet(<<>>) = {}
  BY DEF ToSet
<1>2. NewLedger(O) \in Ledger
  BY <1>1 DEF NewLedger, Ledger
<1>3. /\ NewLedger(O).queue = O /\ NewLedger(O).plugins = <<>> /\ NewLedger(O).inFlight = None
      /\ ~NewLedger(O).accepted
  BY DEF NewLedger
<1>4. ToRemove(NewLedger(O)) = Removals(O)
  BY <1>1, <1>3 DEF ToRemove, Removals
<1> QED BY <1>2, <1>3, <1>4, NoneAssumption

\* The state of a composition that has not been handed to an owner.
LEMMA EarlyFacts ==
    ASSUME IInv, NEW c \in Compositions, phase[c] \in {"planned", "activating", "assembly"}
    PROVE  /\ ledger[c] = None /\ report[c] = None /\ Untouched(c) /\ call[c] = None
           /\ driver[c] = "none" /\ exit[c] = "none"
           /\ owned[c] \in Seq(Acquired) /\ OwnedInv(c) /\ FollowsPlan(c, owned[c])
           /\ owed[c] = AllDue(owned[c])
           /\ Kept(c, owned[c], registry[c], fiber)
           /\ \A h \in Compositions : ~Holds(h, c)
<1>1. PhaseInv(c) /\ OwnedInv(c) /\ ClearInv(c) /\ owned[c] \in Seq(Acquired)
  BY DEF IInv, CInv, TypeInv
<1>2. /\ ledger[c] = None /\ report[c] = None /\ Untouched(c) /\ call[c] = None
      /\ driver[c] = "none" /\ exit[c] = "none"
  BY <1>1 DEF PhaseInv
<1>3. Work(c) = NewLedger(owned[c]) /\ InReach(c)
  BY <1>2 DEF Work, InReach
<1>4. /\ registry[c] \subseteq ToRemove(Work(c))
      /\ \A p \in PluginsIn(c) : fiber[p] \in {"created", "started"} =>
            p \in registry[c] \/ Work(c).inFlight = RemovalStep(p)
  BY <1>1, <1>3 DEF ClearInv
<1>5. Kept(c, owned[c], registry[c], fiber)
  BY <1>1, <1>3, <1>4, NewLedgerFacts, RemovalNotNone DEF Kept
<1>6. \A h \in Compositions : ~Holds(h, c)
  BY <1>2, HeldExit
<1> QED BY <1>1, <1>2, <1>5, <1>6 DEF OwnedInv

\* The books of a composition no step of which has been started.
LEMMA EarlyBooks ==
    ASSUME IInv, NEW c \in Compositions, TypeInv', OwnedInv(c)', UNCHANGED <<starts, outcome>>,
           Untouched(c), report'[c] = None, exit'[c] # "consumed",
           ledger'[c] = None \/ ledger'[c] = NewLedger(owned'[c]),
           phase'[c] \in {"activating", "assembly", "rollingBack", "shuttingDown", "driven"},
           phase'[c] = "activating" /\ at'[c].stage # "enter" =>
              ToSet(PluginsOf[Order(c)[at'[c].k]]) \subseteq registry'[c],
           Kept(c, owned'[c], registry'[c], fiber')
    PROVE  BooksInv(c)' /\ Untouched(c)'
<1>1. owned'[c] \in Seq(Acquired) /\ FollowsPlan(c, owned'[c])
  BY DEF TypeInv, OwnedInv
<1>2. Work(c)' = NewLedger(owned'[c])
  BY DEF Work
<1>3. \A s \in StepsIn(c) : starts'[s] = 0 /\ outcome'[s] = "none"
  BY DEF Untouched, StepsIn
<1>4. Swept(owned'[c], NewLedger(owned'[c]), starts', outcome')
  BY <1>1, <1>3, FreshSwept
<1>5. SweepInv(c)'
  BY <1>2, <1>4 DEF SweepInv
<1>6. ReportInv(c)'
  BY DEF ReportInv
<1>7. OrderInv(c)'
  <2>1. NewLedger(owned'[c]).queue \in Seq(Acquired)
    BY <1>1 DEF NewLedger
  <2>2. LaterFirst(owned'[c], starts', outcome')
    BY <1>1, <1>4, <2>1, SweptInOrder
  <2> QED BY <2>2 DEF OrderInv
<1>8. ClearInv(c)'
  <2>1. ToRemove(Work(c)') = Removals(owned'[c])
    BY <1>1, <1>2, NewLedgerFacts
  <2>2. Module(c)' = Order(c)[at'[c].k]
    BY DEF Module
  <2> QED BY <2>1, <2>2 DEF ClearInv, Kept
<1>9. Untouched(c)'
  BY DEF Untouched
<1> QED BY <1>5, <1>6, <1>7, <1>8, <1>9 DEF BooksInv

\* A step of one composition on its way to an owner.
LEMMA ActivationKeeps ==
    ASSUME IInv, NEW c \in Compositions, phase[c] \in {"planned", "activating", "assembly"},
           OwnStep(c), TypeInv', BooksInv(c)', PhaseInv(c)',
           driver'[c] = "none" \/ (driver'[c] = "Running" /\ Fresh(c)')
    PROVE  IInv'
<1>1. /\ call[c] = None /\ driver[c] = "none" /\ exit[c] = "none"
      /\ \A h \in Compositions : ~Holds(h, c)
  BY EarlyFacts
<1>2. ASSUME NEW d \in Compositions, d # c
      PROVE  BooksInv(d)' /\ (Untouched(d)' <=> Untouched(d))
  BY <1>2, OtherCalm DEF OwnStep
<1>3. Once'
  BY DEF IInv, Once, OwnStep
<1>4. \A d \in Compositions : PhaseInv(d) /\ ExitInv(d) /\ CallInv(d)
  BY DEF IInv, CInv, AuthorityInv
<1>5. /\ \A h, d \in Compositions : Holds(h, d)' = Holds(h, d)
      /\ \A d \in Compositions : d # c => Fresh(d)' = Fresh(d)
  BY <1>2 DEF Holds, Fresh, OwnStep
<1>6. ASSUME NEW d \in Compositions PROVE PhaseInv(d)'
  <2>1. CASE d = c
    BY <2>1
  <2>2. CASE d # c
    <3>1. PhaseInv(d) /\ (Untouched(d)' <=> Untouched(d))
      BY <1>2, <1>4, <2>2
    <3> QED BY <2>2, <3>1 DEF PhaseInv, OwnStep
  <2> QED BY <2>1, <2>2
<1>7. ASSUME NEW d \in Compositions PROVE ExitInv(d)'
  <2>1. ExitInv(d)
    BY <1>4
  <2>2. CASE d = c
    BY <1>1, <1>5, <2>2 DEF ExitInv, OwnStep
  <2>3. CASE d # c
    BY <1>5, <2>1, <2>3 DEF ExitInv, OwnStep
  <2> QED BY <2>2, <2>3
<1>8. ASSUME NEW d \in Compositions PROVE CallInv(d)'
  <2>1. CASE d = c
    BY <1>1, <2>1 DEF CallInv, OwnStep
  <2>2. CASE d # c
    <3>1. /\ call'[d] = call[d] /\ driver'[d] = driver[d] /\ exit' = exit /\ ledger'[d] = ledger[d]
      BY <2>2 DEF OwnStep
    <3>2. \A g \in Compositions : Holds(d, g) => g # c
      BY <1>1
    <3> QED BY <1>5, <3>1, <3>2, CallStays
  <2> QED BY <2>1, <2>2
<1> QED BY <1>2, <1>3, <1>6, <1>7, <1>8 DEF IInv, CInv, BooksInv, AuthorityInv

\* A step of the activation that acquires something.
LEMMA AcquireKeeps ==
    ASSUME IInv, NEW c \in Compositions, phase[c] \in {"planned", "activating", "assembly"},
           OwnStep(c), TypeInv', OwnedInv(c)', phase'[c] \in {"activating", "assembly"},
           ledger'[c] = None, report'[c] = None, driver'[c] = "none",
           phase'[c] = "activating" /\ at'[c].stage # "enter" =>
              ToSet(PluginsOf[Order(c)[at'[c].k]]) \subseteq registry'[c],
           Kept(c, owned'[c], registry'[c], fiber')
    PROVE  IInv'
<1>1. /\ Untouched(c) /\ call[c] = None /\ exit[c] = "none"
      /\ UNCHANGED <<call, exit, starts, outcome>>
  BY EarlyFacts DEF OwnStep
<1>2. BooksInv(c)' /\ Untouched(c)'
  BY <1>1, EarlyBooks
<1>3. PhaseInv(c)'
  BY <1>1, <1>2 DEF PhaseInv
<1> QED BY <1>2, <1>3, ActivationKeeps

\* A composition gets its ledger: it rolls back, shuts down or is driven.
LEMMA HandoverKeeps ==
    ASSUME IInv, NEW c \in Compositions, phase[c] \in {"activating", "assembly"},
           NEW ph \in {"rollingBack", "shuttingDown", "driven"},
           phase' = [phase EXCEPT ![c] = ph], ledger' = [ledger EXCEPT ![c] = NewLedger(owned[c])],
           driver' = [driver EXCEPT ![c] = IF ph = "driven" THEN "Running" ELSE "none"],
           UNCHANGED <<at, owned, registry, call, exit, interrupts, owed, starts, outcome, report>>,
           fiber' \in [Plugins -> {"none", "created", "started", "disposed"}],
           \A p \in Plugins : p \notin PluginsIn(c) => fiber'[p] = fiber[p],
           \A p \in PluginsIn(c) : fiber'[p] \in {"created", "started"} => p \in registry[c]
    PROVE  IInv'
<1>1. /\ report[c] = None /\ Untouched(c) /\ call[c] = None
      /\ driver[c] = "none" /\ exit[c] = "none"
      /\ owned[c] \in Seq(Acquired) /\ OwnedInv(c)
      /\ Kept(c, owned[c], registry[c], fiber)
  BY EarlyFacts
<1>2. NewLedger(owned[c]) \in Ledger /\ NewLedger(owned[c]) # None /\ ~NewLedger(owned[c]).accepted
  BY <1>1, NewLedgerFacts
<1>3. TypeInv'
  BY <1>2 DEF IInv, TypeInv
<1>4. /\ phase'[c] = ph /\ ledger'[c] = NewLedger(owned[c])
      /\ driver'[c] = IF ph = "driven" THEN "Running" ELSE "none"
      /\ \A d \in Compositions : d # c => phase'[d] = phase[d] /\ ledger'[d] = ledger[d] /\ driver'[d] = driver[d]
  BY DEF IInv, TypeInv
<1>5. OwnStep(c)
  BY <1>4 DEF OwnStep
<1>6. OwnedInv(c)'
  BY <1>1, <1>4 DEF OwnedInv
<1>7. Kept(c, owned'[c], registry'[c], fiber')
  BY <1>1 DEF Kept
<1>8. BooksInv(c)' /\ Untouched(c)'
  BY <1>1, <1>3, <1>4, <1>6, <1>7, EarlyBooks
<1>9. PhaseInv(c)'
  BY <1>1, <1>2, <1>4 DEF PhaseInv
<1>10. Fresh(c)'
  BY <1>2, <1>4, <1>8 DEF Fresh
<1> QED BY <1>3, <1>4, <1>5, <1>8, <1>9, <1>10, ActivationKeeps

\* The activation fails.
LEMMA RollBackKeeps ==
    ASSUME IInv, NEW c \in Compositions, phase[c] = "activating", RollBack(c),
           UNCHANGED <<at, owned, registry, call, driver, exit, interrupts, owed, starts, outcome, report>>,
           fiber' \in [Plugins -> {"none", "created", "started", "disposed"}],
           \A p \in Plugins : p \notin PluginsIn(c) => fiber'[p] = fiber[p],
           \A p \in PluginsIn(c) : fiber'[p] \in {"created", "started"} => p \in registry[c]
    PROVE  IInv'
<1>1. driver' = [driver EXCEPT ![c] = "none"]
  <2>1. driver[c] = "none"
    BY EarlyFacts
  <2> QED BY <2>1 DEF IInv, TypeInv
<1>2. /\ phase' = [phase EXCEPT ![c] = "rollingBack"]
      /\ ledger' = [ledger EXCEPT ![c] = NewLedger(owned[c])]
  BY DEF RollBack
<1> QED BY <1>1, <1>2, HandoverKeeps

\* The owners of an activated composition.
LEMMA OwnersKeep ==
    ASSUME IInv, NEW c \in Compositions, Shutdown(c) \/ IntoDriver(c)
    PROVE  IInv'
<1>1. /\ phase[c] = "assembly" /\ ledger' = [ledger EXCEPT ![c] = NewLedger(owned[c])]
      /\ UNCHANGED <<at, owned, registry, fiber, call, exit, interrupts, owed, starts, outcome, report>>
  BY DEF Shutdown, IntoDriver, release, history
<1>2. PICK ph \in {"shuttingDown", "driven"} :
         /\ phase' = [phase EXCEPT ![c] = ph]
         /\ driver' = [driver EXCEPT ![c] = IF ph = "driven" THEN "Running" ELSE "none"]
  <2>1. driver = [driver EXCEPT ![c] = "none"]
    <3>1. driver[c] = "none"
      BY <1>1, EarlyFacts
    <3> QED BY <3>1 DEF IInv, TypeInv
  <2> QED BY <2>1 DEF Shutdown, IntoDriver, release
<1>3. /\ fiber' \in [Plugins -> {"none", "created", "started", "disposed"}]
      /\ \A p \in PluginsIn(c) : fiber'[p] \in {"created", "started"} => p \in registry[c]
  BY <1>1, EarlyFacts DEF Kept, IInv, TypeInv
<1>4. ph \in {"rollingBack", "shuttingDown", "driven"}
  BY <1>2
<1> QED BY <1>1, <1>2, <1>3, <1>4, HandoverKeeps

\* The host removes a plugin before it passes the composition on.
LEMMA HostRemovesKeeps ==
    ASSUME IInv, NEW c \in Compositions, NEW p \in PluginsIn(c), HostRemoves(c, p)
    PROVE  IInv'
<1>1. /\ phase[c] = "assembly" /\ registry' = [registry EXCEPT ![c] = @ \ {p}]
      /\ fiber' = [fiber EXCEPT ![p] = "disposed"]
      /\ UNCHANGED <<phase, at, owned, ledger, call, driver, exit, interrupts, owed, starts, outcome, report>>
  BY DEF HostRemoves, release, history
<1>2. p \in Plugins /\ PluginsIn(c) \subseteq Plugins
  BY PlanFacts
<1>3. /\ fiber'[p] = "disposed" /\ \A q \in Plugins : q # p => fiber'[q] = fiber[q]
      /\ registry'[c] = registry[c] \ {p}
      /\ \A d \in Compositions : d # c => registry'[d] = registry[d]
  BY <1>1, <1>2 DEF IInv, TypeInv
<1>4. TypeInv'
  BY <1>1, <1>2 DEF IInv, TypeInv
<1>5. OwnStep(c)
  BY <1>1, <1>2, <1>3 DEF OwnStep
<1>6. OwnedInv(c) /\ Kept(c, owned[c], registry[c], fiber) /\ ledger[c] = None /\ report[c] = None
      /\ driver[c] = "none"
  BY <1>1, EarlyFacts
<1>7. OwnedInv(c)'
  BY <1>1, <1>6 DEF OwnedInv
<1>8. Kept(c, owned'[c], registry'[c], fiber')
  BY <1>1, <1>2, <1>3, <1>6 DEF Kept
<1> QED BY <1>1, <1>4, <1>5, <1>6, <1>7, <1>8, AcquireKeeps

\* The runtime was constructed, or could not be.
LEMMA ConstructKeeps ==
    ASSUME IInv, NEW c \in Compositions, Construct(c)
    PROVE  IInv'
<1> DEFINE r == [cleaned |-> {}, failures |-> {}]
<1>1. /\ phase[c] = "planned"
      /\ UNCHANGED <<at, owned, registry, fiber, ledger, call, driver, exit, interrupts,
                     owed, starts, outcome>>
  BY DEF Construct, release
<1>2. /\ ledger[c] = None /\ report[c] = None /\ Untouched(c) /\ call[c] = None
      /\ driver[c] = "none" /\ exit[c] = "none" /\ owned[c] \in Seq(Acquired)
      /\ OwnedInv(c) /\ owed[c] = AllDue(owned[c]) /\ Kept(c, owned[c], registry[c], fiber)
  BY <1>1, EarlyFacts
<1>3. r \in Report /\ r.cleaned = {} /\ r.failures = {}
  BY DEF Report
<1> HIDE DEF r
<1>4. CASE phase' = [phase EXCEPT ![c] = "activating"] /\ UNCHANGED report
  <2>1. TypeInv'
    BY <1>1, <1>4 DEF IInv, TypeInv
  <2>2. phase'[c] = "activating" /\ \A d \in Compositions : d # c => phase'[d] = phase[d]
    BY <1>4 DEF IInv, TypeInv
  <2>3. OwnStep(c)
    BY <1>1, <1>4, <2>2 DEF OwnStep
  <2>4. OwnedInv(c)' /\ at'[c].stage = "enter"
    BY <1>1, <1>2, <2>2 DEF OwnedInv
  <2>5. Kept(c, owned'[c], registry'[c], fiber')
    BY <1>1, <1>2
  <2> QED BY <1>1, <1>2, <1>4, <2>1, <2>2, <2>3, <2>4, <2>5, AcquireKeeps
<1>5. CASE phase' = [phase EXCEPT ![c] = "failed"] /\ report' = [report EXCEPT ![c] = r]
  <2>1. TypeInv'
    BY <1>1, <1>3, <1>5 DEF IInv, TypeInv
  <2>2. /\ phase'[c] = "failed" /\ report'[c] = r
        /\ \A d \in Compositions : d # c => phase'[d] = phase[d] /\ report'[d] = report[d]
    BY <1>5 DEF IInv, TypeInv
  <2>3. OwnStep(c)
    BY <1>1, <2>2 DEF OwnStep
  <2>4. Len(owned[c]) = 0 /\ registry[c] = {}
    <3>1. at[c].k = 1 /\ at[c].k = Len(owned[c]) + 1 /\ Len(owned[c]) \in Nat
      BY <1>1, <1>2, LenProperties DEF OwnedInv
    <3> QED BY <1>1, <3>1 DEF IInv, CInv, ClearInv
  <2>5. owed[c] = {}
    BY <1>2, <2>4 DEF AllDue
  <2>6. OwnedInv(c)'
    BY <1>1, <1>2, <2>2 DEF OwnedInv
  <2>7. SweepInv(c)'
    BY <1>1, <1>2, <2>2 DEF SweepInv, Live
  <2>8. ReportInv(c)'
    <3>1. CleanFrom(owned[c], 0, {}) = {}
      BY <2>4 DEF CleanFrom
    <3> QED BY <1>1, <1>3, <2>2, <2>5, <3>1 DEF ReportInv, Unsuccessful
  <2>9. OrderInv(c)'
    BY <1>1, <2>4 DEF OrderInv, LaterFirst
  <2>10. ClearInv(c)'
    <3>1. \A p \in PluginsIn(c) : fiber[p] \in {"none", "disposed"}
      BY <1>2, <2>4, PlanFacts DEF Kept, IInv, TypeInv
    <3> QED BY <1>1, <1>2, <2>2, <2>4, <3>1 DEF ClearInv, InReach
  <2>11. PhaseInv(c)'
    BY <1>1, <1>2, <2>2 DEF PhaseInv
  <2> QED BY <1>1, <1>2, <2>1, <2>3, <2>6, <2>7, <2>8, <2>9, <2>10, <2>11, ActivationKeeps DEF BooksInv
<1> QED BY <1>4, <1>5 DEF Construct, r

\* One more module on the list of acquired ones.
LEMMA AppendAcquired ==
    ASSUME NEW c \in Compositions, NEW O \in Seq(Acquired), FollowsPlan(c, O),
           Len(O) < Len(Order(c)), NEW a \in Acquired, a.id = Order(c)[Len(O) + 1],
           a.plugins = PluginsOf[Order(c)[Len(O) + 1]], a.fibers = <<>>, ~a.armed
    PROVE  /\ Append(O, a) \in Seq(Acquired) /\ Len(Append(O, a)) = Len(O) + 1
           /\ Append(O, a)[Len(O) + 1] = a /\ FollowsPlan(c, Append(O, a))
           /\ AllDue(Append(O, a)) = AllDue(O) \cup {RemovalStep(p) : p \in ToSet(a.plugins)}
           /\ Removals(Append(O, a)) = Removals(O) \cup ToSet(a.plugins)
<1> DEFINE Q == Append(O, a)
           n == Len(O)
<1>1. n \in Nat /\ Len(Order(c)) \in Nat
  BY LenProperties, OrderFacts
<1>2. /\ Q \in Seq(Acquired) /\ Len(Q) = n + 1 /\ Q[n + 1] = a
      /\ \A j \in 1..n : Q[j] = O[j]
  BY AppendProperties
<1>3. 1..(n + 1) = (1..n) \cup {n + 1}
  BY <1>1
<1> HIDE DEF Q, n
<1>4. FollowsPlan(c, Q)
  <2>1. StartOf(a.fibers, PluginsOf[Order(c)[n + 1]])
    <3>1. Order(c)[n + 1] \in Modules
      <4>1. n + 1 \in 1..Len(Order(c))
        BY <1>1 DEF n
      <4> QED BY <4>1, OrderFacts
    <3>2. Len(PluginsOf[Order(c)[n + 1]]) \in Nat
      BY <3>1, PlanFacts, LenProperties
    <3> QED BY <3>2 DEF StartOf
  <2>2. Len(Q) <= Len(Order(c))
    BY <1>1, <1>2 DEF n
  <2> QED BY <1>2, <1>3, <2>1, <2>2 DEF FollowsPlan, n
<1>5. DueOf(a) = {RemovalStep(p) : p \in ToSet(a.plugins)}
  <2>1. ToSet(<<>>) = {}
    BY DEF ToSet
  <2> QED BY <2>1 DEF DueOf, Due
<1>6. AllDue(Q) = AllDue(O) \cup DueOf(a)
  BY <1>2, <1>3 DEF AllDue, n
<1>7. Removals(Q) = Removals(O) \cup ToSet(a.plugins)
  BY <1>2, <1>3 DEF Removals, n
<1> QED BY <1>2, <1>4, <1>5, <1>6, <1>7 DEF Q, n

\* Q is O with a, the last module of O with more acquired.
Grows(c, O, a, Q) ==
    /\ Len(O) > 0 /\ Q = [O EXCEPT ![Len(O)] = a]
    /\ a.id = O[Len(O)].id /\ a.plugins = O[Len(O)].plugins
    /\ StartOf(a.fibers, PluginsOf[Order(c)[Len(O)]])
    /\ DueOf(O[Len(O)]) \subseteq DueOf(a)

\* The last module on the list has acquired more.
LEMMA ReplaceAcquired ==
    ASSUME NEW c \in Compositions, NEW O \in Seq(Acquired), FollowsPlan(c, O),
           NEW a \in Acquired, NEW Q, Grows(c, O, a, Q)
    PROVE  /\ Q \in Seq(Acquired) /\ Len(Q) = Len(O) /\ Q[Len(O)] = a
           /\ FollowsPlan(c, Q)
           /\ AllDue(Q) = AllDue(O) \cup DueOf(a)
           /\ Removals(Q) = Removals(O)
<1> DEFINE n == Len(O)
<1>1. n \in Nat /\ n \in 1..n /\ DOMAIN O = 1..n /\ 1..n = (1..(n - 1)) \cup {n}
  BY LenProperties DEF Grows
<1>2. /\ Q \in Seq(Acquired) /\ Len(Q) = n /\ Q[n] = a
      /\ \A j \in 1..n : j # n => Q[j] = O[j]
  BY <1>1, ExceptSeq DEF Grows
<1> HIDE DEF n
<1>3. FollowsPlan(c, Q)
  BY <1>2 DEF FollowsPlan, n, Grows
<1>4. AllDue(Q) = AllDue(O) \cup DueOf(a)
  BY <1>1, <1>2 DEF AllDue, n, Grows
<1>5. Removals(Q) = Removals(O)
  BY <1>1, <1>2 DEF Removals, n, Grows
<1> QED BY <1>2, <1>3, <1>4, <1>5 DEF n

\* The module that is being activated.
LEMMA ModuleFacts ==
    ASSUME IInv, NEW c \in Compositions, phase[c] = "activating", at[c].stage # "enter"
    PROVE  /\ at[c].k = Len(owned[c]) /\ Len(owned[c]) > 0 /\ Len(owned[c]) \in 1..Len(owned[c])
           /\ Index(c) = Len(owned[c]) /\ Module(c) = Order(c)[Len(owned[c])]
           /\ Module(c) \in ModulesOf[c] /\ Module(c) \in Modules
           /\ PluginsOf[Module(c)] \in Seq(Plugins)
           /\ ToSet(PluginsOf[Module(c)]) \subseteq PluginsIn(c)
           /\ ToSet(PluginsOf[Module(c)]) \subseteq registry[c]
           /\ owned[c][Len(owned[c])] \in Acquired
           /\ owned[c][Len(owned[c])].id = Module(c)
           /\ owned[c][Len(owned[c])].plugins = PluginsOf[Module(c)]
           /\ StartOf(owned[c][Len(owned[c])].fibers, PluginsOf[Module(c)])
           /\ Len(owned[c][Len(owned[c])].fibers) = at[c].i - 1
           /\ ~owned[c][Len(owned[c])].armed
<1>1. /\ owned[c] \in Seq(Acquired) /\ OwnedInv(c) /\ FollowsPlan(c, owned[c])
  BY EarlyFacts
<1>2. /\ at[c].k = Len(owned[c]) /\ Len(owned[c]) > 0 /\ Len(owned[c]) \in Nat
      /\ Len(owned[c][Len(owned[c])].fibers) = at[c].i - 1
      /\ ~owned[c][Len(owned[c])].armed
  BY <1>1, LenProperties DEF OwnedInv
<1>3. Len(owned[c]) \in 1..Len(owned[c]) /\ Index(c) = Len(owned[c])
      /\ Module(c) = Order(c)[Len(owned[c])]
  BY <1>2 DEF Index, Module
<1>4. /\ owned[c][Len(owned[c])].id = Module(c)
      /\ owned[c][Len(owned[c])].plugins = PluginsOf[Module(c)]
      /\ StartOf(owned[c][Len(owned[c])].fibers, PluginsOf[Module(c)])
  BY <1>1, <1>3 DEF FollowsPlan
<1>5. /\ owned[c][Len(owned[c])] \in Acquired /\ Module(c) \in ModulesOf[c] /\ Module(c) \in Modules
  BY <1>1, <1>3, <1>4, AcquiredFacts
<1>6. ToSet(PluginsOf[Module(c)]) \subseteq registry[c]
  BY DEF IInv, CInv, ClearInv
<1>7. PluginsOf[Module(c)] \in Seq(Plugins) /\ ToSet(PluginsOf[Module(c)]) \subseteq PluginsIn(c)
  BY <1>5, PlanFacts DEF PluginsIn
<1> QED BY <1>2, <1>3, <1>4, <1>5, <1>6, <1>7

\* The next module registers its plugins.
LEMMA RegisterKeeps ==
    ASSUME IInv, NEW c \in Compositions, RegisterPlugins(c)
    PROVE  IInv'
<1> DEFINE m == Module(c)
           ps == PluginsOf[m]
           a == [ActivatedModule(m) EXCEPT !.plugins = ps]
           O == owned[c]
<1>1. /\ phase[c] = "activating" /\ at[c].stage = "enter" /\ at[c].k <= Len(Order(c))
      /\ owned' = [owned EXCEPT ![c] = Append(O, a)]
      /\ registry' = [registry EXCEPT ![c] = registry[c] \cup ToSet(ps)]
      /\ owed' = [owed EXCEPT ![c] = owed[c] \cup {RemovalStep(p) : p \in ToSet(ps)}]
      /\ at' = [at EXCEPT ![c].stage = "instantiate", ![c].i = 1]
      /\ UNCHANGED <<phase, fiber, ledger, call, driver, exit, interrupts, starts, outcome, report>>
  BY DEF RegisterPlugins, Activating, Owe, Goto, release
<1>2. /\ O \in Seq(Acquired) /\ OwnedInv(c) /\ FollowsPlan(c, O) /\ owed[c] = AllDue(O)
      /\ Kept(c, O, registry[c], fiber) /\ ledger[c] = None /\ report[c] = None /\ driver[c] = "none"
  BY <1>1, EarlyFacts
<1>3. /\ Len(O) \in Nat /\ at[c].k = Len(O) + 1 /\ Len(O) < Len(Order(c))
      /\ at[c].k \in 1..Len(Order(c)) /\ m = Order(c)[Len(O) + 1]
  BY <1>1, <1>2, LenProperties, OrderFacts DEF OwnedInv, Module
<1>4. m \in ModulesOf[c] /\ m \in Modules
  BY <1>3, OrderFacts DEF Module
<1>5. ps \in Seq(Plugins) /\ ToSet(ps) \subseteq Plugins
  BY <1>4, PlanFacts
<1>6. /\ a \in Acquired /\ a.id = m /\ a.plugins = ps /\ a.fibers = <<>> /\ ~a.armed
  <2>1. <<>> \in Seq(Plugins)
    OBVIOUS
  <2> QED BY <1>4, <1>5, <2>1 DEF ActivatedModule, Acquired
<1> HIDE DEF m, ps, a
<1>7. /\ Append(O, a) \in Seq(Acquired) /\ Len(Append(O, a)) = Len(O) + 1
      /\ Append(O, a)[Len(O) + 1] = a /\ FollowsPlan(c, Append(O, a))
      /\ AllDue(Append(O, a)) = AllDue(O) \cup {RemovalStep(p) : p \in ToSet(ps)}
      /\ Removals(Append(O, a)) = Removals(O) \cup ToSet(ps)
  <2>1. a.id = Order(c)[Len(O) + 1] /\ a.plugins = PluginsOf[Order(c)[Len(O) + 1]]
    BY <1>3, <1>6 DEF ps
  <2> HIDE DEF O
  <2> QED BY <1>2, <1>3, <1>6, <2>1, AppendAcquired
<1>8. /\ owned'[c] = Append(O, a) /\ registry'[c] = registry[c] \cup ToSet(ps)
      /\ owed'[c] = AllDue(Append(O, a))
      /\ at'[c].k = at[c].k /\ at'[c].stage = "instantiate" /\ at'[c].i = 1
      /\ at' \in [Compositions -> [k : Nat, stage : {"enter", "instantiate", "start"}, i : Nat]]
      /\ \A d \in Compositions : d # c =>
            owned'[d] = owned[d] /\ registry'[d] = registry[d] /\ owed'[d] = owed[d] /\ at'[d] = at[d]
  BY <1>1, <1>2, <1>7 DEF IInv, TypeInv
<1>9. {RemovalStep(p) : p \in ToSet(ps)} \subseteq Steps
  BY <1>4, StepsApart DEF StepsOf, ps
<1>10. TypeInv'
  BY <1>1, <1>5, <1>7, <1>8, <1>9 DEF IInv, TypeInv
<1>11. OwnStep(c)
  BY <1>1, <1>8 DEF OwnStep
<1>12. OwnedInv(c)'
  <2>1. Len(owned'[c][at'[c].k].fibers) = 0 /\ ~owned'[c][at'[c].k].armed
    BY <1>3, <1>6, <1>7, <1>8
  <2>2. at'[c].k = Len(owned'[c]) /\ at'[c].k > 0 /\ 0 = at'[c].i - 1
    BY <1>3, <1>7, <1>8
  <2>3. FollowsPlan(c, owned'[c]) /\ owed'[c] = AllDue(owned'[c]) /\ phase'[c] = "activating"
    BY <1>1, <1>7, <1>8
  <2> QED BY <1>8, <2>1, <2>2, <2>3 DEF OwnedInv
<1>13. Kept(c, owned'[c], registry'[c], fiber')
  BY <1>1, <1>2, <1>7, <1>8 DEF Kept
<1>14. ToSet(PluginsOf[Order(c)[at'[c].k]]) \subseteq registry'[c]
  BY <1>3, <1>8 DEF ps
<1> QED BY <1>1, <1>2, <1>10, <1>11, <1>12, <1>13, <1>14, AcquireKeeps

\* Fibers are created, all or some of them.
LEMMA InstantiateKeeps ==
    ASSUME IInv, NEW c \in Compositions, InstantiateFibers(c)
    PROVE  IInv'
<1> DEFINE ps == PluginsOf[Module(c)]
<1>1. /\ phase[c] = "activating" /\ at[c].stage = "instantiate"
      /\ UNCHANGED <<owned, registry, call, driver, exit, interrupts, owed, starts, outcome, report>>
  BY DEF InstantiateFibers, Activating, release, history
<1>2. PICK made \in 0..Len(ps) :
         /\ fiber' = [p \in Plugins |-> IF p \in ToSet(SubSeq(ps, 1, made)) THEN "created" ELSE fiber[p]]
         /\ IF made = Len(ps)
            THEN /\ at' = [at EXCEPT ![c].stage = "start", ![c].i = 1]
                 /\ UNCHANGED <<phase, ledger>>
            ELSE RollBack(c) /\ UNCHANGED at
  BY DEF InstantiateFibers, Goto
<1>3. /\ ps \in Seq(Plugins) /\ ToSet(ps) \subseteq PluginsIn(c) /\ ToSet(ps) \subseteq registry[c]
      /\ Len(ps) \in Nat /\ at[c].k = Len(owned[c]) /\ Module(c) = Order(c)[at[c].k]
  BY <1>1, ModuleFacts, LenProperties
<1>4. ToSet(SubSeq(ps, 1, made)) \subseteq ToSet(ps)
  <2>0. \A j \in 1..made : ps[j] \in Plugins
    BY <1>2, <1>3, ElementOfSeq
  <2> HIDE DEF ps
  <2>1. /\ SubSeq(ps, 1, made) \in Seq(Plugins) /\ Len(SubSeq(ps, 1, made)) = made
        /\ \A j \in 1..made : SubSeq(ps, 1, made)[j] = ps[j]
    BY <1>2, <1>3, <2>0, SubSeqProperties
  <2>2. StartOf(SubSeq(ps, 1, made), ps)
    BY <1>2, <1>3, <2>1 DEF StartOf
  <2> QED BY <1>3, <2>1, <2>2, StartSubset
<1>5. /\ OwnedInv(c) /\ Kept(c, owned[c], registry[c], fiber) /\ ledger[c] = None /\ report[c] = None
      /\ driver[c] = "none"
  BY <1>1, EarlyFacts
<1>6. /\ fiber' \in [Plugins -> {"none", "created", "started", "disposed"}]
      /\ \A p \in Plugins : p \notin PluginsIn(c) => fiber'[p] = fiber[p]
      /\ \A p \in PluginsIn(c) : fiber'[p] \in {"created", "started"} => p \in registry[c]
  <2>1. fiber' \in [Plugins -> {"none", "created", "started", "disposed"}]
    BY <1>2 DEF IInv, TypeInv
  <2>2. \A p \in Plugins : fiber'[p] = fiber[p] \/ p \in ToSet(ps)
    BY <1>2, <1>4
  <2> QED BY <1>3, <1>5, <2>1, <2>2, PlanFacts DEF Kept
<1> HIDE DEF ps
<1>7. CASE made # Len(ps)
  BY <1>1, <1>2, <1>6, <1>7, RollBackKeeps
<1>8. CASE made = Len(ps)
  <2>1. /\ at' = [at EXCEPT ![c].stage = "start", ![c].i = 1] /\ UNCHANGED <<phase, ledger>>
    BY <1>2, <1>8
  <2>2. /\ at'[c].k = at[c].k /\ at'[c].stage = "start" /\ at'[c].i = 1
        /\ at' \in [Compositions -> [k : Nat, stage : {"enter", "instantiate", "start"}, i : Nat]]
        /\ \A d \in Compositions : d # c => at'[d] = at[d]
    <3>1. at \in [Compositions -> [k : Nat, stage : {"enter", "instantiate", "start"}, i : Nat]]
      BY DEF IInv, TypeInv
    <3> QED BY <2>1, <3>1
  <2>3. TypeInv'
    BY <1>1, <1>6, <2>1, <2>2 DEF IInv, TypeInv
  <2>4. OwnStep(c)
    BY <1>1, <1>6, <2>1, <2>2 DEF OwnStep
  <2>5. OwnedInv(c)'
    BY <1>1, <1>5, <2>1, <2>2 DEF OwnedInv
  <2>6. Kept(c, owned'[c], registry'[c], fiber')
    BY <1>1, <1>5, <1>6 DEF Kept
  <2>7. ToSet(PluginsOf[Order(c)[at'[c].k]]) \subseteq registry'[c]
    BY <1>1, <1>3, <2>2 DEF ps
  <2> QED BY <1>1, <1>5, <2>1, <2>3, <2>4, <2>5, <2>6, <2>7, AcquireKeeps
<1> QED BY <1>7, <1>8

\* The next fiber starts, or fails to.
LEMMA StartFiberKeeps ==
    ASSUME IInv, NEW c \in Compositions, StartFiber(c)
    PROVE  IInv'
<1> DEFINE O == owned[c]
           n == Len(O)
           ps == PluginsOf[Module(c)]
           i == at[c].i
           p == ps[i]
           a == [O[n] EXCEPT !.fibers = Append(O[n].fibers, p)]
           Q == [O EXCEPT ![n] = a]
<1>1. /\ phase[c] = "activating" /\ at[c].stage = "start" /\ i <= Len(ps)
      /\ UNCHANGED <<registry, call, driver, exit, interrupts, starts, outcome, report>>
  BY DEF StartFiber, Activating, release
<1>2. /\ at[c].k = n /\ n > 0 /\ n \in 1..n /\ Index(c) = n /\ Module(c) = Order(c)[n]
      /\ Module(c) \in ModulesOf[c] /\ Module(c) \in Modules /\ ps \in Seq(Plugins)
      /\ ToSet(ps) \subseteq PluginsIn(c) /\ ToSet(ps) \subseteq registry[c]
      /\ O[n] \in Acquired /\ O[n].id = Module(c) /\ O[n].plugins = ps /\ StartOf(O[n].fibers, ps)
      /\ Len(O[n].fibers) = i - 1 /\ ~O[n].armed
  BY <1>1, ModuleFacts
<1>3. /\ O \in Seq(Acquired) /\ OwnedInv(c) /\ FollowsPlan(c, O) /\ owed[c] = AllDue(O)
      /\ Kept(c, O, registry[c], fiber) /\ ledger[c] = None /\ report[c] = None /\ driver[c] = "none"
  BY <1>1, EarlyFacts
<1>4. /\ i \in Nat /\ O[n].fibers \in Seq(Plugins) /\ i \in 1..Len(ps) /\ Len(ps) \in Nat
  <2>1. i \in Nat
    BY DEF IInv, TypeInv
  <2>2. O[n].fibers \in Seq(Plugins)
    BY <1>2 DEF Acquired
  <2>3. Len(O[n].fibers) \in Nat /\ Len(ps) \in Nat
    BY <1>2, <2>2, LenProperties
  <2> QED BY <1>1, <1>2, <2>1, <2>2, <2>3
<1>5. p \in Plugins /\ p \in ToSet(ps) /\ p \in PluginsIn(c) /\ p \in registry[c]
  <2> HIDE DEF ps
  <2>1. p \in Plugins /\ p \in ToSet(ps)
    BY <1>2, <1>4, ElementOfSeq, LenProperties DEF ToSet
  <2> QED BY <1>2, <2>1
<1> HIDE DEF p, ps, n, O, i
<1>6. CASE RollBack(c) /\ UNCHANGED <<fiber, activation>>
  <2>1. UNCHANGED <<at, owned, owed, fiber>>
    BY <1>6 DEF activation
  <2>2. /\ fiber' \in [Plugins -> {"none", "created", "started", "disposed"}]
        /\ \A q \in PluginsIn(c) : fiber'[q] \in {"created", "started"} => q \in registry[c]
    BY <1>3, <2>1 DEF Kept, IInv, TypeInv
  <2> QED BY <1>1, <1>6, <2>1, <2>2, RollBackKeeps
<1>7. CASE /\ fiber' = [fiber EXCEPT ![p] = "started"]
           /\ owned' = [owned EXCEPT ![c] = Q]
           /\ owed' = [owed EXCEPT ![c] = owed[c] \cup {FiberStep(p)}]
           /\ at' = [at EXCEPT ![c].stage = "start", ![c].i = i + 1]
           /\ UNCHANGED <<phase, ledger>>
  <2>1. /\ Append(O[n].fibers, p) \in Seq(Plugins) /\ Len(Append(O[n].fibers, p)) = i
        /\ StartOf(Append(O[n].fibers, p), ps)
        /\ ToSet(Append(O[n].fibers, p)) = ToSet(O[n].fibers) \cup {p}
    <3> DEFINE fs == O[n].fibers
    <3>1. fs \in Seq(Plugins) /\ Len(fs) = i - 1 /\ StartOf(fs, ps)
      BY <1>2, <1>4
    <3> HIDE DEF fs
    <3>2. /\ Append(fs, p) \in Seq(Plugins) /\ Len(Append(fs, p)) = i /\ Append(fs, p)[i] = p
          /\ \A j \in 1..(i - 1) : Append(fs, p)[j] = fs[j]
      BY <1>4, <1>5, <3>1, AppendProperties
    <3>3. StartOf(Append(fs, p), ps)
      <4>1. ASSUME NEW j \in 1..i PROVE Append(fs, p)[j] = ps[j]
        <5>1. CASE j = i
          BY <3>2, <5>1 DEF p
        <5>2. CASE j # i
          BY <1>4, <3>1, <3>2, <5>2 DEF StartOf
        <5> QED BY <5>1, <5>2
      <4> QED BY <1>4, <3>2, <4>1 DEF StartOf
    <3>4. /\ DOMAIN fs = 1..(i - 1) /\ DOMAIN Append(fs, p) = 1..i /\ 1..i = (1..(i - 1)) \cup {i}
      BY <1>4, <3>1, <3>2, LenProperties
    <3>5. ToSet(Append(fs, p)) = ToSet(fs) \cup {p}
      BY <3>2, <3>4 DEF ToSet
    <3> QED BY <3>2, <3>3, <3>5 DEF fs
  <2>2. /\ a \in Acquired /\ a.id = O[n].id /\ a.plugins = O[n].plugins /\ ~a.armed
        /\ a.fibers = Append(O[n].fibers, p)
    BY <1>2, <2>1 DEF Acquired
  <2> HIDE DEF a
  <2>3. DueOf(a) = DueOf(O[n]) \cup {FiberStep(p)}
    BY <1>2, <2>1, <2>2 DEF DueOf, Due
  <2>4. /\ Q \in Seq(Acquired) /\ Len(Q) = n /\ Q[n] = a /\ FollowsPlan(c, Q)
        /\ AllDue(Q) = AllDue(O) \cup DueOf(a) /\ Removals(Q) = Removals(O)
    <3>1. StartOf(a.fibers, PluginsOf[Order(c)[n]]) /\ DueOf(O[n]) \subseteq DueOf(a)
      BY <1>2, <2>1, <2>2, <2>3 DEF ps
    <3>2. Grows(c, O, a, Q)
      BY <1>2, <2>2, <3>1 DEF n, Grows
    <3> HIDE DEF Q
    <3>3. /\ Q \in Seq(Acquired) /\ Len(Q) = Len(O) /\ Q[Len(O)] = a /\ FollowsPlan(c, Q)
          /\ AllDue(Q) = AllDue(O) \cup DueOf(a) /\ Removals(Q) = Removals(O)
      BY <1>3, <2>2, <3>2, ReplaceAcquired
    <3> QED BY <3>3 DEF n
  <2> HIDE DEF Q
  <2>5. DueOf(O[n]) \subseteq AllDue(O)
    BY <1>2 DEF AllDue, n
  <2>6. /\ owned'[c] = Q /\ owed'[c] = AllDue(Q)
        /\ \A d \in Compositions : d # c => owned'[d] = owned[d] /\ owed'[d] = owed[d]
    BY <1>3, <1>7, <2>3, <2>4, <2>5 DEF IInv, TypeInv
  <2>7. /\ at'[c].k = at[c].k /\ at'[c].stage = "start" /\ at'[c].i = i + 1
        /\ at' \in [Compositions -> [k : Nat, stage : {"enter", "instantiate", "start"}, i : Nat]]
        /\ \A d \in Compositions : d # c => at'[d] = at[d]
    <3>1. at \in [Compositions -> [k : Nat, stage : {"enter", "instantiate", "start"}, i : Nat]]
      BY DEF IInv, TypeInv
    <3>2. PICK v \in Nat : v = i + 1
      BY <1>4
    <3>3. at' = [at EXCEPT ![c].stage = "start", ![c].i = v]
      BY <1>7, <3>2
    <3> QED BY <3>1, <3>2, <3>3
  <2>8. FiberStep(p) \in Steps
    BY <1>2, <1>5, StepsApart DEF StepsOf, ps
  <2>9. /\ fiber' \in [Plugins -> {"none", "created", "started", "disposed"}]
        /\ \A q \in Plugins : q # p => fiber'[q] = fiber[q]
    BY <1>5, <1>7 DEF IInv, TypeInv
  <2>10. TypeInv'
    BY <1>1, <1>7, <2>4, <2>7, <2>8, <2>9 DEF IInv, TypeInv
  <2>11. OwnStep(c)
    BY <1>1, <1>5, <1>7, <2>6, <2>7, <2>9 DEF OwnStep
  <2>12. OwnedInv(c)'
    <3>1. at'[c].k = Len(owned'[c]) /\ at'[c].k > 0 /\ owned'[c][at'[c].k] = a
      BY <1>2, <2>4, <2>6, <2>7
    <3>2. Len(a.fibers) = at'[c].i - 1 /\ ~a.armed
      BY <1>4, <2>1, <2>2, <2>7
    <3>3. FollowsPlan(c, owned'[c]) /\ owed'[c] = AllDue(owned'[c]) /\ phase'[c] = "activating"
      BY <1>1, <1>7, <2>4, <2>6
    <3> QED BY <2>7, <3>1, <3>2, <3>3 DEF OwnedInv
  <2>13. Kept(c, owned'[c], registry'[c], fiber')
    BY <1>1, <1>3, <1>5, <2>4, <2>6, <2>9, PlanFacts DEF Kept
  <2>14. ToSet(PluginsOf[Order(c)[at'[c].k]]) \subseteq registry'[c]
    BY <1>1, <1>2, <2>7 DEF ps
  <2> QED BY <1>1, <1>3, <1>7, <2>10, <2>11, <2>12, <2>13, <2>14, AcquireKeeps
<1> QED
  <2>1. \/ RollBack(c) /\ UNCHANGED <<fiber, activation>>
        \/ /\ fiber' = [fiber EXCEPT ![p] = "started"]
           /\ owned' = [owned EXCEPT ![c][Index(c)].fibers = Append(@, p)]
           /\ owed' = [owed EXCEPT ![c] = owed[c] \cup {FiberStep(p)}]
           /\ at' = [at EXCEPT ![c].stage = "start", ![c].i = i + 1]
           /\ UNCHANGED <<phase, ledger>>
    BY DEF StartFiber, Goto, Owe, p, ps, i
  <2>2. [owned EXCEPT ![c][Index(c)].fibers = Append(@, p)] = [owned EXCEPT ![c] = Q]
    BY <1>2 DEF O
  <2> QED BY <1>6, <1>7, <2>1, <2>2

\* The activate hook runs, or fails.
LEMMA ActivateHookKeeps ==
    ASSUME IInv, NEW c \in Compositions, RunActivateHook(c)
    PROVE  IInv'
<1> DEFINE O == owned[c]
           n == Len(O)
           m == Module(c)
           H == {HookStep(x) : x \in {m} \cap DisposeHooks}
           a == [O[n] EXCEPT !.armed = TRUE]
           Q == [O EXCEPT ![n] = a]
<1>1. /\ phase[c] = "activating" /\ at[c].stage = "start"
      /\ UNCHANGED <<registry, fiber, call, driver, exit, interrupts, starts, outcome, report>>
  BY DEF RunActivateHook, Activating, release
<1>2. /\ at[c].k = n /\ n > 0 /\ n \in 1..n /\ Index(c) = n /\ m = Order(c)[n]
      /\ m \in Modules /\ O[n] \in Acquired /\ O[n].id = m /\ ~O[n].armed
      /\ StartOf(O[n].fibers, PluginsOf[m])
  BY <1>1, ModuleFacts
<1>3. /\ O \in Seq(Acquired) /\ OwnedInv(c) /\ FollowsPlan(c, O) /\ owed[c] = AllDue(O)
      /\ Kept(c, O, registry[c], fiber) /\ ledger[c] = None /\ report[c] = None /\ driver[c] = "none"
  BY <1>1, EarlyFacts
<1> HIDE DEF n, O, m
<1>4. CASE RollBack(c) /\ UNCHANGED activation
  <2>1. UNCHANGED <<at, owned, owed>>
    BY <1>4 DEF activation
  <2>2. /\ fiber' \in [Plugins -> {"none", "created", "started", "disposed"}]
        /\ \A q \in PluginsIn(c) : fiber'[q] \in {"created", "started"} => q \in registry[c]
    BY <1>1, <1>3 DEF Kept, IInv, TypeInv
  <2> QED BY <1>1, <1>4, <2>1, <2>2, RollBackKeeps
<1>5. CASE /\ owned' = [owned EXCEPT ![c] = Q]
           /\ at' = [at EXCEPT ![c] = [k |-> at[c].k + 1, stage |-> "enter", i |-> 1]]
           /\ owed' = [owed EXCEPT ![c] = owed[c] \cup H]
           /\ UNCHANGED <<phase, ledger>>
  <2>1. /\ a \in Acquired /\ a.id = m /\ a.plugins = O[n].plugins /\ a.armed
        /\ a.fibers = O[n].fibers
    BY <1>2 DEF Acquired
  <2> HIDE DEF a
  <2>2. DueOf(a) = DueOf(O[n]) \cup H
    BY <1>2, <2>1 DEF DueOf, Due
  <2>3. /\ Q \in Seq(Acquired) /\ Len(Q) = n /\ Q[n] = a /\ FollowsPlan(c, Q)
        /\ AllDue(Q) = AllDue(O) \cup DueOf(a) /\ Removals(Q) = Removals(O)
    <3>1. /\ StartOf(a.fibers, PluginsOf[Order(c)[n]]) /\ DueOf(O[n]) \subseteq DueOf(a)
          /\ a.id = O[n].id
      BY <1>2, <2>1, <2>2
    <3>2. Grows(c, O, a, Q)
      BY <1>2, <2>1, <3>1 DEF n, Grows
    <3> HIDE DEF Q
    <3>3. /\ Q \in Seq(Acquired) /\ Len(Q) = Len(O) /\ Q[Len(O)] = a /\ FollowsPlan(c, Q)
          /\ AllDue(Q) = AllDue(O) \cup DueOf(a) /\ Removals(Q) = Removals(O)
      BY <1>3, <2>1, <3>2, ReplaceAcquired
    <3> QED BY <3>3 DEF n
  <2>4. H \subseteq Steps
    BY <1>2, StepsApart DEF StepsOf
  <2> HIDE DEF Q, H
  <2>5. DueOf(O[n]) \subseteq AllDue(O)
    BY <1>2 DEF AllDue, n
  <2>6. /\ owned'[c] = Q /\ owed'[c] = AllDue(Q)
        /\ \A d \in Compositions : d # c => owned'[d] = owned[d] /\ owed'[d] = owed[d]
    BY <1>3, <1>5, <2>2, <2>3, <2>5 DEF IInv, TypeInv
  <2>7. /\ at'[c].k = at[c].k + 1 /\ at'[c].stage = "enter" /\ at'[c].i = 1
        /\ at' \in [Compositions -> [k : Nat, stage : {"enter", "instantiate", "start"}, i : Nat]]
        /\ \A d \in Compositions : d # c => at'[d] = at[d]
    <3>1. at \in [Compositions -> [k : Nat, stage : {"enter", "instantiate", "start"}, i : Nat]]
      BY DEF IInv, TypeInv
    <3> QED BY <1>5, <3>1
  <2>8. TypeInv'
    BY <1>1, <1>5, <2>3, <2>4, <2>7 DEF IInv, TypeInv
  <2>9. OwnStep(c)
    BY <1>1, <1>5, <2>6, <2>7 DEF OwnStep
  <2>10. OwnedInv(c)'
    BY <1>1, <1>2, <1>5, <2>3, <2>6, <2>7 DEF OwnedInv
  <2>11. Kept(c, owned'[c], registry'[c], fiber')
    BY <1>1, <1>3, <2>3, <2>6 DEF Kept
  <2> QED BY <1>1, <1>3, <1>5, <2>7, <2>8, <2>9, <2>10, <2>11, AcquireKeeps
<1> QED
  <2>1. \/ RollBack(c) /\ UNCHANGED activation
        \/ /\ owned' = [owned EXCEPT ![c][Index(c)].armed = TRUE]
           /\ at' = [at EXCEPT ![c] = [k |-> at[c].k + 1, stage |-> "enter", i |-> 1]]
           /\ owed' = [owed EXCEPT ![c] = owed[c] \cup H]
           /\ UNCHANGED <<phase, ledger>>
    BY DEF RunActivateHook, Owe, m
  <2>2. [owned EXCEPT ![c][Index(c)].armed = TRUE] = [owned EXCEPT ![c] = Q]
    BY <1>2 DEF O
  <2> QED BY <1>4, <1>5, <2>1, <2>2

\* The runtime is reconciled, or cannot be.
LEMMA ReconcileKeeps ==
    ASSUME IInv, NEW c \in Compositions, Reconcile(c)
    PROVE  IInv'
<1>1. /\ phase[c] = "activating" /\ at[c].stage = "enter"
      /\ UNCHANGED <<at, owned, registry, fiber, call, driver, exit, interrupts, owed, starts,
                     outcome, report>>
  BY DEF Reconcile, Activating, release, history
<1>2. /\ OwnedInv(c) /\ Kept(c, owned[c], registry[c], fiber) /\ ledger[c] = None
      /\ report[c] = None /\ driver[c] = "none"
  BY <1>1, EarlyFacts
<1>3. CASE RollBack(c)
  <2>1. /\ fiber' \in [Plugins -> {"none", "created", "started", "disposed"}]
        /\ \A q \in PluginsIn(c) : fiber'[q] \in {"created", "started"} => q \in registry[c]
    BY <1>1, <1>2 DEF Kept, IInv, TypeInv
  <2> QED BY <1>1, <1>3, <2>1, RollBackKeeps
<1>4. CASE phase' = [phase EXCEPT ![c] = "assembly"] /\ UNCHANGED ledger
  <2>1. phase'[c] = "assembly" /\ \A d \in Compositions : d # c => phase'[d] = phase[d]
    BY <1>4 DEF IInv, TypeInv
  <2>2. TypeInv'
    BY <1>1, <1>4 DEF IInv, TypeInv
  <2>3. OwnStep(c)
    BY <1>1, <1>4, <2>1 DEF OwnStep
  <2>4. OwnedInv(c)' /\ Kept(c, owned'[c], registry'[c], fiber')
    BY <1>1, <1>2, <2>1 DEF OwnedInv
  <2> QED BY <1>1, <1>2, <1>4, <2>1, <2>2, <2>3, <2>4, AcquireKeeps
<1> QED BY <1>3, <1>4 DEF Reconcile

----------------------------------------------------------------------------
(* The invariant, and what follows from it *)

\* Nothing has happened.
LEMMA InitInv == Init => IInv
<1> SUFFICES ASSUME Init PROVE IInv
  OBVIOUS
<1>1. \A c \in Compositions :
         /\ phase[c] = "planned" /\ at[c] = [k |-> 1, stage |-> "enter", i |-> 1] /\ owned[c] = <<>>
         /\ registry[c] = {} /\ ledger[c] = None /\ call[c] = None /\ driver[c] = "none"
         /\ exit[c] = "none" /\ owed[c] = {} /\ report[c] = None
  BY DEF Init
<1>2. \A s \in Steps : starts[s] = 0 /\ outcome[s] = "none"
  BY DEF Init
<1>3. \A p \in Plugins : fiber[p] = "none"
  BY DEF Init
<1>4. <<>> \in Seq(Acquired) /\ Len(<<>>) = 0
  OBVIOUS
<1>5. TypeInv
  BY <1>4 DEF Init, TypeInv
<1>6. Once
  BY <1>2 DEF Once
<1>7. ASSUME NEW c \in Compositions PROVE CInv(c)
  <2>1. \A s \in StepsIn(c) : starts[s] = 0 /\ outcome[s] = "none"
    BY <1>2, StepsApart
  <2>2. Untouched(c)
    BY <2>1 DEF Untouched, StepsIn
  <2>3. FollowsPlan(c, owned[c]) /\ AllDue(owned[c]) = {}
    BY <1>1, <1>4, OrderFacts DEF FollowsPlan, AllDue
  <2>4. OwnedInv(c)
    BY <1>1, <1>4, <2>3 DEF OwnedInv
  <2>5. PhaseInv(c)
    BY <1>1, <2>2 DEF PhaseInv
  <2>6. AuthorityInv(c)
    BY <1>1 DEF AuthorityInv, ExitInv, CallInv, Holds
  <2>7. Work(c) = NewLedger(owned[c]) /\ owned[c] \in Seq(Acquired)
    BY <1>1, <1>4 DEF Work
  <2>8. SweepInv(c)
    BY <2>1, <2>3, <2>7, FreshSwept DEF SweepInv
  <2>9. ReportInv(c)
    BY <1>1 DEF ReportInv
  <2>10. OrderInv(c)
    BY <1>1, <1>4 DEF OrderInv, LaterFirst
  <2>11. ClearInv(c)
    BY <1>1, <1>3, PlanFacts DEF ClearInv
  <2> QED BY <2>4, <2>5, <2>6, <2>8, <2>9, <2>10, <2>11 DEF CInv
<1> QED BY <1>5, <1>6, <1>7 DEF IInv

\* Every step keeps the invariant.
LEMMA NextInv == IInv /\ [Next]_vars => IInv'
<1> SUFFICES ASSUME IInv, [Next]_vars PROVE IInv'
  OBVIOUS
<1>1. ASSUME NEW c \in Compositions, Activate(c) PROVE IInv'
  BY <1>1, ConstructKeeps, RegisterKeeps, InstantiateKeeps, StartFiberKeeps, ActivateHookKeeps,
     ReconcileKeeps DEF Activate
<1>2. ASSUME NEW c \in Compositions, Own(c) PROVE IInv'
  BY <1>2, HostRemovesKeeps, OwnersKeep, DriverEnds DEF Own
<1>3. ASSUME NEW c \in Compositions, Sweep(c) PROVE IInv'
  <2>1. CASE SweepReturns(c)
    BY <2>1, ReturnKeeps
  <2>2. CASE ~SweepReturns(c)
    <3>1. Sweeping(c)
      BY <1>3 DEF Sweep, BeginModule, StartHook, StartFiberDisposal, TakeRegistration,
         RegistrationGone, RegistrationLost, StepEnds, FinishModule, SweepReturns, AtPlugins,
         InModule, Idle
    <3> QED BY <1>3, <2>2, <3>1, SweepSteps, SweepKeeps
  <2> QED BY <2>1, <2>2
<1>4. ASSUME NEW c \in Compositions, Release(c) PROVE IInv'
  BY <1>4, DisposeKeeps, FirstPollKeeps, RefusalKeeps, OwnerLossKeeps DEF Release
<1>5. ASSUME NEW c \in Compositions, Disturb(c) PROVE IInv'
  BY <1>5, DisturbKeeps, DropExitKeeps DEF Disturb
<1>6. CASE UNCHANGED vars
  <2>1. UNCHANGED <<phase, at, owned, registry, fiber, ledger, call, driver, exit, interrupts, owed,
                    starts, outcome, report>>
    BY <1>6 DEF vars, release, history
  <2>2. TypeInv' /\ Once'
    BY <2>1 DEF IInv, TypeInv, Once
  <2>3. AllCalm
    BY <2>1 DEF AllCalm, SameWork, InReach
  <2>4. \A d, h \in Compositions : Holds(h, d)' = Holds(h, d) /\ Fresh(d)' = Fresh(d)
    BY <2>1 DEF Holds, Fresh, Untouched
  <2>5. ASSUME NEW d \in Compositions PROVE PhaseInv(d)' /\ AuthorityInv(d)'
    <3>1. PhaseInv(d) /\ Untouched(d)' = Untouched(d)
      BY <2>3, AllCalmKeeps
    <3> QED BY <2>1, <2>4, <3>1, AuthorityFrame DEF PhaseInv, Untouched
  <2> QED BY <2>2, <2>3, <2>5, AllCalmKeeps DEF IInv, CInv, BooksInv
<1> QED BY <1>1, <1>2, <1>3, <1>4, <1>5, <1>6 DEF Next

\* The books of every composition agree with what was acquired and done, and
\* every exit, call and driver with what can still be released.
THEOREM Invariance == Spec => []IInv
<1>1. Init => IInv
  BY InitInv
<1>2. IInv /\ [Next]_vars => IInv'
  BY NextInv
<1> QED BY <1>1, <1>2, PTL DEF Spec

\* Type correctness of the model of assembly.rs: what is in the ledgers, calls
\* and reports is what the code puts there.
THEOREM TypeCorrect == Spec => []TypeInv
<1>1. IInv => TypeInv
  BY DEF IInv
<1> QED BY <1>1, Invariance, PTL

\* No hook, fiber disposal or removal is started twice, and nothing of a module
\* is touched before the modules that depend on it have been cleaned up.
THEOREM CleanupOnceInOrder == Spec => []OnceAndDependentsFirst
<1>1. ASSUME IInv PROVE OnceAndDependentsFirst
  <2>1. SUFFICES ASSUME NEW c \in Compositions, NEW m \in ModulesOf[c], NEW d \in DependsOn[m],
                        NEW t \in StepsOf(d), starts[t] > 0, NEW s \in owed[c] \cap StepsOf(m)
                 PROVE  outcome[s] # "none"
    BY <1>1 DEF OnceAndDependentsFirst, IInv, Once
  <2> DEFINE O == owned[c]
  <2>2. /\ O \in Seq(Acquired) /\ FollowsPlan(c, O) /\ owed[c] = AllDue(O)
        /\ LaterFirst(O, starts, outcome)
    BY <1>1 DEF IInv, CInv, TypeInv, OwnedInv, OrderInv
  <2> HIDE DEF O
  <2>3. PICK j \in 1..Len(O) : s \in DueOf(O[j])
    BY <2>1, <2>2 DEF AllDue
  <2>4. /\ Len(O) \in Nat /\ Len(Order(c)) \in Nat /\ j \in 1..Len(Order(c))
        /\ O[j].id \in Modules /\ s \in StepsOf(O[j].id) /\ m \in Modules
        /\ O[j].id = Order(c)[j]
    <3>1. /\ Len(O) \in Nat /\ O[j].id \in Modules /\ DueOf(O[j]) \subseteq StepsOf(O[j].id)
      BY <2>2, <2>3, AcquiredFacts
    <3>2. Len(Order(c)) \in Nat /\ m \in Modules
      BY <2>1, OrderFacts, PlanFacts
    <3>3. Len(O) <= Len(Order(c)) /\ O[j].id = Order(c)[j]
      BY <2>2, <2>3 DEF FollowsPlan
    <3> QED BY <2>3, <3>1, <3>2, <3>3
  <2>5. O[j].id = m
    BY <2>1, <2>4, StepsApart
  <2>6. PICK i \in 1..(j - 1) : d = Order(c)[i]
    <3>1. DependsOn[Order(c)[j]] \subseteq {Order(c)[k] : k \in 1..(j - 1)}
      BY <2>4, OrderFacts
    <3> QED BY <2>1, <2>4, <2>5, <3>1
  <2>7. i \in 1..Len(O) /\ i < j /\ O[i].id = d
    BY <2>2, <2>4, <2>6 DEF FollowsPlan
  <2> QED BY <2>1, <2>2, <2>3, <2>7 DEF LaterFirst
<1> QED BY <1>1, Invariance, PTL

\* The report of a sweep, however often it was interrupted, names what failed or
\* could not be done and the modules of which everything succeeded.
THEOREM ReportsExact == Spec => []ReportIsExact
<1>1. ASSUME IInv PROVE ReportIsExact
  <2>1. SUFFICES ASSUME NEW c \in Compositions, report[c] # None
                 PROVE  /\ \A s \in owed[c] : outcome[s] # "none"
                        /\ report[c].failures = {s \in owed[c] : outcome[s] \in {"failed", "lost"}}
                        /\ report[c].cleaned = {a.id : a \in {b \in ToSet(owned[c]) :
                              StepsOf(b.id) \cap report[c].failures = {}}}
    BY DEF ReportIsExact
  <2>2. /\ \A s \in owed[c] : outcome[s] # "none"
        /\ report[c].failures = Unsuccessful(owed[c], outcome)
        /\ report[c].cleaned = CleanFrom(owned[c], 0, report[c].failures)
    BY <1>1, <2>1 DEF IInv, CInv, ReportInv
  <2>3. owned[c] \in Seq(Acquired)
    BY <1>1 DEF IInv, TypeInv
  <2>4. DOMAIN owned[c] = 1..Len(owned[c]) /\ Len(owned[c]) \in Nat
    BY <2>3, LenProperties
  <2>5. CleanFrom(owned[c], 0, report[c].failures) =
           {a.id : a \in {b \in ToSet(owned[c]) : StepsOf(b.id) \cap report[c].failures = {}}}
    BY <2>4 DEF CleanFrom, ToSet
  <2> QED BY <2>2, <2>5 DEF Unsuccessful
<1> QED BY <1>1, Invariance, PTL

\* A failed startup, a shutdown and an orderly release leave no plugin
\* registered and no fiber undisposed.
THEOREM NothingIsLeft == Spec => []NothingLeftBehind
<1>1. IInv => NothingLeftBehind
  BY DEF IInv, CInv, ClearInv, NothingLeftBehind
<1> QED BY <1>1, Invariance, PTL

\* While a driver's exit can be presented, nothing of its composition has been
\* released and its handle still takes the exit.
THEOREM AuthorityKept == Spec => []ExitKeepsAuthority
<1>1. ASSUME IInv PROVE ExitKeepsAuthority
  <2>1. SUFFICES ASSUME NEW c \in Compositions,
                        \/ exit[c] = "host"
                        \/ \E h \in Compositions : Releasing(h, "refused") /\ call[h].exit = c
                 PROVE  Fresh(c)
    BY DEF ExitKeepsAuthority, Fresh, Untouched
  <2>2. \A h \in Compositions : ExitInv(h) /\ CallInv(h)
    BY <1>1 DEF IInv, CInv, AuthorityInv
  <2>3. CASE exit[c] = "host"
    BY <2>2, <2>3 DEF ExitInv
  <2>4. ASSUME NEW h \in Compositions, Releasing(h, "refused"), call[h].exit = c
        PROVE  Fresh(c)
    BY <2>2, <2>4 DEF CallInv, Releasing
  <2> QED BY <2>1, <2>3, <2>4
<1> QED BY <1>1, Invariance, PTL
=============================================================================
