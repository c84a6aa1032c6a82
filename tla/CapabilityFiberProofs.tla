----------------------- MODULE CapabilityFiberProofs -----------------------
(***************************************************************************)
(* Theorems about CapabilityFiber, for any number of fibers, whatever they *)
(* provide and depend on, and any interleaving of the calls of hosts, the  *)
(* coordinator and the publications of hosts: a fiber publishes only what  *)
(* was built with the entries of the moment, one at rest that is not       *)
(* Active has left nothing behind, and a withdrawal that no host           *)
(* interferes with deactivates dependents before what they depend on.      *)
(***************************************************************************)
EXTENDS CapabilityFiber, FiniteSetTheorems, WellFoundedInduction, TLAPS

----------------------------------------------------------------------------
(* The inductive invariant *)

\* An entry, without the bounds.
AnyEntry == [scope : Scopes, definition : Scope!Definition, dependencies : Binding,
             generation : Nat]

\* What a host publishes is of its definitions, what else is in the scope was
\* published by a fiber; an entry is in its own slot and was not withdrawn.
ScopeInv ==
    /\ lifecycle[Home] = "Open"
    /\ published \in Seq(AnyEntry)
    /\ entries \in [Scopes -> [Capabilities -> Nat]]
    /\ \A c \in Capabilities : entries[Home][c] # 0 =>
          /\ entries[Home][c] \in 1..Len(published) /\ entries[Home][c] \notin withdrawn
          /\ published[entries[Home][c]].definition.id = c
          /\ published[entries[Home][c]].scope = Home
    /\ \A e \in 1..Len(published) :
          \/ published[e].definition \in Definitions[Home]
          \/ published[e].generation = 1
    /\ withdrawn \subseteq 1..Len(published)
    /\ DOMAIN publisher = Publishers
    /\ \A p \in Publishers : publisher[p] # None =>
          /\ publisher[p].scope = Home /\ publisher[p].definition \in Definitions[Home]
          /\ publisher[p].dependencies \in Binding /\ publisher[p].expected \in Nat

\* e is the last entry that f published.
IsLatest(f, e) ==
    /\ e \in 1..Len(published)
    /\ published[e].definition = Provides[f]
    /\ \A d \in (e + 1)..Len(published) : published[d].definition # Provides[f]

\* Fiber f, in the state x: where it can be, and what it has in the scope.
Attempting(x) == x.at \in {"factory", "publish", "activate", "discard"}
Live(x) == x.state \in {"Active", "Unloading"}
Own(f) == entries[Home][Provides[f].id]
FiberOK(f, x) ==
    /\ x.call = None => x.at = "rest"
    /\ x.call # None => x.call.detached = 0 \/ x.call.detached \in withdrawn
    /\ Attempting(x) => x.state = "Loading"
    /\ x.at = "unload" <=> x.state = "Unloading"
    /\ x.at = "activate" => \E e \in 1..Len(published) : IsLatest(f, e) /\ Own(f) \in {0, e}
    /\ Live(x) => Own(f) \in {0, x.handle}
    /\ ~Live(x) /\ x.at # "activate" => Own(f) = 0
    /\ x.handle # 0 =>
          /\ Live(x)
          /\ x.handle \in 1..Len(published) /\ published[x.handle].definition = Provides[f]
    /\ x.effects => Live(x) \/ Attempting(x)
    /\ x.dependency_binding # None => Live(x)
    /\ x.loading_binding # None => Attempting(x)
    /\ x.at \in {"factory", "publish", "activate"} =>
          /\ x.loading_binding \in Binding
          /\ \A c \in Provides[f].dependencies : x.loading_binding[c] # 0

FiberInv == \A f \in Fibers : FiberOK(f, fiber[f])
Types == fiber \in [Fibers -> Fiber] /\ queue \in [Fibers -> Seq(Call)]

\* A call that has an entry detached has it withdrawn.
DetachedInv ==
    /\ \A f \in Fibers : \A i \in 1..Len(queue[f]) :
          queue[f][i].detached = 0 \/ queue[f][i].detached \in withdrawn
    /\ coordinator.at = "drain" => coordinator.retired \in withdrawn
    /\ DOMAIN coordinator = {"at", "fibers", "drove", "retired", "alone"}

Inv == ScopeInv /\ Types /\ FiberInv /\ DetachedInv

----------------------------------------------------------------------------
(* Steps *)

\* The definition of a fiber is one, and no host has one for its capability.
LEMMA ProvidesType ==
    ASSUME NEW f \in Fibers
    PROVE  /\ Provides[f] \in Scope!Definition
           /\ Provides[f].id \in Capabilities /\ Provides[f].dependencies \subseteq Capabilities
           /\ Provides[f] \notin Definitions[Home]
           /\ \A g \in Fibers \ {f} : Provides[g].id # Provides[f].id
BY FiberAssumption DEF Scope!Definition

\* The coordinator, the fibers and hosts begin with nothing.
LEMMA InitInv == Init => Inv
<1> SUFFICES ASSUME Init PROVE Inv
  OBVIOUS
<1>1. Home \in Scopes /\ Home \in Scope!Roots
  BY FiberAssumption DEF Scope!Roots
<1>2. ScopeInv
  BY <1>1 DEF Init, Scope!Init, ScopeInv
<1>3. Types
  BY DEF Init, Types, Fiber, FiberState
<1>4. FiberInv
  <2> SUFFICES ASSUME NEW f \in Fibers PROVE FiberOK(f, fiber[f])
    BY DEF FiberInv
  <2>1. Own(f) = 0
    BY <1>1, ProvidesType DEF Init, Scope!Init, Own
  <2> QED
    BY <2>1 DEF Init, FiberOK, Attempting, Live
<1>5. DetachedInv
  BY DEF Init, DetachedInv, Idle
<1> QED
  BY <1>2, <1>3, <1>4, <1>5 DEF Inv

\* A fiber that is left alone stays in order as long as the history only
\* grows, and by entries of others, its slot at most loses its entry, and what
\* was withdrawn stays so.
Kept(f) ==
    /\ Len(published') \in Nat /\ Len(published) \in Nat /\ Len(published) <= Len(published')
    /\ \A e \in 1..Len(published) : published'[e] = published[e]
    /\ \A e \in (Len(published) + 1)..Len(published') : published'[e].definition # Provides[f]
    /\ Own(f)' \in {0, Own(f)}
    /\ withdrawn \subseteq withdrawn'

\* Such a step keeps what is said of the fiber.
LEMMA FiberKept ==
    ASSUME NEW f \in Fibers, fiber'[f] = fiber[f], Kept(f), FiberOK(f, fiber[f])
    PROVE  FiberOK(f, fiber[f])'
<1> DEFINE x == fiber[f]
<1>1. /\ x.call = None => x.at = "rest"
      /\ x.call # None => x.call.detached = 0 \/ x.call.detached \in withdrawn'
      /\ Attempting(x) => x.state = "Loading"
      /\ x.at = "unload" <=> x.state = "Unloading"
      /\ x.effects => Live(x) \/ Attempting(x)
      /\ x.dependency_binding # None => Live(x)
      /\ x.loading_binding # None => Attempting(x)
      /\ x.at \in {"factory", "publish", "activate"} =>
          /\ x.loading_binding \in Binding
          /\ \A c \in Provides[f].dependencies : x.loading_binding[c] # 0
  BY DEF FiberOK, Kept
<1>2. x.at = "activate" => \E e \in 1..Len(published') : IsLatest(f, e)' /\ Own(f)' \in {0, e}
  <2> SUFFICES ASSUME x.at = "activate"
               PROVE  \E e \in 1..Len(published') : IsLatest(f, e)' /\ Own(f)' \in {0, e}
    OBVIOUS
  <2>1. PICK e \in 1..Len(published) : IsLatest(f, e) /\ Own(f) \in {0, e}
    BY DEF FiberOK
  <2>2. e \in 1..Len(published') /\ published'[e].definition = Provides[f]
    BY <2>1 DEF Kept, IsLatest
  <2>3. \A d \in (e + 1)..Len(published') : published'[d].definition # Provides[f]
    <3> SUFFICES ASSUME NEW d \in (e + 1)..Len(published')
                 PROVE  published'[d].definition # Provides[f]
      OBVIOUS
    <3>1. CASE d <= Len(published)
      BY <3>1, <2>1 DEF Kept, IsLatest
    <3>2. CASE ~(d <= Len(published))
      BY <3>2, <2>1 DEF Kept
    <3> QED
      BY <3>1, <3>2
  <2>4. IsLatest(f, e)'
    BY <2>2, <2>3 DEF IsLatest
  <2>5. Own(f)' \in {0, e}
    BY <2>1 DEF Kept
  <2> QED
    BY <2>2, <2>4, <2>5
<1>3. /\ Live(x) => Own(f)' \in {0, x.handle}
      /\ ~Live(x) /\ x.at # "activate" => Own(f)' = 0
  <2>1. /\ Live(x) => Own(f) \in {0, x.handle}
        /\ ~Live(x) /\ x.at # "activate" => Own(f) = 0
    BY DEF FiberOK
  <2> QED
    BY <2>1 DEF Kept
<1>4. x.handle # 0 =>
         /\ Live(x)
         /\ x.handle \in 1..Len(published') /\ published'[x.handle].definition = Provides[f]
  BY DEF FiberOK, Kept
<1> HIDE DEF x
<1>5. (fiber[f])' = x
  BY DEF x
<1> QED
  BY <1>1, <1>2, <1>3, <1>4, <1>5 DEF FiberOK, Attempting, Live

\* A step of one fiber that does not touch the scope.
LEMMA QuietStep ==
    ASSUME Inv, NEW f \in Fibers, NEW y \in Fiber, Becomes(f, y), FiberOK(f, y),
           UNCHANGED scope_vars
    PROVE  ScopeInv' /\ FiberInv' /\ fiber' \in [Fibers -> Fiber]
<1>1. ScopeInv'
  BY DEF Inv, ScopeInv, scope_vars
<1>2. /\ fiber' \in [Fibers -> Fiber] /\ fiber'[f] = y
      /\ \A g \in Fibers \ {f} : fiber'[g] = fiber[g]
  BY DEF Inv, Types, Becomes
<1>3. FiberOK(f, fiber[f])'
  BY <1>2 DEF FiberOK, IsLatest, Own, scope_vars
<1>4. ASSUME NEW g \in Fibers \ {f} PROVE FiberOK(g, fiber[g])'
  <2>1. FiberOK(g, fiber[g]) /\ fiber'[g] = fiber[g]
    BY <1>2 DEF Inv, FiberInv
  <2> QED
    BY <2>1 DEF FiberOK, IsLatest, Own, scope_vars
<1> QED
  BY <1>1, <1>2, <1>3, <1>4 DEF FiberInv

\* What Home resolves for a definition is a binding.
LEMMA HomeBinding ==
    ASSUME Inv, NEW definition
    PROVE  Scope!resolve_dependencies(Home, definition) \in Binding
<1>1. ASSUME NEW c \in Capabilities PROVE Scope!get(Home, c) \in Nat
  <2>1. Home \in Scopes /\ Path[Home] = <<Home>> /\ entries[Home][c] \in Nat
    BY FiberAssumption DEF Inv, ScopeInv
  <2> DEFINE owners == {i \in 1..Len(Path[Home]) : entries[Path[Home][i]][c] # 0}
             nearest == CHOOSE i \in owners : \A j \in owners : i <= j
  <2>2. owners \subseteq {1}
    BY <2>1
  <2>3. CASE owners = {}
    BY <2>3 DEF Scope!get
  <2>4. CASE owners # {}
    <3>1. nearest = 1
      BY <2>2, <2>4
    <3> HIDE DEF owners, nearest
    <3>2. entries[Path[Home][nearest]][c] \in Nat
      BY <3>1, <2>1
    <3>3. Scope!get(Home, c) \in {entries[Path[Home][nearest]][c], 0}
      BY DEF Scope!get, owners, nearest
    <3> QED
      BY <3>2, <3>3
  <2> QED
    BY <2>3, <2>4
<1> QED
  BY <1>1 DEF Scope!resolve_dependencies, Binding

\* What a fiber resolves is the entries its scope sees.
LEMMA BindingType ==
    ASSUME Inv, NEW f \in Fibers
    PROVE  /\ Dependencies(f) \in Binding
           /\ \A c \in Provides[f].dependencies : Dependencies(f)[c] = Scope!get(Home, c)
BY HomeBinding, ProvidesType DEF Dependencies, Scope!resolve_dependencies

----------------------------------------------------------------------------
(* Steps of fibers that leave the scope alone *)

\* What the queue of a fiber gives, and what is left of it.
LEMMA HeadAndTail ==
    ASSUME Inv, NEW f \in Fibers, queue[f] # <<>>,
           queue' = [queue EXCEPT ![f] = Tail(@)], UNCHANGED <<withdrawn, coordinator>>
    PROVE  /\ Head(queue[f]) \in Call
           /\ Head(queue[f]).detached = 0 \/ Head(queue[f]).detached \in withdrawn
           /\ queue' \in [Fibers -> Seq(Call)]
           /\ DetachedInv'
<1>1. queue \in [Fibers -> Seq(Call)] /\ queue[f] \in Seq(Call)
  BY DEF Inv, Types
<1>2. /\ Head(queue[f]) \in Call /\ Head(queue[f]) = queue[f][1] /\ 1 \in 1..Len(queue[f])
      /\ Tail(queue[f]) \in Seq(Call) /\ Len(Tail(queue[f])) = Len(queue[f]) - 1
      /\ \A i \in 1..Len(Tail(queue[f])) : /\ Tail(queue[f])[i] = queue[f][i + 1]
                                           /\ i + 1 \in 1..Len(queue[f])
  BY <1>1
<1>3. /\ queue' \in [Fibers -> Seq(Call)] /\ queue'[f] = Tail(queue[f])
      /\ \A g \in Fibers \ {f} : queue'[g] = queue[g]
  BY <1>1, <1>2
<1>4. ASSUME NEW g \in Fibers, NEW i \in 1..Len(queue'[g])
      PROVE  queue'[g][i].detached = 0 \/ queue'[g][i].detached \in withdrawn
  <2>1. CASE g = f
    BY <2>1, <1>2, <1>3 DEF Inv, DetachedInv
  <2>2. CASE g # f
    BY <2>2, <1>3 DEF Inv, DetachedInv
  <2> QED
    BY <2>1, <2>2
<1>5. DetachedInv'
  BY <1>4 DEF Inv, DetachedInv
<1> QED
  BY <1>2, <1>3, <1>5 DEF Inv, DetachedInv

\* What a call that was added to a queue needs.
LEMMA Appended ==
    ASSUME Inv, NEW f, NEW call \in Call,
           call.detached = 0 \/ call.detached \in withdrawn,
           queue' = [queue EXCEPT ![f] = Append(@, call)]
    PROVE  /\ queue' \in [Fibers -> Seq(Call)]
           /\ \A g \in Fibers : \A i \in 1..Len(queue'[g]) :
                 queue'[g][i].detached = 0 \/ queue'[g][i].detached \in withdrawn
<1>1. queue \in [Fibers -> Seq(Call)]
  BY DEF Inv, Types
<1>2. CASE f \notin Fibers
  <2>1. queue' = queue
    BY <1>1, <1>2
  <2> QED
    BY <2>1, <1>1 DEF Inv, DetachedInv
<1>3. CASE f \in Fibers
  <2>1. /\ queue[f] \in Seq(Call) /\ Append(queue[f], call) \in Seq(Call)
        /\ Len(Append(queue[f], call)) = Len(queue[f]) + 1
        /\ \A i \in 1..Len(queue[f]) : Append(queue[f], call)[i] = queue[f][i]
        /\ Append(queue[f], call)[Len(queue[f]) + 1] = call
        /\ Len(queue[f]) \in Nat
    BY <1>1, <1>3
  <2>2. /\ queue' \in [Fibers -> Seq(Call)] /\ queue'[f] = Append(queue[f], call)
        /\ \A g \in Fibers \ {f} : queue'[g] = queue[g]
    BY <1>1, <1>3, <2>1
  <2>3. ASSUME NEW g \in Fibers, NEW i \in 1..Len(queue'[g])
        PROVE  queue'[g][i].detached = 0 \/ queue'[g][i].detached \in withdrawn
    <3>1. CASE g # f
      BY <3>1, <2>2 DEF Inv, DetachedInv
    <3>2. CASE g = f /\ i = Len(queue[f]) + 1
      BY <3>2, <2>1, <2>2
    <3>3. CASE g = f /\ i # Len(queue[f]) + 1
      <4>1. i \in 1..Len(queue[f]) /\ queue'[g][i] = queue[f][i]
        BY <3>3, <2>1, <2>2
      <4> QED
        BY <4>1, <3>3 DEF Inv, DetachedInv
    <3> QED
      BY <3>1, <3>2, <3>3
  <2> QED
    BY <2>2, <2>3
<1> QED
  BY <1>2, <1>3

\* A host's call waits; a restart and a dispose leave their mark at once.
LEMMA RequestKeeps ==
    ASSUME Inv, NEW f \in Fibers, NEW kind \in {"start", "restart", "dispose"}, request(f, kind)
    PROVE  Inv'
<1> DEFINE y == [fiber[f] EXCEPT !.force_reload = @ \/ kind = "restart",
                                 !.dispose_requested = @ \/ kind = "dispose"]
           call == [kind |-> kind, by |-> "host", detached |-> 0]
<1>1. fiber[f] \in Fiber /\ FiberOK(f, fiber[f])
  BY DEF Inv, Types, FiberInv
<1>2. y \in Fiber
  BY <1>1 DEF Fiber
<1>3. FiberOK(f, y)
  BY <1>1 DEF FiberOK, Fiber, Attempting, Live
<1>4. call \in Call /\ call.detached = 0
  BY DEF Call
<1>5. Becomes(f, y) /\ UNCHANGED scope_vars /\ queue' = [queue EXCEPT ![f] = Append(@, call)]
  BY DEF request
<1>6. /\ coordinator'.at = coordinator.at /\ coordinator'.retired = coordinator.retired
      /\ DOMAIN coordinator' = DOMAIN coordinator
  BY DEF request, Inv, DetachedInv
<1> HIDE DEF y, call
<1>7. ScopeInv' /\ FiberInv' /\ fiber' \in [Fibers -> Fiber]
  BY <1>2, <1>3, <1>5, QuietStep
<1>8. /\ queue' \in [Fibers -> Seq(Call)]
      /\ \A g \in Fibers : \A i \in 1..Len(queue'[g]) :
            queue'[g][i].detached = 0 \/ queue'[g][i].detached \in withdrawn
  BY <1>4, <1>5, Appended
<1>9. DetachedInv'
  BY <1>5, <1>6, <1>8 DEF Inv, DetachedInv, scope_vars
<1> QED
  BY <1>7, <1>8, <1>9 DEF Inv, Types

\* A call that gets the lock drives, unloads or returns.
LEMMA AcquireKeeps ==
    ASSUME Inv, NEW f \in Fibers, acquire(f)
    PROVE  Inv'
<1> DEFINE call == Head(queue[f])
           x == [fiber[f] EXCEPT !.call = call]
<1>1. fiber[f] \in Fiber /\ FiberOK(f, fiber[f])
  BY DEF Inv, Types, FiberInv
<1>2. /\ call \in Call /\ (call.detached = 0 \/ call.detached \in withdrawn)
      /\ queue' \in [Fibers -> Seq(Call)] /\ DetachedInv'
  BY HeadAndTail DEF acquire, scope_vars
<1>3. /\ fiber[f].call = None /\ fiber[f].at = "rest"
  BY <1>1 DEF acquire, FiberOK
<1> HIDE DEF call
<1>4. call \in Call /\ call # None /\ (call.detached = 0 \/ call.detached \in withdrawn)
  BY <1>2, FiberAssumption
<1>5. x \in Fiber
  BY <1>1, <1>4 DEF Fiber
<1>6. /\ x.call = call /\ x.at = "rest" /\ x.state = fiber[f].state
      /\ x.handle = fiber[f].handle /\ x.effects = fiber[f].effects
      /\ x.dependency_binding = fiber[f].dependency_binding
      /\ x.loading_binding = fiber[f].loading_binding
  BY <1>1, <1>3 DEF Fiber
<1>7. /\ x.state # "Unloading"
      /\ Live(x) => Own(f) \in {0, x.handle}
      /\ ~Live(x) => Own(f) = 0
      /\ x.handle # 0 =>
            /\ Live(x)
            /\ x.handle \in 1..Len(published) /\ published[x.handle].definition = Provides[f]
      /\ x.effects => Live(x)
      /\ x.dependency_binding # None => Live(x)
      /\ x.loading_binding = None
  BY <1>1, <1>3, <1>6 DEF FiberOK, Live, Attempting
<1> HIDE DEF x
<1>8. FiberOK(f, Released(x)) /\ Released(x) \in Fiber
  BY <1>5, <1>6, <1>7 DEF FiberOK, Live, Attempting, Released, Fiber
<1>9. ASSUME NEW then \in {"disposed", "rest"}
      PROVE  FiberOK(f, Unloading(x, then)) /\ Unloading(x, then) \in Fiber
  BY <1>4, <1>5, <1>6, <1>7 DEF FiberOK, Live, Attempting, Unloading, Fiber, FiberState
<1>10. ASSUME NEW force \in BOOLEAN
       PROVE  FiberOK(f, drive(x, force)) /\ drive(x, force) \in Fiber
  <2> DEFINE y == [x EXCEPT !.force = force \/ x.force_reload, !.force_reload = FALSE,
                            !.at = "resolve"]
  <2>1. y \in Fiber
    BY <1>5 DEF Fiber
  <2>2. FiberOK(f, y)
    BY <1>4, <1>5, <1>6, <1>7 DEF FiberOK, Live, Attempting, Fiber
  <2> QED
    BY <1>8, <2>1, <2>2 DEF drive
<1>11. FiberOK(f, dispose(x)) /\ dispose(x) \in Fiber
  BY <1>8, <1>9 DEF dispose
<1>12. FiberOK(f, deactivate_for_withdrawal(x)) /\ deactivate_for_withdrawal(x) \in Fiber
  BY <1>8, <1>9 DEF deactivate_for_withdrawal
<1>13. /\ UNCHANGED scope_vars
       /\ \/ Becomes(f, drive(x, FALSE)) \/ Becomes(f, drive(x, TRUE))
          \/ Becomes(f, dispose(x)) \/ Becomes(f, deactivate_for_withdrawal(x))
  BY DEF acquire, x, call
<1>14. ScopeInv' /\ FiberInv' /\ fiber' \in [Fibers -> Fiber]
  BY <1>10, <1>11, <1>12, <1>13, QuietStep
<1> QED
  BY <1>2, <1>14 DEF Inv, Types

\* A quiet step that leaves the calls alone keeps the invariant.
LEMMA QuietKeeps ==
    ASSUME Inv, NEW f \in Fibers, NEW y \in Fiber, Becomes(f, y), FiberOK(f, y),
           UNCHANGED <<scope_vars, queue, coordinator, calls>>
    PROVE  Inv'
<1>1. ScopeInv' /\ FiberInv' /\ fiber' \in [Fibers -> Fiber]
  BY QuietStep
<1>2. queue' \in [Fibers -> Seq(Call)] /\ DetachedInv'
  BY DEF Inv, Types, DetachedInv, scope_vars
<1> QED
  BY <1>1, <1>2 DEF Inv, Types

\* A turn of the loop of drive.
LEMMA ResolveKeeps ==
    ASSUME Inv, NEW f \in Fibers, resolve(f)
    PROVE  Inv'
<1> DEFINE x == fiber[f]
<1>1. x \in Fiber /\ FiberOK(f, x)
  BY DEF Inv, Types, FiberInv
<1>2. /\ x.at = "resolve" /\ x.call # None
      /\ (x.call.detached = 0 \/ x.call.detached \in withdrawn)
  BY <1>1 DEF resolve, FiberOK
<1>3. Dependencies(f) \in Binding
  BY BindingType
<1> DEFINE pending == [x EXCEPT !.state = "Pending"]
           loading == [x EXCEPT !.state = "Loading", !.effects = TRUE,
                                !.loading_binding = Dependencies(f), !.at = "factory"]
<1>4. \/ Becomes(f, Unloading(x, "pending"))
      \/ x.state # "Active" /\ Becomes(f, Released(pending))
      \/ Becomes(f, Released(x))
      \/ Becomes(f, Unloading(x, "resolve"))
      \/ x.state \notin {"Active", "Failed"} /\ Satisfied(f) /\ Becomes(f, loading)
  BY DEF resolve
<1>5. UNCHANGED <<scope_vars, queue, coordinator, calls>>
  BY DEF resolve
<1> HIDE DEF x
<1>6. /\ x.state # "Unloading" /\ x.loading_binding = None
      /\ Live(x) => Own(f) \in {0, x.handle}
      /\ ~Live(x) => Own(f) = 0
      /\ x.handle # 0 =>
            /\ Live(x)
            /\ x.handle \in 1..Len(published) /\ published[x.handle].definition = Provides[f]
      /\ x.effects => Live(x)
      /\ x.dependency_binding # None => Live(x)
  BY <1>1, <1>2 DEF FiberOK, Attempting
<1>7. FiberOK(f, Released(x)) /\ Released(x) \in Fiber
  BY <1>1, <1>6 DEF FiberOK, Live, Attempting, Released, Fiber
<1>8. ASSUME NEW then \in {"pending", "resolve"}
      PROVE  FiberOK(f, Unloading(x, then)) /\ Unloading(x, then) \in Fiber
  BY <1>1, <1>2, <1>6 DEF FiberOK, Live, Attempting, Unloading, Fiber, FiberState
<1>9. ASSUME x.state # "Active"
      PROVE  FiberOK(f, Released(pending)) /\ Released(pending) \in Fiber
  <2>1. ~Live(x)
    BY <1>6, <1>9 DEF Live
  <2> QED
    BY <1>1, <1>6, <2>1 DEF FiberOK, Live, Attempting, Released, Fiber, FiberState
<1>10. ASSUME x.state \notin {"Active", "Failed"}, Satisfied(f)
       PROVE  FiberOK(f, loading) /\ loading \in Fiber
  <2>1. ~Live(x)
    BY <1>6, <1>10 DEF Live
  <2>2. \A c \in Provides[f].dependencies : Dependencies(f)[c] # 0
    BY <1>10 DEF Satisfied
  <2>3. loading \in Fiber
    BY <1>1, <1>3 DEF Fiber, FiberState
  <2>4. FiberOK(f, loading)
    BY <1>1, <1>2, <1>3, <1>6, <2>1, <2>2 DEF FiberOK, Live, Attempting, Fiber
  <2> QED
    BY <2>3, <2>4
<1> HIDE DEF pending, loading
<1> QED
  BY <1>4, <1>5, <1>7, <1>8, <1>9, <1>10, QuietKeeps

\* The factory resolves: the attempt goes on to be published or discarded.
LEMMA FactoryKeeps ==
    ASSUME Inv, NEW f \in Fibers, NEW ok \in BOOLEAN, factory(f, ok)
    PROVE  Inv'
<1> DEFINE x == fiber[f]
           go == [x EXCEPT !.at = "publish"]
           drop(then) == [x EXCEPT !.at = "discard", !.then = then]
<1>1. x \in Fiber /\ FiberOK(f, x) /\ x.at = "factory"
  BY DEF Inv, Types, FiberInv, factory
<1>2. UNCHANGED <<scope_vars, queue, coordinator, calls>>
  BY DEF factory
<1>3. \/ Becomes(f, go) \/ Becomes(f, drop("stale"))
      \/ Becomes(f, drop("stale_error")) \/ Becomes(f, drop("failed"))
  BY DEF factory
<1> HIDE DEF x
<1>4. FiberOK(f, go) /\ go \in Fiber
  BY <1>1 DEF FiberOK, Live, Attempting, Fiber
<1>5. ASSUME NEW then \in {"stale", "stale_error", "failed"}
      PROVE  FiberOK(f, drop(then)) /\ drop(then) \in Fiber
  BY <1>1 DEF FiberOK, Live, Attempting, Fiber
<1> HIDE DEF go, drop
<1> QED
  BY <1>2, <1>3, <1>4, <1>5, QuietKeeps

\* The handle of a fiber that becomes Active is to the entry it published.
LEMMA ActivateKeeps ==
    ASSUME Inv, NEW f \in Fibers, activate(f)
    PROVE  Inv'
<1> DEFINE x == fiber[f]
           active == [x EXCEPT !.state = "Active", !.handle = Latest(f),
                               !.dependency_binding = x.loading_binding,
                               !.loading_binding = None]
<1>1. x \in Fiber /\ FiberOK(f, x) /\ x.at = "activate"
  BY DEF Inv, Types, FiberInv, activate
<1>2. Becomes(f, Released(active)) /\ UNCHANGED <<scope_vars, queue, coordinator, calls>>
  BY DEF activate
<1> HIDE DEF x
<1>3. PICK e \in 1..Len(published) : IsLatest(f, e) /\ Own(f) \in {0, e}
  BY <1>1 DEF FiberOK
<1>4. Latest(f) = e
  <2>1. Len(published) \in Nat
    BY DEF Inv, ScopeInv
  <2>2. \A d \in 1..Len(published) : IsLatest(f, d) => d = e
    BY <1>3, <2>1 DEF IsLatest
  <2>3. Latest(f) = CHOOSE d \in 1..Len(published) : IsLatest(f, d)
    BY DEF Latest, IsLatest
  <2> QED
    BY <1>3, <2>2, <2>3
<1>5. /\ x.loading_binding \in Binding /\ x.handle = 0
  BY <1>1 DEF FiberOK, Attempting, Live
<1>6. e \in Nat /\ e # 0 /\ published[e].definition = Provides[f]
  BY <1>3 DEF Inv, ScopeInv, IsLatest
<1>7. Released(active) \in Fiber
  BY <1>1, <1>4, <1>5, <1>6 DEF Fiber, FiberState, Released
<1>8. FiberOK(f, Released(active))
  BY <1>1, <1>3, <1>4, <1>5, <1>6 DEF FiberOK, Live, Attempting, Fiber, Released
<1> HIDE DEF active
<1> QED
  BY <1>2, <1>7, <1>8, QuietKeeps

\* An attempt that was not published leaves no effects and no binding.
LEMMA DiscardKeeps ==
    ASSUME Inv, NEW f \in Fibers, discard(f)
    PROVE  Inv'
<1> DEFINE x == [fiber[f] EXCEPT !.effects = FALSE, !.loading_binding = None,
                    !.force_reload = @ /\ fiber[f].then \notin {"stale", "stale_error"}]
           again == [x EXCEPT !.state = "Pending", !.at = "resolve", !.then = "rest"]
           failed == [x EXCEPT !.state = "Failed"]
           disposed == [x EXCEPT !.state = "Disposed"]
<1>1. fiber[f] \in Fiber /\ FiberOK(f, fiber[f])
  BY DEF Inv, Types, FiberInv
<1>2. x \in Fiber
  BY <1>1 DEF Fiber
<1>3. /\ x.at = "discard" /\ UNCHANGED <<scope_vars, queue, coordinator, calls>>
      /\ \/ Becomes(f, Released(failed)) \/ Becomes(f, again)
         \/ Becomes(f, Released(x)) \/ Becomes(f, Released(disposed))
  BY DEF discard
<1>4. /\ fiber[f].at = "discard" /\ fiber[f].state = x.state /\ fiber[f].handle = x.handle
      /\ fiber[f].dependency_binding = x.dependency_binding /\ fiber[f].call = x.call
      /\ x.effects = FALSE /\ x.loading_binding = None
  BY <1>1, <1>3 DEF Fiber
<1>5. /\ x.state = "Loading" /\ Own(f) = 0 /\ x.handle = 0 /\ x.dependency_binding = None
      /\ x.call # None /\ (x.call.detached = 0 \/ x.call.detached \in withdrawn)
  BY <1>1, <1>4 DEF FiberOK, Attempting, Live
<1> HIDE DEF x
<1>6. FiberOK(f, again) /\ again \in Fiber
  BY <1>2, <1>4, <1>5 DEF FiberOK, Live, Attempting, Fiber, FiberState
<1>7. FiberOK(f, Released(x)) /\ Released(x) \in Fiber
  BY <1>2, <1>4, <1>5 DEF FiberOK, Live, Attempting, Fiber, FiberState, Released
<1>8. FiberOK(f, Released(failed)) /\ Released(failed) \in Fiber
  BY <1>2, <1>4, <1>5 DEF FiberOK, Live, Attempting, Fiber, FiberState, Released
<1>9. FiberOK(f, Released(disposed)) /\ Released(disposed) \in Fiber
  BY <1>2, <1>4, <1>5 DEF FiberOK, Live, Attempting, Fiber, FiberState, Released
<1> HIDE DEF again, failed, disposed
<1> QED
  BY <1>3, <1>6, <1>7, <1>8, <1>9, QuietKeeps
----------------------------------------------------------------------------
(* Steps that change the scope *)

\* The publications that hosts have under way are of their own definitions.
PublishersOK ==
    /\ DOMAIN publisher = Publishers
    /\ \A p \in Publishers : publisher[p] # None =>
          /\ publisher[p].scope = Home /\ publisher[p].definition \in Definitions[Home]
          /\ publisher[p].dependencies \in Binding /\ publisher[p].expected \in Nat

\* A publication leaves every fiber alone that does not provide its capability.
LEMMA PublishedStep ==
    ASSUME Inv, NEW entry \in AnyEntry, NEW c \in Capabilities,
           entry.scope = Home, entry.definition.id = c,
           entry.definition \in Definitions[Home] \/ entry.generation = 1,
           published' = Append(published, entry),
           entries' = [entries EXCEPT ![Home][c] = Len(published) + 1],
           UNCHANGED <<lifecycle, withdrawn>>, PublishersOK'
    PROVE  /\ ScopeInv'
           /\ entries'[Home][c] = Len(published) + 1
           /\ \A g \in Fibers : Provides[g].id # c => Kept(g)
<1> DEFINE n == Len(published)
<1>1. /\ n \in Nat /\ published \in Seq(AnyEntry) /\ entries \in [Scopes -> [Capabilities -> Nat]]
      /\ Home \in Scopes
  BY FiberAssumption DEF Inv, ScopeInv
<1>2. /\ published' \in Seq(AnyEntry) /\ Len(published') = n + 1
      /\ \A e \in 1..n : published'[e] = published[e]
      /\ published'[n + 1] = entry
  BY <1>1
<1>3. /\ entries' \in [Scopes -> [Capabilities -> Nat]]
      /\ entries'[Home][c] = n + 1
      /\ \A d \in Capabilities \ {c} : entries'[Home][d] = entries[Home][d]
  BY <1>1
<1> HIDE DEF n
<1>4. ASSUME NEW d \in Capabilities, entries'[Home][d] # 0
      PROVE  /\ entries'[Home][d] \in 1..Len(published') /\ entries'[Home][d] \notin withdrawn'
             /\ published'[entries'[Home][d]].definition.id = d
             /\ published'[entries'[Home][d]].scope = Home
  <2>1. withdrawn' = withdrawn /\ withdrawn \subseteq 1..n
    BY DEF Inv, ScopeInv, n
  <2>2. CASE d = c
    BY <1>1, <1>2, <1>3, <2>1, <2>2
  <2>3. CASE d # c
    <3>1. PICK e : e = entries[Home][d]
      OBVIOUS
    <3>2. entries'[Home][d] = e
      BY <1>3, <2>3, <3>1
    <3>3. /\ e \in 1..n /\ e \notin withdrawn
          /\ published[e].definition.id = d /\ published[e].scope = Home
      BY <1>4, <3>1, <3>2 DEF Inv, ScopeInv, n
    <3>4. e \in 1..Len(published') /\ published'[e] = published[e]
      BY <1>1, <1>2, <3>3
    <3> QED
      BY <2>1, <3>2, <3>3, <3>4
  <2> QED
    BY <2>2, <2>3
<1>5. ASSUME NEW e \in 1..Len(published')
      PROVE  published'[e].definition \in Definitions[Home] \/ published'[e].generation = 1
  <2>1. CASE e = n + 1
    BY <2>1, <1>2
  <2>2. CASE e # n + 1
    <3>1. e \in 1..n
      BY <1>1, <1>2, <2>2
    <3> QED
      BY <3>1, <1>2 DEF Inv, ScopeInv, n
  <2> QED
    BY <2>1, <2>2
<1>6. withdrawn' \subseteq 1..Len(published') /\ lifecycle'[Home] = "Open"
  BY <1>1, <1>2 DEF Inv, ScopeInv, n
<1>7. ScopeInv'
  BY <1>2, <1>3, <1>4, <1>5, <1>6 DEF ScopeInv, PublishersOK
<1>8. ASSUME NEW g \in Fibers, Provides[g].id # c
      PROVE  Kept(g)
  <2>1. Own(g)' = Own(g)
    BY <1>3, <1>8, ProvidesType DEF Own
  <2>2. \A e \in (n + 1)..Len(published') : published'[e].definition # Provides[g]
    BY <1>1, <1>2, <1>8
  <2> QED
    BY <1>1, <1>2, <2>1, <2>2 DEF Kept, n
<1> QED
  BY <1>3, <1>7, <1>8 DEF n

\* An entry that is withdrawn leaves its slot empty.
LEMMA WithdrawnStep ==
    ASSUME Inv, NEW c \in Capabilities, entries[Home][c] # 0,
           entries' = [entries EXCEPT ![Home][c] = 0],
           withdrawn' = withdrawn \cup {entries[Home][c]},
           UNCHANGED <<lifecycle, published, publisher>>
    PROVE  /\ ScopeInv'
           /\ entries'[Home][c] = 0
           /\ \A g \in Fibers : Kept(g)
<1>1. PICK r : r = entries[Home][c]
  OBVIOUS
<1>2. /\ entries \in [Scopes -> [Capabilities -> Nat]] /\ Home \in Scopes
      /\ r \in 1..Len(published) /\ published[r].definition.id = c
      /\ Len(published) \in Nat
  BY <1>1, FiberAssumption DEF Inv, ScopeInv
<1>3. /\ entries' \in [Scopes -> [Capabilities -> Nat]]
      /\ entries'[Home][c] = 0
      /\ \A d \in Capabilities \ {c} : entries'[Home][d] = entries[Home][d]
  BY <1>2
<1>4. withdrawn' = withdrawn \cup {r}
  BY <1>1
<1>5. ASSUME NEW d \in Capabilities, entries'[Home][d] # 0
      PROVE  /\ entries'[Home][d] \in 1..Len(published') /\ entries'[Home][d] \notin withdrawn'
             /\ published'[entries'[Home][d]].definition.id = d
             /\ published'[entries'[Home][d]].scope = Home
  <2>1. PICK e : e = entries[Home][d]
    OBVIOUS
  <2>2. d # c /\ entries'[Home][d] = e
    BY <1>3, <1>5, <2>1
  <2>3. /\ e \in 1..Len(published) /\ e \notin withdrawn
        /\ published[e].definition.id = d /\ published[e].scope = Home
    BY <1>5, <2>1, <2>2 DEF Inv, ScopeInv
  <2>4. e # r
    BY <1>2, <2>2, <2>3
  <2> QED
    BY <1>4, <2>2, <2>3, <2>4
<1>6. ScopeInv'
  BY <1>2, <1>3, <1>4, <1>5 DEF Inv, ScopeInv
<1>7. ASSUME NEW g \in Fibers PROVE Kept(g)
  <2>1. Own(g)' \in {0, Own(g)}
    BY <1>3, ProvidesType DEF Own
  <2> QED
    BY <1>2, <1>4, <2>1 DEF Kept
<1> QED
  BY <1>3, <1>6, <1>7

\* What was detached stays so where calls and the coordinator do not change.
LEMMA DetachedKept ==
    ASSUME DetachedInv, UNCHANGED <<queue, coordinator>>, withdrawn \subseteq withdrawn'
    PROVE  DetachedInv'
BY DEF DetachedInv

\* A fiber publishes into an empty slot, or its attempt is discarded.
LEMMA ProvideValueKeeps ==
    ASSUME Inv, NEW f \in Fibers, provide_value(f)
    PROVE  Inv'
<1> DEFINE x == fiber[f]
           c == Provides[f].id
           entry == [scope |-> Home, definition |-> Provides[f],
                     dependencies |-> x.loading_binding, generation |-> 1]
           drop(then) == [x EXCEPT !.at = "discard", !.then = then]
           go == [x EXCEPT !.at = "activate"]
<1>1. x \in Fiber /\ FiberOK(f, x) /\ x.at = "publish"
  BY DEF Inv, Types, FiberInv, provide_value
<1>2. UNCHANGED <<lifecycle, publisher, withdrawn, poisoned, queue, coordinator, calls>>
  BY DEF provide_value
<1>3. \/ /\ published' = Append(published, entry)
         /\ entries' = [entries EXCEPT ![Home][c] = Len(published) + 1]
         /\ Becomes(f, go)
      \/ /\ \E then \in {"failed", "changed"} : Becomes(f, drop(then))
         /\ UNCHANGED <<published, entries>>
  BY DEF provide_value
<1>4. /\ x.loading_binding \in Binding /\ x.handle = 0 /\ x.state = "Loading"
      /\ \A d \in Provides[f].dependencies : x.loading_binding[d] # 0
      /\ x.call # None /\ (x.call.detached = 0 \/ x.call.detached \in withdrawn)
      /\ x.dependency_binding = None
  BY <1>1 DEF FiberOK, Attempting, Live
<1>5. ASSUME NEW then \in {"failed", "changed"}, Becomes(f, drop(then)),
             UNCHANGED <<published, entries>>
      PROVE  Inv'
  <2>1. FiberOK(f, drop(then)) /\ drop(then) \in Fiber
    BY <1>1 DEF FiberOK, Live, Attempting, Fiber
  <2>2. UNCHANGED <<scope_vars, queue, coordinator, calls>>
    BY <1>2, <1>5 DEF scope_vars
  <2> HIDE DEF drop
  <2> QED
    BY <1>5, <2>1, <2>2, QuietKeeps
<1>6. ASSUME published' = Append(published, entry),
             entries' = [entries EXCEPT ![Home][c] = Len(published) + 1],
             Becomes(f, go)
      PROVE  Inv'
  <2> DEFINE n == Len(published)
  <2>1. /\ entry \in AnyEntry /\ c \in Capabilities /\ entry.scope = Home
        /\ entry.definition.id = c /\ entry.generation = 1
        /\ entry.definition = Provides[f]
    BY <1>4, ProvidesType, FiberAssumption DEF AnyEntry
  <2>2. PublishersOK'
    BY <1>2 DEF Inv, ScopeInv, PublishersOK
  <2>3. n \in Nat /\ Len(published') = n + 1 /\ published'[n + 1].definition = Provides[f]
    BY <1>6, <2>1 DEF Inv, ScopeInv
  <2>4. go \in Fiber
    BY <1>1 DEF Fiber
  <2>5. /\ fiber' \in [Fibers -> Fiber] /\ fiber'[f] = go
        /\ \A g \in Fibers \ {f} : fiber'[g] = fiber[g]
    BY <1>6, <2>4 DEF Inv, Types, Becomes
  <2>6. /\ go.at = "activate" /\ go.call = x.call /\ go.state = "Loading" /\ go.handle = 0
        /\ go.dependency_binding = None /\ go.loading_binding = x.loading_binding
    BY <1>1, <1>4 DEF Fiber
  <2> HIDE DEF entry, go, x, n
  <2>7. /\ ScopeInv' /\ entries'[Home][c] = n + 1
        /\ \A g \in Fibers : Provides[g].id # c => Kept(g)
    BY <1>2, <1>6, <2>1, <2>2, PublishedStep DEF n
  <2>8. FiberOK(f, fiber[f])'
    <3> PICK e : e = n + 1
      OBVIOUS
    <3>1. IsLatest(f, e)' /\ Own(f)' = e /\ e \in 1..Len(published')
      BY <2>3, <2>7 DEF IsLatest, Own, c
    <3>2. (fiber[f])' = go /\ withdrawn' = withdrawn
      BY <1>2, <2>5
    <3> QED
      BY <1>4, <2>6, <3>1, <3>2 DEF FiberOK, Attempting, Live
  <2>9. ASSUME NEW g \in Fibers \ {f} PROVE FiberOK(g, fiber[g])'
    <3>1. Provides[g].id # c
      BY ProvidesType
    <3> QED
      BY <2>5, <2>7, <3>1, FiberKept DEF Inv, FiberInv
  <2>10. FiberInv'
    BY <2>8, <2>9 DEF FiberInv
  <2>11. DetachedInv'
    BY <1>2, DetachedKept DEF Inv
  <2> QED
    BY <1>2, <2>5, <2>7, <2>10, <2>11 DEF Inv, Types
<1> HIDE DEF x, c, entry, drop, go
<1> QED
  BY <1>3, <1>5, <1>6

\* remove_local takes out the entry of the fiber, unless it is gone already.
LEMMA Removed ==
    ASSUME Inv, NEW f \in Fibers, fiber[f].at = "unload",
           remove_local(fiber[f].handle, fiber[f].call.detached),
           UNCHANGED <<lifecycle, published, publisher>>
    PROVE  /\ ScopeInv' /\ Own(f)' = 0 /\ withdrawn \subseteq withdrawn'
           /\ \A g \in Fibers : Kept(g)
<1> DEFINE x == fiber[f]
<1>1. PICK h : h = x.handle
  OBVIOUS
<1>2. PICK d : d = x.call.detached
  OBVIOUS
<1>3. /\ FiberOK(f, x) /\ Own(f) \in {0, h} /\ (d = 0 \/ d \in withdrawn)
      /\ h # 0 => h \in 1..Len(published) /\ published[h].definition = Provides[f]
  BY <1>1, <1>2 DEF Inv, FiberInv, FiberOK, Live
<1>4. remove_local(h, d)
  BY <1>1, <1>2
<1>5. ASSUME UNCHANGED <<entries, withdrawn>>
      PROVE  ScopeInv' /\ Own(f)' = Own(f) /\ \A g \in Fibers : Kept(g)
  <2>1. ScopeInv'
    BY <1>5 DEF Inv, ScopeInv
  <2>2. Len(published) \in Nat
    BY DEF Inv, ScopeInv
  <2>3. Len(published') = Len(published)
    OBVIOUS
  <2> QED
    BY <1>5, <2>1, <2>2, <2>3 DEF Kept, Own
<1>6. CASE h = 0
  BY <1>3, <1>4, <1>5, <1>6 DEF remove_local
<1>7. CASE h # 0 /\ h = d
  <2>1. Own(f) = 0
    BY <1>3, <1>7, ProvidesType DEF Own, Inv, ScopeInv
  <2> QED
    BY <1>4, <1>5, <1>7, <2>1 DEF remove_local
<1>8. CASE h # 0 /\ h # d
  <2>1. PICK c : c = Provides[f].id
    OBVIOUS
  <2>2. c \in Capabilities /\ published[h].definition.id = c /\ published[h].generation = 1
    BY <1>3, <1>8, <2>1, ProvidesType DEF Inv, ScopeInv
  <2>3. Own(f) = entries[Home][c]
    BY <2>1 DEF Own
  <2>4. CASE Own(f) = 0
    <3>1. ~Scope!check_expectation(Home, c, published[h].generation)
      BY <2>2, <2>3, <2>4 DEF Scope!check_expectation
    <3>2. UNCHANGED <<entries, withdrawn>>
      BY <1>4, <2>2, <3>1 DEF remove_local
    <3> QED
      BY <1>5, <2>4, <3>2
  <2>5. CASE Own(f) # 0
    <3>1. entries[Home][c] = h
      BY <1>3, <2>3, <2>5
    <3>2. Scope!check_expectation(Home, c, published[h].generation)
      BY <1>8, <2>2, <3>1 DEF Scope!check_expectation, Scope!is_open, Inv, ScopeInv
    <3>3. /\ entries' = [entries EXCEPT ![Home][c] = 0]
          /\ withdrawn' = withdrawn \cup {entries[Home][c]}
      BY <1>4, <1>8, <2>2, <3>2 DEF remove_local
    <3>4. ScopeInv' /\ entries'[Home][c] = 0 /\ \A g \in Fibers : Kept(g)
      BY <1>8, <2>2, <3>1, <3>3, WithdrawnStep
    <3> QED
      BY <2>1, <3>3, <3>4 DEF Own
  <2> QED
    BY <2>4, <2>5
<1> QED
  BY <1>6, <1>7, <1>8 DEF Kept

\* An unload leaves the fiber with nothing, and the scope without its entry.
LEMMA UnloadKeeps ==
    ASSUME Inv, NEW f \in Fibers, unload(f)
    PROVE  Inv'
<1> DEFINE x == [fiber[f] EXCEPT !.state = "Pending", !.effects = FALSE, !.handle = 0,
                     !.dependency_binding = None, !.loading_binding = None]
           again == [x EXCEPT !.at = "resolve", !.then = "rest"]
           disposed == [x EXCEPT !.state = "Disposed"]
<1>1. fiber[f] \in Fiber /\ FiberOK(f, fiber[f])
  BY DEF Inv, Types, FiberInv
<1>2. x \in Fiber /\ x.at = fiber[f].at /\ x.call = fiber[f].call
  BY <1>1 DEF Fiber, FiberState
<1>3. /\ x.state = "Pending" /\ x.effects = FALSE /\ x.handle = 0
      /\ x.dependency_binding = None /\ x.loading_binding = None
  BY <1>1 DEF Fiber
<1>4. /\ x.at = "unload" /\ remove_local(fiber[f].handle, x.call.detached)
      /\ \/ Becomes(f, again) \/ Becomes(f, Released(disposed)) \/ Becomes(f, Released(x))
      /\ UNCHANGED <<lifecycle, published, publisher, poisoned, queue, coordinator, calls>>
  BY DEF unload
<1> HIDE DEF x
<1>5. /\ fiber[f].at = "unload" /\ remove_local(fiber[f].handle, fiber[f].call.detached)
  BY <1>2, <1>4
<1>6. /\ ScopeInv' /\ Own(f)' = 0 /\ withdrawn \subseteq withdrawn'
      /\ \A g \in Fibers : Kept(g)
  BY <1>4, <1>5, Removed
<1>7. x.call # None /\ (x.call.detached = 0 \/ x.call.detached \in withdrawn')
  BY <1>1, <1>2, <1>5, <1>6 DEF FiberOK
<1>8. ASSUME NEW y \in Fiber, Becomes(f, y),
             y.state \in {"Pending", "Disposed"}, y.at \in {"rest", "resolve"},
             y.call = None => y.at = "rest", y.call \in {None, x.call},
             y.effects = FALSE, y.handle = 0,
             y.dependency_binding = None, y.loading_binding = None
      PROVE  Inv'
  <2>1. /\ fiber' \in [Fibers -> Fiber] /\ fiber'[f] = y
        /\ \A g \in Fibers \ {f} : fiber'[g] = fiber[g]
    BY <1>8 DEF Inv, Types, Becomes
  <2>2. FiberOK(f, fiber[f])'
    BY <1>6, <1>7, <1>8, <2>1 DEF FiberOK, Attempting, Live
  <2>3. ASSUME NEW g \in Fibers \ {f} PROVE FiberOK(g, fiber[g])'
    BY <1>6, <2>1, FiberKept DEF Inv, FiberInv
  <2>4. DetachedInv'
    BY <1>4, <1>6, DetachedKept DEF Inv
  <2> QED
    BY <1>4, <1>6, <2>1, <2>2, <2>3, <2>4 DEF Inv, Types, FiberInv
<1>9. CASE Becomes(f, again)
  <2>1. /\ again \in Fiber /\ again.state = "Pending" /\ again.at = "resolve"
        /\ again.call = x.call /\ again.effects = FALSE /\ again.handle = 0
        /\ again.dependency_binding = None /\ again.loading_binding = None
    BY <1>2, <1>3 DEF Fiber
  <2> HIDE DEF again
  <2> QED
    BY <1>7, <1>8, <1>9, <2>1
<1>10. CASE Becomes(f, Released(disposed))
  <2>1. /\ Released(disposed) \in Fiber /\ Released(disposed).state = "Disposed"
        /\ Released(disposed).at = "rest" /\ Released(disposed).call = None
        /\ Released(disposed).effects = FALSE /\ Released(disposed).handle = 0
        /\ Released(disposed).dependency_binding = None
        /\ Released(disposed).loading_binding = None
    BY <1>2, <1>3 DEF Fiber, FiberState, Released
  <2> HIDE DEF disposed
  <2> QED
    BY <1>8, <1>10, <2>1
<1>11. CASE Becomes(f, Released(x))
  <2>1. /\ Released(x) \in Fiber /\ Released(x).state = "Pending"
        /\ Released(x).at = "rest" /\ Released(x).call = None
        /\ Released(x).effects = FALSE /\ Released(x).handle = 0
        /\ Released(x).dependency_binding = None /\ Released(x).loading_binding = None
    BY <1>2, <1>3 DEF Fiber, Released
  <2> QED
    BY <1>8, <1>11, <2>1
<1> HIDE DEF again, disposed
<1> QED
  BY <1>4, <1>9, <1>10, <1>11
----------------------------------------------------------------------------
(* Steps of the coordinator and of hosts *)

\* A step that only asks: the scope and the fibers are left alone.
LEMMA AskingKeeps ==
    ASSUME Inv, UNCHANGED <<scope_vars, fiber>>, queue' \in [Fibers -> Seq(Call)], DetachedInv'
    PROVE  Inv'
<1>1. ScopeInv'
  BY DEF Inv, ScopeInv, scope_vars
<1>2. FiberInv'
  BY DEF Inv, FiberInv, FiberOK, IsLatest, Own, scope_vars
<1> QED
  BY <1>1, <1>2 DEF Inv, Types

\* reconcile begins, passes over the fibers and ends.
LEMMA ReconcileKeeps ==
    ASSUME Inv, reconcile \/ pass
    PROVE  Inv'
<1>1. UNCHANGED <<scope_vars, fiber>> /\ withdrawn' = withdrawn
  BY DEF reconcile, pass, scope_vars
<1>2. /\ coordinator'.at # "drain"
      /\ DOMAIN coordinator' = {"at", "fibers", "drove", "retired", "alone"}
  <2>1. DOMAIN coordinator = {"at", "fibers", "drove", "retired", "alone"}
    BY DEF Inv, DetachedInv
  <2>2. CASE coordinator' = Idle
    BY <2>2 DEF Idle
  <2>3. CASE coordinator' = [Idle EXCEPT !.at = "pass", !.fibers = snapshot_fibers]
    BY <2>3 DEF Idle
  <2>4. CASE /\ coordinator.at = "pass"
             /\ \/ coordinator' = [coordinator EXCEPT !.fibers = Tail(@), !.drove = TRUE]
                \/ coordinator' = [coordinator EXCEPT !.fibers = Tail(@)]
    BY <2>1, <2>4
  <2> QED
    BY <2>2, <2>3, <2>4 DEF reconcile, pass
<1>3. \/ queue' = queue
      \/ \E f : queue' = [queue EXCEPT ![f] = Append(@, [kind |-> "start", by |-> "coordinator",
                                                         detached |-> 0])]
  BY DEF reconcile, pass, Ask
<1>4. /\ queue' \in [Fibers -> Seq(Call)]
      /\ \A g \in Fibers : \A i \in 1..Len(queue'[g]) :
            queue'[g][i].detached = 0 \/ queue'[g][i].detached \in withdrawn
  <2>1. CASE queue' = queue
    BY <2>1 DEF Inv, Types, DetachedInv
  <2>2. ASSUME NEW f, NEW call \in Call, call.detached = 0,
               queue' = [queue EXCEPT ![f] = Append(@, call)]
        PROVE  /\ queue' \in [Fibers -> Seq(Call)]
               /\ \A g \in Fibers : \A i \in 1..Len(queue'[g]) :
                     queue'[g][i].detached = 0 \/ queue'[g][i].detached \in withdrawn
    BY <2>2, Appended
  <2>3. PICK call : call = [kind |-> "start", by |-> "coordinator", detached |-> 0]
    OBVIOUS
  <2>4. call \in Call /\ call.detached = 0
    BY <2>3 DEF Call
  <2>5. queue' = queue \/ \E f : queue' = [queue EXCEPT ![f] = Append(@, call)]
    BY <1>3, <2>3
  <2> QED
    BY <2>1, <2>2, <2>4, <2>5
<1>5. DetachedInv'
  BY <1>1, <1>2, <1>4 DEF DetachedInv, Idle
<1> QED
  BY <1>1, <1>4, <1>5, AskingKeeps

\* The entry that a drain hands to a fiber as detached was withdrawn.
LEMMA DrainKeeps ==
    ASSUME Inv, drain
    PROVE  Inv'
<1>1. UNCHANGED <<scope_vars, fiber>> /\ withdrawn' = withdrawn
  BY DEF drain, scope_vars
<1>2. /\ DOMAIN coordinator' = {"at", "fibers", "drove", "retired", "alone"}
      /\ coordinator'.at = "drain" => coordinator'.retired = coordinator.retired
      /\ coordinator.retired \in withdrawn
  BY DEF drain, Idle, Inv, DetachedInv
<1>3. coordinator.retired \in Nat
  <2>1. Len(published) \in Nat /\ withdrawn \subseteq 1..Len(published)
    BY DEF Inv, ScopeInv
  <2>2. \A r \in withdrawn : r \in Nat
    BY <2>1
  <2> QED
    BY <1>2, <2>2
<1>4. PICK f : f = Head(coordinator.fibers)
  OBVIOUS
<1>5. PICK call : call = [kind |-> "withdraw", by |-> "coordinator",
                          detached |-> IF fiber[f].handle = coordinator.retired
                                       THEN coordinator.retired ELSE 0]
  OBVIOUS
<1>6. call \in Call /\ (call.detached = 0 \/ call.detached \in withdrawn)
  BY <1>2, <1>3, <1>5 DEF Call
<1>7. queue' = queue \/ queue' = [queue EXCEPT ![f] = Append(@, call)]
  BY <1>4, <1>5 DEF drain, Ask
<1>8. /\ queue' \in [Fibers -> Seq(Call)]
      /\ \A g \in Fibers : \A i \in 1..Len(queue'[g]) :
            queue'[g][i].detached = 0 \/ queue'[g][i].detached \in withdrawn
  <2>1. CASE queue' = queue
    BY <2>1 DEF Inv, Types, DetachedInv
  <2>2. CASE queue' = [queue EXCEPT ![f] = Append(@, call)]
    BY <1>6, <2>2, Appended
  <2> QED
    BY <1>7, <2>1, <2>2
<1>9. DetachedInv'
  BY <1>1, <1>2, <1>8 DEF DetachedInv
<1> QED
  BY <1>1, <1>8, <1>9, AskingKeeps

\* A step of the scope that leaves the fibers alone.
LEMMA ScopeStepKeeps ==
    ASSUME Inv, UNCHANGED <<fiber, queue>>, ScopeInv', \A g \in Fibers : Kept(g), DetachedInv'
    PROVE  Inv'
<1>1. ASSUME NEW g \in Fibers PROVE FiberOK(g, fiber[g])'
  BY FiberKept DEF Inv, FiberInv
<1> QED
  BY <1>1 DEF Inv, Types, FiberInv

\* The withdrawal of an entry, of a host or of a fiber.
LEMMA WithdrawKeeps ==
    ASSUME Inv, NEW c \in Capabilities, withdraw_and_reconcile(c)
    PROVE  Inv'
<1>1. PICK r : r = entries[Home][c]
  OBVIOUS
<1>2. r # 0 /\ Scope!withdraw(r) /\ UNCHANGED <<fiber, queue>>
  BY <1>1 DEF withdraw_and_reconcile
<1>3. published[r].scope = Home /\ published[r].definition.id = c
  BY <1>1, <1>2 DEF Inv, ScopeInv
<1>4. /\ entries' = [entries EXCEPT ![Home][c] = 0]
      /\ withdrawn' = withdrawn \cup {entries[Home][c]}
      /\ UNCHANGED <<lifecycle, published, publisher>>
  BY <1>2, <1>3 DEF Scope!withdraw
<1>5. ScopeInv' /\ \A g \in Fibers : Kept(g)
  BY <1>1, <1>2, <1>4, WithdrawnStep
<1>6. /\ DOMAIN coordinator' = {"at", "fibers", "drove", "retired", "alone"}
      /\ coordinator'.retired = r
  BY <1>1 DEF withdraw_and_reconcile, Idle
<1>7. DetachedInv'
  BY <1>1, <1>2, <1>4, <1>6 DEF Inv, DetachedInv
<1> QED
  BY <1>2, <1>5, <1>7, ScopeStepKeeps

\* A host begins to publish one of its definitions, or publishes it.
LEMMA MutationKeeps ==
    ASSUME Inv, NEW p \in Publishers, Mutation(p)
    PROVE  Inv'
<1>1. UNCHANGED <<fiber, queue, coordinator>>
  BY DEF Mutation
<1>2. PublishersOK
  BY DEF Inv, ScopeInv, PublishersOK
<1>3. ASSUME NEW definition \in Definitions[Home], NEW expected \in Nat,
             Scope!publish(p, Home, definition, expected)
      PROVE  Inv'
  <2> DEFINE y == [scope |-> Home, definition |-> definition,
                   dependencies |-> Scope!resolve_dependencies(Home, definition),
                   expected |-> expected]
  <2>1. /\ publisher' = [publisher EXCEPT ![p] = y]
        /\ UNCHANGED <<lifecycle, entries, published, withdrawn, poisoned>>
    BY <1>3 DEF Scope!publish
  <2>2. Scope!resolve_dependencies(Home, definition) \in Binding
    BY HomeBinding
  <2>3. /\ y.scope = Home /\ y.definition \in Definitions[Home]
        /\ y.dependencies \in Binding /\ y.expected \in Nat
    BY <2>2
  <2> HIDE DEF y
  <2>4. PublishersOK'
    BY <1>2, <2>1, <2>3 DEF PublishersOK
  <2>5. ScopeInv'
    BY <2>1, <2>4 DEF Inv, ScopeInv, PublishersOK
  <2>6. Len(published) \in Nat /\ Len(published') = Len(published)
    BY <2>1 DEF Inv, ScopeInv
  <2>7. \A g \in Fibers : Kept(g)
    BY <2>1, <2>6 DEF Kept, Own
  <2>8. DetachedInv'
    BY <1>1, <2>1, DetachedKept DEF Inv
  <2> QED
    BY <1>1, <2>5, <2>7, <2>8, ScopeStepKeeps
<1>4. CASE \E definition \in Definitions[Home] :
              LET current == entries[Home][definition.id]
                  expected == IF current = 0 THEN 0 ELSE published[current].generation
              IN  Scope!publish(p, Home, definition, expected)
  <2>1. PICK definition \in Definitions[Home] :
              Scope!publish(p, Home, definition,
                  IF entries[Home][definition.id] = 0 THEN 0
                  ELSE published[entries[Home][definition.id]].generation)
    BY <1>4
  <2>2. PICK expected : expected = IF entries[Home][definition.id] = 0 THEN 0
                  ELSE published[entries[Home][definition.id]].generation
    OBVIOUS
  <2>3. PICK c : c = definition.id
    OBVIOUS
  <2>4. c \in Capabilities
    BY <2>3, FiberAssumption DEF Scope!Definition
  <2>5. entries[Home][c] # 0 => published[entries[Home][c]] \in AnyEntry
    BY <2>4 DEF Inv, ScopeInv
  <2>6. expected \in Nat
    BY <2>2, <2>3, <2>5 DEF AnyEntry
  <2>7. Scope!publish(p, Home, definition, expected)
    BY <2>1, <2>2
  <2> QED
    BY <1>3, <2>6, <2>7
<1>5. CASE Scope!publish_preconstructed(p)
  <2> DEFINE x == publisher[p]
             entry == [scope |-> x.scope, definition |-> x.definition,
                       dependencies |-> x.dependencies, generation |-> x.expected + 1]
  <2>1. PICK c : c = x.definition.id
    OBVIOUS
  <2>2. /\ x # None /\ publisher' = [publisher EXCEPT ![p] = None]
        /\ UNCHANGED <<lifecycle, withdrawn>>
        /\ \/ /\ published' = Append(published, entry)
              /\ entries' = [entries EXCEPT ![x.scope][c] = Len(published) + 1]
           \/ UNCHANGED <<published, entries>>
    BY <1>5, <2>1 DEF Scope!publish_preconstructed
  <2>3. /\ x.scope = Home /\ x.definition \in Definitions[Home]
        /\ x.dependencies \in Binding /\ x.expected \in Nat
    BY <1>2, <2>2 DEF PublishersOK
  <2>4. c \in Capabilities /\ x.definition \in Scope!Definition
        /\ \A g \in Fibers : Provides[g].id # c
    BY <2>1, <2>3, FiberAssumption DEF Scope!Definition
  <2>5. /\ entry \in AnyEntry /\ entry.scope = Home /\ entry.definition.id = c
        /\ entry.definition \in Definitions[Home]
    BY <2>1, <2>3, <2>4, FiberAssumption DEF AnyEntry
  <2> HIDE DEF x, entry
  <2>6. PublishersOK'
    BY <1>2, <2>2 DEF PublishersOK
  <2>7. ScopeInv' /\ \A g \in Fibers : Kept(g)
    <3>1. CASE UNCHANGED <<published, entries>>
      <4>1. ScopeInv'
        BY <2>2, <2>6, <3>1 DEF Inv, ScopeInv, PublishersOK
      <4>2. Len(published) \in Nat /\ Len(published') = Len(published)
        BY <3>1 DEF Inv, ScopeInv
      <4> QED
        BY <2>2, <3>1, <4>1, <4>2 DEF Kept, Own
    <3>2. CASE /\ published' = Append(published, entry)
               /\ entries' = [entries EXCEPT ![x.scope][c] = Len(published) + 1]
      <4>1. entries' = [entries EXCEPT ![Home][c] = Len(published) + 1]
        BY <2>3, <3>2
      <4>2. \A g \in Fibers : Provides[g].id # c => Kept(g)
        BY <2>2, <2>4, <2>5, <2>6, <3>2, <4>1, PublishedStep
      <4>3. ScopeInv'
        BY <2>2, <2>4, <2>5, <2>6, <3>2, <4>1, PublishedStep
      <4> QED
        BY <2>4, <4>2, <4>3
    <3> QED
      BY <2>2, <3>1, <3>2
  <2>8. DetachedInv'
    BY <1>1, <2>2, DetachedKept DEF Inv
  <2> QED
    BY <1>1, <2>7, <2>8, ScopeStepKeeps
<1> QED
  BY <1>4, <1>5 DEF Mutation
----------------------------------------------------------------------------
(* Nothing is left behind, and nothing stale is published *)

\* Every step keeps the invariant.
LEMMA StepInv == Inv /\ [Next]_vars => Inv'
<1> SUFFICES ASSUME Inv, [Next]_vars PROVE Inv'
  OBVIOUS
<1>1. CASE UNCHANGED vars
  <2>1. UNCHANGED <<scope_vars, fiber>> /\ queue' = queue /\ coordinator' = coordinator
    BY <1>1 DEF vars
  <2>2. DetachedInv' /\ queue' \in [Fibers -> Seq(Call)]
    BY <2>1 DEF Inv, Types, DetachedInv, scope_vars
  <2> QED
    BY <2>1, <2>2, AskingKeeps
<1>2. ASSUME NEW p \in Publishers, Mutation(p) PROVE Inv'
  BY <1>2, MutationKeeps
<1>3. ASSUME NEW f \in Fibers, NEW kind \in {"start", "restart", "dispose"}, request(f, kind)
      PROVE  Inv'
  BY <1>3, RequestKeeps
<1>4. ASSUME NEW f \in Fibers, Transition(f) PROVE Inv'
  BY <1>4, AcquireKeeps, ResolveKeeps, ProvideValueKeeps, ActivateKeeps, DiscardKeeps,
     UnloadKeeps, FactoryKeeps DEF Transition
<1>5. CASE reconcile \/ pass
  BY <1>5, ReconcileKeeps
<1>6. CASE drain
  BY <1>6, DrainKeeps
<1>7. ASSUME NEW c \in Capabilities, withdraw_and_reconcile(c) PROVE Inv'
  BY <1>7, WithdrawKeeps
<1> QED
  BY <1>1, <1>2, <1>3, <1>4, <1>5, <1>6, <1>7 DEF Next

\* The invariant holds in every reachable state.
THEOREM Invariance == Spec => []Inv
BY InitInv, StepInv, PTL DEF Spec

\* However the calls of hosts, the coordinator's, and the publications of
\* hosts interleave, a fiber at rest that is not Active has nothing in the
\* scope, no effect to undo and no binding that holds a provider.
THEOREM NothingLeft == Spec => []NothingLeftBehind
<1>1. Inv => NothingLeftBehind
  <2> SUFFICES ASSUME Inv, NEW f \in Fibers, fiber[f].at = "rest", fiber[f].state # "Active"
               PROVE  /\ entries[Home][Provides[f].id] = 0
                      /\ ~fiber[f].effects
                      /\ fiber[f].handle = 0 /\ Pinned(f) = {}
    BY DEF NothingLeftBehind
  <2>1. FiberOK(f, fiber[f]) /\ ~Live(fiber[f]) /\ ~Attempting(fiber[f])
    BY DEF Inv, FiberInv, FiberOK, Live, Attempting
  <2>2. fiber[f].dependency_binding = None /\ fiber[f].loading_binding = None
    BY <2>1 DEF FiberOK
  <2>3. Pinned(f) = {}
    BY <2>2 DEF Pinned
  <2> QED
    BY <2>1, <2>3 DEF FiberOK, Own
<1> QED
  BY <1>1, Invariance, PTL

\* A step that publishes for a fiber publishes what was built with the entries
\* the scope has at that moment: provide_value compares them under the lock.
THEOREM FiberNothingStale == Spec => NoStalePublication
<1> DEFINE A == \A f \in Fibers :
          fiber'[f].at = "activate" /\ fiber[f].at # "activate" =>
            LET entry == published'[Len(published')]
            IN  entry.definition = Provides[f]
                /\ \A c \in Provides[f].dependencies :
                      entry.dependencies[c] # 0 /\ entry.dependencies[c] = Scope!get(Home, c)
<1>1. Inv /\ [Next]_vars => [A]_vars
  <2> SUFFICES ASSUME Inv, Next, NEW f \in Fibers,
                      fiber'[f].at = "activate", fiber[f].at # "activate"
               PROVE  LET entry == published'[Len(published')]
                      IN  entry.definition = Provides[f]
                          /\ \A c \in Provides[f].dependencies :
                                entry.dependencies[c] # 0
                                /\ entry.dependencies[c] = Scope!get(Home, c)
    OBVIOUS
  <2>1. fiber[f] \in Fiber
    BY DEF Inv, Types
  <2>2. PICK g \in Fibers : (\E kind \in {"start", "restart", "dispose"} : request(g, kind))
                            \/ Transition(g)
    BY DEF Next, Mutation, reconcile, pass, drain, withdraw_and_reconcile
  <2>3. g = f
    <3>1. \E y : Becomes(g, y)
      BY <2>2 DEF request, Transition, acquire, resolve, provide_value, activate, discard,
                  unload, factory
    <3> QED
      BY <3>1 DEF Becomes, Inv, Types
  <2>4. DOMAIN fiber = Fibers
    BY DEF Inv, Types
  <2>5. ~\E kind \in {"start", "restart", "dispose"} : request(f, kind)
    <3> SUFFICES ASSUME NEW kind \in {"start", "restart", "dispose"}, request(f, kind)
                 PROVE  FALSE
      OBVIOUS
    <3>1. PICK y : y = [fiber[f] EXCEPT !.force_reload = @ \/ kind = "restart",
                                        !.dispose_requested = @ \/ kind = "dispose"]
      OBVIOUS
    <3>2. y.at = fiber[f].at
      BY <2>1, <3>1 DEF Fiber
    <3>3. fiber'[f] = y
      BY <2>4, <3>1 DEF request, Becomes
    <3> QED
      BY <3>2, <3>3
  <2>6. ~acquire(f)
    <3>1. PICK x : x = [fiber[f] EXCEPT !.call = Head(queue[f])]
      OBVIOUS
    <3>2. /\ drive(x, FALSE).at # "activate" /\ drive(x, TRUE).at # "activate"
          /\ dispose(x).at # "activate" /\ deactivate_for_withdrawal(x).at # "activate"
      BY <2>1, <3>1 DEF drive, dispose, deactivate_for_withdrawal, Released, Unloading, Fiber
    <3> QED
      BY <2>4, <3>1, <3>2 DEF acquire, Becomes
  <2>7. ~resolve(f)
    <3> SUFFICES ASSUME resolve(f) PROVE FALSE
      OBVIOUS
    <3>1. PICK y : y = [fiber[f] EXCEPT !.state = "Pending"]
      OBVIOUS
    <3>2. PICK z : z = [fiber[f] EXCEPT !.state = "Loading", !.effects = TRUE,
                            !.loading_binding = Dependencies(f), !.at = "factory"]
      OBVIOUS
    <3>3. /\ Released(y).at = "rest" /\ Released(fiber[f]).at = "rest" /\ z.at = "factory"
          /\ Unloading(fiber[f], "pending").at = "unload"
          /\ Unloading(fiber[f], "resolve").at = "unload"
      BY <2>1, <3>1, <3>2 DEF Released, Unloading, Fiber
    <3>4. fiber'[f] \in {Unloading(fiber[f], "pending"), Released(y), Released(fiber[f]),
                         Unloading(fiber[f], "resolve"), z}
      BY <2>4, <3>1, <3>2 DEF resolve, Becomes
    <3> QED
      BY <3>3, <3>4
  <2>8. ~activate(f)
    BY DEF activate
  <2>9. ~discard(f)
    <3> SUFFICES ASSUME discard(f) PROVE FALSE
      OBVIOUS
    <3>1. PICK x : x = [fiber[f] EXCEPT !.effects = FALSE, !.loading_binding = None,
                    !.force_reload = @ /\ fiber[f].then \notin {"stale", "stale_error"}]
      OBVIOUS
    <3>2. PICK again : again = [x EXCEPT !.state = "Pending", !.at = "resolve", !.then = "rest"]
      OBVIOUS
    <3>3. x \in Fiber
      BY <2>1, <3>1 DEF Fiber
    <3>4. /\ again.at = "resolve" /\ Released(x).at = "rest"
          /\ Released([x EXCEPT !.state = "Failed"]).at = "rest"
          /\ Released([x EXCEPT !.state = "Disposed"]).at = "rest"
      BY <3>2, <3>3 DEF Released, Fiber
    <3>5. fiber'[f] \in {again, Released(x), Released([x EXCEPT !.state = "Failed"]),
                         Released([x EXCEPT !.state = "Disposed"])}
      BY <2>4, <3>1, <3>2 DEF discard, Becomes
    <3> QED
      BY <3>4, <3>5
  <2>10. ~unload(f)
    <3> SUFFICES ASSUME unload(f) PROVE FALSE
      OBVIOUS
    <3>1. PICK x : x = [fiber[f] EXCEPT !.state = "Pending", !.effects = FALSE, !.handle = 0,
                            !.dependency_binding = None, !.loading_binding = None]
      OBVIOUS
    <3>2. PICK again : again = [x EXCEPT !.at = "resolve", !.then = "rest"]
      OBVIOUS
    <3>3. x \in Fiber
      BY <2>1, <3>1 DEF Fiber, FiberState
    <3>4. /\ again.at = "resolve" /\ Released(x).at = "rest"
          /\ Released([x EXCEPT !.state = "Disposed"]).at = "rest"
      BY <3>2, <3>3 DEF Released, Fiber
    <3>5. fiber'[f] \in {again, Released(x), Released([x EXCEPT !.state = "Disposed"])}
      BY <2>4, <3>1, <3>2 DEF unload, Becomes
    <3> QED
      BY <3>4, <3>5
  <2>11. ~\E ok \in BOOLEAN : factory(f, ok)
    BY <2>1, <2>4 DEF factory, Becomes, Fiber
  <2>12. provide_value(f)
    BY <2>2, <2>3, <2>5, <2>6, <2>7, <2>8, <2>9, <2>10, <2>11 DEF Transition
  <2> DEFINE entry == [scope |-> Home, definition |-> Provides[f],
                       dependencies |-> fiber[f].loading_binding, generation |-> 1]
  <2>13. ChangedDependencies(f) = {} /\ published' = Append(published, entry)
    BY <2>1, <2>4, <2>12 DEF provide_value, Becomes, Fiber
  <2>14. published'[Len(published')] = entry
    BY <2>13 DEF Inv, ScopeInv
  <2>15. fiber[f].at = "publish" /\ FiberOK(f, fiber[f])
    BY <2>12 DEF provide_value, Inv, FiberInv
  <2>16. ASSUME NEW c \in Provides[f].dependencies
         PROVE  fiber[f].loading_binding[c] # 0 /\ fiber[f].loading_binding[c] = Scope!get(Home, c)
    BY <2>13, <2>15, BindingType DEF FiberOK, ChangedDependencies
  <2> QED
    BY <2>14, <2>16
<1> QED
  BY <1>1, Invariance, PTL DEF Spec, NoStalePublication
----------------------------------------------------------------------------
(* Induction and orders *)

\* A nonempty set of natural numbers has a smallest member.
LEMMA SmallestMember ==
    ASSUME NEW T \in SUBSET Nat, T # {}
    PROVE  \E x \in T : \A y \in T : x <= y
<1> DEFINE R == {p \in Nat \X Nat : p[1] < p[2]}
<1>1. IsWellFoundedOn(R, Nat)
  BY NatLessThanWellFounded DEF OpToRel
<1>2. PICK x \in T : \A y \in T : ~(<<y, x>> \in R)
  BY <1>1, WFMin
<1>3. SUFFICES ASSUME NEW y \in T PROVE x <= y
  OBVIOUS
<1>4. /\ x \in Nat /\ y \in Nat /\ <<y, x>> \in Nat \X Nat
      /\ <<y, x>>[1] = y /\ <<y, x>>[2] = x
  OBVIOUS
<1>5. ~(<<y, x>>[1] < <<y, x>>[2])
  BY <1>2, <1>4
<1> QED BY <1>4, <1>5

\* A set of natural numbers that holds 0 and every successor holds them all.
LEMMA NatInduct ==
    ASSUME NEW T \in SUBSET Nat, 0 \in T, \A n \in T : n + 1 \in T
    PROVE  T = Nat
<1> SUFFICES ASSUME T # Nat PROVE FALSE
  OBVIOUS
<1>1. Nat \ T # {} /\ (Nat \ T) \in SUBSET Nat
  OBVIOUS
<1>2. PICK x \in Nat \ T : \A y \in Nat \ T : x <= y
  BY <1>1, SmallestMember
<1>3. x # 0 /\ x - 1 \in Nat /\ x - 1 < x
  BY <1>2
<1>4. x - 1 \in T
  BY <1>2, <1>3
<1>5. (x - 1) + 1 \in T
  BY <1>4
<1> QED BY <1>5, <1>2

\* The same up to a bound.
LEMMA NatInductTo ==
    ASSUME NEW N \in Nat, NEW T, 0 \in T,
           \A n \in 0..(N - 1) : n \in T => n + 1 \in T
    PROVE  \A n \in 0..N : n \in T
<1> DEFINE S == {n \in Nat : n <= N => n \in T}
<1>1. S \in SUBSET Nat /\ 0 \in S
  OBVIOUS
<1>2. \A n \in S : n + 1 \in S
  OBVIOUS
<1>3. S = Nat
  BY <1>1, <1>2, NatInduct
<1> QED BY <1>3

\* g has the first N iterates of F from a on.
Iterates(g, S, a, F, N) ==
    /\ g \in [0..N -> S] /\ g[0] = a
    /\ \A n \in 0..(N - 1) : g[n + 1] = F[g[n]]

\* A function from a set to itself can be iterated.
LEMMA Iterated ==
    ASSUME NEW S, NEW a \in S, NEW F \in [S -> S], NEW N \in Nat
    PROVE  \E g : Iterates(g, S, a, F, N)
<1> DEFINE Solves(g, m) == g \in [0..m -> S] /\ g[0] = a /\ \A n \in 0..(m - 1) : g[n + 1] = F[g[n]]
           T == {m \in Nat : \E g : Solves(g, m)}
<1>1. 0 \in T
  <2>1. Solves([n \in 0..0 |-> a], 0)
    OBVIOUS
  <2> HIDE DEF Solves
  <2> QED BY <2>1
<1>2. ASSUME NEW m \in T PROVE m + 1 \in T
  <2>1. m \in Nat /\ \E f : Solves(f, m)
    OBVIOUS
  <2>2. PICK f : Solves(f, m)
    BY <2>1
  <2> DEFINE g == [n \in 0..(m + 1) |-> IF n = m + 1 THEN F[f[m]] ELSE f[n]]
  <2>3. f \in [0..m -> S] /\ f[0] = a /\ m \in 0..m /\ f[m] \in S
    BY <2>1, <2>2
  <2>4. g \in [0..(m + 1) -> S] /\ g[0] = a
    BY <2>1, <2>3
  <2>5. ASSUME NEW n \in 0..((m + 1) - 1) PROVE g[n + 1] = F[g[n]]
    <3>1. CASE n = m
      BY <2>1, <3>1
    <3>2. CASE n # m
      <4>1. n \in 0..(m - 1) /\ n \in 0..(m + 1) /\ n + 1 \in 0..(m + 1) /\ n # m + 1 /\ n + 1 # m + 1
        BY <2>1, <3>2
      <4> QED BY <2>2, <4>1
    <3> QED BY <3>1, <3>2
  <2> HIDE DEF g
  <2>6. Solves(g, m + 1)
    BY <2>4, <2>5
  <2> HIDE DEF Solves
  <2> QED BY <2>1, <2>6
<1>3. T = Nat
  <2>1. T \in SUBSET Nat
    OBVIOUS
  <2> HIDE DEF T
  <2> QED BY <1>1, <1>2, <2>1, NatInduct
<1>4. \E g : Solves(g, N)
  BY <1>3
<1> QED BY <1>4 DEF Iterates

\* A strict total order on S, and what is below x.
Orders(R, S) ==
    /\ \A x \in S : <<x, x>> \notin R
    /\ \A x, y, z \in S : <<x, y>> \in R /\ <<y, z>> \in R => <<x, z>> \in R
    /\ \A x, y \in S : x # y => <<x, y>> \in R \/ <<y, x>> \in R
Lower(R, S, x) == {y \in S : <<y, x>> \in R}

\* In a finite set more is below a greater element, and every number of
\* elements is below one.
LEMMA Ranked ==
    ASSUME NEW S, IsFiniteSet(S), NEW R, Orders(R, S)
    PROVE  /\ \A x, y \in S : <<x, y>> \in R => Cardinality(Lower(R, S, x)) < Cardinality(Lower(R, S, y))
           /\ \A x \in S : Cardinality(Lower(R, S, x)) \in 0..(Cardinality(S) - 1)
           /\ \A i \in 0..(Cardinality(S) - 1) : \E x \in S : Cardinality(Lower(R, S, x)) = i
<1> DEFINE n == Cardinality(S)
           rank == [x \in S |-> Cardinality(Lower(R, S, x))]
<1>1. \A x \in S : Lower(R, S, x) \in SUBSET S /\ x \notin Lower(R, S, x)
  BY DEF Lower, Orders
<1>2. n \in Nat /\ \A x \in S : IsFiniteSet(Lower(R, S, x)) /\ Cardinality(Lower(R, S, x)) \in Nat
  BY <1>1, FS_Subset, FS_CardinalityType
<1>3. ASSUME NEW x \in S, NEW y \in S, <<x, y>> \in R
      PROVE  Cardinality(Lower(R, S, x)) < Cardinality(Lower(R, S, y))
  <2>1. Lower(R, S, x) \cup {x} \subseteq Lower(R, S, y)
    BY <1>3 DEF Lower, Orders
  <2>2. Cardinality(Lower(R, S, x) \cup {x}) = Cardinality(Lower(R, S, x)) + 1
    BY <1>1, <1>2, FS_AddElement
  <2>3. Cardinality(Lower(R, S, x) \cup {x}) <= Cardinality(Lower(R, S, y))
    BY <1>2, <2>1, FS_Subset
  <2> QED BY <1>2, <2>2, <2>3
<1>4. ASSUME NEW x \in S PROVE Cardinality(Lower(R, S, x)) \in 0..(n - 1)
  <2>1. Cardinality(Lower(R, S, x) \cup {x}) = Cardinality(Lower(R, S, x)) + 1
    BY <1>1, <1>2, FS_AddElement
  <2>2. Lower(R, S, x) \cup {x} \in SUBSET S
    BY <1>1
  <2>3. Cardinality(Lower(R, S, x) \cup {x}) <= n
    BY <2>2, FS_Subset
  <2> QED BY <1>2, <2>1, <2>3
<1>5. rank \in Injection(S, 0..(n - 1))
  <2>1. rank \in [S -> 0..(n - 1)]
    BY <1>4
  <2>2. ASSUME NEW x \in S, NEW y \in S, rank[x] = rank[y] PROVE x = y
    <3>1. SUFFICES ASSUME x # y PROVE FALSE
      OBVIOUS
    <3>2. Cardinality(Lower(R, S, x)) = Cardinality(Lower(R, S, y))
      BY <2>2
    <3>3. <<x, y>> \in R \/ <<y, x>> \in R
      BY <3>1 DEF Orders
    <3> QED BY <1>2, <1>3, <3>2, <3>3
  <2> HIDE DEF rank
  <2> QED BY <2>1, <2>2 DEF Injection, IsInjective
<1>6. IsFiniteSet(0..(n - 1)) /\ Cardinality(0..(n - 1)) = n
  BY <1>2, FS_Interval
<1>7. rank \in Surjection(S, 0..(n - 1))
  <2> HIDE DEF rank
  <2> QED BY <1>5, <1>6, FS_Injection
<1>8. \A i \in 0..(n - 1) : \E x \in S : rank[x] = i
  <2> HIDE DEF rank
  <2> QED BY <1>7 DEF Surjection
<1> QED BY <1>3, <1>4, <1>8

\* s lists S, i - 1 elements being below the i-th; or: goes upwards through S.
ByRank(s, R, S) ==
    /\ s \in [1..Cardinality(S) -> S]
    /\ \A i \in 1..Cardinality(S) : Cardinality(Lower(R, S, s[i])) = i - 1
Sorts(s, R, S) ==
    /\ s \in Seq(S)
    /\ \A i, j \in 1..Len(s) : i < j => <<s[i], s[j]>> \in R
    /\ \A x \in S : \E i \in 1..Len(s) : s[i] = x

\* The first is enough for the second.
LEMMA Listed ==
    ASSUME NEW S, IsFiniteSet(S), NEW R, Orders(R, S), NEW s, ByRank(s, R, S)
    PROVE  Sorts(s, R, S)
<1> DEFINE n == Cardinality(S)
           rank(x) == Cardinality(Lower(R, S, x))
<1>1. /\ \A x, y \in S : <<x, y>> \in R => rank(x) < rank(y)
      /\ \A x \in S : rank(x) \in 0..(n - 1)
      /\ \A i \in 0..(n - 1) : \E x \in S : rank(x) = i
  BY Ranked
<1>2. n \in Nat
  BY FS_CardinalityType
<1>4. ASSUME NEW i \in 1..n PROVE s[i] \in S /\ rank(s[i]) = i - 1
  BY DEF ByRank
<1> HIDE DEF rank, n
<1>6. s \in Seq(S) /\ Len(s) = n
  BY <1>2 DEF n, ByRank
<1>7. ASSUME NEW i \in 1..n, NEW j \in 1..n, i < j PROVE <<s[i], s[j]>> \in R
  <2>1. /\ s[i] \in S /\ s[j] \in S /\ rank(s[i]) = i - 1 /\ rank(s[j]) = j - 1
    BY <1>4
  <2>2. rank(s[i]) < rank(s[j]) /\ s[i] # s[j]
    BY <1>2, <1>7, <2>1
  <2>3. <<s[i], s[j]>> \in R \/ <<s[j], s[i]>> \in R
    BY <2>1, <2>2 DEF Orders
  <2>4. <<s[j], s[i]>> \in R => rank(s[j]) < rank(s[i])
    BY <1>1, <2>1
  <2> QED BY <1>2, <1>7, <2>1, <2>3, <2>4
<1>8. ASSUME NEW x \in S PROVE \E i \in 1..n : s[i] = x
  <2>1. PICK i \in 1..n : rank(x) = i - 1
    <3>1. rank(x) \in 0..(n - 1)
      BY <1>1
    <3>2. rank(x) + 1 \in 1..n /\ rank(x) = (rank(x) + 1) - 1
      BY <1>2, <3>1
    <3> QED BY <3>2
  <2>2. s[i] \in S /\ rank(s[i]) = rank(x)
    BY <1>4, <2>1
  <2>3. s[i] = x
    <3>1. SUFFICES ASSUME s[i] # x PROVE FALSE
      OBVIOUS
    <3>2. <<s[i], x>> \in R \/ <<x, s[i]>> \in R
      BY <2>2, <3>1 DEF Orders
    <3>3. rank(s[i]) < rank(x) \/ rank(x) < rank(s[i])
      BY <1>1, <2>2, <3>2
    <3> QED BY <1>1, <2>2, <3>3
  <2> QED BY <2>3
<1> QED BY <1>6, <1>7, <1>8 DEF Sorts
----------------------------------------------------------------------------
(* The fibers that a withdrawal affects *)

\* The fibers bound to what a fiber of A provides.
Dependents(A) == {f \in Fibers : Providers(f) \cap A # {}}
Direct(retired) == {f \in Fibers : fiber[f].handle = retired \/ retired \in Pinned(f)}

\* The closure of a withdrawal, level by level.
Levels(g, retired) ==
    /\ g \in [0..Cardinality(Fibers) -> SUBSET Fibers]
    /\ g[0] = Direct(retired)
    /\ \A n \in 0..(Cardinality(Fibers) - 1) : g[n + 1] = g[n] \cup Dependents(g[n])

\* withdrawal_closure computes the levels.
LEMMA ClosureLevels ==
    ASSUME NEW retired
    PROVE  \E g : Levels(g, retired) /\ withdrawal_closure(retired) = g[Cardinality(Fibers)]
<1> DEFINE N == Cardinality(Fibers)
           Body(g) == [n \in 0..N |-> IF n = 0 THEN Direct(retired)
                                      ELSE g[n - 1] \cup {f \in Fibers : Providers(f) \cap g[n - 1] # {}}]
           F == [A \in SUBSET Fibers |-> A \cup Dependents(A)]
<1>1. N \in Nat
  BY FiberAssumption, FS_CardinalityType
<1>2. \E g : g = Body(g)
  <2>1. Direct(retired) \in SUBSET Fibers
    BY DEF Direct
  <2>2. F \in [SUBSET Fibers -> SUBSET Fibers]
    BY DEF Dependents
  <2>3. \A A \in SUBSET Fibers : F[A] = A \cup Dependents(A)
    OBVIOUS
  <2> HIDE DEF F, N
  <2>4. PICK g \in [0..N -> SUBSET Fibers] :
            g[0] = Direct(retired) /\ \A n \in 0..(N - 1) : g[n + 1] = F[g[n]]
    <3>1. \E g : Iterates(g, SUBSET Fibers, Direct(retired), F, N)
      BY <1>1, <2>1, <2>2, Iterated
    <3> QED BY <3>1 DEF Iterates
  <2>5. ASSUME NEW n \in 0..N, n # 0
        PROVE  g[n] = g[n - 1] \cup {f \in Fibers : Providers(f) \cap g[n - 1] # {}}
    <3>1. n - 1 \in 0..(N - 1) /\ (n - 1) + 1 = n /\ n - 1 \in 0..N
      BY <1>1, <2>5
    <3>2. g[n] = F[g[n - 1]] /\ g[n - 1] \in SUBSET Fibers
      BY <2>4, <3>1
    <3> QED BY <2>3, <3>2 DEF Dependents
  <2>6. g = [n \in 0..N |-> g[n]]
    OBVIOUS
  <2>7. g = Body(g)
    BY <2>4, <2>5, <2>6
  <2> QED BY <2>7
<1>3. PICK g : g = Body(g) /\ g = CHOOSE h : h = Body(h)
  <2> HIDE DEF Body
  <2> QED BY <1>2
<1>4. withdrawal_closure(retired) = g[N]
  BY <1>3 DEF withdrawal_closure, Direct
<1>5. g[0] = Direct(retired) /\ \A n \in 0..(N - 1) : g[n + 1] = g[n] \cup Dependents(g[n])
  <2>1. g[0] = Direct(retired)
    BY <1>1, <1>3
  <2>2. ASSUME NEW n \in 0..(N - 1) PROVE g[n + 1] = g[n] \cup Dependents(g[n])
    <3>1. n + 1 \in 0..N /\ n + 1 # 0 /\ (n + 1) - 1 = n
      BY <1>1
    <3>2. PICK m : m = n + 1
      OBVIOUS
    <3>3. m \in 0..N /\ m # 0 /\ m - 1 = n
      BY <3>1, <3>2
    <3>4. g[m] = Body(g)[m]
      BY <1>3
    <3>5. g[m] = g[m - 1] \cup {f \in Fibers : Providers(f) \cap g[m - 1] # {}}
      BY <3>3, <3>4
    <3> QED BY <3>2, <3>3, <3>5 DEF Dependents
  <2> QED BY <2>1, <2>2
<1>6. g \in [0..N -> SUBSET Fibers]
  <2> DEFINE T == {n \in 0..N : g[n] \in SUBSET Fibers}
  <2>1. 0 \in T
    BY <1>1, <1>5 DEF Direct
  <2>2. \A n \in 0..(N - 1) : n \in T => n + 1 \in T
    BY <1>1, <1>5 DEF Dependents
  <2> HIDE DEF T
  <2>3. \A n \in 0..N : n \in T
    BY <1>1, <2>1, <2>2, NatInductTo
  <2>4. \A n \in 0..N : g[n] \in SUBSET Fibers
    BY <2>3 DEF T
  <2>5. DOMAIN g = 0..N /\ g = [n \in 0..N |-> g[n]]
    BY <1>3
  <2> QED BY <2>4, <2>5
<1> QED BY <1>4, <1>5, <1>6 DEF Levels

\* It has everything that is bound to what one of it provides: each level that
\* adds something adds a fiber, and there are not more of them.
LEMMA ClosureClosed ==
    ASSUME NEW retired
    PROVE  /\ withdrawal_closure(retired) \in SUBSET Fibers
           /\ Dependents(withdrawal_closure(retired)) \subseteq withdrawal_closure(retired)
<1> DEFINE N == Cardinality(Fibers)
<1>1. N \in Nat /\ IsFiniteSet(Fibers)
  BY FiberAssumption, FS_CardinalityType
<1>2. PICK g : Levels(g, retired) /\ withdrawal_closure(retired) = g[N]
  BY ClosureLevels
<1> DEFINE Done(n) == Dependents(g[n]) \subseteq g[n]
           T == {n \in 0..N : Done(n) \/ Cardinality(g[n]) > n}
<1>3. /\ g \in [0..N -> SUBSET Fibers]
      /\ \A n \in 0..(N - 1) : g[n + 1] = g[n] \cup Dependents(g[n])
  BY <1>2 DEF Levels
<1>4. \A n \in 0..N : g[n] \in SUBSET Fibers /\ IsFiniteSet(g[n]) /\ Cardinality(g[n]) \in Nat
                      /\ Cardinality(g[n]) <= N
  BY <1>1, <1>3, FS_Subset, FS_CardinalityType
<1>5. 0 \in T
  <2>1. CASE g[0] = {}
    BY <1>1, <2>1 DEF Dependents
  <2>2. CASE g[0] # {}
    <3>1. 0 \in 0..N
      BY <1>1
    <3>2. Cardinality(g[0]) # 0
      BY <1>4, <2>2, <3>1, FS_EmptySet
    <3>3. Cardinality(g[0]) > 0
      BY <1>4, <3>1, <3>2
    <3> QED BY <3>1, <3>3
  <2> QED BY <2>1, <2>2
<1>6. ASSUME NEW n \in 0..(N - 1), n \in T PROVE n + 1 \in T
  <2>1. n \in 0..N /\ n + 1 \in 0..N /\ g[n + 1] = g[n] \cup Dependents(g[n])
    BY <1>1, <1>3
  <2>2. CASE Done(n)
    <3>1. g[n + 1] = g[n]
      BY <2>1, <2>2
    <3> QED BY <2>1, <2>2, <3>1
  <2>3. CASE ~Done(n)
    <3>1. Cardinality(g[n]) > n
      BY <1>6, <2>3
    <3>2. g[n] \in SUBSET g[n + 1] /\ g[n] # g[n + 1]
      BY <2>1, <2>3
    <3>3. Cardinality(g[n]) <= Cardinality(g[n + 1]) /\ Cardinality(g[n]) # Cardinality(g[n + 1])
      BY <1>4, <2>1, <3>2, FS_Subset
    <3>4. Cardinality(g[n + 1]) > n + 1
      <4>1. PICK a : a = Cardinality(g[n])
        OBVIOUS
      <4>2. PICK b : b = Cardinality(g[n + 1])
        OBVIOUS
      <4>3. a \in Nat /\ b \in Nat /\ n \in Nat /\ a > n /\ a <= b /\ a # b
        <5>1. a \in Nat /\ b \in Nat
          BY <1>4, <2>1, <4>1, <4>2
        <5>2. a > n /\ a <= b /\ a # b
          BY <3>1, <3>3, <4>1, <4>2
        <5>3. n \in Nat
          BY <1>1
        <5> QED BY <5>1, <5>2, <5>3
      <4> HIDE DEF N
      <4> QED BY <4>2, <4>3
    <3> QED BY <2>1, <3>4
  <2> QED BY <2>2, <2>3
<1>7. N \in T
  <2> HIDE DEF T
  <2>1. \A n \in 0..N : n \in T
    BY <1>1, <1>5, <1>6, NatInductTo
  <2> QED BY <1>1, <2>1
<1>8. Done(N)
  BY <1>1, <1>4, <1>7
<1> QED BY <1>1, <1>2, <1>4, <1>8
----------------------------------------------------------------------------
(* The depth of a fiber *)

\* The largest value of d on S.
Most(S, d) == CHOOSE m \in {d[g] : g \in S} : \A g \in S : d[g] <= m

\* A finite set that is not empty has a member where d is largest.
LEMMA MostExists ==
    ASSUME NEW S \in SUBSET Fibers, S # {}, NEW d \in [Fibers -> Nat]
    PROVE  /\ Most(S, d) \in {d[g] : g \in S}
           /\ \A g \in S : d[g] <= Most(S, d)
<1>1. IsFiniteSet(S) /\ S \in SUBSET Nat /\ Cardinality(S) \in Nat
  <2>1. IsFiniteSet(Fibers) /\ Cardinality(Fibers) \in Nat /\ Fibers = 1..Cardinality(Fibers)
    BY FiberAssumption, FS_CardinalityType
  <2>2. IsFiniteSet(S) /\ Cardinality(S) \in Nat
    BY <2>1, FS_Subset, FS_CardinalityType
  <2> QED BY <2>1, <2>2
<1>2. \A g \in S : d[g] \in Nat
  OBVIOUS
<1> DEFINE R == {p \in S \X S : d[p[1]] < d[p[2]] \/ (d[p[1]] = d[p[2]] /\ p[1] < p[2])}
<1>3. \A x, y \in S : <<x, y>> \in R <=> d[x] < d[y] \/ (d[x] = d[y] /\ x < y)
  OBVIOUS
<1> HIDE DEF R
<1>4. Orders(R, S)
  <2>1. \A x \in S : <<x, x>> \notin R
    BY <1>1, <1>2, <1>3
  <2>2. ASSUME NEW x \in S, NEW y \in S, NEW z \in S, <<x, y>> \in R, <<y, z>> \in R
        PROVE  <<x, z>> \in R
    <3>1. x \in Nat /\ y \in Nat /\ z \in Nat /\ d[x] \in Nat /\ d[y] \in Nat /\ d[z] \in Nat
      BY <1>1, <1>2
    <3>2. d[x] < d[y] \/ (d[x] = d[y] /\ x < y)
      BY <1>3, <2>2
    <3>3. d[y] < d[z] \/ (d[y] = d[z] /\ y < z)
      BY <1>3, <2>2
    <3>4. d[x] < d[z] \/ (d[x] = d[z] /\ x < z)
      BY <3>1, <3>2, <3>3
    <3> QED BY <1>3, <3>4
  <2>3. ASSUME NEW x \in S, NEW y \in S, x # y PROVE <<x, y>> \in R \/ <<y, x>> \in R
    <3>1. x \in Nat /\ y \in Nat /\ d[x] \in Nat /\ d[y] \in Nat
      BY <1>1, <1>2
    <3>2. \/ d[x] < d[y] \/ (d[x] = d[y] /\ x < y)
          \/ d[y] < d[x] \/ (d[y] = d[x] /\ y < x)
      BY <2>3, <3>1
    <3> QED BY <1>3, <3>2
  <2> QED BY <2>1, <2>2, <2>3 DEF Orders
<1>5. Cardinality(S) # 0
  BY <1>1, FS_EmptySet
<1>6. Cardinality(S) - 1 \in 0..(Cardinality(S) - 1)
  BY <1>1, <1>5
<1>7. PICK x \in S : Cardinality(Lower(R, S, x)) = Cardinality(S) - 1
  <2>1. \A i \in 0..(Cardinality(S) - 1) : \E x \in S : Cardinality(Lower(R, S, x)) = i
    BY <1>1, <1>4, Ranked
  <2> QED BY <1>6, <2>1
<1>8. Lower(R, S, x) \in SUBSET S /\ x \notin Lower(R, S, x)
  BY <1>4 DEF Lower, Orders
<1>9. Lower(R, S, x) \cup {x} = S
  <2>1. IsFiniteSet(Lower(R, S, x))
    BY <1>1, <1>8, FS_Subset
  <2>2. Cardinality(Lower(R, S, x) \cup {x}) = Cardinality(Lower(R, S, x)) + 1
    BY <1>8, <2>1, FS_AddElement
  <2>3. Cardinality(Lower(R, S, x) \cup {x}) = Cardinality(S)
    BY <1>1, <1>7, <2>2
  <2>4. Lower(R, S, x) \cup {x} \in SUBSET S
    BY <1>8
  <2> QED BY <1>1, <2>3, <2>4, FS_Subset
<1>10. ASSUME NEW g \in S PROVE d[g] <= d[x]
  <2>1. CASE g = x
    BY <1>2, <2>1
  <2>2. CASE g # x
    <3>1. <<g, x>> \in R
      BY <1>9, <2>2 DEF Lower
    <3>2. d[g] < d[x] \/ d[g] = d[x]
      BY <1>3, <3>1
    <3> QED BY <1>2, <3>2
  <2> QED BY <2>1, <2>2
<1>11. \E m \in {d[g] : g \in S} : \A g \in S : d[g] <= m
  BY <1>10
<1> QED BY <1>11 DEF Most

\* Where d and e are the same, so is the largest value.
LEMMA MostSame ==
    ASSUME NEW S \in SUBSET Fibers, S # {}, NEW d \in [Fibers -> Nat], NEW e \in [Fibers -> Nat],
           \A g \in S : d[g] = e[g]
    PROVE  Most(S, d) = Most(S, e)
<1>1. PICK m : m = Most(S, d)
  OBVIOUS
<1>2. PICK k : k = Most(S, e)
  OBVIOUS
<1>3. /\ m \in {d[g] : g \in S} /\ k \in {e[g] : g \in S}
      /\ \A g \in S : d[g] <= m /\ e[g] <= k
  BY <1>1, <1>2, MostExists
<1>4. PICK x \in S : m = d[x]
  BY <1>3
<1>5. PICK y \in S : k = e[y]
  BY <1>3
<1>6. m <= k /\ k <= m /\ m \in Nat /\ k \in Nat
  BY <1>3, <1>4, <1>5
<1>7. m = k
  BY <1>6
<1> QED BY <1>1, <1>2, <1>7

\* One more level of dependency_depth.
Above(f, A) == (Providers(f) \cap A) \ {f}
Deeper(A, d) == [f \in Fibers |-> IF Above(f, A) = {} THEN 0 ELSE 1 + Most(Above(f, A), d)]
Level0 == [f \in Fibers |-> 0]

\* A level is one more than the largest of the last one.
LEMMA DeeperType ==
    ASSUME NEW A, NEW d \in [Fibers -> Nat]
    PROVE  /\ Deeper(A, d) \in [Fibers -> Nat]
           /\ \A f \in Fibers : \A g \in Above(f, A) : d[g] < Deeper(A, d)[f]
           /\ \A f \in Fibers : Above(f, A) = {} => Deeper(A, d)[f] = 0
<1>1. ASSUME NEW f \in Fibers, Above(f, A) # {}
      PROVE  /\ Most(Above(f, A), d) \in Nat
             /\ \A g \in Above(f, A) : d[g] <= Most(Above(f, A), d) /\ d[g] \in Nat
  <2>1. PICK S : S = Above(f, A)
    OBVIOUS
  <2>2. S \in SUBSET Fibers /\ S # {}
    BY <1>1, <2>1 DEF Above, Providers
  <2>3. Most(S, d) \in {d[g] : g \in S} /\ \A g \in S : d[g] <= Most(S, d)
    BY <2>2, MostExists
  <2>4. Most(S, d) \in Nat /\ \A g \in S : d[g] \in Nat
    BY <2>2, <2>3
  <2> QED BY <2>1, <2>3, <2>4
<1>2. ASSUME NEW f \in Fibers, Above(f, A) # {}
      PROVE  /\ Deeper(A, d)[f] = 1 + Most(Above(f, A), d)
  BY <1>2 DEF Deeper
<1>3. ASSUME NEW f \in Fibers PROVE Deeper(A, d)[f] \in Nat
  <2>1. CASE Above(f, A) = {}
    BY <2>1 DEF Deeper
  <2>2. CASE Above(f, A) # {}
    BY <1>1, <1>2, <2>2
  <2> QED BY <2>1, <2>2
<1>4. Deeper(A, d) \in [Fibers -> Nat]
  <2>1. Deeper(A, d) = [f \in Fibers |-> Deeper(A, d)[f]]
    BY DEF Deeper
  <2> QED BY <1>3, <2>1
<1>5. ASSUME NEW f \in Fibers, NEW g \in Above(f, A) PROVE d[g] < Deeper(A, d)[f]
  <2>1. PICK m : m = Most(Above(f, A), d)
    OBVIOUS
  <2>2. m \in Nat /\ d[g] <= m /\ d[g] \in Nat /\ Deeper(A, d)[f] = 1 + m
    BY <1>1, <1>2, <2>1
  <2> QED BY <2>2
<1>6. \A f \in Fibers : Above(f, A) = {} => Deeper(A, d)[f] = 0
  BY DEF Deeper
<1> QED BY <1>4, <1>5, <1>6

\* The depths, level by level.
Depths(h, A) ==
    /\ h \in [0..Cardinality(Fibers) -> [Fibers -> Nat]]
    /\ h[0] = Level0
    /\ \A n \in 0..(Cardinality(Fibers) - 1) : h[n + 1] = Deeper(A, h[n])

\* dependency_depth computes the levels.
LEMMA DepthLevels ==
    ASSUME NEW A
    PROVE  \E h : Depths(h, A) /\ dependency_depth(A) = h[Cardinality(Fibers)]
<1> DEFINE N == Cardinality(Fibers)
           D == [Fibers -> Nat]
           F == [d \in D |-> Deeper(A, d)]
           Body(h) == [n \in 0..N |->
                IF n = 0 THEN [f \in Fibers |-> 0]
                ELSE [f \in Fibers |->
                    IF Above(f, A) = {} THEN 0
                    ELSE 1 + CHOOSE m \in {h[n - 1][g] : g \in Above(f, A)} :
                                 \A g \in Above(f, A) : h[n - 1][g] <= m]]
<1>1. N \in Nat
  BY FiberAssumption, FS_CardinalityType
<1>2. ASSUME NEW h
      PROVE  Body(h) = [n \in 0..N |-> IF n = 0 THEN Level0 ELSE Deeper(A, h[n - 1])]
  BY DEF Level0, Deeper, Most
<1> HIDE DEF Body
<1>3. \E h : h = Body(h)
  <2>1. Level0 \in D /\ F \in [D -> D] /\ \A d \in D : F[d] = Deeper(A, d)
    BY DeeperType DEF Level0
  <2> HIDE DEF F, N, D
  <2>2. PICK h : Iterates(h, D, Level0, F, N)
    BY <1>1, <2>1, Iterated
  <2>3. h \in [0..N -> D] /\ h[0] = Level0 /\ \A n \in 0..(N - 1) : h[n + 1] = F[h[n]]
    BY <2>2 DEF Iterates
  <2>4. ASSUME NEW n \in 0..N, n # 0 PROVE h[n] = Deeper(A, h[n - 1])
    <3>1. n - 1 \in 0..(N - 1) /\ (n - 1) + 1 = n /\ n - 1 \in 0..N
      BY <1>1, <2>4
    <3>2. h[n] = F[h[n - 1]] /\ h[n - 1] \in D
      BY <2>3, <3>1
    <3> QED BY <2>1, <3>2
  <2>5. h = [n \in 0..N |-> h[n]]
    BY <2>3
  <2>6. h = [n \in 0..N |-> IF n = 0 THEN Level0 ELSE Deeper(A, h[n - 1])]
    BY <2>3, <2>4, <2>5
  <2> QED BY <1>2, <2>6
<1>4. PICK h : h = Body(h) /\ h = CHOOSE e : e = Body(e)
  BY <1>3
<1>5. dependency_depth(A) = h[N]
  BY <1>4 DEF dependency_depth, Body, Above
<1>6. h = [n \in 0..N |-> IF n = 0 THEN Level0 ELSE Deeper(A, h[n - 1])]
  BY <1>2, <1>4
<1>7. h[0] = Level0 /\ \A n \in 0..(N - 1) : h[n + 1] = Deeper(A, h[n])
  <2>1. h[0] = Level0
    BY <1>1, <1>6
  <2>2. ASSUME NEW n \in 0..(N - 1) PROVE h[n + 1] = Deeper(A, h[n])
    <3>1. n + 1 \in 0..N /\ n + 1 # 0 /\ (n + 1) - 1 = n
      BY <1>1
    <3>2. PICK m : m = n + 1
      OBVIOUS
    <3>3. m \in 0..N /\ m # 0 /\ m - 1 = n
      BY <3>1, <3>2
    <3>4. h[m] = Deeper(A, h[m - 1])
      BY <1>6, <3>3
    <3> QED BY <3>2, <3>3, <3>4
  <2> QED BY <2>1, <2>2
<1>8. h \in [0..N -> D]
  <2> DEFINE T == {n \in 0..N : h[n] \in D}
  <2>1. 0 \in T
    BY <1>1, <1>7 DEF Level0
  <2>2. \A n \in 0..(N - 1) : n \in T => n + 1 \in T
    <3> SUFFICES ASSUME NEW n \in 0..(N - 1), n \in T PROVE n + 1 \in T
      OBVIOUS
    <3>1. n + 1 \in 0..N /\ h[n] \in D /\ h[n + 1] = Deeper(A, h[n])
      BY <1>1, <1>7
    <3>2. Deeper(A, h[n]) \in D
      BY <3>1, DeeperType
    <3> QED BY <3>1, <3>2
  <2> HIDE DEF T
  <2>3. \A n \in 0..N : n \in T
    BY <1>1, <2>1, <2>2, NatInductTo
  <2>4. \A n \in 0..N : h[n] \in D
    BY <2>3 DEF T
  <2>5. h = [n \in 0..N |-> h[n]]
    BY <1>6
  <2> QED BY <2>4, <2>5
<1> QED BY <1>5, <1>7, <1>8 DEF Depths

\* The affected providers of a fiber have smaller keys.
Keyed(key, A) ==
    /\ key \in [Fibers -> Nat]
    /\ \A f \in Fibers : \A g \in Above(f, A) : key[g] < key[f]

\* Then the depths have settled after as many levels as there are fibers: a
\* fiber is deeper than the affected fibers above it.
LEMMA Deepest ==
    ASSUME NEW A \in SUBSET Fibers, NEW key, Keyed(key, A)
    PROVE  /\ dependency_depth(A) \in [Fibers -> Nat]
           /\ \A f \in Fibers : \A g \in Above(f, A) :
                 dependency_depth(A)[g] < dependency_depth(A)[f]
<1> DEFINE N == Cardinality(Fibers)
           Under(f) == {g \in Fibers : key[g] < key[f]}
           r(f) == Cardinality(Under(f))
<1>1. N \in Nat /\ IsFiniteSet(Fibers)
  BY FiberAssumption, FS_CardinalityType
<1>2. PICK h : Depths(h, A) /\ dependency_depth(A) = h[N]
  BY DepthLevels
<1>3. /\ h \in [0..N -> [Fibers -> Nat]] /\ h[0] = Level0
      /\ \A n \in 0..(N - 1) : h[n + 1] = Deeper(A, h[n])
  BY <1>2 DEF Depths
<1>4. ASSUME NEW f \in Fibers PROVE r(f) \in Nat /\ r(f) < N /\ IsFiniteSet(Under(f))
  <2>1. Under(f) \in SUBSET Fibers /\ f \notin Under(f)
    BY DEF Keyed
  <2> HIDE DEF Under
  <2>2. IsFiniteSet(Under(f)) /\ r(f) \in Nat /\ r(f) <= N
    BY <1>1, <2>1, FS_Subset, FS_CardinalityType
  <2>3. r(f) = N => Under(f) = Fibers
    BY <1>1, <2>1, FS_Subset
  <2>4. r(f) # N
    BY <2>1, <2>3
  <2> HIDE DEF N, r
  <2> QED BY <1>1, <2>2, <2>4
<1>5. ASSUME NEW f \in Fibers, NEW g \in Above(f, A) PROVE g \in Fibers /\ r(g) < r(f)
  <2>1. g \in Fibers
    BY DEF Above, Providers
  <2>2. Under(g) \in SUBSET Under(f) /\ g \in Under(f) /\ g \notin Under(g)
    BY <2>1 DEF Keyed
  <2> HIDE DEF Under
  <2>3. IsFiniteSet(Under(f)) /\ r(f) \in Nat /\ r(g) \in Nat
    BY <1>4, <2>1
  <2>4. r(g) <= r(f) /\ (r(g) = r(f) => Under(g) = Under(f))
    BY <2>2, <2>3, FS_Subset
  <2>5. r(g) # r(f)
    BY <2>2, <2>4
  <2> HIDE DEF r
  <2> QED BY <2>1, <2>3, <2>4, <2>5
<1> HIDE DEF r
<1>6. CASE N = 0
  <2>1. Fibers = {}
    BY <1>1, <1>6, FS_EmptySet
  <2>2. 0 \in 0..N
    BY <1>1
  <2>3. h[N] \in [Fibers -> Nat]
    BY <1>3, <1>6, <2>2
  <2> QED BY <1>2, <2>1, <2>3
<1>7. CASE N # 0
  <2> DEFINE Settled(n) == \A f \in Fibers : r(f) <= n => h[n][f] = h[n + 1][f]
             T == {n \in 0..(N - 1) : Settled(n)}
  <2>1. 0 \in T
    <3>1. 0 \in 0..(N - 1) /\ h[0 + 1] = Deeper(A, h[0]) /\ h[0] \in [Fibers -> Nat]
      BY <1>1, <1>3, <1>7
    <3>2. ASSUME NEW f \in Fibers, r(f) <= 0 PROVE h[0][f] = h[0 + 1][f]
      <4>1. Above(f, A) = {}
        <5> SUFFICES ASSUME NEW g \in Above(f, A) PROVE FALSE
          OBVIOUS
        <5>1. g \in Fibers /\ r(g) < r(f)
          BY <1>5
        <5>2. r(g) \in Nat /\ r(f) \in Nat
          BY <1>4, <5>1
        <5> QED BY <3>2, <5>1, <5>2
      <4>2. Deeper(A, h[0])[f] = 0
        BY <3>1, <4>1, DeeperType
      <4>3. h[0][f] = 0
        BY <1>3 DEF Level0
      <4> QED BY <3>1, <4>2, <4>3
    <3> QED BY <3>1, <3>2
  <2>2. ASSUME NEW n \in 0..((N - 1) - 1), n \in T PROVE n + 1 \in T
    <3>1. PICK m : m = n + 1
      OBVIOUS
    <3>2. m \in 0..(N - 1) /\ m \in 0..N /\ n \in 0..(N - 1) /\ n \in 0..N /\ n \in Nat
      BY <1>1, <3>1
    <3>3. h[m] = Deeper(A, h[n]) /\ h[m + 1] = Deeper(A, h[m])
      BY <1>3, <3>1, <3>2
    <3>4. h[n] \in [Fibers -> Nat] /\ h[m] \in [Fibers -> Nat]
      BY <1>3, <3>2
    <3>5. ASSUME NEW f \in Fibers, r(f) <= m PROVE h[m][f] = h[m + 1][f]
      <4>1. CASE Above(f, A) = {}
        BY <3>3, <3>4, <4>1, DeeperType
      <4>2. CASE Above(f, A) # {}
        <5>1. ASSUME NEW g \in Above(f, A) PROVE h[n][g] = h[m][g]
          <6>1. g \in Fibers /\ r(g) < r(f)
            BY <1>5
          <6>2. r(g) \in Nat /\ r(f) \in Nat
            BY <1>4, <6>1
          <6>3. r(g) <= n
            BY <3>1, <3>2, <3>5, <6>1, <6>2
          <6> QED BY <2>2, <3>1, <6>1, <6>3
        <5>2. PICK S : S = Above(f, A)
          OBVIOUS
        <5>3. S \in SUBSET Fibers /\ S # {} /\ \A g \in S : h[n][g] = h[m][g]
          BY <4>2, <5>1, <5>2 DEF Above, Providers
        <5>4. Most(S, h[n]) = Most(S, h[m])
          BY <3>4, <5>3, MostSame
        <5>5. h[m][f] = 1 + Most(S, h[n]) /\ h[m + 1][f] = 1 + Most(S, h[m])
          BY <3>3, <4>2, <5>2 DEF Deeper
        <5> QED BY <5>4, <5>5
      <4> QED BY <4>1, <4>2
    <3>6. m \in T
      BY <3>2, <3>5
    <3> QED BY <3>1, <3>6
  <2>3. N - 1 \in Nat /\ (N - 1) + 1 = N /\ N - 1 \in 0..(N - 1) /\ N - 1 \in 0..N /\ N \in 0..N
    BY <1>1, <1>7
  <2>4. N - 1 \in T
    <3> HIDE DEF T
    <3>1. PICK M : M = N - 1
      OBVIOUS
    <3>2. \A n \in 0..M : n \in T
      BY <2>1, <2>2, <2>3, <3>1, NatInductTo
    <3> QED BY <2>3, <3>1, <3>2
  <2>5. ASSUME NEW f \in Fibers PROVE r(f) <= N - 1
    <3>1. r(f) \in Nat /\ r(f) < N
      BY <1>4
    <3> HIDE DEF N
    <3> QED BY <1>1, <3>1
  <2>6. \A f \in Fibers : h[N - 1][f] = h[N][f]
    BY <2>3, <2>4, <2>5
  <2>7. h[N] = Deeper(A, h[N - 1]) /\ h[N - 1] \in [Fibers -> Nat] /\ h[N] \in [Fibers -> Nat]
    BY <1>3, <2>3
  <2>8. \A f \in Fibers : \A g \in Above(f, A) : h[N - 1][g] < h[N][f]
    BY <2>7, DeeperType
  <2>9. \A f \in Fibers : \A g \in Above(f, A) : h[N][g] < h[N][f]
    BY <1>5, <2>6, <2>8
  <2> QED BY <1>2, <2>7, <2>9
<1> QED BY <1>6, <1>7
----------------------------------------------------------------------------
(* The order of a withdrawal *)

\* s has every fiber of A once, and none before one that is bound to what it
\* provides.
DependentsBefore(s, A) ==
    /\ s \in Seq(A)
    /\ \A i, j \in 1..Len(s) : i < j => s[i] # s[j] /\ s[i] \notin Above(s[j], A)
    /\ \A x \in A : \E i \in 1..Len(s) : s[i] = x

\* That is what withdrawal_order makes of the affected fibers.
LEMMA Ordered ==
    ASSUME NEW A \in SUBSET Fibers, NEW key, Keyed(key, A), NEW s, s = withdrawal_order(A)
    PROVE  DependentsBefore(s, A)
<1> DEFINE n == Cardinality(A)
<1>1. PICK d : d = dependency_depth(A)
  OBVIOUS
<1>2. d \in [Fibers -> Nat] /\ \A f \in Fibers : \A g \in Above(f, A) : d[g] < d[f]
  BY <1>1, Deepest
<1>3. IsFiniteSet(A) /\ n \in Nat /\ A \in SUBSET Nat
  <2>1. IsFiniteSet(Fibers) /\ Cardinality(Fibers) \in Nat /\ Fibers = 1..Cardinality(Fibers)
    BY FiberAssumption, FS_CardinalityType
  <2>2. IsFiniteSet(A) /\ Cardinality(A) \in Nat
    BY <2>1, FS_Subset, FS_CardinalityType
  <2> QED BY <2>1, <2>2
<1> DEFINE Before(f) == {g \in A : d[g] > d[f] \/ (d[g] = d[f] /\ g < f)}
           R == {p \in A \X A : d[p[1]] > d[p[2]] \/ (d[p[1]] = d[p[2]] /\ p[1] < p[2])}
<1>4. \A x, y \in A : <<x, y>> \in R <=> d[x] > d[y] \/ (d[x] = d[y] /\ x < y)
  OBVIOUS
<1>5. \A x \in A : Before(x) = Lower(R, A, x)
  BY <1>4 DEF Lower
<1>6. s = [i \in 1..n |-> CHOOSE f \in A : Cardinality(Before(f)) = i - 1]
  BY <1>1 DEF withdrawal_order
<1> HIDE DEF R, Before
<1>7. Orders(R, A)
  <2>1. \A x \in A : <<x, x>> \notin R
    BY <1>2, <1>3, <1>4
  <2>2. ASSUME NEW x \in A, NEW y \in A, NEW z \in A, <<x, y>> \in R, <<y, z>> \in R
        PROVE  <<x, z>> \in R
    <3>1. x \in Nat /\ y \in Nat /\ z \in Nat /\ d[x] \in Nat /\ d[y] \in Nat /\ d[z] \in Nat
      BY <1>2, <1>3
    <3>2. d[x] > d[y] \/ (d[x] = d[y] /\ x < y)
      BY <1>4, <2>2
    <3>3. d[y] > d[z] \/ (d[y] = d[z] /\ y < z)
      BY <1>4, <2>2
    <3>4. d[x] > d[z] \/ (d[x] = d[z] /\ x < z)
      BY <3>1, <3>2, <3>3
    <3> QED BY <1>4, <3>4
  <2>3. ASSUME NEW x \in A, NEW y \in A, x # y PROVE <<x, y>> \in R \/ <<y, x>> \in R
    <3>1. x \in Nat /\ y \in Nat /\ d[x] \in Nat /\ d[y] \in Nat
      BY <1>2, <1>3
    <3>2. \/ d[x] > d[y] \/ (d[x] = d[y] /\ x < y)
          \/ d[y] > d[x] \/ (d[y] = d[x] /\ y < x)
      BY <2>3, <3>1
    <3> QED BY <1>4, <3>2
  <2> QED BY <2>1, <2>2, <2>3 DEF Orders
<1>8. ASSUME NEW i \in 1..n PROVE s[i] \in A /\ Cardinality(Lower(R, A, s[i])) = i - 1
  <2>1. i - 1 \in 0..(n - 1)
    BY <1>3
  <2>2. \A k \in 0..(n - 1) : \E x \in A : Cardinality(Lower(R, A, x)) = k
    <3>1. IsFiniteSet(A)
      BY <1>3
    <3>2. \A k \in 0..(Cardinality(A) - 1) : \E x \in A : Cardinality(Lower(R, A, x)) = k
      BY <1>7, <3>1, Ranked
    <3> QED BY <3>2
  <2>3. \E x \in A : Cardinality(Before(x)) = i - 1
    BY <1>5, <2>1, <2>2
  <2>4. s[i] = CHOOSE f \in A : Cardinality(Before(f)) = i - 1
    BY <1>6
  <2>5. s[i] \in A /\ Cardinality(Before(s[i])) = i - 1
    BY <2>3, <2>4
  <2> QED BY <1>5, <2>5
<1>9. ByRank(s, R, A)
  BY <1>6, <1>8 DEF ByRank
<1>10. Sorts(s, R, A)
  BY <1>3, <1>7, <1>9, Listed
<1>11. ASSUME NEW i \in 1..Len(s), NEW j \in 1..Len(s), i < j
       PROVE  s[i] # s[j] /\ s[i] \notin Above(s[j], A)
  <2>1. s[i] \in A /\ s[j] \in A /\ <<s[i], s[j]>> \in R
    BY <1>10, <1>11 DEF Sorts
  <2>2. s[i] # s[j]
    BY <1>7, <2>1 DEF Orders
  <2>3. d[s[i]] \in Nat /\ d[s[j]] \in Nat /\ d[s[i]] >= d[s[j]]
    BY <1>2, <1>4, <2>1
  <2>4. s[i] \in Above(s[j], A) => d[s[i]] < d[s[j]]
    BY <1>2, <2>1
  <2> QED BY <2>2, <2>3, <2>4
<1> QED BY <1>10, <1>11 DEF Sorts, DependentsBefore
----------------------------------------------------------------------------
(* What a fiber is bound to is older than what it provides *)

\* The bindings of fiber f, in the state x, are to entries older than its own.
BoundOK(f, x) ==
    /\ x.dependency_binding # None =>
          /\ x.dependency_binding \in Binding /\ x.handle # 0
          /\ \A c \in Capabilities : x.dependency_binding[c] < x.handle
    /\ x.at \in {"factory", "publish"} =>
          \A c \in Capabilities : x.loading_binding[c] <= Len(published)
    /\ x.at = "activate" =>
          \A e \in 1..Len(published) : IsLatest(f, e) => \A c \in Capabilities : x.loading_binding[c] < e
BoundInv == \A f \in Fibers : BoundOK(f, fiber[f])

\* Home sees its own entry or none.
LEMMA HomeGets ==
    ASSUME Inv, NEW c \in Capabilities
    PROVE  Scope!get(Home, c) \in {0, entries[Home][c]}
<1>1. Home \in Scopes /\ Path[Home] = <<Home>>
  BY FiberAssumption
<1> DEFINE owners == {i \in 1..Len(Path[Home]) : entries[Path[Home][i]][c] # 0}
           nearest == CHOOSE i \in owners : \A j \in owners : i <= j
<1>2. owners \subseteq {1}
  BY <1>1
<1>3. CASE owners = {}
  BY <1>3 DEF Scope!get
<1>4. CASE owners # {}
  <2>1. nearest = 1
    BY <1>2, <1>4
  <2> HIDE DEF owners, nearest
  <2>2. entries[Path[Home][nearest]][c] = entries[Home][c]
    BY <2>1, <1>1
  <2>3. Scope!get(Home, c) \in {entries[Path[Home][nearest]][c], 0}
    BY DEF Scope!get, owners, nearest
  <2> QED BY <2>2, <2>3
<1> QED BY <1>3, <1>4

\* What a fiber resolves has been published.
LEMMA ResolvesPublished ==
    ASSUME Inv, NEW f \in Fibers, NEW c \in Capabilities
    PROVE  Dependencies(f)[c] <= Len(published)
<1>1. Dependencies(f)[c] \in {0, Scope!get(Home, c)}
  BY DEF Dependencies, Scope!resolve_dependencies
<1>2. Dependencies(f)[c] \in {0, entries[Home][c]}
  BY <1>1, HomeGets
<1>3. entries[Home][c] # 0 => entries[Home][c] \in 1..Len(published)
  BY DEF Inv, ScopeInv
<1>4. Len(published) \in Nat
  BY DEF Inv, ScopeInv
<1> QED BY <1>2, <1>3, <1>4

\* The history grows, and by entries of others than g.
Grown(g) ==
    /\ Len(published') \in Nat /\ Len(published) \in Nat /\ Len(published) <= Len(published')
    /\ \A e \in (Len(published) + 1)..Len(published') : published'[e].definition # Provides[g]
    /\ \A e \in 1..Len(published) : published'[e] = published[e]

\* It keeps the bounds of a fiber that is left alone.
LEMMA BoundKept ==
    ASSUME NEW g \in Fibers, Grown(g), BoundOK(g, fiber[g]), fiber'[g] = fiber[g],
           fiber[g].at \in {"factory", "publish", "activate"} => fiber[g].loading_binding \in Binding
    PROVE  BoundOK(g, fiber[g])'
<1>1. PICK x : x = fiber[g]
  OBVIOUS
<1>2. (fiber[g])' = x
  BY <1>1
<1>3. x.dependency_binding # None =>
          /\ x.dependency_binding \in Binding /\ x.handle # 0
          /\ \A c \in Capabilities : x.dependency_binding[c] < x.handle
  BY <1>1 DEF BoundOK
<1>4. x.at \in {"factory", "publish"} =>
          \A c \in Capabilities : x.loading_binding[c] <= Len(published')
  <2> SUFFICES ASSUME x.at \in {"factory", "publish"}, NEW c \in Capabilities
               PROVE  x.loading_binding[c] <= Len(published')
    OBVIOUS
  <2>1. x.loading_binding[c] <= Len(published)
    BY <1>1 DEF BoundOK
  <2>2. x.loading_binding[c] \in Nat
    BY <1>1 DEF Binding
  <2> QED BY <2>1, <2>2 DEF Grown
<1>5. x.at = "activate" => \A e \in 1..Len(published') :
          IsLatest(g, e)' => \A c \in Capabilities : x.loading_binding[c] < e
  <2> SUFFICES ASSUME x.at = "activate", NEW e \in 1..Len(published'), IsLatest(g, e)'
               PROVE  \A c \in Capabilities : x.loading_binding[c] < e
    OBVIOUS
  <2>1. /\ published'[e].definition = Provides[g]
        /\ \A d \in (e + 1)..Len(published') : published'[d].definition # Provides[g]
    BY DEF IsLatest
  <2>2. e \in 1..Len(published)
    BY <2>1 DEF Grown
  <2>3. published[e].definition = Provides[g]
    BY <2>1, <2>2 DEF Grown
  <2>4. ASSUME NEW d \in (e + 1)..Len(published) PROVE published[d].definition # Provides[g]
    <3>1. d \in (e + 1)..Len(published') /\ d \in 1..Len(published)
      BY <2>2 DEF Grown
    <3>2. published'[d] = published[d]
      BY <3>1 DEF Grown
    <3> QED BY <2>1, <3>1, <3>2
  <2>5. IsLatest(g, e)
    BY <2>2, <2>3, <2>4 DEF IsLatest
  <2> QED BY <1>1, <2>2, <2>5 DEF BoundOK
<1> QED BY <1>2, <1>3, <1>4, <1>5 DEF BoundOK

\* So does a step of f that leaves the history alone and its bindings where it
\* does not load.
LEMMA BoundStep ==
    ASSUME Inv, BoundInv, NEW f \in Fibers, NEW y, Becomes(f, y), BoundOK(f, y), published' = published
    PROVE  BoundInv'
<1>1. fiber'[f] = y /\ \A g \in Fibers \ {f} : fiber'[g] = fiber[g]
  BY DEF Inv, Types, Becomes
<1>2. BoundOK(f, fiber[f])'
  BY <1>1 DEF BoundOK, IsLatest
<1>3. ASSUME NEW g \in Fibers \ {f} PROVE BoundOK(g, fiber[g])'
  BY <1>1 DEF BoundOK, IsLatest, BoundInv
<1> QED BY <1>2, <1>3 DEF BoundInv

\* y has the handle and the bindings that x has, and does not load.
Rests(x, y) ==
    /\ y.handle = x.handle /\ y.dependency_binding = x.dependency_binding
    /\ y.at \notin {"factory", "publish", "activate"}

\* Such a step keeps the bounds of f.
LEMMA RestsBound ==
    ASSUME NEW f, NEW x, NEW y, BoundOK(f, x), Rests(x, y)
    PROVE  BoundOK(f, y)
BY DEF BoundOK, Rests
----------------------------------------------------------------------------
(* What the steps of a fiber leave it with *)

\* A host's call leaves the fiber where it is.
LEMMA RequestLeaves ==
    ASSUME Inv, NEW f \in Fibers, NEW kind, request(f, kind)
    PROVE  \E y : /\ Becomes(f, y)
                  /\ y.handle = fiber[f].handle /\ y.at = fiber[f].at /\ y.then = fiber[f].then
                  /\ y.dependency_binding = fiber[f].dependency_binding
                  /\ y.loading_binding = fiber[f].loading_binding
                  /\ y.call = fiber[f].call
<1> DEFINE y == [fiber[f] EXCEPT !.force_reload = @ \/ kind = "restart",
                                 !.dispose_requested = @ \/ kind = "dispose"]
<1>1. fiber[f] \in Fiber
  BY DEF Inv, Types
<1>2. /\ y.handle = fiber[f].handle /\ y.at = fiber[f].at /\ y.then = fiber[f].then
      /\ y.dependency_binding = fiber[f].dependency_binding
      /\ y.loading_binding = fiber[f].loading_binding
      /\ y.call = fiber[f].call
  BY <1>1 DEF Fiber
<1>3. Becomes(f, y)
  BY DEF request
<1> HIDE DEF y
<1> QED BY <1>2, <1>3

\* A call that gets the lock leaves the bindings; a withdrawal unloads or returns.
LEMMA AcquireLeaves ==
    ASSUME Inv, NEW f \in Fibers, acquire(f)
    PROVE  \E y : /\ Becomes(f, y) /\ Rests(fiber[f], y)
                  /\ y.call \in {None, Head(queue[f])}
                  /\ Head(queue[f]).kind = "withdraw" =>
                        /\ y.state # "Active"
                        /\ y.call # None => y.at = "unload" /\ y.then = "rest"
<1>1. PICK call : call = Head(queue[f])
  OBVIOUS
<1> DEFINE x == [fiber[f] EXCEPT !.call = call]
<1>2. fiber[f] \in Fiber /\ fiber[f].at = "rest"
  BY DEF Inv, Types, FiberInv, FiberOK, acquire
<1>3. /\ x.call = call /\ x.at = "rest" /\ x.state = fiber[f].state
      /\ x.handle = fiber[f].handle /\ x.dependency_binding = fiber[f].dependency_binding
      /\ DOMAIN x = DOMAIN fiber[f]
  BY <1>2 DEF Fiber
<1>4. DOMAIN x = {"state", "handle", "dependency_binding", "loading_binding", "effects",
                  "dispose_requested", "force_reload", "call", "force", "at", "then"}
  BY <1>2, <1>3 DEF Fiber
<1>5. \/ call.kind = "start" /\ Becomes(f, drive(x, FALSE))
      \/ call.kind = "restart" /\ Becomes(f, drive(x, TRUE))
      \/ call.kind = "dispose" /\ Becomes(f, dispose(x))
      \/ call.kind = "withdraw" /\ Becomes(f, deactivate_for_withdrawal(x))
  BY <1>1 DEF acquire
<1> HIDE DEF x
<1> DEFINE Good(y) == Rests(fiber[f], y) /\ y.call \in {None, call}
<1>6. /\ Good(Released(x)) /\ Released(x).call = None /\ Released(x).state = x.state
  BY <1>3, <1>4 DEF Released, Rests
<1>7. ASSUME NEW then
      PROVE  /\ Good(Unloading(x, then)) /\ Unloading(x, then).state = "Unloading"
             /\ Unloading(x, then).at = "unload" /\ Unloading(x, then).then = then
  BY <1>3, <1>4 DEF Unloading, Rests
<1>8. ASSUME NEW force PROVE Good(drive(x, force))
  <2> DEFINE y == [x EXCEPT !.force = force \/ x.force_reload, !.force_reload = FALSE,
                            !.at = "resolve"]
  <2>1. Good(y)
    BY <1>3, <1>4 DEF Rests
  <2> QED BY <1>6, <2>1 DEF drive
<1> HIDE DEF Good
<1>9. Good(dispose(x))
  BY <1>6, <1>7 DEF dispose
<1>10. LET y == deactivate_for_withdrawal(x)
       IN  /\ Good(y) /\ y.state # "Active"
           /\ y.call # None => y.at = "unload" /\ y.then = "rest"
  BY <1>6, <1>7 DEF deactivate_for_withdrawal
<1> DEFINE Meant(y) == /\ Becomes(f, y) /\ Good(y)
                       /\ call.kind = "withdraw" =>
                            /\ y.state # "Active"
                            /\ y.call # None => y.at = "unload" /\ y.then = "rest"
<1>11. \E y : Meant(y)
  <2>1. call.kind = "start" /\ Becomes(f, drive(x, FALSE)) => Meant(drive(x, FALSE))
    BY <1>8
  <2>2. call.kind = "restart" /\ Becomes(f, drive(x, TRUE)) => Meant(drive(x, TRUE))
    BY <1>8
  <2>3. call.kind = "dispose" /\ Becomes(f, dispose(x)) => Meant(dispose(x))
    BY <1>9
  <2>4. call.kind = "withdraw" /\ Becomes(f, deactivate_for_withdrawal(x)) =>
            Meant(deactivate_for_withdrawal(x))
    BY <1>10
  <2> HIDE DEF Meant
  <2> QED BY <1>5, <2>1, <2>2, <2>3, <2>4
<1> QED BY <1>1, <1>11 DEF Good

\* f has a call, and what it becomes has that call or none.
Working(f, y) ==
    /\ Becomes(f, y) /\ y.call \in {None, fiber[f].call}
    /\ fiber[f].call # None /\ fiber[f].at # "unload"

\* A fiber that drives has a call and stays within the bounds.
LEMMA ResolveLeaves ==
    ASSUME Inv, BoundInv, NEW f \in Fibers, resolve(f)
    PROVE  \E y : Working(f, y) /\ BoundOK(f, y)
<1>1. PICK x : x = fiber[f]
  OBVIOUS
<1>2. x \in Fiber /\ x.call # None /\ x.at = "resolve" /\ BoundOK(f, x)
  BY <1>1 DEF Inv, Types, FiberInv, FiberOK, resolve, BoundInv
<1> DEFINE pending == [x EXCEPT !.state = "Pending"]
           loading == [x EXCEPT !.state = "Loading", !.effects = TRUE,
                                !.loading_binding = Dependencies(f), !.at = "factory"]
           Good(y) == Becomes(f, y) => Working(f, y) /\ BoundOK(f, y)
<1>3. \/ Becomes(f, Unloading(x, "pending"))
      \/ Becomes(f, Released(pending))
      \/ Becomes(f, Released(x))
      \/ Becomes(f, Unloading(x, "resolve"))
      \/ Becomes(f, loading)
  BY <1>1 DEF resolve
<1>4. DOMAIN x = {"state", "handle", "dependency_binding", "loading_binding", "effects",
                  "dispose_requested", "force_reload", "call", "force", "at", "then"}
  BY <1>2 DEF Fiber
<1>5. ASSUME NEW y, Rests(x, y), y.call \in {None, x.call} PROVE Good(y)
  BY <1>1, <1>2, <1>5, RestsBound DEF Working
<1>6. Good(Released(x))
  <2>1. Rests(x, Released(x)) /\ Released(x).call = None
    BY <1>4 DEF Released, Rests
  <2> QED BY <1>5, <2>1
<1>7. Good(Released(pending))
  <2>1. Rests(x, Released(pending)) /\ Released(pending).call = None
    BY <1>4 DEF Released, Rests
  <2> QED BY <1>5, <2>1
<1>8. ASSUME NEW then PROVE Good(Unloading(x, then))
  <2>1. Rests(x, Unloading(x, then)) /\ Unloading(x, then).call = x.call
    BY <1>4 DEF Unloading, Rests
  <2> QED BY <1>5, <2>1
<1>9. Good(loading)
  <2>1. /\ loading.call = x.call /\ loading.handle = x.handle /\ loading.at = "factory"
        /\ loading.dependency_binding = x.dependency_binding
        /\ loading.loading_binding = Dependencies(f)
    BY <1>4
  <2> HIDE DEF loading
  <2>2. \A c \in Capabilities : loading.loading_binding[c] <= Len(published)
    BY <2>1, ResolvesPublished
  <2>3. BoundOK(f, loading)
    BY <1>2, <2>1, <2>2 DEF BoundOK
  <2> QED BY <1>1, <1>2, <2>1, <2>3 DEF Working
<1> HIDE DEF pending, loading
<1> QED BY <1>3, <1>6, <1>7, <1>8, <1>9

\* The factory resolves.
LEMMA FactoryLeaves ==
    ASSUME Inv, BoundInv, NEW f \in Fibers, NEW ok, factory(f, ok)
    PROVE  \E y : Working(f, y) /\ BoundOK(f, y)
<1>1. PICK x : x = fiber[f]
  OBVIOUS
<1>2. x \in Fiber /\ x.call # None /\ x.at = "factory" /\ BoundOK(f, x)
  BY <1>1 DEF Inv, Types, FiberInv, FiberOK, factory, BoundInv
<1> DEFINE go == [x EXCEPT !.at = "publish"]
           drop(then) == [x EXCEPT !.at = "discard", !.then = then]
<1>3. Becomes(f, go) \/ \E then : Becomes(f, drop(then))
  BY <1>1 DEF factory
<1>4. /\ go.call = x.call /\ go.handle = x.handle /\ go.at = "publish"
      /\ go.dependency_binding = x.dependency_binding /\ go.loading_binding = x.loading_binding
  BY <1>2 DEF Fiber
<1>5. ASSUME NEW then PROVE Rests(x, drop(then)) /\ drop(then).call = x.call
  BY <1>2 DEF Fiber, Rests
<1> HIDE DEF go, drop
<1>6. BoundOK(f, go)
  BY <1>2, <1>4 DEF BoundOK
<1>7. ASSUME NEW then PROVE BoundOK(f, drop(then))
  BY <1>2, <1>5, RestsBound
<1>8. CASE Becomes(f, go)
  BY <1>1, <1>2, <1>4, <1>6, <1>8 DEF Working
<1>9. ASSUME NEW then, Becomes(f, drop(then)) PROVE \E y : Working(f, y) /\ BoundOK(f, y)
  BY <1>1, <1>2, <1>5, <1>7, <1>9 DEF Working
<1> QED BY <1>3, <1>8, <1>9

\* What a fiber becomes Active with is older than its entry.
LEMMA ActivateLeaves ==
    ASSUME Inv, BoundInv, NEW f \in Fibers, activate(f)
    PROVE  \E y : Working(f, y) /\ BoundOK(f, y)
<1>1. PICK x : x = fiber[f]
  OBVIOUS
<1>2. /\ x \in Fiber /\ x.call # None /\ x.at = "activate" /\ BoundOK(f, x) /\ FiberOK(f, x)
      /\ x.loading_binding \in Binding
  BY <1>1 DEF Inv, Types, FiberInv, FiberOK, activate, BoundInv
<1> DEFINE active == [x EXCEPT !.state = "Active", !.handle = Latest(f),
                               !.dependency_binding = x.loading_binding,
                               !.loading_binding = None]
<1>3. Becomes(f, Released(active))
  BY <1>1 DEF activate
<1>4. PICK e \in 1..Len(published) : IsLatest(f, e)
  BY <1>2 DEF FiberOK
<1>5. Latest(f) = e
  <2>1. Len(published) \in Nat
    BY DEF Inv, ScopeInv
  <2>2. \A d \in 1..Len(published) : IsLatest(f, d) => d = e
    BY <1>4, <2>1 DEF IsLatest
  <2>3. Latest(f) = CHOOSE d \in 1..Len(published) : IsLatest(f, d)
    BY DEF Latest, IsLatest
  <2> QED BY <1>4, <2>2, <2>3
<1>6. /\ Released(active).call = None /\ Released(active).at = "rest"
      /\ Released(active).handle = e /\ Released(active).dependency_binding = x.loading_binding
  BY <1>2, <1>5 DEF Fiber, Released
<1> HIDE DEF active
<1>7. \A c \in Capabilities : x.loading_binding[c] < e
  BY <1>2, <1>4 DEF BoundOK
<1>8. BoundOK(f, Released(active))
  BY <1>2, <1>4, <1>6, <1>7 DEF BoundOK
<1> QED BY <1>1, <1>2, <1>3, <1>6, <1>8 DEF Working

\* An attempt is discarded.
LEMMA DiscardLeaves ==
    ASSUME Inv, BoundInv, NEW f \in Fibers, discard(f)
    PROVE  \E y : Working(f, y) /\ BoundOK(f, y)
<1> DEFINE x == [fiber[f] EXCEPT !.effects = FALSE, !.loading_binding = None,
                    !.force_reload = @ /\ fiber[f].then \notin {"stale", "stale_error"}]
           again == [x EXCEPT !.state = "Pending", !.at = "resolve", !.then = "rest"]
           failed == [x EXCEPT !.state = "Failed"]
           disposed == [x EXCEPT !.state = "Disposed"]
           Good(y) == Rests(fiber[f], y) /\ y.call \in {None, fiber[f].call}
<1>1. fiber[f] \in Fiber /\ FiberOK(f, fiber[f]) /\ BoundOK(f, fiber[f])
  BY DEF Inv, Types, FiberInv, BoundInv
<1>2. /\ x.at = "discard"
      /\ \/ Becomes(f, Released(failed)) \/ Becomes(f, again)
         \/ Becomes(f, Released(x)) \/ Becomes(f, Released(disposed))
  BY DEF discard
<1>3. /\ x.at = fiber[f].at /\ x.handle = fiber[f].handle /\ x.call = fiber[f].call
      /\ x.dependency_binding = fiber[f].dependency_binding
      /\ DOMAIN x = {"state", "handle", "dependency_binding", "loading_binding", "effects",
                     "dispose_requested", "force_reload", "call", "force", "at", "then"}
  BY <1>1 DEF Fiber
<1> HIDE DEF x
<1>4. fiber[f].call # None /\ fiber[f].at = "discard"
  BY <1>1, <1>2, <1>3 DEF FiberOK
<1>5. Good(again)
  BY <1>3 DEF Rests
<1>6. Good(Released(x)) /\ Good(Released(failed)) /\ Good(Released(disposed))
  BY <1>3 DEF Rests, Released
<1> HIDE DEF again, failed, disposed
<1>7. PICK y : Becomes(f, y) /\ Good(y)
  BY <1>2, <1>5, <1>6
<1>8. BoundOK(f, y)
  BY <1>1, <1>7, RestsBound
<1> QED BY <1>4, <1>7, <1>8 DEF Working

\* An unload leaves no handle and no binding; that of a withdrawal returns.
LEMMA UnloadLeaves ==
    ASSUME Inv, NEW f \in Fibers, unload(f)
    PROVE  /\ fiber[f].at = "unload" /\ fiber[f].call # None
           /\ \E y : /\ Becomes(f, y) /\ y.handle = 0 /\ y.dependency_binding = None
                     /\ y.at \in {"rest", "resolve"} /\ y.state # "Active"
                     /\ y.call \in {None, fiber[f].call}
                     /\ fiber[f].then = "rest" => y.call = None
<1> DEFINE x == [fiber[f] EXCEPT !.state = "Pending", !.effects = FALSE, !.handle = 0,
                     !.dependency_binding = None, !.loading_binding = None]
           again == [x EXCEPT !.at = "resolve", !.then = "rest"]
           disposed == [x EXCEPT !.state = "Disposed"]
           Good(y) == /\ y.handle = 0 /\ y.dependency_binding = None
                      /\ y.at \in {"rest", "resolve"} /\ y.state # "Active"
                      /\ y.call \in {None, fiber[f].call}
<1>1. fiber[f] \in Fiber /\ FiberOK(f, fiber[f])
  BY DEF Inv, Types, FiberInv
<1>2. /\ x.at = "unload"
      /\ \/ x.then = "resolve" /\ Becomes(f, again)
         \/ Becomes(f, Released(disposed)) \/ Becomes(f, Released(x))
  BY DEF unload
<1>3. /\ x.at = fiber[f].at /\ x.call = fiber[f].call /\ x.then = fiber[f].then
      /\ x.handle = 0 /\ x.dependency_binding = None /\ x.state = "Pending"
      /\ DOMAIN x = {"state", "handle", "dependency_binding", "loading_binding", "effects",
                     "dispose_requested", "force_reload", "call", "force", "at", "then"}
  BY <1>1 DEF Fiber
<1> HIDE DEF x
<1>4. fiber[f].call # None /\ fiber[f].at = "unload"
  BY <1>1, <1>2, <1>3 DEF FiberOK
<1>5. Good(again)
  BY <1>3
<1>6. Good(Released(x)) /\ Good(Released(disposed))
      /\ Released(x).call = None /\ Released(disposed).call = None
  BY <1>3 DEF Released
<1> HIDE DEF again, disposed, Good
<1>7. \E y : Becomes(f, y) /\ Good(y) /\ (fiber[f].then = "rest" => y.call = None)
  BY <1>2, <1>3, <1>5, <1>6
<1> QED BY <1>4, <1>7 DEF Good

\* A fiber that publishes has a call, and its entry is newer than what it is
\* bound to.
LEMMA ProvideValueLeaves ==
    ASSUME Inv, BoundInv, NEW f \in Fibers, provide_value(f)
    PROVE  BoundInv' /\ \E y : Working(f, y)
<1>1. PICK x : x = fiber[f]
  OBVIOUS
<1>2. /\ x \in Fiber /\ x.call # None /\ x.at = "publish" /\ BoundOK(f, x) /\ FiberOK(f, x)
      /\ x.loading_binding \in Binding
  BY <1>1 DEF Inv, Types, FiberInv, FiberOK, provide_value, BoundInv
<1> DEFINE entry == [scope |-> Home, definition |-> Provides[f],
                     dependencies |-> x.loading_binding, generation |-> 1]
           drop(then) == [x EXCEPT !.at = "discard", !.then = then]
           go == [x EXCEPT !.at = "activate"]
<1>3. \/ published' = Append(published, entry) /\ Becomes(f, go)
      \/ (\E then : Becomes(f, drop(then))) /\ published' = published
  BY <1>1 DEF provide_value
<1>4. /\ go.call = x.call /\ go.handle = x.handle /\ go.at = "activate"
      /\ go.dependency_binding = x.dependency_binding /\ go.loading_binding = x.loading_binding
  BY <1>2 DEF Fiber
<1>5. ASSUME NEW then PROVE Rests(x, drop(then)) /\ drop(then).call = x.call
  BY <1>2 DEF Fiber, Rests
<1>6. entry.definition = Provides[f]
  OBVIOUS
<1> HIDE DEF go, drop, entry
<1>7. ASSUME NEW then, Becomes(f, drop(then)), published' = published
      PROVE  BoundInv' /\ Working(f, drop(then))
  <2>1. BoundOK(f, drop(then))
    BY <1>2, <1>5, RestsBound
  <2>2. Working(f, drop(then))
    BY <1>1, <1>2, <1>5, <1>7 DEF Working
  <2> QED BY <1>7, <2>1, <2>2, BoundStep
<1>8. ASSUME published' = Append(published, entry), Becomes(f, go)
      PROVE  BoundInv' /\ Working(f, go)
  <2>1. PICK n : n = Len(published)
    OBVIOUS
  <2>2. /\ n \in Nat /\ Len(published') = n + 1
        /\ \A e \in 1..n : published'[e] = published[e]
        /\ published'[n + 1] = entry
    <3>1. published \in Seq(AnyEntry)
      BY DEF Inv, ScopeInv
    <3> QED BY <1>8, <2>1, <3>1
  <2>3. fiber'[f] = go /\ \A g \in Fibers \ {f} : fiber'[g] = fiber[g]
    BY <1>8 DEF Inv, Types, Becomes
  <2>4. ASSUME NEW e \in 1..Len(published'), IsLatest(f, e)', NEW c \in Capabilities
        PROVE  go.loading_binding[c] < e
    <3>1. e = n + 1
      <4>1. SUFFICES ASSUME e # n + 1 PROVE FALSE
        OBVIOUS
      <4>2. n + 1 \in (e + 1)..Len(published')
        BY <2>2, <4>1
      <4>3. published'[n + 1].definition # Provides[f]
        BY <2>4, <4>2 DEF IsLatest
      <4> QED BY <1>6, <2>2, <4>3
    <3>2. go.loading_binding[c] <= n /\ go.loading_binding[c] \in Nat
      BY <1>2, <1>4, <2>1 DEF BoundOK, Binding
    <3> QED BY <2>2, <3>1, <3>2
  <2>5. BoundOK(f, fiber[f])'
    <3>1. (fiber[f])' = go
      BY <2>3
    <3>2. go.dependency_binding # None =>
              /\ go.dependency_binding \in Binding /\ go.handle # 0
              /\ \A c \in Capabilities : go.dependency_binding[c] < go.handle
      BY <1>2, <1>4 DEF BoundOK
    <3> QED BY <1>4, <2>4, <3>1, <3>2 DEF BoundOK
  <2>6. ASSUME NEW g \in Fibers \ {f} PROVE BoundOK(g, fiber[g])'
    <3>1. Provides[g] # Provides[f]
      BY ProvidesType
    <3>2. \A e \in (n + 1)..Len(published') : published'[e].definition # Provides[g]
      BY <1>6, <2>2, <3>1
    <3>3. Grown(g)
      BY <2>1, <2>2, <3>2 DEF Grown
    <3>4. /\ fiber[g].at \in {"factory", "publish", "activate"} => fiber[g].loading_binding \in Binding
          /\ BoundOK(g, fiber[g])
      BY DEF Inv, FiberInv, FiberOK, BoundInv
    <3> QED BY <2>3, <3>3, <3>4, BoundKept
  <2>7. Working(f, go)
    BY <1>1, <1>2, <1>4, <1>8 DEF Working
  <2> QED BY <2>5, <2>6, <2>7 DEF BoundInv
<1> QED BY <1>3, <1>7, <1>8

\* A publication of a host is of none of the fibers.
LEMMA MutationGrows ==
    ASSUME Inv, NEW p \in Publishers, Mutation(p), NEW g \in Fibers
    PROVE  Grown(g)
<1>1. PICK n : n = Len(published)
  OBVIOUS
<1>2. n \in Nat /\ published \in Seq(AnyEntry)
  BY <1>1 DEF Inv, ScopeInv
<1>3. CASE published' = published
  BY <1>1, <1>2, <1>3 DEF Grown
<1>4. ASSUME NEW entry, published' = Append(published, entry), entry.definition \in Definitions[Home]
      PROVE  Grown(g)
  <2>1. /\ Len(published') = n + 1 /\ published'[n + 1] = entry
        /\ \A e \in 1..n : published'[e] = published[e]
    BY <1>1, <1>2, <1>4
  <2>2. entry.definition # Provides[g]
    BY <1>4, ProvidesType
  <2>3. \A e \in (n + 1)..Len(published') : published'[e].definition # Provides[g]
    BY <1>2, <2>1, <2>2
  <2> QED BY <1>1, <1>2, <2>1, <2>3 DEF Grown
<1>5. CASE Scope!publish_preconstructed(p)
  <2> DEFINE x == publisher[p]
             entry == [scope |-> x.scope, definition |-> x.definition,
                       dependencies |-> x.dependencies, generation |-> x.expected + 1]
  <2>1. x # None /\ (published' = Append(published, entry) \/ published' = published)
    BY <1>5 DEF Scope!publish_preconstructed
  <2>2. entry.definition \in Definitions[Home]
    BY <2>1 DEF Inv, ScopeInv
  <2> HIDE DEF entry
  <2> QED BY <1>3, <1>4, <2>1, <2>2
<1>6. CASE \E definition \in Definitions[Home] :
              LET current == entries[Home][definition.id]
                  expected == IF current = 0 THEN 0 ELSE published[current].generation
              IN  Scope!publish(p, Home, definition, expected)
  BY <1>3, <1>6 DEF Scope!publish
<1> QED BY <1>5, <1>6 DEF Mutation

\* At first nothing is bound.
LEMMA InitBound == Init => BoundInv
BY DEF Init, BoundInv, BoundOK

\* Every step keeps the bounds.
LEMMA StepBound == Inv /\ BoundInv /\ [Next]_vars => BoundInv'
<1> SUFFICES ASSUME Inv, BoundInv, [Next]_vars PROVE BoundInv'
  OBVIOUS
<1>1. ASSUME UNCHANGED <<published, fiber>> PROVE BoundInv'
  BY <1>1 DEF BoundInv, BoundOK, IsLatest
<1>2. CASE UNCHANGED vars
  BY <1>1, <1>2 DEF vars, scope_vars
<1>3. ASSUME NEW p \in Publishers, Mutation(p) PROVE BoundInv'
  <2> SUFFICES ASSUME NEW g \in Fibers PROVE BoundOK(g, fiber[g])'
    BY DEF BoundInv
  <2>1. fiber' = fiber
    BY <1>3 DEF Mutation
  <2>2. /\ fiber[g].at \in {"factory", "publish", "activate"} => fiber[g].loading_binding \in Binding
        /\ BoundOK(g, fiber[g])
    BY DEF Inv, FiberInv, FiberOK, BoundInv
  <2>3. Grown(g)
    BY <1>3, MutationGrows
  <2> QED BY <2>1, <2>2, <2>3, BoundKept
<1>4. ASSUME NEW f \in Fibers, NEW kind \in {"start", "restart", "dispose"}, request(f, kind)
      PROVE  BoundInv'
  <2>1. PICK y : /\ Becomes(f, y)
                 /\ y.handle = fiber[f].handle /\ y.at = fiber[f].at
                 /\ y.dependency_binding = fiber[f].dependency_binding
                 /\ y.loading_binding = fiber[f].loading_binding
    BY <1>4, RequestLeaves
  <2>2. BoundOK(f, y)
    BY <2>1 DEF BoundInv, BoundOK
  <2>3. published' = published
    BY <1>4 DEF request, scope_vars
  <2> QED BY <2>1, <2>2, <2>3, BoundStep
<1>5. ASSUME NEW f \in Fibers, Transition(f) PROVE BoundInv'
  <2>1. CASE acquire(f)
    <3>1. PICK y : Becomes(f, y) /\ Rests(fiber[f], y)
      BY <2>1, AcquireLeaves
    <3>2. BoundOK(f, y)
      BY <3>1, RestsBound DEF BoundInv
    <3>3. published' = published
      BY <2>1 DEF acquire, scope_vars
    <3> QED BY <3>1, <3>2, <3>3, BoundStep
  <2>2. CASE provide_value(f)
    BY <2>2, ProvideValueLeaves
  <2>3. CASE resolve(f) \/ activate(f) \/ discard(f) \/ \E ok \in BOOLEAN : factory(f, ok)
    <3>1. PICK y : Working(f, y) /\ BoundOK(f, y)
      BY <2>3, ResolveLeaves, ActivateLeaves, DiscardLeaves, FactoryLeaves
    <3>2. published' = published
      BY <2>3 DEF resolve, activate, discard, factory, scope_vars
    <3> QED BY <3>1, <3>2, BoundStep DEF Working
  <2>4. CASE unload(f)
    <3>1. PICK y : Becomes(f, y) /\ y.dependency_binding = None /\ y.at \in {"rest", "resolve"}
      BY <2>4, UnloadLeaves
    <3>2. BoundOK(f, y)
      BY <3>1 DEF BoundOK
    <3>3. published' = published
      BY <2>4 DEF unload
    <3> QED BY <3>1, <3>2, <3>3, BoundStep
  <2> QED BY <1>5, <2>1, <2>2, <2>3, <2>4 DEF Transition
<1>6. CASE reconcile \/ pass \/ drain
  BY <1>1, <1>6 DEF reconcile, pass, drain, scope_vars
<1>7. ASSUME NEW c \in Capabilities, withdraw_and_reconcile(c) PROVE BoundInv'
  BY <1>1, <1>7 DEF withdraw_and_reconcile, Scope!withdraw
<1> QED BY <1>2, <1>3, <1>4, <1>5, <1>6, <1>7 DEF Next
----------------------------------------------------------------------------
(* The calls of a withdrawal *)

\* A call of a withdrawal: who makes it, when, and what it does.
Withdraws(call) == call.kind = "withdraw"
CallInv ==
    \A f \in Fibers :
        /\ fiber[f].call # None /\ Withdraws(fiber[f].call) =>
              /\ coordinator.at = "drain" /\ fiber[f].call.by = "coordinator"
              /\ fiber[f].at = "unload" /\ fiber[f].then = "rest"
        /\ \A i \in 1..Len(queue[f]) : Withdraws(queue[f][i]) =>
              coordinator.at = "drain" /\ queue[f][i].by = "coordinator"

\* f has a call that holds its lock or waits for it.
Busy(f) == fiber[f].call # None \/ queue[f] # <<>>

\* Where no host interferes, a withdrawal has one call under way at most, and
\* it is one of its own.
AloneInv ==
    /\ \A f, g \in Fibers : Busy(f) /\ Busy(g) => f = g
    /\ \A f \in Fibers :
          /\ fiber[f].call # None => Withdraws(fiber[f].call) /\ queue[f] = <<>>
          /\ queue[f] # <<>> => Len(queue[f]) = 1 /\ Withdraws(queue[f][1])

\* g is Active and bound to what f provides.
Holds(g, f) == fiber[g].state = "Active" /\ fiber[f].handle \in Pinned(g)

\* Where no host interferes: the fibers that are still to be drained come
\* dependents first, and nothing that is not to be drained holds them, nor the
\* one that is being drained.
OrderInv ==
    LET todo == coordinator.fibers
    IN  /\ todo \in Seq(Fibers)
        /\ \A i, j \in 1..Len(todo) : i < j => todo[i] # todo[j] /\ ~Holds(todo[j], todo[i])
        /\ \A i \in 1..Len(todo) : ~Busy(todo[i])
        /\ \A i \in 1..Len(todo), g \in Fibers :
              Holds(g, todo[i]) => Busy(g) \/ \E j \in 1..Len(todo) : todo[j] = g
        /\ \A f, g \in Fibers : Busy(f) /\ f # g => ~Holds(g, f)

DrainInv == coordinator.at = "drain" /\ coordinator.alone => AloneInv /\ OrderInv

\* The first call of a queue is taken.
LEMMA Taken ==
    ASSUME Inv, NEW f \in Fibers, queue[f] # <<>>, queue' = [queue EXCEPT ![f] = Tail(@)]
    PROVE  /\ Head(queue[f]) = queue[f][1] /\ 1 \in 1..Len(queue[f]) /\ Head(queue[f]) \in Call
           /\ \A i \in 1..Len(queue'[f]) : i + 1 \in 1..Len(queue[f]) /\ queue'[f][i] = queue[f][i + 1]
           /\ Len(queue[f]) = 1 => queue'[f] = <<>>
           /\ \A g \in Fibers \ {f} : queue'[g] = queue[g]
<1>1. queue \in [Fibers -> Seq(Call)] /\ queue[f] \in Seq(Call)
  BY DEF Inv, Types
<1>2. /\ Head(queue[f]) \in Call /\ Head(queue[f]) = queue[f][1] /\ 1 \in 1..Len(queue[f])
      /\ Tail(queue[f]) \in Seq(Call) /\ Len(Tail(queue[f])) = Len(queue[f]) - 1
      /\ \A i \in 1..Len(Tail(queue[f])) : /\ Tail(queue[f])[i] = queue[f][i + 1]
                                           /\ i + 1 \in 1..Len(queue[f])
  BY <1>1
<1>3. queue'[f] = Tail(queue[f]) /\ \A g \in Fibers \ {f} : queue'[g] = queue[g]
  BY <1>1
<1>4. Len(queue[f]) = 1 => Tail(queue[f]) = <<>>
  <2>1. \A s \in Seq(Call) : Len(s) = 0 => s = <<>>
    OBVIOUS
  <2>2. PICK q : q = Tail(queue[f])
    OBVIOUS
  <2>3. q \in Seq(Call) /\ (Len(queue[f]) = 1 => Len(q) = 0)
    BY <1>2, <2>2
  <2> QED BY <2>1, <2>2, <2>3
<1> QED BY <1>2, <1>3, <1>4

\* A call is added to a queue.
LEMMA Added ==
    ASSUME Inv, NEW f, NEW call, queue' = [queue EXCEPT ![f] = Append(@, call)]
    PROVE  /\ \A g \in Fibers : \A i \in 1..Len(queue'[g]) :
                 queue'[g][i] = call \/ (i \in 1..Len(queue[g]) /\ queue'[g][i] = queue[g][i])
           /\ \A g \in Fibers \ {f} : queue'[g] = queue[g]
           /\ f \in Fibers /\ queue[f] = <<>> =>
                 Len(queue'[f]) = 1 /\ queue'[f][1] = call /\ queue'[f] # <<>>
<1>1. queue \in [Fibers -> Seq(Call)]
  BY DEF Inv, Types
<1>2. CASE f \notin Fibers
  <2>1. queue' = queue
    BY <1>1, <1>2
  <2> QED BY <1>2, <2>1
<1>3. CASE f \in Fibers
  <2>1. PICK q : q = queue[f]
    OBVIOUS
  <2>2. /\ q \in Seq(Call) /\ Len(q) \in Nat
        /\ Len(Append(q, call)) = Len(q) + 1
        /\ \A i \in 1..Len(q) : Append(q, call)[i] = q[i]
        /\ Append(q, call)[Len(q) + 1] = call
    BY <1>1, <1>3, <2>1
  <2>3. queue'[f] = Append(q, call) /\ \A g \in Fibers \ {f} : queue'[g] = queue[g]
    BY <1>1, <1>3, <2>1
  <2>4. ASSUME NEW i \in 1..Len(queue'[f])
        PROVE  queue'[f][i] = call \/ (i \in 1..Len(queue[f]) /\ queue'[f][i] = queue[f][i])
    <3>1. i = Len(q) + 1 \/ i \in 1..Len(q)
      BY <2>2, <2>3
    <3> QED BY <2>1, <2>2, <2>3, <3>1
  <2>5. q = <<>> => Len(queue'[f]) = 1 /\ queue'[f][1] = call /\ queue'[f] # <<>>
    <3> SUFFICES ASSUME q = <<>>
                 PROVE  Len(queue'[f]) = 1 /\ queue'[f][1] = call /\ queue'[f] # <<>>
      OBVIOUS
    <3>1. Len(q) = 0
      OBVIOUS
    <3>2. Len(queue'[f]) = 1 /\ queue'[f][1] = call
      BY <2>2, <2>3, <3>1
    <3>3. PICK r : r = queue'[f]
      OBVIOUS
    <3>4. Len(r) # Len(<<>>)
      BY <3>2, <3>3
    <3>5. r # <<>>
      BY <3>4
    <3> QED BY <3>2, <3>3, <3>5
  <2> QED BY <2>1, <2>3, <2>4, <2>5
<1> QED BY <1>2, <1>3

\* What is said of the call of a fiber, and of a call that waits.
RunsOK(x, where) ==
    x.call # None /\ Withdraws(x.call) =>
        where = "drain" /\ x.call.by = "coordinator" /\ x.at = "unload" /\ x.then = "rest"
WaitsOK(call, where) == Withdraws(call) => where = "drain" /\ call.by = "coordinator"

\* The invariant in these terms.
LEMMA CallParts ==
    CallInv <=> \A f \in Fibers :
                   /\ RunsOK(fiber[f], coordinator.at)
                   /\ \A i \in 1..Len(queue[f]) : WaitsOK(queue[f][i], coordinator.at)
BY DEF CallInv, RunsOK, WaitsOK

\* A step of one fiber that leaves the queues and the coordinator alone.
LEMMA CallStep ==
    ASSUME Inv, CallInv, NEW f \in Fibers, NEW y, Becomes(f, y), RunsOK(y, coordinator.at),
           coordinator'.at = coordinator.at,
           \A g \in Fibers : \A i \in 1..Len(queue'[g]) : WaitsOK(queue'[g][i], coordinator.at)
    PROVE  CallInv'
<1>1. fiber'[f] = y /\ \A g \in Fibers \ {f} : fiber'[g] = fiber[g]
  BY DEF Inv, Types, Becomes
<1>2. \A g \in Fibers : RunsOK(fiber'[g], coordinator'.at)
  BY <1>1, CallParts
<1>3. \A g \in Fibers : \A i \in 1..Len(queue'[g]) : WaitsOK(queue'[g][i], coordinator'.at)
  OBVIOUS
<1> QED BY <1>2, <1>3 DEF CallInv, RunsOK, WaitsOK

\* At first there are no calls.
LEMMA InitCall == Init => CallInv /\ DrainInv
BY DEF Init, CallInv, DrainInv, Idle

\* Only the coordinator withdraws, and only as it drains.
LEMMA StepCall == Inv /\ BoundInv /\ CallInv /\ [Next]_vars => CallInv'
<1> SUFFICES ASSUME Inv, BoundInv, CallInv, [Next]_vars PROVE CallInv'
  OBVIOUS
<1> DEFINE Waiting == \A g \in Fibers : \A i \in 1..Len(queue'[g]) : WaitsOK(queue'[g][i], coordinator.at)
<1>1. ASSUME UNCHANGED <<fiber, queue, coordinator>> PROVE CallInv'
  BY <1>1 DEF CallInv
<1>2. CASE UNCHANGED vars
  BY <1>1, <1>2 DEF vars
<1>3. ASSUME NEW p \in Publishers, Mutation(p) PROVE CallInv'
  BY <1>1, <1>3 DEF Mutation
<1>4. ASSUME NEW f \in Fibers, NEW kind \in {"start", "restart", "dispose"}, request(f, kind)
      PROVE  CallInv'
  <2>1. PICK y : /\ Becomes(f, y) /\ y.call = fiber[f].call
                 /\ y.at = fiber[f].at /\ y.then = fiber[f].then
    BY <1>4, RequestLeaves
  <2>2. RunsOK(y, coordinator.at)
    BY <2>1, CallParts DEF RunsOK
  <2>3. PICK call : call = [kind |-> kind, by |-> "host", detached |-> 0]
    OBVIOUS
  <2>4. queue' = [queue EXCEPT ![f] = Append(@, call)] /\ WaitsOK(call, coordinator.at)
    BY <1>4, <2>3 DEF request, WaitsOK, Withdraws
  <2>5. Waiting
    BY <2>4, Added, CallParts
  <2>6. coordinator'.at = coordinator.at
    BY <1>4 DEF request, Inv, DetachedInv
  <2> QED BY <2>1, <2>2, <2>5, <2>6, CallStep
<1>5. ASSUME NEW f \in Fibers, Transition(f) PROVE CallInv'
  <2>1. coordinator' = coordinator
    BY <1>5 DEF Transition, acquire, resolve, provide_value, activate, discard, unload, factory
  <2>2. CASE acquire(f)
    <3>1. PICK call : call = Head(queue[f])
      OBVIOUS
    <3>2. PICK y : /\ Becomes(f, y) /\ y.call \in {None, call}
                   /\ call.kind = "withdraw" =>
                        (y.call # None => y.at = "unload" /\ y.then = "rest")
      BY <2>2, <3>1, AcquireLeaves
    <3>3. queue[f] # <<>> /\ queue' = [queue EXCEPT ![f] = Tail(@)]
      BY <2>2 DEF acquire
    <3>4. WaitsOK(call, coordinator.at)
      BY <3>1, <3>3, Taken, CallParts
    <3>5. RunsOK(y, coordinator.at)
      BY <3>2, <3>4 DEF RunsOK, WaitsOK, Withdraws
    <3>6. ASSUME NEW g \in Fibers, NEW i \in 1..Len(queue'[g])
          PROVE  WaitsOK(queue'[g][i], coordinator.at)
      <4>1. CASE g = f
        <5>1. i + 1 \in 1..Len(queue[f]) /\ queue'[f][i] = queue[f][i + 1]
          BY <3>3, <3>6, <4>1, Taken
        <5> QED BY <4>1, <5>1, CallParts
      <4>2. CASE g # f
        <5>1. queue'[g] = queue[g]
          BY <3>3, <4>2, Taken
        <5> QED BY <5>1, CallParts
      <4> QED BY <4>1, <4>2
    <3> QED BY <2>1, <3>2, <3>5, <3>6, CallStep
  <2>3. ASSUME ~acquire(f), NEW y, Becomes(f, y), RunsOK(y, coordinator.at) PROVE CallInv'
    <3>1. queue' = queue
      BY <1>5, <2>3 DEF Transition, resolve, provide_value, activate, discard, unload, factory
    <3>2. Waiting
      BY <3>1, CallParts
    <3> QED BY <2>1, <2>3, <3>2, CallStep
  <2>4. CASE unload(f) /\ ~acquire(f)
    <3>1. PICK y : /\ Becomes(f, y) /\ y.call \in {None, fiber[f].call}
                   /\ fiber[f].then = "rest" => y.call = None
      BY <2>4, UnloadLeaves
    <3>2. RunsOK(y, coordinator.at)
      BY <3>1, CallParts DEF RunsOK
    <3> QED BY <2>3, <2>4, <3>1, <3>2
  <2>5. CASE ~unload(f) /\ ~acquire(f)
    <3>1. PICK y : Working(f, y)
      BY <1>5, <2>5, ResolveLeaves, ProvideValueLeaves, ActivateLeaves, DiscardLeaves, FactoryLeaves
         DEF Transition
    <3>2. RunsOK(y, coordinator.at)
      BY <3>1, CallParts DEF RunsOK, Working
    <3> QED BY <2>3, <2>5, <3>1, <3>2 DEF Working
  <2> QED BY <2>2, <2>4, <2>5
<1>6. ASSUME coordinator.at # "drain", fiber' = fiber,
             \/ queue' = queue
             \/ \E f : queue' = [queue EXCEPT ![f] =
                           Append(@, [kind |-> "start", by |-> "coordinator", detached |-> 0])]
      PROVE  CallInv'
  <2>1. PICK call : call = [kind |-> "start", by |-> "coordinator", detached |-> 0]
    OBVIOUS
  <2>2. ~Withdraws(call)
    BY <2>1 DEF Withdraws
  <2>3. \A g \in Fibers : \A i \in 1..Len(queue[g]) : ~Withdraws(queue[g][i])
    BY <1>6 DEF CallInv
  <2>4. \A g \in Fibers : fiber[g].call # None => ~Withdraws(fiber[g].call)
    BY <1>6 DEF CallInv
  <2>5. \A g \in Fibers : \A i \in 1..Len(queue'[g]) : ~Withdraws(queue'[g][i])
    <3>1. CASE queue' = queue
      BY <2>3, <3>1
    <3>2. ASSUME NEW f, queue' = [queue EXCEPT ![f] = Append(@, call)]
          PROVE  \A g \in Fibers : \A i \in 1..Len(queue'[g]) : ~Withdraws(queue'[g][i])
      <4>1. \A g \in Fibers : \A i \in 1..Len(queue'[g]) :
               queue'[g][i] = call \/ (i \in 1..Len(queue[g]) /\ queue'[g][i] = queue[g][i])
        BY <3>2, Added
      <4> QED BY <2>2, <2>3, <4>1
    <3> QED BY <1>6, <2>1, <3>1, <3>2
  <2> QED BY <1>6, <2>4, <2>5 DEF CallInv, Withdraws
<1>7. CASE reconcile \/ pass
  BY <1>6, <1>7 DEF reconcile, pass, Ask
<1>8. ASSUME NEW c \in Capabilities, withdraw_and_reconcile(c) PROVE CallInv'
  BY <1>6, <1>8 DEF withdraw_and_reconcile
<1>9. CASE drain
  <2>1. coordinator.at = "drain" /\ fiber' = fiber /\ Answered
    BY <1>9 DEF drain
  <2>2. CASE coordinator' = Idle /\ queue' = queue
    <3>1. \A g \in Fibers : /\ fiber[g].call # None => ~Withdraws(fiber[g].call)
                            /\ \A i \in 1..Len(queue[g]) : ~Withdraws(queue[g][i])
      BY <2>1 DEF Answered, CallInv
    <3> QED BY <2>1, <2>2, <3>1 DEF CallInv, Withdraws
  <2>3. CASE ~(coordinator' = Idle /\ queue' = queue)
    <3>1. PICK f : f = Head(coordinator.fibers)
      OBVIOUS
    <3>2. PICK call : call = [kind |-> "withdraw", by |-> "coordinator",
                              detached |-> IF fiber[f].handle = coordinator.retired
                                           THEN coordinator.retired ELSE 0]
      OBVIOUS
    <3>3. queue' = [queue EXCEPT ![f] = Append(@, call)] /\ WaitsOK(call, coordinator.at)
      BY <1>9, <2>1, <2>3, <3>1, <3>2 DEF drain, Ask, WaitsOK
    <3>4. coordinator'.at = "drain"
      BY <1>9, <2>1, <2>3 DEF drain, Inv, DetachedInv
    <3>5. Waiting
      BY <3>3, Added, CallParts
    <3>6. \A g \in Fibers : RunsOK(fiber[g], coordinator.at)
      BY CallParts
    <3> QED BY <2>1, <3>4, <3>5, <3>6 DEF CallInv, RunsOK, WaitsOK
  <2> QED BY <2>2, <2>3
<1> QED BY <1>2, <1>3, <1>4, <1>5, <1>7, <1>8, <1>9 DEF Next

----------------------------------------------------------------------------
(* A withdrawal drains dependents first *)

\* A call of a withdrawal is served, by a fiber that nothing else holds.
LEMMA Served ==
    ASSUME Inv, AloneInv, OrderInv, NEW f \in Fibers, Busy(f), NEW y, Becomes(f, y),
           y.state # "Active", y.handle \in {0, fiber[f].handle},
           y.call # None => Withdraws(y.call),
           queue'[f] = <<>>, \A g \in Fibers \ {f} : queue'[g] = queue[g],
           coordinator' = coordinator
    PROVE  AloneInv' /\ OrderInv'
<1>1. fiber'[f] = y /\ \A g \in Fibers \ {f} : fiber'[g] = fiber[g]
  BY DEF Inv, Types, Becomes
<1>2. \A g \in Fibers : Busy(g)' => g = f
  BY <1>1 DEF Busy, AloneInv
<1>3. ASSUME NEW g \in Fibers, NEW h \in Fibers, Holds(g, h)' PROVE g # f /\ Holds(g, h)
  <2>1. g # f /\ fiber'[g] = fiber[g]
    BY <1>1, <1>3 DEF Holds
  <2>2. Pinned(g)' = Pinned(g) /\ 0 \notin Pinned(g)
    BY <2>1 DEF Pinned
  <2>3. fiber'[h].handle \in {0, fiber[h].handle}
    BY <1>1
  <2> QED BY <1>3, <2>1, <2>2, <2>3 DEF Holds
<1>4. AloneInv'
  <2>1. \A g \in Fibers : fiber'[g].call # None => Withdraws(fiber'[g].call) /\ queue'[g] = <<>>
    BY <1>1, <1>2 DEF Busy
  <2>2. \A g \in Fibers : queue'[g] = <<>>
    BY <1>2 DEF Busy
  <2>3. \A g, h \in Fibers : Busy(g)' /\ Busy(h)' => g = h
    BY <1>2
  <2> QED BY <2>1, <2>2, <2>3 DEF AloneInv, Withdraws
<1>5. PICK todo : todo = coordinator.fibers
  OBVIOUS
<1>6. /\ todo \in Seq(Fibers)
      /\ \A i, j \in 1..Len(todo) : i < j => todo[i] # todo[j] /\ ~Holds(todo[j], todo[i])
      /\ \A i \in 1..Len(todo) : ~Busy(todo[i])
      /\ \A i \in 1..Len(todo), g \in Fibers :
              Holds(g, todo[i]) => Busy(g) \/ \E j \in 1..Len(todo) : todo[j] = g
      /\ \A h, g \in Fibers : Busy(h) /\ h # g => ~Holds(g, h)
  BY <1>5 DEF OrderInv
<1>7. \A i \in 1..Len(todo) : todo[i] \in Fibers /\ todo[i] # f
  BY <1>6
<1>8. \A i, j \in 1..Len(todo) : i < j => todo[i] # todo[j] /\ ~Holds(todo[j], todo[i])'
  BY <1>3, <1>6, <1>7
<1>9. \A i \in 1..Len(todo) : ~Busy(todo[i])'
  BY <1>2, <1>7
<1>10. ASSUME NEW i \in 1..Len(todo), NEW g \in Fibers, Holds(g, todo[i])'
       PROVE  \E j \in 1..Len(todo) : todo[j] = g
  <2>1. g # f /\ Holds(g, todo[i])
    BY <1>3, <1>7, <1>10
  <2>2. ~Busy(g)
    BY <2>1 DEF AloneInv
  <2> QED BY <1>6, <2>1, <2>2
<1>11. \A h, g \in Fibers : Busy(h)' /\ h # g => ~Holds(g, h)'
  BY <1>2, <1>3, <1>6
<1>12. coordinator'.fibers = todo
  BY <1>5
<1>13. OrderInv'
  BY <1>6, <1>8, <1>9, <1>10, <1>11, <1>12 DEF OrderInv
<1> QED BY <1>4, <1>13

\* While a withdrawal drains and no host interferes, no fiber but the one it
\* asked moves.
LEMMA TransitionDrains ==
    ASSUME Inv, BoundInv, CallInv, DrainInv, NEW f \in Fibers, Transition(f)
    PROVE  DrainInv'
<1>1. coordinator' = coordinator
  BY DEF Transition, acquire, resolve, provide_value, activate, discard, unload, factory
<1> SUFFICES ASSUME coordinator.at = "drain", coordinator.alone PROVE AloneInv' /\ OrderInv'
  BY <1>1 DEF DrainInv
<1>2. AloneInv /\ OrderInv
  BY DEF DrainInv
<1>3. fiber[f].call # None => fiber[f].at = "unload" /\ fiber[f].then = "rest" /\ queue[f] = <<>>
  BY <1>2 DEF AloneInv, CallInv
<1>4. CASE acquire(f)
  <2>1. PICK call : call = Head(queue[f])
    OBVIOUS
  <2>2. PICK y : /\ Becomes(f, y) /\ Rests(fiber[f], y) /\ y.call \in {None, call}
                 /\ call.kind = "withdraw" => y.state # "Active"
    BY <1>4, <2>1, AcquireLeaves
  <2>3. queue[f] # <<>> /\ queue' = [queue EXCEPT ![f] = Tail(@)]
    BY <1>4 DEF acquire
  <2>4. Len(queue[f]) = 1 /\ Withdraws(queue[f][1])
    BY <1>2, <2>3 DEF AloneInv
  <2>5. Withdraws(call) /\ queue'[f] = <<>> /\ \A g \in Fibers \ {f} : queue'[g] = queue[g]
    BY <2>1, <2>3, <2>4, Taken
  <2>6. Busy(f)
    BY <2>3 DEF Busy
  <2>7. y.state # "Active" /\ y.handle = fiber[f].handle /\ (y.call # None => Withdraws(y.call))
    BY <2>2, <2>5 DEF Rests, Withdraws
  <2> QED BY <1>1, <1>2, <2>2, <2>5, <2>6, <2>7, Served
<1>5. CASE unload(f)
  <2>1. /\ fiber[f].at = "unload" /\ fiber[f].call # None
        /\ \E y : /\ Becomes(f, y) /\ y.handle = 0 /\ y.state # "Active"
                  /\ fiber[f].then = "rest" => y.call = None
    BY <1>5, UnloadLeaves
  <2>2. PICK y : /\ Becomes(f, y) /\ y.handle = 0 /\ y.state # "Active"
                 /\ fiber[f].then = "rest" => y.call = None
    BY <2>1
  <2>3. queue' = queue /\ queue[f] = <<>> /\ y.call = None /\ Busy(f)
    BY <1>3, <1>5, <2>1, <2>2 DEF unload, Busy
  <2> QED BY <1>1, <1>2, <2>2, <2>3, Served
<1>6. CASE ~acquire(f) /\ ~unload(f)
  <2>1. PICK y : Working(f, y)
    BY <1>6, ResolveLeaves, ProvideValueLeaves, ActivateLeaves, DiscardLeaves, FactoryLeaves
       DEF Transition
  <2> QED BY <1>3, <2>1 DEF Working
<1> QED BY <1>4, <1>5, <1>6

\* The next fiber is asked when the last has answered.
LEMMA DrainDrains ==
    ASSUME Inv, CallInv, DrainInv, drain
    PROVE  DrainInv'
<1>1. coordinator.at = "drain" /\ Answered /\ fiber' = fiber
  BY DEF drain
<1>2. CASE coordinator' = Idle
  BY <1>2 DEF DrainInv, Idle
<1>3. CASE coordinator' # Idle
  <2>1. PICK todo : todo = coordinator.fibers
    OBVIOUS
  <2>2. PICK f : f = Head(todo)
    OBVIOUS
  <2>3. PICK call : call = [kind |-> "withdraw", by |-> "coordinator",
                            detached |-> IF fiber[f].handle = coordinator.retired
                                         THEN coordinator.retired ELSE 0]
    OBVIOUS
  <2>4. /\ todo # <<>> /\ queue' = [queue EXCEPT ![f] = Append(@, call)]
        /\ coordinator' = [coordinator EXCEPT !.fibers = Tail(@)]
    BY <1>3, <2>1, <2>2, <2>3 DEF drain, Ask
  <2>5. coordinator'.fibers = Tail(todo) /\ coordinator'.alone = coordinator.alone
    BY <2>1, <2>4 DEF Inv, DetachedInv
  <2> SUFFICES ASSUME coordinator.alone PROVE AloneInv' /\ OrderInv'
    BY <2>5 DEF DrainInv
  <2>6. AloneInv /\ OrderInv
    BY <1>1 DEF DrainInv
  <2>7. \A g \in Fibers : ~Busy(g)
    <3> SUFFICES ASSUME NEW g \in Fibers, Busy(g) PROVE FALSE
      OBVIOUS
    <3>1. CASE fiber[g].call # None
      BY <1>1, <2>6, <3>1 DEF AloneInv, CallInv, Answered
    <3>2. CASE queue[g] # <<>>
      <4>1. Len(queue[g]) = 1 /\ Withdraws(queue[g][1]) /\ 1 \in 1..Len(queue[g])
        BY <2>6, <3>2 DEF AloneInv
      <4> QED BY <1>1, <4>1 DEF CallInv, Answered
    <3> QED BY <3>1, <3>2 DEF Busy
  <2>8. /\ todo \in Seq(Fibers)
        /\ \A i, j \in 1..Len(todo) : i < j => todo[i] # todo[j] /\ ~Holds(todo[j], todo[i])
        /\ \A i \in 1..Len(todo), g \in Fibers :
              Holds(g, todo[i]) => Busy(g) \/ \E j \in 1..Len(todo) : todo[j] = g
    BY <2>1, <2>6 DEF OrderInv
  <2>9. /\ f \in Fibers /\ f = todo[1] /\ 1 \in 1..Len(todo)
        /\ Tail(todo) \in Seq(Fibers)
        /\ \A i \in 1..Len(Tail(todo)) : i + 1 \in 1..Len(todo) /\ Tail(todo)[i] = todo[i + 1]
        /\ \A i \in 1..Len(todo) : i # 1 => i - 1 \in 1..Len(Tail(todo)) /\ Tail(todo)[i - 1] = todo[i]
    BY <2>2, <2>4, <2>8
  <2>10. PICK rest : rest = Tail(todo)
    OBVIOUS
  <2>11. Withdraws(call)
    BY <2>3 DEF Withdraws
  <2>12. /\ \A g \in Fibers : fiber[g].call = None /\ queue[g] = <<>>
         /\ \A g \in Fibers \ {f} : queue'[g] = queue[g]
         /\ Len(queue'[f]) = 1 /\ queue'[f][1] = call
    <3>1. \A g \in Fibers : fiber[g].call = None /\ queue[g] = <<>>
      BY <2>7 DEF Busy
    <3>2. /\ \A g \in Fibers \ {f} : queue'[g] = queue[g]
          /\ f \in Fibers /\ queue[f] = <<>> => Len(queue'[f]) = 1 /\ queue'[f][1] = call
      BY <2>4, Added
    <3> QED BY <2>9, <3>1, <3>2
  <2>13. \A g \in Fibers : Busy(g)' => g = f
    BY <1>1, <2>12 DEF Busy
  <2>14. AloneInv'
    <3>1. \A g, h \in Fibers : Busy(g)' /\ Busy(h)' => g = h
      BY <2>13
    <3>2. ASSUME NEW g \in Fibers, queue'[g] # <<>>
          PROVE  Len(queue'[g]) = 1 /\ Withdraws(queue'[g][1])
      <4>1. g = f
        BY <2>12, <3>2
      <4> QED BY <2>11, <2>12, <4>1
    <3>3. \A g \in Fibers : fiber'[g].call = None
      BY <1>1, <2>12
    <3> QED BY <3>1, <3>2, <3>3 DEF AloneInv, Withdraws
  <2>15. \A g, h : Holds(g, h)' <=> Holds(g, h)
    BY <1>1 DEF Holds, Pinned
  <2>16. ASSUME NEW i \in 1..Len(rest), NEW j \in 1..Len(rest), i < j
         PROVE  rest[i] # rest[j] /\ ~Holds(rest[j], rest[i])'
    <3>1. /\ i + 1 \in 1..Len(todo) /\ rest[i] = todo[i + 1]
          /\ j + 1 \in 1..Len(todo) /\ rest[j] = todo[j + 1]
      BY <2>9, <2>10
    <3>2. i + 1 < j + 1
      BY <2>16
    <3> QED BY <2>8, <2>15, <3>1, <3>2
  <2>17. ASSUME NEW i \in 1..Len(rest) PROVE ~Busy(rest[i])'
    <3>1. i + 1 \in 1..Len(todo) /\ rest[i] = todo[i + 1] /\ 1 < i + 1
      BY <2>9, <2>10
    <3>2. rest[i] # f /\ rest[i] \in Fibers
      BY <2>8, <2>9, <3>1
    <3> QED BY <2>13, <3>2
  <2>18. ASSUME NEW i \in 1..Len(rest), NEW g \in Fibers, Holds(g, rest[i])'
         PROVE  Busy(g)' \/ \E j \in 1..Len(rest) : rest[j] = g
    <3>1. i + 1 \in 1..Len(todo) /\ rest[i] = todo[i + 1]
      BY <2>9, <2>10
    <3>2. Holds(g, todo[i + 1])
      BY <2>15, <2>18, <3>1
    <3>3. PICK j \in 1..Len(todo) : todo[j] = g
      BY <2>7, <2>8, <3>1, <3>2
    <3>4. CASE j = 1
      <4>1. g = f /\ queue'[f] # <<>>
        <5>1. \A r : Len(r) = 1 => r # <<>>
          OBVIOUS
        <5> QED BY <2>9, <2>12, <3>3, <3>4, <5>1
      <4> QED BY <4>1 DEF Busy
    <3>5. CASE j # 1
      BY <2>9, <2>10, <3>3, <3>5
    <3> QED BY <3>4, <3>5
  <2>19. ASSUME NEW h \in Fibers, NEW g \in Fibers, Busy(h)', h # g PROVE ~Holds(g, h)'
    <3> SUFFICES ASSUME Holds(g, h)' PROVE FALSE
      OBVIOUS
    <3>1. h = todo[1] /\ Holds(g, todo[1])
      BY <2>9, <2>13, <2>15, <2>19
    <3>2. PICK j \in 1..Len(todo) : todo[j] = g
      BY <2>7, <2>8, <2>9, <3>1
    <3>3. 1 < j
      BY <2>19, <3>1, <3>2
    <3> QED BY <2>8, <2>9, <3>1, <3>2, <3>3
  <2>20. coordinator'.fibers = rest /\ rest \in Seq(Fibers)
    BY <2>5, <2>9, <2>10
  <2>21. OrderInv'
    BY <2>16, <2>17, <2>18, <2>19, <2>20 DEF OrderInv
  <2> QED BY <2>14, <2>21
<1> QED BY <1>2, <1>3

\* A withdrawal that begins while no call is under way has its order right.
LEMMA WithdrawDrains ==
    ASSUME Inv, BoundInv, NEW c, withdraw_and_reconcile(c)
    PROVE  DrainInv'
<1>1. PICK retired : retired = entries[Home][c]
  OBVIOUS
<1>2. PICK A : A = withdrawal_closure(retired)
  OBVIOUS
<1>3. PICK s : s = withdrawal_order(A)
  OBVIOUS
<1>4. /\ UNCHANGED <<fiber, queue>>
      /\ coordinator'.fibers = s
      /\ coordinator'.alone = \A f \in Fibers : fiber[f].call = None /\ queue[f] = <<>>
  BY <1>1, <1>2, <1>3 DEF withdraw_and_reconcile, Idle
<1> SUFFICES ASSUME \A f \in Fibers : fiber[f].call = None /\ queue[f] = <<>>
             PROVE  AloneInv' /\ OrderInv'
  BY <1>4 DEF DrainInv
<1>5. \A f \in Fibers : ~Busy(f) /\ ~Busy(f)'
  BY <1>4 DEF Busy
<1>6. A \in SUBSET Fibers /\ Dependents(A) \subseteq A
  BY <1>2, ClosureClosed
<1> DEFINE key == [f \in Fibers |-> fiber[f].handle]
<1>7. key \in [Fibers -> Nat]
  BY DEF Inv, Types, Fiber
<1>8. ASSUME NEW f \in Fibers, NEW g \in Above(f, A) PROVE key[g] < key[f]
  <2>1. g \in Fibers /\ fiber[g].handle \in Pinned(f)
    BY DEF Above, Providers
  <2>2. FiberOK(f, fiber[f]) /\ BoundOK(f, fiber[f])
    BY DEF Inv, FiberInv, BoundInv
  <2>3. fiber[f].at = "rest" /\ fiber[f].loading_binding = None
    BY <2>2 DEF FiberOK, Attempting
  <2>4. PICK b : b = fiber[f].dependency_binding
    OBVIOUS
  <2>5. b # None /\ fiber[g].handle \in {b[d] : d \in Capabilities}
    BY <2>1, <2>3, <2>4 DEF Pinned
  <2>6. PICK d \in Capabilities : fiber[g].handle = b[d]
    BY <2>5
  <2>7. b[d] < fiber[f].handle
    BY <2>2, <2>4, <2>5 DEF BoundOK
  <2> QED BY <2>1, <2>6, <2>7
<1> HIDE DEF key
<1>9. /\ s \in Seq(A)
      /\ \A i, j \in 1..Len(s) : i < j => s[i] # s[j] /\ s[i] \notin Above(s[j], A)
      /\ \A x \in A : \E i \in 1..Len(s) : s[i] = x
  <2>1. Keyed(key, A)
    BY <1>7, <1>8 DEF Keyed
  <2>2. DependentsBefore(s, A)
    BY <1>3, <1>6, <2>1, Ordered
  <2> QED BY <2>2 DEF DependentsBefore
<1>10. s \in Seq(Fibers) /\ \A i \in 1..Len(s) : s[i] \in A /\ s[i] \in Fibers
  BY <1>6, <1>9
<1>11. \A g, h : Holds(g, h)' <=> Holds(g, h)
  BY <1>4 DEF Holds, Pinned
<1>12. \A g, h \in Fibers : Holds(g, h) => h \in Providers(g)
  BY DEF Holds, Providers
<1>13. ASSUME NEW i \in 1..Len(s), NEW j \in 1..Len(s), i < j
       PROVE  s[i] # s[j] /\ ~Holds(s[j], s[i])'
  <2>1. s[i] # s[j] /\ s[i] \notin Above(s[j], A) /\ s[i] \in A
    BY <1>9, <1>10, <1>13
  <2>2. s[i] \notin Providers(s[j])
    BY <2>1 DEF Above
  <2> QED BY <1>10, <1>11, <1>12, <2>1, <2>2
<1>14. ASSUME NEW i \in 1..Len(s), NEW g \in Fibers, Holds(g, s[i])'
       PROVE  \E j \in 1..Len(s) : s[j] = g
  <2>1. s[i] \in Providers(g) /\ s[i] \in A
    BY <1>10, <1>11, <1>12, <1>14
  <2>2. g \in A
    BY <1>6, <2>1 DEF Dependents
  <2> QED BY <1>9, <2>2
<1>15. AloneInv'
  BY <1>4, <1>5 DEF AloneInv
<1>16. OrderInv'
  BY <1>4, <1>5, <1>10, <1>13, <1>14 DEF OrderInv
<1> QED BY <1>15, <1>16

\* Every step keeps the order of a withdrawal.
LEMMA StepDrain == Inv /\ BoundInv /\ CallInv /\ DrainInv /\ [Next]_vars => DrainInv'
<1> SUFFICES ASSUME Inv, BoundInv, CallInv, DrainInv, [Next]_vars PROVE DrainInv'
  OBVIOUS
<1>1. ASSUME UNCHANGED <<fiber, queue, coordinator>> PROVE DrainInv'
  <2>1. \A g, h : (Holds(g, h)' <=> Holds(g, h)) /\ (Busy(g)' <=> Busy(g))
    BY <1>1 DEF Holds, Pinned, Busy
  <2>2. AloneInv => AloneInv'
    BY <1>1, <2>1 DEF AloneInv
  <2>3. OrderInv => OrderInv'
    BY <1>1, <2>1 DEF OrderInv
  <2> QED BY <1>1, <2>2, <2>3 DEF DrainInv
<1>2. CASE UNCHANGED vars
  BY <1>1, <1>2 DEF vars
<1>3. ASSUME NEW p \in Publishers, Mutation(p) PROVE DrainInv'
  BY <1>1, <1>3 DEF Mutation
<1>4. ASSUME NEW f \in Fibers, NEW kind, request(f, kind) PROVE DrainInv'
  <2>1. coordinator'.alone => coordinator'.at # "drain"
    BY <1>4 DEF request, Inv, DetachedInv
  <2> QED BY <2>1 DEF DrainInv
<1>5. ASSUME NEW f \in Fibers, Transition(f) PROVE DrainInv'
  BY <1>5, TransitionDrains
<1>6. CASE reconcile \/ pass
  <2>1. coordinator'.at # "drain"
    <3>1. DOMAIN coordinator = {"at", "fibers", "drove", "retired", "alone"}
      BY DEF Inv, DetachedInv
    <3>2. CASE coordinator' = Idle
      BY <3>2 DEF Idle
    <3>3. CASE coordinator' = [Idle EXCEPT !.at = "pass", !.fibers = snapshot_fibers]
      BY <3>3 DEF Idle
    <3>4. CASE /\ coordinator.at = "pass"
               /\ \/ coordinator' = [coordinator EXCEPT !.fibers = Tail(@), !.drove = TRUE]
                  \/ coordinator' = [coordinator EXCEPT !.fibers = Tail(@)]
      BY <3>1, <3>4
    <3> QED BY <1>6, <3>2, <3>3, <3>4 DEF reconcile, pass
  <2> QED BY <2>1 DEF DrainInv
<1>7. CASE drain
  BY <1>7, DrainDrains
<1>8. ASSUME NEW c \in Capabilities, withdraw_and_reconcile(c) PROVE DrainInv'
  BY <1>8, WithdrawDrains
<1> QED BY <1>2, <1>3, <1>4, <1>5, <1>6, <1>7, <1>8 DEF Next

\* Where no host interferes, a withdrawal deactivates a fiber only when no
\* other active fiber is bound to what it provides: the closure has every
\* dependent, and the depths that order it have settled.
THEOREM DependentsDrainFirst == Spec => DependentsFirst
<1> DEFINE A == \A f \in Fibers :
          LET x == fiber[f]
          IN  /\ x.at = "unload" /\ x.call.kind = "withdraw" /\ fiber'[f].at # "unload"
              /\ x.handle # 0 /\ coordinator.alone
              => \A g \in Fibers \ {f} :
                    fiber[g].state = "Active" => x.handle \notin Pinned(g)
<1>1. Spec => [](Inv /\ BoundInv /\ CallInv /\ DrainInv)
  BY InitInv, InitBound, InitCall, StepInv, StepBound, StepCall, StepDrain, PTL DEF Spec
<1>2. Inv /\ CallInv /\ DrainInv => A
  <2> SUFFICES ASSUME Inv, CallInv, DrainInv, NEW f \in Fibers, fiber[f].at = "unload",
                      fiber[f].call.kind = "withdraw", coordinator.alone,
                      NEW g \in Fibers \ {f}, fiber[g].state = "Active"
               PROVE  fiber[f].handle \notin Pinned(g)
    OBVIOUS
  <2>1. fiber[f].call # None
    BY DEF Inv, FiberInv, FiberOK
  <2>2. coordinator.at = "drain" /\ Busy(f)
    BY <2>1 DEF CallInv, Withdraws, Busy
  <2>3. ~Holds(g, f)
    BY <2>2 DEF DrainInv, OrderInv
  <2> QED BY <2>3 DEF Holds
<1>3. Inv /\ CallInv /\ DrainInv => [A]_vars
  BY <1>2
<1> QED
  BY <1>1, <1>3, PTL DEF DependentsFirst
=============================================================================
