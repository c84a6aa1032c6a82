-------------------------- MODULE CapabilityFiber --------------------------
(***************************************************************************)
(* Capability fibers and the reactive coordinator over one scope.  A fiber *)
(* loads its plugin, publishes what it provides, and unloads it again; its *)
(* transition lock serializes the calls of hosts and of the coordinator.   *)
(* A step ends where the code awaits a factory, a disposer or the lock, or *)
(* where it takes the topology lock of the scope.                          *)
(*                                                                         *)
(* The transition tokens decide nothing and are left out; an Active fiber  *)
(* is compared by its binding, the entries its dependencies resolved to.   *)
(***************************************************************************)
EXTENDS Integers, Sequences, FiniteSets

CONSTANTS
    Scopes, Path, Capabilities, Definitions, Publishers,   \* of CapabilityScope
    MaxEntries, MaxWithdrawn, None,
    Home,          \* the scope of the coordinator and its fibers
    Fibers,        \* fiber identities, 1..n, in the order of creation
    Provides,      \* fiber -> the definition its plugin publishes
    MaxMutations,  \* bound on the publications of hosts
    MaxCalls       \* bound on the calls of hosts to fibers

VARIABLES
    lifecycle, entries, published, publisher, withdrawn, poisoned,   \* CapabilityScope
    fiber,        \* fiber -> CapabilityFiber
    queue,        \* fiber -> calls that wait for its transition lock
    coordinator,  \* ReactiveCapabilityRuntime
    calls         \* calls made by hosts

Scope == INSTANCE CapabilityScope

scope_vars == <<lifecycle, entries, published, publisher, withdrawn, poisoned>>
vars == <<scope_vars, fiber, queue, coordinator, calls>>

\* A call: who made it, and the entry the coordinator has already detached.
Call == [kind : {"start", "restart", "dispose", "withdraw"},
         by : {"host", "coordinator"}, detached : Nat]
Binding == [Capabilities -> Nat]
FiberState == {"Pending", "Loading", "Active", "Failed", "Unloading", "Disposed"}

\* call holds the transition lock; at and then say where it is and where an
\* unload goes on.
Fiber ==
    [state : FiberState, handle : Nat,
     dependency_binding : Binding \cup {None}, loading_binding : Binding \cup {None},
     effects : BOOLEAN,   \* an attempt's scope of effects is open: there may be some to undo
     dispose_requested : BOOLEAN, force_reload : BOOLEAN,
     call : Call \cup {None}, force : BOOLEAN,
     at : {"rest", "resolve", "factory", "publish", "activate", "discard", "unload"},
     then : {"resolve", "pending", "disposed", "rest",
             "changed", "stale", "stale_error", "failed"}]

ASSUME FiberAssumption ==
    /\ Home \in Scopes /\ Path[Home] = <<Home>>
    /\ IsFiniteSet(Fibers) /\ Fibers = 1..Cardinality(Fibers)
    /\ Definitions[Home] \subseteq Scope!Definition
    /\ Provides \in [Fibers -> Scope!Definition]
    /\ \A f, g \in Fibers : f # g => Provides[f].id # Provides[g].id
    /\ \A f \in Fibers, d \in Definitions[Home] : Provides[f].id # d.id
    /\ None \notin Call
    /\ MaxMutations \in Nat /\ MaxCalls \in Nat

Coordinator ==
    [at : {"idle", "pass", "drain"}, fibers : Seq(Fibers), drove : BOOLEAN,
     retired : Nat,
     alone : BOOLEAN]   \* history: no call of a host overlaps the withdrawal

Idle == [at |-> "idle", fibers |-> <<>>, drove |-> FALSE, retired |-> 0, alone |-> TRUE]

Init ==
    /\ Scope!Init
    /\ fiber = [f \in Fibers |->
          [state |-> "Pending", handle |-> 0, dependency_binding |-> None,
           loading_binding |-> None, effects |-> FALSE, dispose_requested |-> FALSE,
           force_reload |-> FALSE, call |-> None, force |-> FALSE, at |-> "rest", then |-> "rest"]]
    /\ queue = [f \in Fibers |-> <<>>]
    /\ coordinator = Idle
    /\ calls = 0

\* f is replaced by x; the rest of the system is left alone.
Becomes(f, x) == fiber' = [fiber EXCEPT ![f] = x]
Released(x) == [x EXCEPT !.call = None, !.at = "rest", !.then = "rest", !.force = FALSE]
Unloading(x, then) == [x EXCEPT !.state = "Unloading", !.at = "unload", !.then = then]
----------------------------------------------------------------------------
(* Calls of hosts *)

\* The part of start, restart, update and dispose before the transition lock.
request(f, kind) ==
    /\ calls < MaxCalls
    /\ kind = "restart" => fiber[f].state # "Disposed"
    /\ calls' = calls + 1
    /\ queue' = [queue EXCEPT ![f] = Append(@, [kind |-> kind, by |-> "host", detached |-> 0])]
    /\ Becomes(f, [fiber[f] EXCEPT !.force_reload = @ \/ kind = "restart",
                                   !.dispose_requested = @ \/ kind = "dispose"])
    /\ coordinator' = [coordinator EXCEPT !.alone = @ /\ coordinator.at # "drain"]
    /\ UNCHANGED scope_vars
----------------------------------------------------------------------------
(* Transitions, under the transition lock *)

\* drive, up to its loop.
drive(x, force) ==
    IF x.dispose_requested \/ (~force /\ x.state = "Failed") THEN Released(x)
    ELSE [x EXCEPT !.force = force \/ x.force_reload, !.force_reload = FALSE, !.at = "resolve"]

dispose(x) == IF x.state = "Disposed" THEN Released(x) ELSE Unloading(x, "disposed")

deactivate_for_withdrawal(x) ==
    IF x.state \in {"Active", "Failed"} THEN Unloading(x, "rest") ELSE Released(x)

\* The next call gets the lock.
acquire(f) ==
    LET call == Head(queue[f])
        x == [fiber[f] EXCEPT !.call = call]
    IN  /\ fiber[f].call = None /\ queue[f] # <<>>
        /\ queue' = [queue EXCEPT ![f] = Tail(@)]
        /\ \/ call.kind = "start" /\ Becomes(f, drive(x, FALSE))
           \/ call.kind = "restart" /\ Becomes(f, drive(x, TRUE))
           \/ call.kind = "dispose" /\ Becomes(f, dispose(x))
           \/ call.kind = "withdraw" /\ Becomes(f, deactivate_for_withdrawal(x))
        /\ UNCHANGED <<scope_vars, coordinator, calls>>

Dependencies(f) == Scope!resolve_dependencies(Home, Provides[f])
Satisfied(f) == \A c \in Provides[f].dependencies : Dependencies(f)[c] # 0

\* A turn of the loop in drive, up to the factory.
resolve(f) ==
    LET x == fiber[f]
        loaded == x.state \in {"Active", "Failed"}
        matches == ~x.force /\ x.state = "Active" /\ x.dependency_binding = Dependencies(f)
    IN  /\ x.at = "resolve"
        /\ \/ /\ ~Satisfied(f)
              /\ Becomes(f, IF x.state = "Active" THEN Unloading(x, "pending")
                            ELSE Released([x EXCEPT !.state = "Pending"]))
           \/ /\ Satisfied(f) /\ matches
              /\ Becomes(f, Released(x))
           \/ /\ Satisfied(f) /\ ~matches /\ loaded
              /\ Becomes(f, Unloading(x, "resolve"))
           \/ /\ Satisfied(f) /\ ~loaded /\ x.dispose_requested
              /\ Becomes(f, Released(x))
           \/ /\ Satisfied(f) /\ ~loaded /\ ~x.dispose_requested
              /\ Becomes(f, [x EXCEPT !.state = "Loading", !.effects = TRUE,
                                      !.loading_binding = Dependencies(f), !.at = "factory"])
        /\ UNCHANGED <<scope_vars, queue, coordinator, calls>>

Stale(f) ==
    \/ fiber[f].dispose_requested \/ fiber[f].force_reload
    \/ ~Satisfied(f) \/ Dependencies(f) # fiber[f].loading_binding

\* The factory resolves.
factory(f, ok) ==
    LET x == fiber[f]
    IN  /\ x.at = "factory"
        /\ \/ ok /\ ~Stale(f) /\ Becomes(f, [x EXCEPT !.at = "publish"])
           \/ ok /\ Stale(f) /\ Becomes(f, [x EXCEPT !.at = "discard", !.then = "stale"])
           \/ ~ok /\ Stale(f) /\ Becomes(f, [x EXCEPT !.at = "discard", !.then = "stale_error"])
           \/ ~ok /\ ~Stale(f) /\ Becomes(f, [x EXCEPT !.at = "discard", !.then = "failed"])
        /\ UNCHANGED <<scope_vars, queue, coordinator, calls>>

\* Mutant: it is enough that a dependency exists.
ChangedDependencies_missing(f) == {c \in Provides[f].dependencies : Dependencies(f)[c] = 0}

\* The dependencies that are not those the value was built with.
ChangedDependencies(f) ==
    {c \in Provides[f].dependencies : Dependencies(f)[c] # fiber[f].loading_binding[c]}

\* provide_value, with publish_preconstructed.  The first dependency that is
\* missing or changed decides what happens next; their order is left open.
provide_value(f) ==
    LET x == fiber[f]
        c == Provides[f].id
        entry == [scope |-> Home, definition |-> Provides[f], dependencies |-> x.loading_binding,
                  generation |-> 1]
        admitted == /\ Scope!check_expectation(Home, c, 0)
                    /\ Scope!StillResolves(Home, Provides[f])
                    /\ Scope!validate_descendant_admission(Home, Provides[f])
        Refused(then) == /\ Becomes(f, [x EXCEPT !.at = "discard", !.then = then])
                         /\ UNCHANGED <<published, entries>>
    IN  /\ x.at = "publish"
        /\ \/ /\ ChangedDependencies(f) = {} /\ admitted
              /\ published' = Append(published, entry)
              /\ entries' = [entries EXCEPT ![Home][c] = Len(published) + 1]
              /\ Becomes(f, [x EXCEPT !.at = "activate"])
           \/ /\ ChangedDependencies(f) = {} /\ ~admitted
              /\ Refused("failed")
           \/ /\ \E d \in ChangedDependencies(f) : Dependencies(f)[d] # 0
              /\ Refused("changed")
           \/ /\ \E d \in ChangedDependencies(f) : Dependencies(f)[d] = 0
              /\ Refused("failed")
        /\ UNCHANGED <<lifecycle, publisher, withdrawn, poisoned, queue, coordinator, calls>>

\* The entry f published last: what its handle is made of.
Latest(f) ==
    CHOOSE e \in 1..Len(published) :
        /\ published[e].definition = Provides[f]
        /\ \A d \in (e + 1)..Len(published) : published[d].definition # Provides[f]

\* The rest of drive after a publication.
activate(f) ==
    LET x == fiber[f]
    IN  /\ x.at = "activate"
        /\ Becomes(f, Released([x EXCEPT !.state = "Active", !.handle = Latest(f),
                                         !.dependency_binding = x.loading_binding,
                                         !.loading_binding = None]))
        /\ UNCHANGED <<scope_vars, queue, coordinator, calls>>

\* Mutant: what a discarded attempt registered stays.
discard_keeping(f) ==
    LET x == [fiber[f] EXCEPT !.loading_binding = None]
    IN  /\ x.at = "discard"
        /\ Becomes(f, IF x.then = "failed" THEN Released([x EXCEPT !.state = "Failed"])
                      ELSE [x EXCEPT !.state = "Pending", !.at = "resolve", !.then = "rest"])
        /\ UNCHANGED <<scope_vars, queue, coordinator, calls>>

\* The effects of an attempt that was not published are disposed; drive tries
\* again, fails, or makes way for a dispose.
discard(f) ==
    LET x == [fiber[f] EXCEPT !.effects = FALSE, !.loading_binding = None,
                 !.force_reload = @ /\ fiber[f].then \notin {"stale", "stale_error"}]
        again == [x EXCEPT !.state = "Pending", !.at = "resolve", !.then = "rest"]
    IN  /\ x.at = "discard"
        /\ \/ x.then = "failed" /\ Becomes(f, Released([x EXCEPT !.state = "Failed"]))
           \/ x.then = "changed" /\ Becomes(f, again)
           \/ /\ x.then \in {"stale", "stale_error"} /\ ~x.dispose_requested
              /\ Becomes(f, again)
           \/ /\ x.then = "stale" /\ x.dispose_requested
              /\ Becomes(f, Released(x))
           \/ /\ x.then = "stale_error" /\ x.dispose_requested
              /\ Becomes(f, Released([x EXCEPT !.state = "Disposed"]))
        /\ UNCHANGED <<scope_vars, queue, coordinator, calls>>

\* remove_local, unless the coordinator detached this very entry.
remove_local(e, detached) ==
    LET c == published[e].definition.id
    IN  IF e # 0 /\ e # detached /\ Scope!check_expectation(Home, c, published[e].generation)
        THEN /\ entries' = [entries EXCEPT ![Home][c] = 0]
             /\ withdrawn' = withdrawn \cup {entries[Home][c]}
        ELSE UNCHANGED <<entries, withdrawn>>

\* unload after its effects are disposed, and the call it is part of.
unload(f) ==
    LET x == [fiber[f] EXCEPT !.state = "Pending", !.effects = FALSE, !.handle = 0,
                              !.dependency_binding = None, !.loading_binding = None]
    IN  /\ x.at = "unload"
        /\ remove_local(fiber[f].handle, x.call.detached)
        /\ \/ /\ x.then = "resolve" /\ ~x.dispose_requested
              /\ Becomes(f, [x EXCEPT !.at = "resolve", !.then = "rest"])
           \/ /\ x.then = "disposed"
              /\ Becomes(f, Released([x EXCEPT !.state = "Disposed"]))
           \/ /\ x.then \in {"pending", "rest"} \/ (x.then = "resolve" /\ x.dispose_requested)
              /\ Becomes(f, Released(x))
        /\ UNCHANGED <<lifecycle, published, publisher, poisoned, queue, coordinator, calls>>

Transition(f) ==
    \/ acquire(f) \/ resolve(f) \/ provide_value(f) \/ activate(f) \/ discard(f) \/ unload(f)
    \/ \E ok \in BOOLEAN : factory(f, ok)
----------------------------------------------------------------------------
(* The coordinator *)

\* Mutant: failed fibers are driven as well.
needs_reconciliation_failed(f) == fiber[f].state # "Disposed" /\ fiber[f].handle = 0

needs_reconciliation(f) ==
    LET x == fiber[f]
        current == IF Satisfied(f) THEN Dependencies(f) ELSE None
    IN  \/ x.state = "Active" /\ current # x.dependency_binding
        \/ x.state = "Loading" /\ current # x.loading_binding
        \/ x.state = "Pending" /\ Provides[f].dependencies # {} /\ current # None
        \/ x.state = "Unloading"

snapshot_fibers == [f \in Fibers |-> f]

\* reconcile begins.
reconcile ==
    /\ coordinator.at = "idle"
    /\ \E f \in Fibers : needs_reconciliation(f)
    /\ coordinator' = [Idle EXCEPT !.at = "pass", !.fibers = snapshot_fibers]
    /\ UNCHANGED <<scope_vars, fiber, queue, calls>>

\* No call of the coordinator is waiting or running.
Answered ==
    \A f \in Fibers :
        /\ fiber[f].call # None => fiber[f].call.by # "coordinator"
        /\ \A i \in 1..Len(queue[f]) : queue[f][i].by # "coordinator"

Ask(f, kind, detached) ==
    queue' = [queue EXCEPT ![f] = Append(@, [kind |-> kind, by |-> "coordinator",
                                             detached |-> detached])]

\* The next fiber of a pass of reconcile, or the end of the pass.
pass ==
    LET k == coordinator
        f == Head(k.fibers)
    IN  /\ k.at = "pass"
        /\ Answered
        /\ \/ /\ k.fibers # <<>> /\ needs_reconciliation(f)
              /\ Ask(f, "start", 0)
              /\ coordinator' = [k EXCEPT !.fibers = Tail(@), !.drove = TRUE]
           \/ /\ k.fibers # <<>> /\ ~needs_reconciliation(f)
              /\ coordinator' = [k EXCEPT !.fibers = Tail(@)]
              /\ UNCHANGED queue
           \/ /\ k.fibers = <<>> /\ k.drove
              /\ coordinator' = [Idle EXCEPT !.at = "pass", !.fibers = snapshot_fibers]
              /\ UNCHANGED queue
           \/ /\ k.fibers = <<>> /\ ~k.drove
              /\ coordinator' = Idle
              /\ UNCHANGED queue
        /\ UNCHANGED <<scope_vars, fiber, calls>>

\* The binding a fiber is committed to or loading with, as pinned entries.
Pinned(f) ==
    LET x == fiber[f]
        binding == IF x.dependency_binding # None THEN x.dependency_binding ELSE x.loading_binding
    IN  IF binding = None THEN {} ELSE {binding[c] : c \in Capabilities} \ {0}

\* The fibers that provide what f is bound to.
Providers(f) == {g \in Fibers : fiber[g].handle \in Pinned(f)}

\* The provider of the retired entry, its dependents, and theirs.
withdrawal_closure(retired) ==
    LET direct == {f \in Fibers : fiber[f].handle = retired \/ retired \in Pinned(f)}
        grow[n \in 0..Cardinality(Fibers)] ==
            IF n = 0 THEN direct
            ELSE grow[n - 1] \cup {f \in Fibers : Providers(f) \cap grow[n - 1] # {}}
    IN  grow[Cardinality(Fibers)]

\* The longest chain of affected providers above f, looking n levels up.
dependency_depth(affected) ==
    LET Above(f) == (Providers(f) \cap affected) \ {f}
        depth[n \in 0..Cardinality(Fibers)] ==
            IF n = 0 THEN [f \in Fibers |-> 0]
            ELSE [f \in Fibers |->
                    IF Above(f) = {} THEN 0
                    ELSE 1 + CHOOSE m \in {depth[n - 1][g] : g \in Above(f)} :
                                 \A g \in Above(f) : depth[n - 1][g] <= m]
    IN  depth[Cardinality(Fibers)]

\* Mutant: providers are drained first.
withdrawal_order_reversed(affected) ==
    LET depth == dependency_depth(affected)
        Before(f) == {g \in affected : depth[g] < depth[f] \/ (depth[g] = depth[f] /\ g < f)}
    IN  [i \in 1..Cardinality(affected) |->
            CHOOSE f \in affected : Cardinality(Before(f)) = i - 1]

\* Deepest first, then by identity.
withdrawal_order(affected) ==
    LET depth == dependency_depth(affected)
        Before(f) == {g \in affected : depth[g] > depth[f] \/ (depth[g] = depth[f] /\ g < f)}
    IN  [i \in 1..Cardinality(affected) |->
            CHOOSE f \in affected : Cardinality(Before(f)) = i - 1]

\* withdraw_and_reconcile of the current entry of c, up to its first await.
withdraw_and_reconcile(c) ==
    LET retired == entries[Home][c]
    IN  /\ coordinator.at = "idle"
        /\ retired # 0
        /\ Scope!withdraw(retired)
        /\ coordinator' = [Idle EXCEPT !.at = "drain", !.retired = retired,
                              !.alone = \A f \in Fibers : fiber[f].call = None /\ queue[f] = <<>>,
                              !.fibers = withdrawal_order(withdrawal_closure(retired))]
        /\ UNCHANGED <<fiber, queue, calls>>

\* The next affected fiber is deactivated; in the end the entry is released.
drain ==
    LET k == coordinator
        f == Head(k.fibers)
    IN  /\ k.at = "drain"
        /\ Answered
        /\ \/ /\ k.fibers # <<>>
              /\ Ask(f, "withdraw", IF fiber[f].handle = k.retired THEN k.retired ELSE 0)
              /\ coordinator' = [k EXCEPT !.fibers = Tail(@)]
           \/ /\ k.fibers = <<>>
              /\ coordinator' = Idle
              /\ UNCHANGED queue
        /\ UNCHANGED <<scope_vars, fiber, calls>>
----------------------------------------------------------------------------
\* What hosts publish themselves.
HostEntries == {e \in 1..Len(published) : published[e].definition \in Definitions[Home]}

\* provide and replace by a host.
Mutation(p) ==
    /\ \/ /\ Cardinality(HostEntries) < MaxMutations
          /\ \E definition \in Definitions[Home] :
                LET current == entries[Home][definition.id]
                    expected == IF current = 0 THEN 0 ELSE published[current].generation
                IN  Scope!publish(p, Home, definition, expected)
       \/ Scope!publish_preconstructed(p)
    /\ UNCHANGED <<fiber, queue, coordinator, calls>>

Next ==
    \/ \E p \in Publishers : Mutation(p)
    \/ \E f \in Fibers :
          \/ \E kind \in {"start", "restart", "dispose"} : request(f, kind)
          \/ Transition(f)
    \/ reconcile \/ pass \/ drain
    \/ \E c \in Capabilities : withdraw_and_reconcile(c)

Spec == Init /\ [][Next]_vars

\* Tasks that can run are run; factories and disposers resolve.
FairSpec ==
    /\ Spec
    /\ \A f \in Fibers : WF_vars(Transition(f))
    /\ WF_vars(pass \/ drain)
----------------------------------------------------------------------------
(* Properties *)

\* Every variable has the shape of the field it stands for, and handles are
\* to entries that were published.
TypeOK ==
    /\ Scope!TypeOK
    /\ fiber \in [Fibers -> Fiber]
    /\ \A f \in Fibers : fiber[f].handle <= Len(published)
    /\ queue \in [Fibers -> Seq(Call)]
    /\ coordinator \in Coordinator
    /\ calls \in 0..MaxCalls

\* "A stale asynchronous transition cannot publish" (M2-C1): what a fiber
\* publishes was built with the entries its scope has at that moment.
NoStalePublication ==
    [][\A f \in Fibers :
          fiber'[f].at = "activate" /\ fiber[f].at # "activate" =>
            LET entry == published'[Len(published')]
            IN  entry.definition = Provides[f]
                /\ \A c \in Provides[f].dependencies :
                      entry.dependencies[c] # 0 /\ entry.dependencies[c] = Scope!get(Home, c)]_vars

\* A fiber at rest that is not Active has left nothing behind: no entry in the
\* scope, no effect that was not disposed, no binding that holds a provider.
NothingLeftBehind ==
    \A f \in Fibers :
        fiber[f].at = "rest" /\ fiber[f].state # "Active" =>
            /\ entries[Home][Provides[f].id] = 0
            /\ ~fiber[f].effects
            /\ fiber[f].handle = 0 /\ Pinned(f) = {}

\* "Dependents quiesce before provider recovery" (M2-C1): when a withdrawal
\* deactivates a fiber, no active fiber is bound to what it provides.  That is
\* promised for "serialized mutation/reconciliation ownership": where a host
\* drives fibers of its own during the withdrawal it does not hold.
DependentsFirst ==
    [][\A f \in Fibers :
          LET x == fiber[f]
          IN  /\ x.at = "unload" /\ x.call.kind = "withdraw" /\ fiber'[f].at # "unload"
              /\ x.handle # 0 /\ coordinator.alone
              => \A g \in Fibers \ {f} :
                    fiber[g].state = "Active" => x.handle \notin Pinned(g)]_vars

\* "A reconciliation call reaches a stable fixpoint" (M2-C1), and a withdrawal
\* comes to its end: the coordinator returns.
CoordinatorReturns == coordinator.at # "idle" ~> coordinator.at = "idle"
=============================================================================
