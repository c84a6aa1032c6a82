---------------------------- MODULE Composition ----------------------------
(***************************************************************************)
(* The life of a composition: its modules are activated in plan order, a   *)
(* failure rolls back what was acquired, and an activated composition is   *)
(* released by shutdown, by the exit of its driver or, best effort, after  *)
(* the driver's owner was lost.  All cleanup runs from a ledger.  The      *)
(* ledger of a driven composition lives in its handle, so that the host    *)
(* may drop a release future at any await, or be unwound by a panicking    *)
(* hook, and come back.  Every composition has one driver, which carries   *)
(* its name.                                                               *)
(***************************************************************************)
EXTENDS Naturals, Sequences, FiniteSets, SequencesExt, ModulePlan

CONSTANTS
    Compositions,
    ModulesOf,      \* the modules of each composition; no module has two
    DependsOn,      \* the dependencies of each module
    PluginsOf,      \* the plugins of each module, in contribution order
    ActivateHooks,  \* the modules with an activate hook
    DisposeHooks,   \* the modules with a dispose hook
    MaxInterrupts,  \* how often a host drops a future or an exit, mixes up two
                    \* exits, or has a hook that panics
    None

Modules == UNION {ModulesOf[c] : c \in Compositions}
Plugins == UNION {ToSet(PluginsOf[m]) : m \in Modules}
PluginsIn(c) == UNION {ToSet(PluginsOf[m]) : m \in ModulesOf[c]}
Order(c) == ActivationOrder(ModulesOf[c], DependsOn)

\* The cleanup steps there can be.
HookStep(m) == <<"hook", m>>
FiberStep(p) == <<"fiber", p>>
RemovalStep(p) == <<"registration", p>>
StepsOf(m) == {HookStep(m)} \cup {FiberStep(p) : p \in ToSet(PluginsOf[m])}
                            \cup {RemovalStep(p) : p \in ToSet(PluginsOf[m])}
Steps == UNION {StepsOf(m) : m \in Modules}

\* What an activated module acquired, the cleanup that is left, the futures of
\* release calls, and reports.
Acquired == [id : Modules, plugins : Seq(Plugins), fibers : Seq(Plugins), armed : BOOLEAN]
Ledger ==
    [queue : Seq(Acquired), current : Modules \cup {None}, hook : BOOLEAN,
     fibers : Seq(Plugins), plugins : Seq(Plugins), clean : BOOLEAN,
     inFlight : Steps \cup {None}, poisoned : BOOLEAN, cleaned : SUBSET Modules,
     failures : SUBSET Steps, accepted : BOOLEAN]
Call == [kind : {"orderly", "refused", "ownerLoss"}, exit : Compositions \cup {None},
         polled : BOOLEAN]
Report == [cleaned : SUBSET Modules, failures : SUBSET Steps]

\* A plan has every module and every plugin once: module and plugin of two
\* compositions are different even when they are built from the same catalog.
ASSUME PlanAssumption ==
    /\ \A c \in Compositions : ModulesOf[c] \subseteq Nat /\ IsFiniteSet(ModulesOf[c])
    /\ \A c, d \in Compositions : c # d => ModulesOf[c] \cap ModulesOf[d] = {}
    /\ \A m \in Modules : PluginsOf[m] \in Seq(Plugins) /\ IsInjective(PluginsOf[m])
    /\ \A m, n \in Modules : m # n => ToSet(PluginsOf[m]) \cap ToSet(PluginsOf[n]) = {}

ASSUME NoneAssumption ==
    /\ None \notin Compositions /\ None \notin Modules /\ None \notin Steps
    /\ None \notin Ledger /\ None \notin Call /\ None \notin Report

VARIABLES
    phase,      \* where each composition is in its life
    at,         \* the module being activated, the stage and the next plugin
    owned,      \* the activated modules with what each acquired
    registry,   \* the plugins in the registry of the composition's runtime
    fiber,      \* "none", "created", "started" or "disposed", per plugin
    ledger,     \* the outstanding cleanup, or None
    call,       \* the release future the host holds on the handle, or None
    driver,     \* the owner state the driver's mailbox shows
    exit,       \* where the driver's exit is
    interrupts, \* how often that has happened
    owed,       \* history: the cleanup steps that activation made necessary
    starts,     \* history: how often each step was started
    outcome,    \* history: how each step ended
    report      \* the report the host was given, or None

activation == <<at, owned, owed>>
release == <<call, driver, exit>>
history == <<owed, starts, outcome, report>>
vars == <<phase, at, owned, registry, fiber, ledger, release, interrupts,
          history>>

----------------------------------------------------------------------------
(* Activation *)

ActivatedModule(m) == [id |-> m, plugins |-> <<>>, fibers |-> <<>>, armed |-> FALSE]

NewLedger(modules) ==
    [queue |-> modules, current |-> None, hook |-> FALSE, fibers |-> <<>>,
     plugins |-> <<>>, clean |-> TRUE, inFlight |-> None, poisoned |-> FALSE,
     cleaned |-> {}, failures |-> {}, accepted |-> FALSE]

Init ==
    /\ phase = [c \in Compositions |-> "planned"]
    /\ at = [c \in Compositions |-> [k |-> 1, stage |-> "enter", i |-> 1]]
    /\ owned = [c \in Compositions |-> <<>>]
    /\ registry = [c \in Compositions |-> {}]
    /\ fiber = [p \in Plugins |-> "none"]
    /\ ledger = [c \in Compositions |-> None]
    /\ call = [c \in Compositions |-> None]
    /\ driver = [c \in Compositions |-> "none"]
    /\ exit = [c \in Compositions |-> "none"]
    /\ interrupts = 0
    /\ owed = [c \in Compositions |-> {}]
    /\ starts = [s \in Steps |-> 0]
    /\ outcome = [s \in Steps |-> "none"]
    /\ report = [c \in Compositions |-> None]

\* The configuration is complete and the runtime was started or restored, or
\* the host is told at once, with an empty report.
Construct(c) ==
    /\ phase[c] = "planned"
    /\ \/ /\ phase' = [phase EXCEPT ![c] = "activating"]
          /\ UNCHANGED report
       \/ /\ phase' = [phase EXCEPT ![c] = "failed"]
          /\ report' = [report EXCEPT ![c] = [cleaned |-> {}, failures |-> {}]]
    /\ UNCHANGED <<at, owned, registry, fiber, ledger, release, interrupts,
                   owed, starts, outcome>>

Activating(c, stage) == phase[c] = "activating" /\ at[c].stage = stage
Module(c) == Order(c)[at[c].k]
Index(c) == Len(owned[c])
Goto(c, stage, i) == at' = [at EXCEPT ![c].stage = stage, ![c].i = i]
Owe(c, steps) == owed' = [owed EXCEPT ![c] = @ \cup steps]

\* Mutant: the module that was being activated is not yet on the list.
RollBackCompletedOnly(c) ==
    /\ phase' = [phase EXCEPT ![c] = "rollingBack"]
    /\ ledger' = [ledger EXCEPT ![c] = NewLedger(SelectSeq(owned[c], LAMBDA a : a.armed))]

\* Activation failed: the modules so far go to a ledger of the startup call.
RollBack(c) ==
    /\ phase' = [phase EXCEPT ![c] = "rollingBack"]
    /\ ledger' = [ledger EXCEPT ![c] = NewLedger(owned[c])]

\* The next module, on the list before it acquires anything, registers all its
\* plugins.  A plan has no plugin twice and the registry is new, so a
\* registration is not refused.
RegisterPlugins(c) ==
    /\ Activating(c, "enter")
    /\ at[c].k <= Len(Order(c))
    /\ LET ps == PluginsOf[Module(c)]
       IN  /\ owned' = [owned EXCEPT ![c] =
                           Append(@, [ActivatedModule(Module(c)) EXCEPT !.plugins = ps])]
           /\ registry' = [registry EXCEPT ![c] = @ \cup ToSet(ps)]
           /\ Owe(c, {RemovalStep(p) : p \in ToSet(ps)})
    /\ Goto(c, "instantiate", 1)
    /\ UNCHANGED <<phase, fiber, ledger, release, interrupts, starts, outcome, report>>

\* A fiber for each plugin; a configuration that its validator rejects leaves
\* the fibers before it created and the module without started ones.
InstantiateFibers(c) ==
    /\ Activating(c, "instantiate")
    /\ \E made \in 0..Len(PluginsOf[Module(c)]) :
          /\ fiber' = [p \in Plugins |->
                          IF p \in ToSet(SubSeq(PluginsOf[Module(c)], 1, made))
                          THEN "created" ELSE fiber[p]]
          /\ IF made = Len(PluginsOf[Module(c)])
             THEN Goto(c, "start", 1) /\ UNCHANGED <<phase, ledger>>
             ELSE RollBack(c) /\ UNCHANGED at
    /\ UNCHANGED <<owned, registry, release, interrupts, history>>

\* The next fiber starts, and from then on is the composition's to dispose;
\* one that fails to start is left to the removal of its registration.
StartFiber(c) ==
    /\ Activating(c, "start")
    /\ at[c].i <= Len(PluginsOf[Module(c)])
    /\ LET p == PluginsOf[Module(c)][at[c].i]
       IN  \/ /\ fiber' = [fiber EXCEPT ![p] = "started"]
              /\ owned' = [owned EXCEPT ![c][Index(c)].fibers = Append(@, p)]
              /\ Owe(c, {FiberStep(p)})
              /\ Goto(c, "start", at[c].i + 1)
              /\ UNCHANGED <<phase, ledger>>
           \/ /\ RollBack(c)
              /\ UNCHANGED <<fiber, activation>>
    /\ UNCHANGED <<registry, release, interrupts, starts, outcome, report>>

\* All fibers run; the activate hook, where there is one, may fail.  A module
\* that completed its activation arms its dispose hook, with or without one.
RunActivateHook(c) ==
    /\ Activating(c, "start")
    /\ at[c].i > Len(PluginsOf[Module(c)])
    /\ \/ /\ owned' = [owned EXCEPT ![c][Index(c)].armed = TRUE]
          /\ at' = [at EXCEPT ![c] = [k |-> @.k + 1, stage |-> "enter", i |-> 1]]
          /\ Owe(c, {HookStep(m) : m \in {Module(c)} \cap DisposeHooks})
          /\ UNCHANGED <<phase, ledger>>
       \/ /\ Module(c) \in ActivateHooks
          /\ RollBack(c)
          /\ UNCHANGED activation
    /\ UNCHANGED <<registry, fiber, release, interrupts, starts, outcome, report>>

\* Every module is active; the reactive runtime is reconciled once.
Reconcile(c) ==
    /\ Activating(c, "enter")
    /\ at[c].k > Len(Order(c))
    /\ \/ /\ phase' = [phase EXCEPT ![c] = "assembly"]
          /\ UNCHANGED ledger
       \/ RollBack(c)
    /\ UNCHANGED <<at, owned, registry, fiber, release, interrupts, history>>

----------------------------------------------------------------------------
(* The owners of an activated composition *)

\* While it holds the assembly, the host can remove a plugin itself; the
\* removal disposes the plugin's fibers.
HostRemoves(c, p) ==
    /\ phase[c] = "assembly"
    /\ p \in registry[c]
    /\ registry' = [registry EXCEPT ![c] = @ \ {p}]
    /\ fiber' = [fiber EXCEPT ![p] = "disposed"]
    /\ UNCHANGED <<phase, at, owned, ledger, release, interrupts, history>>

Shutdown(c) ==
    /\ phase[c] = "assembly"
    /\ phase' = [phase EXCEPT ![c] = "shuttingDown"]
    /\ ledger' = [ledger EXCEPT ![c] = NewLedger(owned[c])]
    /\ UNCHANGED <<at, owned, registry, fiber, release, interrupts, history>>

\* The driver takes the runtime, the handle takes the ledger.
IntoDriver(c) ==
    /\ phase[c] = "assembly"
    /\ phase' = [phase EXCEPT ![c] = "driven"]
    /\ ledger' = [ledger EXCEPT ![c] = NewLedger(owned[c])]
    /\ driver' = [driver EXCEPT ![c] = "Running"]
    /\ UNCHANGED <<at, owned, registry, fiber, call, exit, interrupts, history>>

\* The driver shuts down in order and its task returns the exit to the host.
DriverReturns(c) ==
    /\ driver[c] = "Running"
    /\ driver' = [driver EXCEPT ![c] = "Shutdown"]
    /\ exit' = [exit EXCEPT ![c] = "host"]
    /\ UNCHANGED <<phase, at, owned, registry, fiber, ledger, call, interrupts, history>>

\* The driver is dropped, aborted or unwound, and the runtime with it.
DriverLost(c) ==
    /\ driver[c] = "Running"
    /\ driver' = [driver EXCEPT ![c] = "OwnerDropped"]
    /\ UNCHANGED <<phase, at, owned, registry, fiber, ledger, call, exit, interrupts, history>>

----------------------------------------------------------------------------
(* The cleanup sweep *)

\* Whoever polls a sweep: the startup call, shutdown, or a release future.
Releasing(c, kind) == call[c] # None /\ call[c].kind = kind
HasRegistry(c) == phase[c] \in {"rollingBack", "shuttingDown"} \/ Releasing(c, "orderly")
Sweeping(c) == \/ phase[c] \in {"rollingBack", "shuttingDown"}
               \/ call[c] # None /\ call[c].kind # "refused" /\ call[c].polled

\* The sweep is between two awaits of the cleanup of a module.
Idle(c) == Sweeping(c) /\ ledger[c].inFlight = None
InModule(c) == Idle(c) /\ ledger[c].current # None

\* The module to clean next, and the others.
TakeNext(queue) == <<Last(queue), Front(queue)>>

BeginModule(c) ==
    /\ Idle(c)
    /\ ledger[c].current = None
    /\ ledger[c].queue # <<>>
    /\ LET next == TakeNext(ledger[c].queue)
           m == next[1]
       IN  ledger' = [ledger EXCEPT
               ![c].queue = next[2], ![c].current = m.id,
               ![c].hook = m.armed /\ m.id \in DisposeHooks,
               ![c].fibers = m.fibers, ![c].plugins = m.plugins, ![c].clean = TRUE]
    /\ UNCHANGED <<phase, at, owned, registry, fiber, release, interrupts, history>>

\* A step is started, and its future parked in the ledger.
Park(c, step, rest) ==
    /\ ledger' = [ledger EXCEPT ![c] = [rest EXCEPT !.inFlight = step]]
    /\ starts' = [starts EXCEPT ![step] = @ + 1]

\* Mutant: the hook is forgotten only when its future has completed.
StartHookAgain(c) ==
    /\ InModule(c)
    /\ ledger[c].hook
    /\ Park(c, HookStep(ledger[c].current), ledger[c])
    /\ UNCHANGED <<phase, at, owned, registry, fiber, release, interrupts, owed,
                   outcome, report>>

StartHook(c) ==
    /\ InModule(c)
    /\ ledger[c].hook
    /\ Park(c, HookStep(ledger[c].current), [ledger[c] EXCEPT !.hook = FALSE])
    /\ UNCHANGED <<phase, at, owned, registry, fiber, release, interrupts, owed,
                   outcome, report>>

StartFiberDisposal(c) ==
    /\ InModule(c)
    /\ ~ledger[c].hook
    /\ ledger[c].fibers # <<>>
    /\ Park(c, FiberStep(Last(ledger[c].fibers)),
            [ledger[c] EXCEPT !.fibers = Front(@)])
    /\ UNCHANGED <<phase, at, owned, registry, fiber, release, interrupts, owed,
                   outcome, report>>

AtPlugins(c) ==
    /\ InModule(c)
    /\ ~ledger[c].hook
    /\ ledger[c].fibers = <<>>
    /\ ledger[c].plugins # <<>>

\* The registration leaves the registry and the ledger together; the disposal
\* of its fibers is parked.
TakeRegistration(c) ==
    /\ AtPlugins(c)
    /\ HasRegistry(c)
    /\ LET p == Last(ledger[c].plugins)
       IN  /\ p \in registry[c]
           /\ registry' = [registry EXCEPT ![c] = @ \ {p}]
           /\ Park(c, RemovalStep(p), [ledger[c] EXCEPT !.plugins = Front(@)])
    /\ UNCHANGED <<phase, at, owned, fiber, release, interrupts, owed, outcome, report>>

\* Someone else unregistered the plugin: nothing is left to do.
RegistrationGone(c) ==
    /\ AtPlugins(c)
    /\ HasRegistry(c)
    /\ LET p == Last(ledger[c].plugins)
       IN  /\ p \notin registry[c]
           /\ outcome' = [outcome EXCEPT ![RemovalStep(p)] = "gone"]
    /\ ledger' = [ledger EXCEPT ![c].plugins = Front(@)]
    /\ UNCHANGED <<phase, at, owned, registry, fiber, release, interrupts, owed,
                   starts, report>>

\* The registry went with the runtime: the registration is reported.
RegistrationLost(c) ==
    /\ AtPlugins(c)
    /\ ~HasRegistry(c)
    /\ LET step == RemovalStep(Last(ledger[c].plugins))
       IN  /\ ledger' = [ledger EXCEPT ![c].plugins = Front(@), ![c].clean = FALSE,
                                       ![c].failures = @ \cup {step}]
           /\ outcome' = [outcome EXCEPT ![step] = "lost"]
    /\ UNCHANGED <<phase, at, owned, registry, fiber, release, interrupts, owed,
                   starts, report>>

\* The fibers a step disposes of; a disposed one is disposed of again for free.
FibersOf(step) ==
    {p \in Plugins : step[1] # "hook" /\ step[2] = p /\ fiber[p] \in {"created", "started"}}

\* The parked future completes.  A hook or a fiber's effects may fail; a step
\* that finds nothing to dispose does not.
StepEnds(c) ==
    /\ Sweeping(c)
    /\ ledger[c].inFlight # None
    /\ ~ledger[c].poisoned
    /\ LET step == ledger[c].inFlight
       IN  /\ fiber' = [p \in Plugins |-> IF p \in FibersOf(step) THEN "disposed" ELSE fiber[p]]
           /\ \/ /\ ledger' = [ledger EXCEPT ![c].inFlight = None]
                 /\ outcome' = [outcome EXCEPT ![step] = "ok"]
              \/ /\ step[1] = "hook" \/ FibersOf(step) # {}
                 /\ ledger' = [ledger EXCEPT ![c].inFlight = None, ![c].clean = FALSE,
                                             ![c].failures = @ \cup {step}]
                 /\ outcome' = [outcome EXCEPT ![step] = "failed"]
    /\ UNCHANGED <<phase, at, owned, registry, release, interrupts, owed, starts, report>>

FinishModule(c) ==
    /\ InModule(c)
    /\ ~ledger[c].hook
    /\ ledger[c].fibers = <<>>
    /\ ledger[c].plugins = <<>>
    /\ ledger' = [ledger EXCEPT ![c].current = None, ![c].clean = TRUE,
                     ![c].cleaned = @ \cup {m \in {ledger[c].current} : ledger[c].clean}]
    /\ UNCHANGED <<phase, at, owned, registry, fiber, release, interrupts, history>>

\* The sweep is through: the ledger is given up and the host gets the report,
\* on the orderly path together with the runtime out of the exit.
SweepReturns(c) ==
    /\ Idle(c)
    /\ ledger[c].current = None
    /\ ledger[c].queue = <<>>
    /\ report' = [report EXCEPT ![c] = [cleaned  |-> ledger[c].cleaned,
                                        failures |-> ledger[c].failures]]
    /\ ledger' = [ledger EXCEPT ![c] = None]
    /\ phase' = [phase EXCEPT ![c] = CASE @ = "rollingBack" -> "failed"
                                       [] @ = "shuttingDown" -> "stopped"
                                       [] @ = "driven" -> @]
    /\ exit' = [exit EXCEPT ![c] = IF Releasing(c, "orderly") THEN "consumed" ELSE @]
    /\ call' = [call EXCEPT ![c] = None]
    /\ UNCHANGED <<at, owned, registry, fiber, driver, interrupts, owed, starts, outcome>>

----------------------------------------------------------------------------
(* Release of a driven composition *)

\* One more thing goes wrong on the host's side.
Interrupt == interrupts < MaxInterrupts /\ interrupts' = interrupts + 1

\* Mutant: an exit is taken from whichever driver it comes.
AcceptAnyExit(c, d) == ledger[c] # None /\ ~ledger[c].accepted

\* The exit is this composition's, and the ledger can still use it.
AcceptsExit(c, d) ==
    /\ d = c
    /\ ledger[c] # None
    /\ ~ledger[c].accepted

\* The host passes the exit of driver d to the handle of c.  The decision is
\* taken at the call, before the returned future is polled; that future owns
\* the exit, of a refused call too.
DisposeAfterDriver(c, d) ==
    /\ phase[c] = "driven"
    /\ call[c] = None
    /\ exit[d] = "host"
    /\ IF d = c THEN UNCHANGED interrupts ELSE Interrupt
    /\ exit' = [exit EXCEPT ![d] = "future"]
    /\ IF AcceptsExit(c, d)
       THEN /\ ledger' = [ledger EXCEPT ![c].accepted = TRUE]
            /\ call' = [call EXCEPT ![c] = [kind |-> "orderly", exit |-> d, polled |-> FALSE]]
       ELSE /\ call' = [call EXCEPT ![c] = [kind |-> "refused", exit |-> d, polled |-> FALSE]]
            /\ UNCHANGED ledger
    /\ UNCHANGED <<phase, at, owned, registry, fiber, driver, history>>

\* The first poll takes the runtime out of the accepted exit.
FirstPoll(c) ==
    /\ Releasing(c, "orderly")
    /\ ~call[c].polled
    /\ call' = [call EXCEPT ![c].polled = TRUE]
    /\ UNCHANGED <<phase, at, owned, registry, fiber, ledger, driver, exit, interrupts, history>>

\* A refused call is polled and hands the exit back.
RefusalReturns(c) ==
    /\ Releasing(c, "refused")
    /\ exit' = [exit EXCEPT ![call[c].exit] = "host"]
    /\ call' = [call EXCEPT ![c] = None]
    /\ UNCHANGED <<phase, at, owned, registry, fiber, ledger, driver, interrupts, history>>

\* Mutant: an orderly shutdown never admits the best-effort release.
LossOnly(c) == driver[c] = "OwnerDropped"

\* The owner is gone, or the exit went with an interrupted orderly release.
AuthorityLost(c) ==
    \/ driver[c] = "OwnerDropped"
    \/ driver[c] = "Shutdown" /\ ledger[c].accepted

\* Refused calls leave everything as it is and are not steps of their own.
ReleaseAfterOwnerLoss(c) ==
    /\ phase[c] = "driven"
    /\ call[c] = None
    /\ ledger[c] # None
    /\ AuthorityLost(c)
    /\ call' = [call EXCEPT ![c] = [kind |-> "ownerLoss", exit |-> None, polled |-> TRUE]]
    /\ UNCHANGED <<phase, at, owned, registry, fiber, ledger, driver, exit, interrupts, history>>

----------------------------------------------------------------------------
(* Interruptions *)

\* The future that polls the sweep of c is gone.  A startup or shutdown call
\* takes the ledger and the runtime with it; a release future takes at most
\* the exit, and the handle keeps the ledger l.
FutureGone(c, l) ==
    /\ IF phase[c] = "driven"
       THEN /\ ledger' = [ledger EXCEPT ![c] = l]
            /\ exit' = [d \in Compositions |->
                           IF call[c] # None /\ call[c].exit = d THEN "lost" ELSE exit[d]]
            /\ call' = [call EXCEPT ![c] = None]
            /\ UNCHANGED phase
       ELSE /\ ledger' = [ledger EXCEPT ![c] = None]
            /\ phase' = [phase EXCEPT ![c] = "abandoned"]
            /\ UNCHANGED <<call, exit>>
    /\ UNCHANGED <<at, owned, registry, fiber, driver, history>>

\* The host drops the future it polls: a release or shutdown future before its
\* first poll, and any at an await of the activation or of the sweep.
DropFuture(c) ==
    /\ Interrupt
    /\ \/ call[c] # None /\ ~call[c].polled
       \/ phase[c] = "shuttingDown" /\ ledger[c] = NewLedger(owned[c])
       \/ Sweeping(c) /\ ledger[c].inFlight # None
       \/ Activating(c, "start")
       \/ Activating(c, "enter") /\ at[c].k > Len(Order(c))
    /\ FutureGone(c, ledger[c])

\* Mutant: the hook is taken out of the ledger before it is called.
HookPanicsTaken(c) ==
    /\ Interrupt
    /\ InModule(c)
    /\ ledger[c].hook
    /\ FutureGone(c, [ledger[c] EXCEPT !.hook = FALSE])

\* The dispose hook panics before it has made a future; it stays in the ledger.
HookPanics(c) ==
    /\ Interrupt
    /\ InModule(c)
    /\ ledger[c].hook
    /\ FutureGone(c, ledger[c])

\* A parked future panics when it is polled, and does so ever after.
StepPanics(c) ==
    /\ Sweeping(c)
    /\ ledger[c].inFlight # None
    /\ IF ledger[c].poisoned THEN UNCHANGED interrupts ELSE Interrupt
    /\ FutureGone(c, [ledger[c] EXCEPT !.poisoned = TRUE])

\* The host throws away the exit of a driver that returned.
DropExit(c) ==
    /\ Interrupt
    /\ exit[c] = "host"
    /\ exit' = [exit EXCEPT ![c] = "lost"]
    /\ UNCHANGED <<phase, at, owned, registry, fiber, ledger, call, driver, history>>

----------------------------------------------------------------------------

Activate(c) ==
    \/ Construct(c) \/ RegisterPlugins(c) \/ InstantiateFibers(c) \/ StartFiber(c)
    \/ RunActivateHook(c) \/ Reconcile(c)

Sweep(c) ==
    \/ BeginModule(c) \/ StartHook(c) \/ StartFiberDisposal(c) \/ TakeRegistration(c)
    \/ RegistrationGone(c) \/ RegistrationLost(c) \/ StepEnds(c) \/ FinishModule(c)
    \/ SweepReturns(c)

Own(c) ==
    \/ \E p \in PluginsIn(c) : HostRemoves(c, p)
    \/ Shutdown(c) \/ IntoDriver(c) \/ DriverReturns(c) \/ DriverLost(c)

Release(c) ==
    \/ \E d \in Compositions : DisposeAfterDriver(c, d)
    \/ FirstPoll(c) \/ RefusalReturns(c) \/ ReleaseAfterOwnerLoss(c)

Disturb(c) == DropFuture(c) \/ HookPanics(c) \/ StepPanics(c) \/ DropExit(c)

Next == \E c \in Compositions :
            Activate(c) \/ Own(c) \/ Sweep(c) \/ Release(c) \/ Disturb(c)

Spec == Init /\ [][Next]_vars

\* The futures the host holds are polled and complete, a driver ends, and the
\* host comes back with the exit, or without one where there is none.
Fairness == \A c \in Compositions :
    /\ WF_vars(Activate(c))
    /\ WF_vars(Sweep(c))
    /\ WF_vars(DriverReturns(c) \/ DriverLost(c))
    /\ WF_vars(DisposeAfterDriver(c, c))
    /\ WF_vars(FirstPoll(c) \/ RefusalReturns(c))
    /\ WF_vars(ReleaseAfterOwnerLoss(c))

FairSpec == Spec /\ Fairness

----------------------------------------------------------------------------

\* The report names every module and every step that activation made
\* necessary: a module is clean exactly when all its steps ran and succeeded,
\* and what failed or could not be done is listed, also when several sweeps
\* with interruptions between them did the work.
ReportIsExact ==
    \A c \in Compositions : report[c] # None =>
        /\ \A s \in owed[c] : outcome[s] # "none"
        /\ report[c].failures = {s \in owed[c] : outcome[s] \in {"failed", "lost"}}
        /\ report[c].cleaned = {a.id : a \in {b \in ToSet(owned[c]) :
                                   StepsOf(b.id) \cap report[c].failures = {}}}

\* No hook, fiber disposal or removal is started twice, whatever was dropped,
\* panicked, refused or called again (run_sweep awaits a step in place), and
\* nothing of a module is touched before every module that depends on it has
\* been cleaned up (deterministic_order, and the sweep's reverse order).
OnceAndDependentsFirst ==
    /\ \A s \in Steps : starts[s] <= 1
    /\ \A c \in Compositions : \A m \in ModulesOf[c] : \A d \in DependsOn[m] :
          (\E s \in StepsOf(d) : starts[s] > 0) =>
              \A s \in owed[c] \cap StepsOf(m) : outcome[s] # "none"

\* A startup that failed, a shutdown and an orderly release leave no plugin
\* registered and no fiber undisposed, those that were created and never
\* started included.
NothingLeftBehind ==
    \A c \in Compositions :
        (phase[c] \in {"failed", "stopped"} \/ exit[c] = "consumed") =>
            /\ registry[c] = {}
            /\ \A p \in PluginsIn(c) : fiber[p] \in {"none", "disposed"}

\* As long as a driver's exit can still be presented, nothing of its
\* composition has been released and an orderly release is still possible,
\* whatever exits were passed to whichever handle.
ExitKeepsAuthority ==
    \A c \in Compositions :
        (exit[c] = "host" \/ \E h \in Compositions : Releasing(h, "refused") /\ call[h].exit = c)
            => /\ ledger[c] # None
               /\ ~ledger[c].accepted
               /\ \A m \in ModulesOf[c] : \A s \in StepsOf(m) : starts[s] = 0

\* No path is left: the exit was thrown away before the handle accepted it.
Stranded(c) == exit[c] = "lost" /\ ledger[c] # None /\ ~ledger[c].accepted

\* A host that comes back after every interruption gets every driven
\* composition released, unless it threw the exit away itself or a parked
\* future panicked.
EventuallyReleased ==
    \A c \in Compositions :
        phase[c] = "driven" ~> \/ ledger[c] = None
                               \/ Stranded(c)
                               \/ ledger[c] # None /\ ledger[c].poisoned
============================================================================
