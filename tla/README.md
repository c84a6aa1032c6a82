# Verification of kernis

TLA+ models, model-checking runs and machine-checked proofs for the kernis
runtime kernel: the workflow graph, the durable store, the runtime core that
drives tasks and external effects through crashes, its asynchronous driver, the
capability scopes that tasks pin their dependencies in, and the loader, planner
and composition that bring modules up and down.

## 1. The system

kernis executes one *run*: a graph of tasks, some of which have an external
effect. Its authorities are kept apart on purpose.

| Part | Source | State | Operations | Interacts with |
|---|---|---|---|---|
| Workflow graph | `crates/workflow-graph` | tasks, dependencies, topology revision, mutation log, completion log | `apply_batch`, `complete`, `ready_tasks`, `replay_with_facts` | owned by the runtime; rebuilt from logs on restore |
| Durable facts | `workflow-recovery/durable.rs` | admissions, intents, cancellations, dispatches, outcomes, completions, histories, replay identity | `apply_mutation` | applied to a candidate by the store, applied again by ledger replay |
| Durable store | `durable.rs`, `physical.rs` | one row per run: facts, revision, commit ledger, idempotency index | `create_run`, `load_run`, `commit` | called by every runtime on the run |
| Journal and recovery | `journal.rs`, `recovery.rs` | the effect facts as the runtime knows them | `persist_*`, `classify_recovery` | a view inside the runtime |
| Runtime core | `runtime-core/lib.rs` | workflow, journal, expected revision, attempts, pending start, configuration, event buffers | `start_run*`, `restore_run*`, `step`, `dispatch_effect`, `record_effect_outcome`, `recover`, `cancel_task`, `configure_task`, `apply_workflow_mutation`, `retry_execution_event`, drains | store, workflow, streams, capability scope, host |
| Asynchronous driver | `runtime-core/async_driver.rs` | mailbox, owner state, returned lifecycle item | commands, `shutdown`, owner drop | owns a runtime; handles submit commands |
| Definition | `runtime-core/definition.rs` | a definition as authored, a factory registry | validation, completion by implicit declarations, canonical identity | start and restore build a workflow and a scope from it |
| Execution streams | `execution-stream` | sequencer, tracker, lossless, coalescing and lossy buffers | `emit`, `observe`, `try_push`, `pop` | runtime emits, host drains |
| Capability scopes | `capability-graph/runtime.rs`, `resolver.rs` | immutable snapshots of entries with generations | `provide`, `replace`, `withdraw`, `teardown`, `child` | fibers publish, attempts pin |
| Capability fibers, reactive runtime | `semantic.rs`, `reactive.rs` | fiber states and epochs, registry, effect stack | load, unload, dispose, `reconcile`, `withdraw_and_reconcile` | scopes, plugins |
| Loader | `runtime-loader` | a catalog of module references | `resolve`, hand-over to a builder | registrations go to the composition builder |
| Composition, plan | `runtime-composition/plan.rs` | registrations by module, activation order, slots | `register`, `build`, `start*`, `restore` | merges a run definition; builds a runtime |
| Composition, life | `runtime-composition/assembly.rs` | activated modules, cleanup ledger, handle | activation, rollback, `shutdown`, `into_driver`, `dispose_after_driver`, `release_after_owner_loss` | registry and fibers of the runtime, the driver's owner state and exit |

What is hard about it:

* **Crashes between durable commits.** `step` and `dispatch_effect` commit up to
  three times; the process can die between any two, or be told that a commit
  failed that took effect.
* **Views that lag.** The runtime decides from a journal in memory and is
  protected by a compare-and-swap on the revision; idempotency keys bypass that
  compare-and-swap on purpose.
* **Effects that must not be repeated.** A non-idempotent operation whose
  outcome is unknown may never be dispatched again.
* **Backpressure on lossless events** in the middle of a call.
* **Replay on the final topology.** Completions are replayed after all topology
  changes, so every accepted change must keep old completions valid.
* **Several planners, several clients** on one graph or one run.
* **Wakers and locks in the driver.** A command is queued, taken, answered and
  woken in separate critical sections, while futures are dropped and the owner
  may be lost between any two.
* **Construction outside the lock.** A capability is admitted, constructed
  without any lock and published later, in a tree of scopes that others change
  and tear down meanwhile; entries keep the old epochs they were built with.
* **Fibers that wait.** A fiber's factory and disposers are asynchronous; hosts
  and the reactive coordinator queue for its transition lock, and what it was
  resolved against may be replaced before it publishes.
* **Cleanup that is interrupted.** A composition is released by futures that the
  host may drop at every await, by hooks that may panic before or after they have
  made a future, and with an exit that may be lost, mixed up with another, or
  never exist. What was started may not be started again, what was not may not be
  forgotten, and the report has to say which is which.
* **Validators that must agree.** The loader, the builder, the definition and the
  runtime each check graphs and identities with code of their own; what one passes
  on, the next one must not refuse.

The properties that make each part correct: the *workflow graph* stays acyclic,
replays to itself, and always has a ready task until it is done; the *facts* form
a lineage and are final; the *ledger* rebuilds the row; the *runtime* keeps the
effect contract (`EffectContract`), can be restored, never loses or
reorders a lifecycle event, and comes to rest; the *driver* answers every command
truthfully, loses no wake-up, and hands every lifecycle item out once, in order,
also across a shutdown; a *scope* never publishes a stale or cyclic graph, stays
closed once torn down, and finds a teardown order; a *fiber* publishes nothing
stale, leaves nothing behind and stays disposed, and the *coordinator* withdraws
dependents first and returns; a *composition* that fails, stops or is released
leaves nothing behind, cleans up every step once and dependents first, reports it
exactly, and can be released as long as its exit or its ledger allows; the
*loader* reports the right reference by the right path; a *plan* orders modules
by their dependencies and can be started; a *run* is restored exactly from a
definition that means what it was started with.

## 2. Modules

| Module | Models |
|---|---|
| `Dag` | the reference definition of a cycle, shared by `WorkflowGraph`, `CyclePath`, `ModuleLoader` and `CapabilityScope` |
| `WorkflowGraph` | topology and facts; planners that read a snapshot and apply a batch later; a scheduler that completes tasks; replay as operators |
| `CyclePath` | the depth-first search of `cycle_path`/`visit`, one step per call, return or loop turn; a component that others start on a graph of theirs |
| `DurableFacts` | `DurableRunState` and `apply_mutation` as operators (`XOK` says when a mutation is accepted, the participle what it adds) |
| `DurableStore` | the store with clients that race, lose answers and retry |
| `EffectContract` | the abstract promise about effects and completions |
| `Runtime` | runtimes over `DurableStore`; instantiates `EffectContract` with a refinement mapping |
| `AsyncDriver` | `RuntimeDriver`, its mailbox, handles, response channels and owner guard, by critical section |
| `CapabilityScope` | a tree of scopes: admission, construction, publication, withdrawal, child scopes, teardown |
| `CapabilityFiber` | fibers and the reactive coordinator over one scope of `CapabilityScope`, whose operations it calls |
| `RunDefinition` | definitions, their validators, implicit declarations and the canonical identity, as operators; `Meaning` is the reference for the identity |
| `ModulePlan` | the reference for the activation order |
| `CompositionBuilder` | the validators of a set of registrations and the merged definition, as operators |
| `ModuleLoader` | `RuntimeLoader::resolve`: roots, closure level by level, cycle search, construction |
| `Planning` | loader, builder, definition, construction and restore as one pipeline that searches with `CyclePath` |
| `Composition` | the life of activated compositions: activation, rollback, shutdown, driver, the cleanup sweep, both releases, interruptions |
| `WorkflowGraphProofs`, `DurableStoreProofs`, `AsyncDriverProofs`, `CapabilityScopeProofs`, `CapabilityFiberProofs`, `PlanningProofs`, `CompositionProofs` | the proofs about these components; `PlanningProofs` covers `CyclePath` and `ModuleLoader`, which `Planning` extends |
| `RuntimeProofs` | the proofs about `Runtime`, and that it implements `EffectContract` |
| `MC*` | instances for TLC |

**State and actions.** Variables and fields have the names of the Rust fields; a
map is a total function with `None` for an absent key. `WorkflowGraph` has the
actions `ReadTopology` (a planner clones the graph), `apply_batch` and
`complete`. `DurableStore` has `create_run`, `load_run` and `commit`, the last of
which is a fresh commit or a replay under a bound key; a refused request changes
nothing and is no action. In `Runtime` one action is one durable commit with the
memory updates up to the next one. `rt[r].call` holds the rest of the call:
`"identity"` is the second half of `start_with_identity`, `"effect"` the match of
`step_task` after an intent was recorded, `"complete"` the completion of a plain
task after its admission, `"dispatch"` the dispatch after an admission. `resume`
goes on, `fail` is a refused or unavailable store, `crash` drops the memory, and
with `MayLoseAnswers` a commit takes effect while the call fails. `granted`
counts the times `dispatch_effect` returned `Ok`, which is when a host runs the
effect. `held` are the items `ExecutionBackpressure` handed back.

In `AsyncDriver` the task that runs `RuntimeDriver::run` is `driver`, with its
place in the code in `driver.at` and the sender it owns in `driver.command`; a
client's task is in `client`. Submitting and calling the owner's waker are two
steps, and so are completing a response and dropping its sender, because another
thread can run in between. The runtime is reduced to what a call does to the
lifecycle stream; a call may also fail. `lose_owner` drops or unwinds the owner at
any of its steps.

In `CapabilityScope` `publish` is the part of `provide` and `replace` up to the
factory, under the read lock; `publish_preconstructed` or `construction_fails`
follows, and anything may happen in between. `published` is the history of
entries, in which an entry is known by its `entry_id`; `entries` are the maps of
the scopes. `withdraw` takes the generation of any handle ever given out. A
teardown whose graph does not resolve sets `poisoned`, after which nothing that
needs the lock succeeds.

In `CapabilityFiber` a call is in `queue[f]` until it gets the transition lock,
then in `fiber[f].call`, with its place in the code in `at` and, for an unload or
a discarded attempt, what follows in `then`. Steps end at the awaits of factory,
disposers and lock, and around the publication. `request` is what `restart`,
`update` and `dispose` do before they wait for the lock. `coordinator` runs one
`reconcile` (`pass`) or one `withdraw_and_reconcile` (`drain`), and the next call
it makes waits until the previous one was answered. `alone` records whether a
host's call overlaps a withdrawal.

In `Composition` every composition goes through `phase`; `at` is the place of its
activation. `ledger[c]` is `CleanupLedger` with the step whose future is parked in
`inFlight` and the report in `cleaned` and `failures`; `call[c]` is the release
future the host holds, `exit[c]` where the driver's exit is: with the host, inside
such a future, consumed or lost. A step of a sweep ends where the code awaits.
`DropFuture`, `HookPanics` and `StepPanics` end the future that polls the sweep; a
startup or shutdown call takes its ledger with it (`"abandoned"`: the code does not
make them safe to cancel, as `shutdown` documents), a release future does not. `poisoned`
is a parked future that panicked and would panic again. `owed`, `starts` and
`outcome` are histories of the cleanup steps that activation made necessary. A
release that is refused for good (`AlreadyReleased`, `OwnerStillRunning`,
`OrderlyShutdownCompleted`) changes nothing and is no step; the answer
`OrderlySweepInterrupted` cannot be reached, because a second exit of the same
driver does not exist.

In `Planning` a host comes with an input and `stage` says how far the pipeline is.
The graph searches are steps of `CyclePath`, the closure goes level by level, and
Kahn's loop one module at a time; the validators that only look something up are
one operator each, and a refusal is the name of the check with its path, where
the code reports one. The search of an empty task graph stands for the batch the
code skips. `Restart` is a new process, with some definition, on the store of the
run or on one with an identity of the first format or none.

**Abstractions.** Identifiers, labels, keys and identities are model values or
tuples. The workflow replay identity is the configuration it encodes, because the
encoding is length-prefixed and injective. The capabilities a task requires and
the identities it pins are one value, `pins`. The topology inside `Runtime` is a
constant. `outcome_history` is left out: only its content per attempt is read.
The progress and telemetry drains of the driver follow the path of the execution
drain and are not repeated. Capability values, kinds and replay identities are
left out, and what a graph resolves to is reduced to whether it does. The effects
of a fiber are one bit, whether a scope that may hold some is open, and its
disposers always resolve (their errors are only collected). The closure of a
withdrawal is computed in one step; its awaits are on locks nobody holds for long.
Errors are the absence of a step. In the planning modules names are numbers,
because the code keeps them in ordered maps and every tie goes to the smallest. A
canonical identity is the sequence of its tokens: the code delimits each value by
its length, which makes it one token. Text forms of references, the frozen
encoding of the first format, and configuration values are left out.

## 3. Runs

| Run | Bounds | What it shows |
|---|---|---|
| `workflow_graph` | 3 tasks, 2 planners, batches of at most 2 mutations, 3 revisions, symmetry on tasks and planners | types; replay reproduces the graph; a ready task until all are complete; no batch lands on a topology its planner has not read |
| `durable_store` | 2 tasks, 1 operation, 2 attempts, 2 clients, 7 revisions | lineage; the ledger is accepted and rebuilds the row; facts are final; no dispatch after a cancellation |
| `runtime` | a plain task before a non-idempotent effect, each with either of 2 pins (symmetry), the first reconfigured once at any moment, at most 2 attempts per task, buffer of 1, 8 revisions, lost answers | observations are durable; nothing lost, nothing reordered; only an attempt whose task was given other capabilities is refused by a restore; one attempt until the first dispatch; the effect contract |
| `runtime_liveness` | an idempotent effect before a plain task, crashes anywhere, 20 revisions | a runtime at the head of the store has seen every fact; the run comes to rest |
| `runtime_known_outcome` | as `runtime_liveness`, with lost answers | **violation**: a durable success is dispatched again |
| `async_driver` | 2 clients with symmetry, waking, draining and shutting down, buffer of 1, 2 items | no lost wake-up; true answers; every item in one place |
| `async_driver_commands` | 1 client, every command, buffer of 2, 4 items, fairness | drains follow the order of emission; a run that returns has settled everything; every awaited command is answered |
| `capability_scope` | a scope and its child, 3 capabilities with 5 definitions, 2 constructors with symmetry, 5 publications, 1 withdrawal | no stale publication; visible graphs resolve; a root can be torn down |
| `capability_teardown` | as above, 1 constructor, no withdrawal | **violation**: tearing a child down panics |
| `capability_fiber` | a chain of 2 fibers, the dependent created first, on a host's capability published twice; 1 call of a host, withdrawals until 2 entries are gone, fairness | nothing left behind; nothing stale published; dependents first; the coordinator returns |
| `composition` | 2 compositions, one of 2 modules with hooks, 2 plugins in one and 1 in the other, and one without modules; 2 interruptions, fairness | every cleanup step at most once and dependents first; exact reports; nothing left behind; an exit keeps its authority; what was driven is released |
| `planning` | five families of inputs: catalogs of 3 references, two of them versions of one module; 3-module graphs; registrations from pools of contributions; definitions over all 3-task graphs and 4-task graphs with 4 or 5 dependencies; pairs of definitions across a restart | exact searches, loader errors and order; an accepted plan can be started; restored exactly when the meaning is the same; every call is answered |

**Why the bounds are enough.** Three tasks are the smallest graph in which two
accepted batches can close a cycle through a third task; four nodes have shared
subtrees, several roots and cycles off the root. In the store run, the seven
revisions hold an intent, two admissions, two dispatches, an outcome and one
further fact, so that a second dispatch, a late outcome and a conflicting
completion all occur, and the last revision is reached. In the runtime run eight
revisions are exactly those of a complete run of both tasks, and a buffer of one
makes every second event meet backpressure. Two values of `pins` make a
reconfiguration change what a restart compares, and let a bootstrap be taken over
with another configuration than the one it was begun with. `MaxPerTask` bounds the attempts of a
task, which crashes would otherwise make unlimited, and `MaxReconfigured` the
reconfigurations of a run, each of which makes another history. In the driver runs two
channels per client let a sender outlive its future, two clients are what a race
for the mailbox or for the final events needs, and four items are one more than
a full buffer and a pending one. In the scope run five publications are
enough for two constructors, or a parent and its child, to close a cycle
over three capabilities, and for an old snapshot to contradict a new
entry. In the fiber run the chain has a dependent that a withdrawal reaches
only through another fiber, the second publication of the host replaces what a
factory is working with, and a host's call meets those of the coordinator at
every place; `MaxEntries` is above what these bounds let the fibers publish.
In the composition run the first composition has what order needs, a dependent and
its dependency, and what rollback needs, fibers created and not started; the second
is there for its exit. Two interruptions are a drop and another one of the call
that goes on, or a mixed-up exit and a drop. In the planning run three references
are enough for a shared dependency, a cycle that is entered from outside, and a
missing reference that is found at two levels; the pools hold, for every clause of
every validator, a contribution that breaks it and one that does not.

**Type invariants.** `TypeOK` of every module that has one (`RuntimeTypeOK` of
`Runtime`) documents the shape of the state. That of `WorkflowGraph` is checked by
its run; those of `WorkflowGraph`, `DurableStore`, `Runtime`, `AsyncDriver`,
`CapabilityScope` and `Composition` (`TypeInv`) are proved. The types of `Planning` and
`CapabilityFiber` are part of their inductive invariants, without the bound on
entries that `TypeOK` of `CapabilityFiber` takes from its scope.

**Deadlock** is checked in the driver runs, where clients can always submit and be
refused. It is not checked elsewhere: a run ends, all scopes may be closed, a
composition is released, a host has its answer.

**Fairness.** `Planning` has weak fairness on its only process, a synchronous
computation in the host's thread, and none on `Restart`. `FairSpec` of
`Runtime` has strong fairness on the calls of the host (`step`, `dispatch_effect`,
recording an outcome, draining, retrying, starting and restoring) and on
`resume`. The code has no scheduler of its own, it acts when called, so this is a
host that keeps calling and not a process that fails before every commit. There
is no fairness on `crash`, `fail`, `cancel_task` or `recover`. Lost answers are
off in this run: a runtime that missed one is refused by the compare-and-swap
until it repeats that very request or is restarted, which the code leaves to
the host. `FairSpec` of `AsyncDriver` has weak fairness on the owner's task and on
each client's task: an executor polls what was woken, and the future of an
effect adapter resolves. Nothing makes a client submit, drop a future, or lose
the owner. `FairSpec` of `CapabilityFiber` has weak fairness on every fiber's task
and on the coordinator: woken tasks are run, the transition lock is fair, and
factories and disposers resolve, successfully or not. `Fairness` of `Composition`
has the futures a host holds polled until they return, a driver that ends in one
way or the other, and a host that comes back: with its own exit while it has it,
with `release_after_owner_loss` where that is admitted. Nothing makes a host drop a
future, mix up exits or throw one away, and what it may do wrong is bounded by
`MaxInterrupts`; `EventuallyReleased` names the two ends from which the code has no
way back, an exit thrown away before it was accepted and a future that panics.

**Findings.** `runtime_known_outcome`: a replayed commit answers with the head
revision and `commit_durable` adopts it, although the journal was not rebuilt.
From then on the compare-and-swap no longer proves that the view is current
(`ViewIsCurrent` holds only without lost answers and with one runtime).
`capability_teardown`: the graph of a teardown mixes
current entries with the snapshots they were built from, and admission never
looks at that mixture. `RootTeardownFindsOrder` shows that a root scope is safe
as long as nothing is withdrawn, because every current entry then hides its older
snapshots.

Seen while modelling and not the subject of a run: `configure_task` does not look
whether the task is completed, nor whether it has an attempt. With other required
capabilities the identity of the run changes and the pins of the recorded attempt do
not, so that `restore_run` refuses the old configuration for its identity and the new
one for the pins, although "if completion is already committed, restore reconstructs
the completed graph" (`M2-B-durable-state-model.md:85`). `FixedPins` are the tasks
that are spared this; `RestoresUnlessRepinned` says that nothing else makes a restart
refuse the facts of a run, and the `runtime` run, in which the first task may be given
other pins after its admission, violates `AlwaysRestorable` of `RuntimeProofs`, which
`CanBeRestored` proves for runs without such a reconfiguration.
`retry_execution_event` says it "retries a lifecycle item returned by
`RuntimeError::ExecutionBackpressure`" (`runtime-core/src/lib.rs:1227`), but while a
start is pending it enqueues that one and drops its argument, so that a completion is
lost; the driver avoids it by retrying before each call, which is what
`HostRetriesFirst` models (with `FALSE`, `NothingLost` is violated). After a lost
answer and a replay, as in `runtime_known_outcome`, `configure_task` may drop the
effect of a task whose intent the runtime has not seen, and `step` completes the task
without it, which the contract forbids; `KeepsContract` covers reconfigurations and
assumes that no answer is lost. An idempotent retry that is cut between its admission
and its dispatch leaves an admission behind. A client that drops the future of a
drain loses the items in it. A known success whose task is not ready makes every
shutdown fail until its dependencies are complete. A fiber that starts after a
withdrawal has computed its closure binds to a provider that is about to go. The same adoption of the head
revision lets one of two runtimes overwrite an identity it has never read; `step`
returns the result of its first ready task, so a blocked one holds back
independent work behind it; `owner_state` reports `Shutdown` before `run` has returned; generations
restart when a capability is provided again and `withdraw`, `remove_local` and
`replace` do not compare entry identities, so a generation kept from an earlier
publication names a later one; an attempt that fails while a dispose waits sets
`Disposed` itself, and the dispose then returns before it removes the fiber from
its runtime's table; a dispose future that is dropped while it waits leaves
`reconcile` looping; a dependency withdrawn between the last check and the
publication makes a fiber `Failed`, where a moment earlier it would be `Pending`.

## 4. Proofs

Every theorem holds for all values of the constants that satisfy the assumptions
of its module. What a run shows for two clients, three tasks or two compositions
is shown here for any number of them, and without the bounds of the run.

| Module | Theorem | States |
|---|---|---|
| `WorkflowGraphProofs` | `TypeCorrect` | `Spec => []TypeOK` |
| | `RestartSafe` | `Spec => []ReplayReproducesGraph` |
| | `SchedulerNeverStarves` | `Spec => []ReadyUnlessDone` |
| | `PlansLandOnSeenTopology` | `Spec => CommitsOnSeenTopology` |
| `DurableStoreProofs` | `TypeCorrect` | `Spec => []TypeOK` |
| | `LineageKept` | `Spec => []LineageHolds` |
| | `LedgerReplays` | `Spec => []LedgerRebuildsRun` |
| | `FactsFinal` | `Spec => FactsAreFinal` |
| | `CancellationStopsDispatch` | `Spec => NoDispatchAfterCancellation` |
| `AsyncDriverProofs` | `TypeCorrect` | `Spec => []TypeOK` |
| | `WakeupsKept` | `Spec => []NoLostWakeup` |
| | `AnswersTruthful` | `Spec => []TruthfulAnswers` |
| | `ExitComplete` | `Spec => []ExitIsComplete` |
| | `ItemsOnce` | `Spec => []EveryItemOnce` |
| | `OrderKept` | `Spec => []LosslessOrder` |
| `CompositionProofs` | `TypeCorrect` | `Spec => []TypeInv` |
| | `CleanupOnceInOrder` | `Spec => []OnceAndDependentsFirst` |
| | `ReportsExact` | `Spec => []ReportIsExact` |
| | `NothingIsLeft` | `Spec => []NothingLeftBehind` |
| | `AuthorityKept` | `Spec => []ExitKeepsAuthority` |
| `RuntimeProofs` | `TypeCorrect` | `Spec => []RuntimeTypeOK` |
| | `ObservedIsDurable` | `Spec => []ObservationsAreDurable` |
| | `NoItemIsLost` | `HostRetriesFirst`: `Spec => []NothingLost` |
| | `DrainsInOrder` | `HostRetriesFirst`: `Spec => []DrainedInOrder` |
| | `OneAttemptBeforeDispatch` | `HostRetriesFirst`: `Spec => []OneAttemptUntilDispatch` |
| | `OnlyRepinningRefuses` | `Spec => []RestoresUnlessRepinned` |
| | `CanBeRestored` | `FixedPins = Tasks`: `Spec => []AlwaysRestorable` |
| | `ViewStaysCurrent` | `SoleClient`, `HostRetriesFirst`: `Spec => []ViewIsCurrent` |
| | `KeepsContract` | `SoleClient`: `Spec => ImplementsContract` |
| | `OutcomeStaysKnown` | `SoleClient`: `Spec => KnownOutcomeIsFinal` |
| `CapabilityScopeProofs` | `TypeCorrect` | `Spec => []TypeOK` |
| | `SeenResolves` | `Spec => []VisibleGraphsResolve` |
| | `NothingStale` | `Spec => NoStalePublication` |
| | `RootTeardown` | `Spec => []RootTeardownFindsOrder` |
| `CapabilityFiberProofs` | `NothingLeft` | `Spec => []NothingLeftBehind` |
| | `FiberNothingStale` | `Spec => NoStalePublication` |
| | `DependentsDrainFirst` | `Spec => DependentsFirst` |
| `PlanningProofs` | `SearchExactAlways` | `Spec => []SearchIsExact` |
| | `LoadExact` | `Spec => []LoadIsExact` |
| | `OrderTopological` | `Spec => []OrderIsTopological` |
| | `PlanSufficient` | `Spec => []PlanSuffices` |
| | `CanonicalExact` | equal identities exactly when equal in meaning |
| | `RestoreExact` | `Spec => []RestoreIffSame` |

None of these properties is inductive as it stands. Each module has an invariant
that is (`IInv`, or `Inv`), and its `Invariance` is the result the others follow
from. `RuntimeProofs` adds `CurrentInv`, with `ViewInvariance`, and `PlanningProofs`
builds its invariant up in layers.

**`WorkflowGraphProofs`.** `IInv` adds that the topology is
acyclic, that the dependencies of completed tasks are completed and were so in
the order of the completion log, that the records of the mutation log chain by
revision and each was acceptable without looking at completions (they are
replayed on a graph without facts), and that a planner's snapshot at the current
revision is the current topology. Replay is defined over prefixes of the log, so
that a commit needs two lemmas only: it leaves shorter prefixes alone
(`ReplayPrefix`) and extends the longest one by its batch (`ReplayAppend`).
`BatchFacts` says what an accepted batch adds and that it never gives a completed
task a new dependency, which is what keeps the completion log replayable. The
assumption on the constants is `GraphAssumption`.

**`DurableStoreProofs`.** The lineage is kept by every single accepted mutation
(`AppliedLineage`, one case per kind), and so by a batch of any length
(`BatchExtends`, by induction over its prefixes), which also keeps every fact and
dispatches nothing that was cancelled before the batch. `IInv` adds what restoring
relies on: entry *i* of the ledger is the commit to revision *i* (`LedgerInv`),
replaying the ledger ends in the facts of the row (`RowInv`), and the idempotency
index binds exactly the keys of the ledger, each to the mutations of its only entry
(`IndexInv`). Without the last one a retried request could not be told from a
fresh one. The assumptions are those of `DurableFacts` and `StoreAssumption`.

**`AsyncDriverProofs`.** The invariant has two halves. `Protocol` is about
senders and wakers: a sender is in one place only (the mailbox, what is left to
reject, or the owner's hand, `SenderInv`), a client's response is empty exactly
while its sender is in one of them (`AnswerInv`), what the owner holds and what
the mailbox shows of it at every place of the owner's code (`PhaseInv`), and that
a client asleep has its waker in an unanswered response while an owner asleep has
its waker in an empty mailbox, or somebody is about to call it (`SleepInv`,
`OwnerInv`). `ItemInv` is about lifecycle items: what was handed out and what is
owned are together everything emitted, every item handed out
is older than every one that is owned, and the buffers are in order. Steps with
the same footprint are proved together (`ClientLocal`, `OwnerLocal`, `Handled`).
The assumptions are `DriverAssumption` and that `None` is no command, result or
item.

**`CompositionProofs`.** `IInv` relates, for every composition, the modules it
activated, its cleanup ledger, and the histories of starts and outcomes.
`OwnedInv` says that what is owned is a beginning of the plan; `SweepInv` that the
ledger is a place in the reverse of it, the modules before it untouched, those
after it finished, the current one started as far as the ledger has taken out of
it, and the books (`cleaned`, `failures`) what the outcomes say; `ReportInv` the
same of a report that was given; `OrderInv` that nothing is touched before what was
activated later is done. `AuthorityInv` says who holds which exit and that the
composition of one that can still be presented is untouched; `ClearInv` that
whatever is registered or undisposed is still in the reach of the activation or
the ledger. `Swept` is the heart of it: parking a step, settling it and going on
to the next module each keep it (`Parks`, `Settles`, `SameWork`), whatever future
does the step and whatever interrupted the previous one. Dependents come first
because the plan is a topological order, which `OrderKeepsDependencies` shows for
the activation order of any finite module graph. The assumptions are that two
modules of a composition share no plugin and no module lists one twice (the builder
refuses both), that modules are numbers, and that `None` is no record. Modules and
plugins of two compositions are told apart by the composition they are in: each
plan has instances of its own, also when two are built from the same catalog.

**`RuntimeProofs`.** Runtimes decide from their memory, so the invariant has to say
how far a memory may be from the run. `FactsInv` is about the run: the lineage,
attempts numbered from one without a gap, each owned by the operation of its task,
completions that replay in their order. `KeyInv` says that a bound key names the one
mutation whose fact is recorded; this is what makes a commit that is answered by a
replay harmless, since the memory then takes in a fact that the run has. `IdentityInv`
says that nothing is recorded before the identity. `MemoriesInv` says of every
runtime that it is never ahead: what its journal, completions and cancellations hold
is in the run (`JournalBehind`, `ViewBehind`), it knows the attempts up to its next
number (`Knows`), the items it emitted are durable, and their sequence numbers are
ordered from what was observed over the buffer to what was handed back (`Ordered`).
A commit only grows the facts (`Grown`), so it keeps all this for the other runtimes
(`MemGrown`) and only its own memory has to be looked at (`CommitInv`). Nothing here
needs an expected revision that is current, so the theorems hold for any number of
runtimes on one run, with lost answers. `HostRetriesFirst` is the discipline the
driver keeps (it retries a returned item before every call); without it an item can
be lost, as described above, and the attempt that went with it. The pins of the
tasks in `FixedPins` are the same in the durable identity, in every memory past its
start (`PinsAgree`) and in every admission (`PinsKept`), whatever runtime wrote the
identity last; when all tasks are in `FixedPins`, this is all that `restore_run`
asks for (`CanBeRestored`). The
assumptions are those of `DurableFacts`, `RuntimeAssumption`, `RunAssumption` (what
`DurableStore` assumes of its constants, and that the keys the runtime makes are
keys) and that `None` is no memory.

**`RuntimeProofs`, the contract.** The contract is about what the run becomes, and the guards of
the runtime are about what its journal says. `CurrentInv` closes the gap: the view of
a runtime that is up is the run, what made a call go on still holds of the run
(`CallSound`), and an operation that a host was told to run was dispatched. Its
preservation and the simulation are one induction: `Simulates` says that a step keeps
`CurrentInv` and maps to a step of `EffectContract` or to a stutter, with one lemma
per call (`IntentSim`, `DispatchSim`, ...). `SoleClient` is one runtime at a time and
commits that are answered when they take effect; crashes, restarts and refused
commits are there at every step. It is needed: after a lost answer a replayed commit
moves the expected revision to the head while the journal has not seen what is
there, which is what `runtime_known_outcome` exhibits on the very property that
`OutcomeStaysKnown` proves without lost answers. Beyond the theorem, the `runtime`
run checks the contract on one instance with lost answers and a non-idempotent
effect.

**`CapabilityScopeProofs`.** What a scope sees changes with every scope above it,
so `VisibleGraphsResolve` has to be carried through a publication for all
descendants at once. A publication replaces, in the view of a scope, the one
definition of its capability or nothing at all (`candidate_affects` decides which),
and `publish_preconstructed` validates exactly those views under the lock. `TreeInv`
says that everything above an open scope is open, so that what `get` finds is not
hidden by a closed scope; `EntryInv` that a scope holds its own entries under their
identifiers and none unless it is open. For the teardown of a root `HistoryInv` says
that snapshots are older entries of the same root and `KeptInv` that a root still has
an entry for everything it ever published, as long as nothing is withdrawn: every
snapshot the walk meets is then shadowed by a current entry, and the graph of the
teardown is the visible one. That the walk ends at all is an induction over entry
numbers, since an entry only depends on older ones. The counterexample of
`capability_teardown` is what happens in a child, whose snapshots are also of the
scopes above it.
The assumption is `ScopeAssumption`: a tree given by its paths to the root, and
finitely many capabilities.

**`CapabilityFiberProofs`.** `FiberOK` says of a fiber, place by place, what it has in
the scope: an `Active` or `Unloading` one at most the entry of its handle, one between
publication and activation at most the last entry it published, every other one
nothing; effects and bindings only while an attempt is under way or the fiber is
live. What a withdrawal leaves to the fiber is the delicate part: `unload` skips
`remove_local` for the entry the coordinator has detached already, which is right
because that entry was withdrawn (`DetachedInv`) and a withdrawn entry is in no slot
(`ScopeInv`), and otherwise it compares generations only, which is right because
fibers publish with generation 1 and nobody else publishes what they provide. The
last fact is the assumption `FiberAssumption`, which also fixes one scope without a
parent. `Kept` describes the steps of others that a fiber survives. A fiber that is
disposed while its attempt was stale rests in `Loading`; the invariant has to
admit that, and the theorem shows that it has left nothing behind all the same.
`DependentsDrainFirst` rests on three more invariants. `BoundInv`: the entries a fiber is
bound to are older than its own, so that fibers at rest are bound along an acyclic
relation. `CallInv`: the calls of a withdrawal are the coordinator's, and made only while
it drains. `DrainInv`: while no host interferes, one fiber at most has a call, the list of
what is left to drain has dependents before providers, and nothing outside it, nor an
`Active` fiber in it, holds the one that is being drained. That a withdrawal starts like
this is a matter of its closure and its depths, which the model computes in as many
rounds as there are fibers: by then the closure has stopped growing (`ClosureClosed`), and
the depths have settled (`Deepest`), because the relation is acyclic. For fibers at rest
the bound on the rounds thus loses nothing of the loop and the recursion in
`reactive.rs`, and the recursion's guard against cycles (`visiting`) has nothing to cut.

**`PlanningProofs`.** The first layer is `SearchInv`, about the graph search that the
loader and both validators start: the stack is a path of Active nodes, each entry of
`todo` is what is left of a node's dependencies, finished nodes are in the order after
all they depend on, and every mark is on a node reached from the roots. An order in
which dependencies come first excludes a cycle. The second is `LoadInv`: after *l*
turns the resolved references are exactly those within *l* steps of the roots
(`Level`), each with a path of that length, and one that is missing is recorded at the
level at which it was first met (`MissingInv`), which is why its path is a shortest
one. The third is about the pipeline. `KahnInv` says that counts and ready set are those
of the modules placed so far and that the order is greedy (`Greedy`); a greedy order
is the reference `ActivationOrder`, and a loop that stops early has a cycle among what
is left. `OutcomeInv` and `ValidInv` carry what the builder has checked to the stages
after it: the merged definition passes every validator, its construction finds every
factory, and no plugin fills a slot twice. `RegisteredInv` ties the modules of a load to
the resolved references, so that the builder cannot refuse for a dependency or a cycle
what the loader passed on. The last layer, `IdentityInv`, says that a stored identity of
the second format was made from the run's valid definition, and what the comparison
with it decided; `RestoreExact` follows from it by `CanonicalExact`, that the encoding
can be decoded. `Sorted` describes a sorted sequence by the number of keys below each
element's, so that two sequences with the same keys are sorted alike. The texts of
declarations are prefix-free (`PrefixFree`), hence so are counted lists of them
(`CutWords`, `ListedCut`), and the text of a task or a capability gives back what is meant
by it (`TaskEncoded`, `CapabilityEncoded`). The assumption `PlanningAssumption` only gives the types of
what hosts come with: sequences of any length over any numbers.

**Induction.** `NatInduct` and its variants take the set of the numbers that have the
property, so that they can be cited with any set. What a function defined by
recursion over a sequence or a number satisfies is shown from its recursion
equation, which in turn is proved from the definition (`CandidatesDef`,
`ReplayStatesDef`, `OrderFacts`, `Walks`, `Grows`).

**Only model-checked.** Liveness (`EventuallySettles`, `EveryCommandAnswered`,
`EventuallyReleased`, `CoordinatorReturns`, `AlwaysAnswered`) and
everything that depends on `ENABLED` or fairness is out of the prover's reach.
The contract under lost answers is only checked, too.

## 5. Plan

1. `CapabilityFiber`: child contexts with isolation and interception, dropped
   futures, fibers created during the behaviour, hosts that publish what a fiber
   provides.
2. `Runtime`: `apply_workflow_mutation`, progress and telemetry; the composition
   with `AsyncDriver`.
3. The coalescing and lossy buffers and the tracker of the execution streams.

## 6. Not modelled

Contexts with isolation and interception, the progress and telemetry streams with
their buffers, and `apply_workflow_mutation` inside a runtime: they are in the
plan. The opening of a physical store is left out: its races are between processes
on redb's own transactions. Encoding and decoding of rows, error texts, the text
form of references, the frozen first format of the identity, `graph-lab`, and the
contents of effects and events stay out. The refusal of a registration during
activation cannot happen, because a plan has no plugin twice and the registry of a
new runtime is empty. Two plugins whose reactive slots depend on each other in a
circle are not refused by the builder and wait for each other; the code leaves that
to the reactive runtime, and so does the model.
