------------------------------ MODULE Runtime ------------------------------
(***************************************************************************)
(* The synchronous runtime (Runtime) over a durable store it may share     *)
(* with other runtimes.  A call is cut at its durable commits: each action *)
(* is one commit with the memory updates up to the next one, and call says *)
(* where a call goes on.  Crashes, refused commits, and commits that take  *)
(* effect though they report a failure can happen at each of them.         *)
(*                                                                         *)
(* Calls that read or fail without changing anything are not actions.      *)
(***************************************************************************)
EXTENDS DurableFacts, FiniteSets

CONSTANTS
    Runtimes,
    Keys, Requests, MaxRevision,   \* of DurableStore
    Deps,              \* the topology of the workflow: task -> its dependencies
    ConfigChoices,     \* task -> the configurations it may be given
    Reconfigurable,    \* tasks the host reconfigures while the run goes on
    HostIntents,       \* <<task, operation, semantics>> the host records itself
    MaxPerTask,        \* bound on the attempts of a task
    MaxReconfigured,   \* bound on the reconfigurations of a run
    EventCapacity,     \* capacity of execution_events (128 in the code)
    MayLoseAnswers,    \* a commit may take effect and still report a failure
    HostRetriesFirst   \* the host retries returned items first, as the driver does

\* A TaskConfig: the effect it declares, and the replay identities of the
\* capabilities it requires.
Effect == [operation : Operations, semantics : Semantics]
Config == [effect : Effect \cup {None}, pins : Pins]

ASSUME RuntimeAssumption ==
    /\ Tasks \subseteq Nat /\ IsFiniteSet(Tasks)  \* task ids are ordered
    /\ MaxPerTask \in Nat \ {0} /\ MaxReconfigured \in Nat
    /\ Attempts = 1..(MaxPerTask * Cardinality(Tasks))
    /\ Deps \in [Tasks -> SUBSET Tasks]
    /\ ConfigChoices \in [Tasks -> SUBSET Config]
    /\ {f \in [Tasks -> Config] : \A t \in Tasks : f[t] \in ConfigChoices[t]} = Identities
    /\ Reconfigurable \subseteq Tasks
    /\ HostIntents \subseteq Tasks \X Operations \X Semantics
    /\ EventCapacity \in Nat \ {0}
    /\ MayLoseAnswers \in BOOLEAN /\ HostRetriesFirst \in BOOLEAN

\* The idempotency keys a runtime makes up for its commits.
RuntimeKeys ==
    {<<"workflow-replay-identity">>}
      \cup ({"intent"} \X Operations)
      \cup ({"admit", "dispatch", "outcome"} \X Attempts)
      \cup ({"cancel"} \X Tasks)
      \cup ({"completion"} \X Tasks \X Attempts)
      \cup ({"workflow-identity"} \X (0..MaxRevision) \X Identities)

\* What DurableStore assumes of its constants, and that the keys are there.
ASSUME RunAssumption ==
    /\ MaxRevision \in Nat \ {0}
    /\ RuntimeKeys \subseteq Keys
    /\ None \notin RunState
    /\ None \notin Nat
    /\ None \notin Seq(DurableMutation)

VARIABLES
    run, revision, commit_ledger, idempotency, known,   \* DurableStore
    rt,        \* runtime -> its memory, None while its process is down
    granted    \* operation -> how often dispatch_effect told a host to run it

Store == INSTANCE DurableStore WITH Clients <- Runtimes

vars == <<run, revision, commit_ledger, idempotency, known, rt, granted>>

TaskAttempt == [attempt : Attempts, task : Tasks, operation : Operations \cup {None}]
Item == [sequence : Nat \ {0}, event : {"TaskStarted", "TaskCompleted"}, attempt : Attempts]
Call == [at : {"identity", "effect", "complete", "dispatch"},
         task : Tasks \cup {None}, operation : Operations \cup {None},
         attempt : Attempts \cup {None}]

\* The materialized journal: the effect facts of a run.
JournalOf(s) ==
    [intents |-> s.intents, task_operations |-> s.task_operations,
     dispatches |-> s.dispatches, dispatch_history |-> s.dispatch_history,
     outcomes |-> s.outcomes]

Journal ==
    [intents : [Operations -> Intent \cup {None}],
     task_operations : [Tasks -> Operations \cup {None}],
     dispatches : [Attempts -> Operations \cup {None}],
     dispatch_history : Seq(Attempts),
     outcomes : [Attempts -> KnownOutcome \cup {None}]]

Memory ==
    [call : Call \cup {None},
     completed : SUBSET Tasks,               \* the workflow's completion facts
     journal : Journal,
     cancelled : SUBSET Tasks,
     attempts : Seq(TaskAttempt),
     pending_started : [attempt : TaskAttempt, item : Item] \cup {None},
     next_attempt_number : Nat,
     task_configs : Identities,
     execution_events : Seq(Item),
     emitted : Nat,                          \* last sequence of the sequencer
     observed : SUBSET Nat,                  \* sequences the consumer drained
     held : SUBSET Item]                     \* items handed back to the host

ASSUME NoneIsNoMemory ==
    None \notin Memory /\ None \notin Call /\ None \notin [attempt : TaskAttempt, item : Item]

----------------------------------------------------------------------------
(* Memory *)

At(at, t, o, a) == [at |-> at, task |-> t, operation |-> o, attempt |-> a]

\* Mutant: admitted attempts are counted but not restored.
BuiltWithoutAttempts(s, configs) ==
    [call |-> None,
     completed |-> {t \in Tasks : s.completions[t] # None},
     journal |-> JournalOf(s),
     cancelled |-> {t \in Tasks : s.cancellations[t] # None},
     attempts |-> <<>>,
     pending_started |-> None,
     next_attempt_number |-> Len(s.admission_history) + 1,
     task_configs |-> configs,
     execution_events |-> <<>>, emitted |-> 0, observed |-> {}, held |-> {}]

\* build() over the durable facts s and the supplied configuration.
Built(s, configs) ==
    [call |-> None,
     completed |-> {t \in Tasks : s.completions[t] # None},
     journal |-> JournalOf(s),
     cancelled |-> {t \in Tasks : s.cancellations[t] # None},
     attempts |-> [i \in 1..Len(s.admission_history) |->
                      LET a == s.admission_history[i]
                      IN  [attempt |-> a, task |-> s.admissions[a].task,
                           operation |-> s.admissions[a].operation]],
     pending_started |-> None,
     next_attempt_number |-> Len(s.admission_history) + 1,
     task_configs |-> configs,
     execution_events |-> <<>>, emitted |-> 0, observed |-> {}, held |-> {}]

\* A failing call leaves the memory it had reached; start_run has none yet.
Abandoned(m) == IF m.call # None /\ m.call.at = "identity" THEN None
                ELSE [m EXCEPT !.call = None]

Room(m) == Len(m.execution_events) < EventCapacity

NextItem(m, event, a) == [sequence |-> m.emitted + 1, event |-> event, attempt |-> a]

Enqueued(m, item) == [m EXCEPT !.execution_events = Append(@, item)]

\* Emission of TaskStarted: the attempt joins attempts only with its item.
TaskStarted(m, att, next) ==
    LET item == NextItem(m, "TaskStarted", att.attempt)
        e == [m EXCEPT !.emitted = @ + 1, !.next_attempt_number = @ + 1]
    IN  IF Room(m)
        THEN [Enqueued(e, item) EXCEPT !.attempts = Append(@, att), !.call = next]
        ELSE [e EXCEPT !.pending_started = [attempt |-> att, item |-> item],
                       !.held = @ \cup {item}, !.call = None]

\* Mutant: a full buffer drops the item.
emit_completed_lossy(m, a) ==
    LET e == [m EXCEPT !.emitted = @ + 1, !.call = None]
    IN  IF Room(m) THEN Enqueued(e, NextItem(m, "TaskCompleted", a)) ELSE e

\* emit_completed: a full buffer hands the item back to the host.
emit_completed(m, a) ==
    LET item == NextItem(m, "TaskCompleted", a)
        e == [m EXCEPT !.emitted = @ + 1, !.call = None]
    IN  IF Room(m) THEN Enqueued(e, item) ELSE [e EXCEPT !.held = @ \cup {item}]

\* The attempt of (task, operation) that a call goes on with, or None.
attempt_for_task(m, t, o) ==
    LET mine == {i \in 1..Len(m.attempts) : /\ m.attempts[i].task = t
                                            /\ m.attempts[i].operation = o}
    IN  IF /\ m.pending_started # None
           /\ m.pending_started.attempt.task = t
           /\ m.pending_started.attempt.operation = o
        THEN m.pending_started.attempt.attempt
        ELSE IF mine = {} THEN None
        ELSE m.attempts[CHOOSE i \in mine : \A j \in mine : j <= i].attempt

ready_tasks(m) == {t \in Tasks \ m.completed : Deps[t] \subseteq m.completed}

\* The task step() takes: the first ready one that is not cancelled.
FirstTask(m) == LET runnable == ready_tasks(m) \ m.cancelled
                IN  CHOOSE t \in runnable : \A u \in runnable : t <= u
----------------------------------------------------------------------------
(* Start and restart *)

Init ==
    /\ Store!Init
    /\ rt = [r \in Runtimes |-> None]
    /\ granted = [o \in Operations |-> 0]

\* commit_durable: a commit by r of one mutation.  m is the memory after its
\* success; when the answer reports a failure the call ends where it was.
commit_durable(r, key, mutation, m) ==
    LET req == [key |-> key, mutations |-> <<mutation>>]
    IN  /\ Store!CommitFresh(r, req) \/ Store!CommitReplayed(req)
        /\ \/ /\ known' = [known EXCEPT ![r] = revision']
              /\ rt' = [rt EXCEPT ![r] = m]
           \/ /\ MayLoseAnswers
              /\ UNCHANGED known
              /\ rt' = [rt EXCEPT ![r] = Abandoned(@)]

is_pristine_bootstrap == run = EmptyRun /\ revision = 0

\* start_with_identity up to its first commit: create the run, or take over
\* a bootstrap that was interrupted.
start_run(r, configs) ==
    /\ rt[r] = None
    /\ Store!create_run(r) \/ (is_pristine_bootstrap /\ Store!load_run(r))
    /\ rt' = [rt EXCEPT ![r] = [Built(EmptyRun, configs) EXCEPT
                                   !.call = At("identity", None, None, None)]]
    /\ UNCHANGED granted

\* The commit of the workflow replay identity that ends start_with_identity.
start_identity(r) ==
    /\ rt[r].call.at = "identity"
    /\ commit_durable(r, <<"workflow-replay-identity">>, RecordIdentity(rt[r].task_configs),
                      [rt[r] EXCEPT !.call = None])
    /\ UNCHANGED granted

\* replay_workflow accepts the durable completions in their order.
CompletionsReplay(s) ==
    \A i \in 1..Len(s.completion_history) :
        /\ Deps[s.completion_history[i]] \subseteq {s.completion_history[j] : j \in 1..(i - 1)}
        /\ \A j \in 1..(i - 1) : s.completion_history[j] # s.completion_history[i]

\* Every admitted attempt finds the capabilities it was admitted with.
PinsReplay(s, configs) ==
    \A a \in Attempts : s.admissions[a] # None
        => configs[s.admissions[a].task].pins = s.admissions[a].pins

\* Mutant: the supplied configuration is not compared with the durable identity.
RestoreUnidentified(s, configs) ==
    /\ CompletionsReplay(s)
    /\ PinsReplay(s, configs)

RestoreAccepted(s, configs) ==
    /\ s.identity = configs
    /\ CompletionsReplay(s)
    /\ PinsReplay(s, configs)

restore_run(r, configs) ==
    /\ rt[r] = None
    /\ Store!load_run(r)
    /\ RestoreAccepted(run, configs)
    /\ rt' = [rt EXCEPT ![r] = Built(run, configs)]
    /\ UNCHANGED granted

----------------------------------------------------------------------------
(* The parts of calls that commit *)

record_intent(r, t, o, semantics, next) ==
    LET intent == [task |-> t, semantics |-> semantics]
        m == rt[r]
    IN  /\ t \notin m.completed
        /\ m.journal.intents[o] = None
        /\ m.journal.task_operations[t] = None
        /\ commit_durable(r, <<"intent", o>>, RecordIntent(o, intent),
              [m EXCEPT !.journal = Intended(@, RecordIntent(o, intent)), !.call = next])
        /\ UNCHANGED granted

AttemptsOf(t) == {a \in Attempts : run.admissions[a] # None /\ run.admissions[a].task = t}

\* begin_attempt, after which the call goes on at next, or returns.
begin_attempt(r, t, o, next) ==
    LET n == rt[r].next_attempt_number
        rest == IF next = None THEN None ELSE At(next, t, o, n)
        admission == [task |-> t, operation |-> o, pins |-> rt[r].task_configs[t].pins]
    IN  /\ n \in Attempts /\ Cardinality(AttemptsOf(t) \ {n}) < MaxPerTask
        /\ commit_durable(r, <<"admit", n>>, AdmitAttempt(n, admission),
              TaskStarted(rt[r], [attempt |-> n, task |-> t, operation |-> o], rest))
        /\ UNCHANGED granted

\* Mutant: the completion is applied and observed even when it was not stored.
complete_task_unsaved(r, t, a) ==
    LET m == emit_completed([rt[r] EXCEPT !.completed = @ \cup {t}], a)
    IN  /\ t \in ready_tasks(rt[r])
        /\ \/ commit_durable(r, <<"completion", t, a>>, RecordCompletion(t, a), m)
           \/ /\ rt' = [rt EXCEPT ![r] = m]
              /\ UNCHANGED <<run, revision, commit_ledger, idempotency, known>>
        /\ UNCHANGED granted

\* Mutant: a task may complete before its dependencies.
complete_task_early(r, t, a) ==
    LET m == rt[r]
    IN  /\ t \notin m.completed
        /\ commit_durable(r, <<"completion", t, a>>, RecordCompletion(t, a),
              emit_completed([m EXCEPT !.completed = @ \cup {t}], a))
        /\ UNCHANGED granted

complete_task(r, t, a) ==
    LET m == rt[r]
    IN  /\ t \in ready_tasks(m)
        /\ commit_durable(r, <<"completion", t, a>>, RecordCompletion(t, a),
              emit_completed([m EXCEPT !.completed = @ \cup {t}], a))
        /\ UNCHANGED granted

\* The commit of dispatch_effect; the host runs the effect if it is told so.
record_dispatch(r, o, a) ==
    LET m == rt[r]
        record == RecordDispatch(o, a)
    IN  /\ m.journal.dispatches[a] = None
        /\ commit_durable(r, <<"dispatch", a>>, record,
              [m EXCEPT !.journal = Dispatched(@, record), !.call = None])
        /\ granted' = IF rt'[r].journal.dispatches[a] = o
                      THEN [granted EXCEPT ![o] = @ + 1] ELSE granted

----------------------------------------------------------------------------
(* Calls of the host *)

\* r can take a call.
Available(r) == rt[r] # None /\ rt[r].call = None

\* Mutant: the host goes on with a returned item in its hands.
MayEmitAnyway(r) == Available(r)

\* The driver retries a returned lifecycle item before a call that may emit.
MayEmit(r) == Available(r) /\ (HostRetriesFirst => rt[r].held = {})

\* step_task for a task that owns operation o.
step_effect(r, t, o) ==
    \/ /\ effect_state(rt[r].journal, o) = "Prepared"
       /\ attempt_for_task(rt[r], t, o) = None
       /\ begin_attempt(r, t, o, None)
    \/ /\ effect_state(rt[r].journal, o) = "Succeeded"
       /\ complete_task(r, t, latest_dispatch(rt[r].journal, o))

\* step_task for a task without an effect.
step_plain(r, t) ==
    LET a == attempt_for_task(rt[r], t, None)
    IN  \/ a = None /\ begin_attempt(r, t, None, "complete")
        \/ a # None /\ complete_task(r, t, a)

step(r) ==
    /\ MayEmit(r)
    /\ rt[r].pending_started = None
    /\ ready_tasks(rt[r]) \ rt[r].cancelled # {}
    /\ LET t == FirstTask(rt[r])
           o == rt[r].journal.task_operations[t]
           effect == rt[r].task_configs[t].effect
       IN  \/ o # None /\ step_effect(r, t, o)
           \/ o = None /\ effect = None /\ step_plain(r, t)
           \/ /\ o = None /\ effect # None
              /\ record_intent(r, t, effect.operation, effect.semantics,
                               At("effect", t, effect.operation, None))

record_effect_intent(r, t, o, semantics) ==
    /\ Available(r)
    /\ record_intent(r, t, o, semantics, None)

\* Mutant: an unknown outcome is retried whatever the semantics.
dispatch_effect_again(r, o) ==
    LET m == rt[r]
        t == m.journal.intents[o].task
    IN  /\ MayEmit(r)
        /\ m.journal.intents[o] # None
        /\ t \notin m.cancelled
        /\ \/ /\ effect_state(m.journal, o) = "Prepared"
              /\ attempt_for_task(m, t, o) # None
              /\ record_dispatch(r, o, attempt_for_task(m, t, o))
           \/ /\ \/ /\ effect_state(m.journal, o) = "Prepared"
                    /\ attempt_for_task(m, t, o) = None
                 \/ effect_state(m.journal, o) = "OutcomeUnknown"
              /\ begin_attempt(r, t, o, "dispatch")

dispatch_effect(r, o) ==
    LET m == rt[r]
        t == m.journal.intents[o].task
    IN  /\ MayEmit(r)
        /\ m.journal.intents[o] # None
        /\ t \notin m.cancelled
        /\ \/ /\ effect_state(m.journal, o) = "Prepared"
              /\ attempt_for_task(m, t, o) # None
              /\ record_dispatch(r, o, attempt_for_task(m, t, o))
           \/ /\ \/ /\ effect_state(m.journal, o) = "Prepared"
                    /\ attempt_for_task(m, t, o) = None
                 \/ /\ effect_state(m.journal, o) = "OutcomeUnknown"
                    /\ m.journal.intents[o].semantics = "Idempotent"
              /\ begin_attempt(r, t, o, "dispatch")

record_effect_outcome(r, o, a, x) ==
    LET m == rt[r]
        record == RecordOutcome(o, a, x)
    IN  /\ Available(r)
        /\ m.journal.intents[o] # None
        /\ m.journal.dispatches[a] = o
        /\ m.journal.outcomes[a] \in {None, x}
        /\ commit_durable(r, <<"outcome", a>>, record,
              [m EXCEPT !.journal = Observed(@, record)])
        /\ UNCHANGED granted

\* classify_recovery: the action for operation o.
classify_recovery(m, o) ==
    LET state == effect_state(m.journal, o)
        intent == m.journal.intents[o]
    IN  CASE state = "NotPrepared" -> "InvariantViolation"
          [] intent.task \in m.completed ->
                IF state = "Succeeded" THEN "NoAction" ELSE "InvariantViolation"
          [] state = "Prepared" -> "Execute"
          [] state = "OutcomeUnknown" ->
                IF intent.semantics = "Idempotent" THEN "RetrySameOperation" ELSE "Reconcile"
          [] state = "Succeeded" -> "CompleteWithoutReexecution"
          [] state = "Failed" -> "ObserveFailure"

\* recover(): only a known success of an incomplete task changes anything.
recover(r, o) ==
    /\ MayEmit(r)
    /\ classify_recovery(rt[r], o) = "CompleteWithoutReexecution"
    /\ complete_task(r, rt[r].journal.intents[o].task, latest_dispatch(rt[r].journal, o))

\* Mutant: the cancellation is stored and not remembered.
cancel_task_stored_only(r, t) ==
    LET m == rt[r]
        o == m.journal.task_operations[t]
        a == IF o = None THEN None ELSE attempt_for_task(m, t, o)
    IN  /\ Available(r)
        /\ commit_durable(r, <<"cancel", t>>,
              RecordCancellation(t, [operation |-> o, attempt |-> a]), m)
        /\ UNCHANGED granted

cancel_task(r, t) ==
    LET m == rt[r]
        o == m.journal.task_operations[t]
        a == IF o = None THEN None ELSE attempt_for_task(m, t, o)
    IN  /\ Available(r)
        /\ commit_durable(r, <<"cancel", t>>,
              RecordCancellation(t, [operation |-> o, attempt |-> a]),
              [m EXCEPT !.cancelled = @ \cup {t}])
        /\ UNCHANGED granted

\* The keys of the reconfigurations the store has recorded.
Reconfigurations ==
    {key \in {"workflow-identity"} \X (0..MaxRevision) \X Identities : idempotency[key] # None}

configure_task(r, t, config) ==
    LET configs == [rt[r].task_configs EXCEPT ![t] = config]
        key == <<"workflow-identity", known[r], configs>>
    IN  /\ Available(r)
        /\ Cardinality(Reconfigurations \ {key}) < MaxReconfigured
        /\ commit_durable(r, key, RecordIdentity(configs), [rt[r] EXCEPT !.task_configs = configs])
        /\ UNCHANGED granted

\* Mutant: a retried start stays pending.
retry_keeps_pending(r, item) ==
    LET m == rt[r]
    IN  /\ Available(r)
        /\ Room(m)
        /\ rt' = [rt EXCEPT ![r] = [Enqueued(m, item) EXCEPT !.held = @ \ {item}]]
        /\ UNCHANGED <<run, revision, commit_ledger, idempotency, known, granted>>

\* retry_execution_event(item): a pending TaskStarted is enqueued instead of
\* the item that was passed.
retry_execution_event(r, item) ==
    LET m == rt[r]
        p == m.pending_started
    IN  /\ Available(r)
        /\ Room(m)
        /\ rt' = [rt EXCEPT ![r] =
              IF p # None
              THEN [Enqueued(m, p.item) EXCEPT !.attempts = Append(@, p.attempt),
                                               !.pending_started = None,
                                               !.held = @ \ {item}]
              ELSE [Enqueued(m, item) EXCEPT !.held = @ \ {item}]]
        /\ UNCHANGED <<run, revision, commit_ledger, idempotency, known, granted>>

drain_execution_events(r) ==
    LET events == rt[r].execution_events
    IN  /\ Available(r)
        /\ events # <<>>
        /\ rt' = [rt EXCEPT ![r].execution_events = <<>>,
                            ![r].observed = @ \cup {events[i].sequence : i \in 1..Len(events)}]
        /\ UNCHANGED <<run, revision, commit_ledger, idempotency, known, granted>>

----------------------------------------------------------------------------
(* The rest of a call, failures, and the specification *)

\* The second and later commits of start_run, step and dispatch_effect.
resume(r) ==
    LET c == rt[r].call
    IN  /\ rt[r] # None
        /\ c # None
        /\ \/ start_identity(r)
           \/ c.at = "effect" /\ step_effect(r, c.task, c.operation)
           \/ c.at = "complete" /\ complete_task(r, c.task, c.attempt)
           \/ c.at = "dispatch" /\ record_dispatch(r, c.operation, c.attempt)

\* The store refuses the next commit of a call or is not available.
fail(r) ==
    /\ rt[r] # None
    /\ rt[r].call # None
    /\ rt' = [rt EXCEPT ![r] = Abandoned(@)]
    /\ UNCHANGED <<run, revision, commit_ledger, idempotency, known, granted>>

crash(r) ==
    /\ rt[r] # None
    /\ rt' = [rt EXCEPT ![r] = None]
    /\ UNCHANGED <<run, revision, commit_ledger, idempotency, known, granted>>

call(r) ==
    \/ step(r)
    \/ \E i \in HostIntents : record_effect_intent(r, i[1], i[2], i[3])
    \/ \E o \in Operations : dispatch_effect(r, o)
    \/ \E o \in Operations, a \in Attempts, x \in KnownOutcome : record_effect_outcome(r, o, a, x)
    \/ \E o \in Operations : recover(r, o)
    \/ \E t \in Tasks : cancel_task(r, t)
    \/ \E t \in Reconfigurable : \E config \in ConfigChoices[t] : configure_task(r, t, config)
    \/ \E item \in rt[r].held : retry_execution_event(r, item)
    \/ drain_execution_events(r)

Next ==
    \E r \in Runtimes :
        \/ \E configs \in Identities : start_run(r, configs) \/ restore_run(r, configs)
        \/ Available(r) /\ call(r)
        \/ resume(r)
        \/ fail(r)
        \/ crash(r)

Spec == Init /\ [][Next]_vars
----------------------------------------------------------------------------
(* Properties *)

\* Every variable has the shape of the struct field it stands for, and the
\* lossless buffer stays within its capacity.
RuntimeTypeOK ==
    /\ Store!TypeOK
    /\ rt \in [Runtimes -> Memory \cup {None}]
    /\ \A r \in Runtimes : rt[r] # None => Len(rt[r].execution_events) <= EventCapacity
    /\ granted \in [Operations -> Nat]

\* The abstract contract, read off the durable facts and off what the hosts
\* were told.
Contract == INSTANCE EffectContract WITH
    owner      <- IF run = None THEN [o \in Operations |-> None] ELSE run.intents,
    status     <- IF run = None THEN [o \in Operations |-> "NotPrepared"]
                  ELSE [o \in Operations |-> effect_state(run, o)],
    executions <- granted,
    cancelled  <- IF run = None THEN {} ELSE {t \in Tasks : run.cancellations[t] # None},
    done       <- IF run = None THEN {} ELSE {t \in Tasks : run.completions[t] # None}

\* Whatever crashes, fails or is asked in whatever order, effects and tasks
\* move only as the contract allows: no second run of a non-idempotent
\* operation, no dispatch after a cancellation, no run without a durable
\* dispatch, no completion before the dependencies or without a success.
ImplementsContract == Contract!Spec
\* The items of r that are in its buffer or with its host.
Outstanding(r) ==
    {rt[r].execution_events[i] : i \in 1..Len(rt[r].execution_events)} \cup rt[r].held

\* What is observed has happened: a started attempt is durably admitted, and
\* a completed attempt is the durable completion of its task.
ObservationsAreDurable ==
    \A r \in Runtimes : rt[r] # None =>
        \A item \in Outstanding(r) :
            /\ run.admissions[item.attempt] # None
            /\ item.event = "TaskCompleted" =>
                 run.completions[run.admissions[item.attempt].task] = item.attempt

\* No lifecycle item is lost: each one emitted was drained, or is in the
\* buffer, or was handed back to the host and not yet retried.
NothingLost ==
    \A r \in Runtimes : rt[r] # None =>
        1..rt[r].emitted = rt[r].observed \cup {item.sequence : item \in Outstanding(r)}

\* A consumer that drains sees each item once and in the order of emission,
\* when the host retries a returned item before its next call.
DrainedInOrder ==
    \A r \in Runtimes : rt[r] # None =>
        LET events == rt[r].execution_events
        IN  \A i \in 1..Len(events) :
              /\ \A j \in 1..(i - 1) : events[j].sequence < events[i].sequence
              /\ \A n \in rt[r].observed : n < events[i].sequence
              /\ \A item \in rt[r].held : events[i].sequence < item.sequence

\* The tasks that configure_task leaves with the capabilities they require.
FixedPins ==
    {t \in Tasks : t \in Reconfigurable => \A c, d \in ConfigChoices[t] : c.pins = d.pins}

PinsReplayFor(S) ==
    \A a \in Attempts : run.admissions[a] # None /\ run.admissions[a].task \in S
        => run.identity[run.admissions[a].task].pins = run.admissions[a].pins

\* Whatever crashes, fails or is reconfigured, a restart never refuses the
\* completions, which replay in their durable order, nor an attempt of a task
\* whose required capabilities stayed as they are: the durable identity has
\* the pins the attempt was admitted with.
RestoresUnlessRepinned ==
    run # None /\ run.identity # None => CompletionsReplay(run) /\ PinsReplayFor(FixedPins)

\* Crashes, retries and backpressure before the first dispatch never admit a
\* second attempt for the operation.
OneAttemptUntilDispatch ==
    run # None => \A o \in Operations : effect_state(run, o) = "Prepared" =>
        Cardinality({a \in Attempts : /\ run.admissions[a] # None
                                      /\ run.admissions[a].operation = o}) <= 1

\* A runtime whose expected revision is the head has seen every fact: its
\* journal, completions, cancellations and attempts are those of the store.
ViewIsCurrent ==
    \A r \in Runtimes : rt[r] # None /\ known[r] = revision =>
        LET m == rt[r]
            s == Built(run, m.task_configs)
        IN  /\ m.journal = s.journal
            /\ m.completed = s.completed
            /\ m.cancelled = s.cancelled
            /\ m.next_attempt_number = s.next_attempt_number
            /\ (IF m.pending_started = None THEN m.attempts
                ELSE Append(m.attempts, m.pending_started.attempt)) = s.attempts

----------------------------------------------------------------------------
(* Liveness *)

\* The host keeps calling, drains, records outcomes, and restarts the process
\* after a crash; not every call fails and not every process dies early.
Fairness ==
    \A r \in Runtimes :
        /\ \A configs \in Identities : SF_vars(start_run(r, configs)) /\ SF_vars(restore_run(r, configs))
        /\ SF_vars(step(r))
        /\ SF_vars(resume(r))
        /\ SF_vars(drain_execution_events(r))
        /\ SF_vars(Available(r) /\ \E item \in rt[r].held : retry_execution_event(r, item))
        /\ \A o \in Operations :
              /\ SF_vars(dispatch_effect(r, o))
              /\ SF_vars(\E a \in Attempts, x \in KnownOutcome : record_effect_outcome(r, o, a, x))

FairSpec == Spec /\ Fairness

\* Step has nothing left to do: every ready task is cancelled, or the first
\* one that is not waits behind a failure.
Settled ==
    /\ run # None
    /\ LET m == Built(run, run.identity)
           runnable == ready_tasks(m) \ m.cancelled
       IN  runnable # {} =>
             LET o == run.task_operations[FirstTask(m)]
             IN  o # None /\ effect_state(run, o) = "Failed"

\* A run that keeps being driven and restarted comes to rest: every task is
\* completed, cancelled, behind a cancelled one, or behind a known failure.
EventuallySettles == <>[]Settled
----------------------------------------------------------------------------
(* What the documentation says and the code does not keep *)

\* "Rejects ... dispatches after a known outcome" (persist_dispatch) and "no
\* duplicate external call after a known outcome" (K3): once the outcome of an
\* operation is durably known, no dispatch makes it unknown again.
KnownOutcomeIsFinal ==
    [][run # None => \A o \in Operations :
          effect_state(run, o) \in KnownOutcome => effect_state(run', o) = effect_state(run, o)]_vars
============================================================================
