--------------------------- MODULE RuntimeProofs ---------------------------
(***************************************************************************)
(* Theorems about Runtime: any number of runtimes on one run, whatever     *)
(* tasks, operations, configurations and bounds, with crashes, refusals    *)
(* and lost answers at every commit; and the refinement of EffectContract, *)
(* where one runtime drives the run and no answer is lost.                 *)
(***************************************************************************)
EXTENDS Runtime, Integers, WellFoundedInduction, FiniteSetTheorems, TLAPS

\* A nonempty set of natural numbers has a smallest member.
LEMMA SmallestMember ==
    ASSUME NEW T \in SUBSET Nat, T # {}
    PROVE  \E x \in T : \A y \in T : x <= y
<1> DEFINE R == {p \in Nat \X Nat : p[1] < p[2]}
<1>1. IsWellFoundedOn(R, Nat)
  BY NatLessThanWellFounded DEF OpToRel
<1>2. PICK x \in T : \A y \in T : ~(<<y, x>> \in R)
  BY <1>1, WFMin
<1>3. SUFFICES ASSUME NEW y \in T PROVE x <= y
  OBVIOUS
<1>4. /\ x \in Nat /\ y \in Nat /\ <<y, x>> \in Nat \X Nat
      /\ <<y, x>>[1] = y /\ <<y, x>>[2] = x
  OBVIOUS
<1>5. ~(<<y, x>>[1] < <<y, x>>[2])
  BY <1>2, <1>4
<1> QED BY <1>4, <1>5

----------------------------------------------------------------------------
(* One mutation of the facts *)

\* An accepted mutation m takes the facts s to the facts r.
IdentityStep(s, m, r) == m.identity \in Identities /\ r = [s EXCEPT !.identity = m.identity]
AdmitStep(s, m, r) ==
    m.attempt \in Attempts /\ m.admission \in Admission /\ AdmitOK(s, m) /\ r = Admitted(s, m)
IntentStep(s, m, r) ==
    m.operation \in Operations /\ m.intent \in Intent /\ IntentOK(s, m) /\ r = Intended(s, m)
CancelStep(s, m, r) ==
    m.task \in Tasks /\ m.cancellation \in Cancellation /\ CancelOK(s, m) /\ r = Cancelled(s, m)
DispatchStep(s, m, r) ==
    m.operation \in Operations /\ m.attempt \in Attempts /\ DispatchOK(s, m) /\ r = Dispatched(s, m)
OutcomeStep(s, m, r) ==
    /\ m.operation \in Operations /\ m.attempt \in Attempts /\ m.outcome \in KnownOutcome
    /\ OutcomeOK(s, m) /\ r = Observed(s, m)
CompletionStep(s, m, r) ==
    m.task \in Tasks /\ m.attempt \in Attempts /\ CompletionOK(s, m) /\ r = Completed(s, m)

MutationStep(s, m, r) ==
    \/ IdentityStep(s, m, r) \/ AdmitStep(s, m, r) \/ IntentStep(s, m, r)
    \/ CancelStep(s, m, r) \/ DispatchStep(s, m, r) \/ OutcomeStep(s, m, r)
    \/ CompletionStep(s, m, r)

\* The facts keep their shape.
LEMMA AppliedType ==
    ASSUME NEW s \in RunState, NEW m, NEW r, MutationStep(s, m, r)
    PROVE  r \in RunState
<1> USE DEF RunState
<1>1. CASE IdentityStep(s, m, r)
  BY <1>1 DEF IdentityStep
<1>2. CASE AdmitStep(s, m, r)
  <2>1. m.attempt \in Attempts /\ m.admission \in Admission /\ r = Admitted(s, m)
    BY <1>2 DEF AdmitStep
  <2>2. Append(s.admission_history, m.attempt) \in Seq(Attempts)
    BY <2>1
  <2> QED BY <2>1, <2>2 DEF Admitted
<1>3. CASE IntentStep(s, m, r)
  <2>1. m.operation \in Operations /\ m.intent \in Intent /\ r = Intended(s, m)
    BY <1>3 DEF IntentStep
  <2> QED BY <2>1 DEF Intended, Intent
<1>4. CASE CancelStep(s, m, r)
  <2>1. m.task \in Tasks /\ m.cancellation \in Cancellation /\ r = Cancelled(s, m)
    BY <1>4 DEF CancelStep
  <2> QED BY <2>1 DEF Cancelled
<1>5. CASE DispatchStep(s, m, r)
  <2>1. m.operation \in Operations /\ m.attempt \in Attempts /\ r = Dispatched(s, m)
    BY <1>5 DEF DispatchStep
  <2>2. Append(s.dispatch_history, m.attempt) \in Seq(Attempts)
    BY <2>1
  <2> QED BY <2>1, <2>2 DEF Dispatched
<1>6. CASE OutcomeStep(s, m, r)
  <2>1. m.attempt \in Attempts /\ m.outcome \in KnownOutcome /\ r = Observed(s, m)
    BY <1>6 DEF OutcomeStep
  <2> QED BY <2>1 DEF Observed
<1>7. CASE CompletionStep(s, m, r)
  <2>1. m.task \in Tasks /\ m.attempt \in Attempts /\ r = Completed(s, m)
    BY <1>7 DEF CompletionStep
  <2>2. Append(s.completion_history, m.task) \in Seq(Tasks)
    BY <2>1
  <2> QED BY <2>1, <2>2 DEF Completed
<1> QED BY <1>1, <1>2, <1>3, <1>4, <1>5, <1>6, <1>7, Zenon DEF MutationStep

\* No accepted mutation changes or removes a fact.
LEMMA AppliedKeeps ==
    ASSUME NEW s \in RunState, NEW m, NEW r, MutationStep(s, m, r)
    PROVE  FactsKept(s, r)
<1> USE DEF RunState, FactsKept
<1>1. CASE IdentityStep(s, m, r)
  BY <1>1 DEF IdentityStep
<1>2. CASE AdmitStep(s, m, r)
  BY <1>2 DEF AdmitStep, Admitted, AdmitOK
<1>3. CASE IntentStep(s, m, r)
  BY <1>3 DEF IntentStep, Intended, IntentOK, Intent
<1>4. CASE CancelStep(s, m, r)
  BY <1>4 DEF CancelStep, Cancelled, CancelOK
<1>5. CASE DispatchStep(s, m, r)
  BY <1>5 DEF DispatchStep, Dispatched, DispatchOK
<1>6. CASE OutcomeStep(s, m, r)
  BY <1>6 DEF OutcomeStep, Observed, OutcomeOK
<1>7. CASE CompletionStep(s, m, r)
  BY <1>7 DEF CompletionStep, Completed, CompletionOK
<1> QED BY <1>1, <1>2, <1>3, <1>4, <1>5, <1>6, <1>7, Zenon DEF MutationStep

\* An accepted mutation keeps the lineage of the facts, one part at a time.
LEMMA AppliedLineage ==
    ASSUME NEW s \in RunState, NEW m, NEW r, MutationStep(s, m, r),
           Lineage(s)
    PROVE  Lineage(r)
<1> USE DEF RunState
<1>0. /\ OwnershipAgrees(s) /\ DispatchHasAuthority(s) /\ OutcomeHasDispatch(s)
      /\ CompletionHasSuccess(s) /\ CancellationHasLineage(s) /\ DispatchHistoryExact(s)
  BY DEF Lineage
<1>1. CASE IdentityStep(s, m, r)
  BY <1>0, <1>1 DEF IdentityStep, Lineage, OwnershipAgrees, DispatchHasAuthority,
     OutcomeHasDispatch, CompletionHasSuccess, CancellationHasLineage, DispatchHistoryExact
<1>2. CASE AdmitStep(s, m, r)
  <2> USE <1>0, <1>2, NoneIsNoRecord DEF AdmitStep, Admitted, AdmitOK
  <2>1. OwnershipAgrees(r)
    BY DEF OwnershipAgrees
  <2>2. DispatchHasAuthority(r)
    BY DEF DispatchHasAuthority
  <2>3. OutcomeHasDispatch(r)
    BY DEF OutcomeHasDispatch
  <2>4. CompletionHasSuccess(r)
    BY DEF CompletionHasSuccess
  <2>5. CancellationHasLineage(r)
    BY DEF CancellationHasLineage
  <2>6. DispatchHistoryExact(r)
    BY DEF DispatchHistoryExact
  <2> QED BY <2>1, <2>2, <2>3, <2>4, <2>5, <2>6 DEF Lineage
<1>3. CASE IntentStep(s, m, r)
  <2> USE <1>0, <1>3, NoneIsNoRecord, NoneAssumption DEF IntentStep, Intended, IntentOK, Intent
  <2>1. OwnershipAgrees(r)
    BY SMTT(30) DEF OwnershipAgrees
  <2>2. DispatchHasAuthority(r)
    BY DEF DispatchHasAuthority
  <2>3. OutcomeHasDispatch(r)
    BY DEF OutcomeHasDispatch
  <2>4. CompletionHasSuccess(r)
    BY DEF CompletionHasSuccess
  <2>5. CancellationHasLineage(r)
    BY DEF CancellationHasLineage
  <2>6. DispatchHistoryExact(r)
    BY DEF DispatchHistoryExact
  <2> QED BY <2>1, <2>2, <2>3, <2>4, <2>5, <2>6 DEF Lineage
<1>4. CASE CancelStep(s, m, r)
  <2> USE <1>0, <1>4, NoneIsNoRecord DEF CancelStep, Cancelled, CancelOK, Cancellation
  <2>1. OwnershipAgrees(r)
    BY DEF OwnershipAgrees
  <2>2. DispatchHasAuthority(r)
    BY DEF DispatchHasAuthority
  <2>3. OutcomeHasDispatch(r)
    BY DEF OutcomeHasDispatch
  <2>4. CompletionHasSuccess(r)
    BY DEF CompletionHasSuccess
  <2>5. CancellationHasLineage(r)
    BY DEF CancellationHasLineage
  <2>6. DispatchHistoryExact(r)
    BY DEF DispatchHistoryExact
  <2> QED BY <2>1, <2>2, <2>3, <2>4, <2>5, <2>6 DEF Lineage
<1>5. CASE DispatchStep(s, m, r)
  <2> USE <1>0, <1>5, NoneAssumption DEF DispatchStep, Dispatched, DispatchOK
  <2>1. OwnershipAgrees(r)
    BY DEF OwnershipAgrees
  <2>2. DispatchHasAuthority(r)
    BY DEF DispatchHasAuthority
  <2>3. OutcomeHasDispatch(r)
    BY DEF OutcomeHasDispatch
  <2>4. CompletionHasSuccess(r)
    BY DEF CompletionHasSuccess
  <2>5. CancellationHasLineage(r)
    BY DEF CancellationHasLineage
  <2>6. DispatchHistoryExact(r)
    <3> DEFINE h == s.dispatch_history
               n == Len(s.dispatch_history)
    <3>1. /\ n \in Nat /\ 1..(n + 1) = (1..n) \cup {n + 1}
          /\ r.dispatch_history = Append(h, m.attempt)
          /\ Len(r.dispatch_history) = n + 1
          /\ \A i \in 1..n : r.dispatch_history[i] = h[i]
          /\ r.dispatch_history[n + 1] = m.attempt
      OBVIOUS
    <3>2. \A a \in Attempts :
             r.dispatches[a] = IF a = m.attempt THEN m.operation ELSE s.dispatches[a]
      OBVIOUS
    <3>3. /\ m.attempt \in Attempts /\ m.operation # None /\ s.dispatches[m.attempt] = None
      OBVIOUS
    <3>4. /\ \A a \in Attempts : s.dispatches[a] # None <=> \E i \in 1..n : h[i] = a
          /\ \A i, j \in 1..n : h[i] = h[j] => i = j
      BY DEF DispatchHistoryExact
    <3> HIDE <1>0, <1>5 DEF h, n, DispatchStep, Dispatched, DispatchOK
    <3> QED BY <3>1, <3>2, <3>3, <3>4 DEF DispatchHistoryExact
  <2> QED BY <2>1, <2>2, <2>3, <2>4, <2>5, <2>6 DEF Lineage
<1>6. CASE OutcomeStep(s, m, r)
  <2> USE <1>0, <1>6, NoneAssumption DEF OutcomeStep, Observed, OutcomeOK, KnownOutcome
  <2>1. OwnershipAgrees(r)
    BY DEF OwnershipAgrees
  <2>2. DispatchHasAuthority(r)
    BY DEF DispatchHasAuthority
  <2>3. OutcomeHasDispatch(r)
    BY DEF OutcomeHasDispatch
  <2>4. CompletionHasSuccess(r)
    BY DEF CompletionHasSuccess
  <2>5. CancellationHasLineage(r)
    BY DEF CancellationHasLineage
  <2>6. DispatchHistoryExact(r)
    BY DEF DispatchHistoryExact
  <2> QED BY <2>1, <2>2, <2>3, <2>4, <2>5, <2>6 DEF Lineage
<1>7. CASE CompletionStep(s, m, r)
  <2> USE <1>0, <1>7 DEF CompletionStep, Completed, CompletionOK
  <2>1. OwnershipAgrees(r)
    BY DEF OwnershipAgrees
  <2>2. DispatchHasAuthority(r)
    BY DEF DispatchHasAuthority
  <2>3. OutcomeHasDispatch(r)
    BY DEF OutcomeHasDispatch
  <2>4. CompletionHasSuccess(r)
    BY DEF CompletionHasSuccess
  <2>5. CancellationHasLineage(r)
    BY DEF CancellationHasLineage
  <2>6. DispatchHistoryExact(r)
    BY DEF DispatchHistoryExact
  <2> QED BY <2>1, <2>2, <2>3, <2>4, <2>5, <2>6 DEF Lineage
<1> QED BY <1>1, <1>2, <1>3, <1>4, <1>5, <1>6, <1>7, Zenon DEF MutationStep

\* A run without facts is a consistent one.
LEMMA EmptyRunFacts == EmptyRun \in RunState /\ Lineage(EmptyRun)
<1>1. EmptyRun \in RunState
  BY DEF EmptyRun, RunState
<1>2. Lineage(EmptyRun)
  BY DEF EmptyRun, Lineage, OwnershipAgrees, DispatchHasAuthority, OutcomeHasDispatch,
         CompletionHasSuccess, CancellationHasLineage, DispatchHistoryExact
<1> QED BY <1>1, <1>2

IdKey == <<"workflow-replay-identity">>

\* Two configurations require the same of the tasks whose pins are fixed.
PinsAgree(c, d) == \A t \in FixedPins : c[t].pins = d[t].pins

----------------------------------------------------------------------------
(* The facts of the run *)

\* The fact that the mutation m reports is one of s.
Recorded(s, m) ==
    /\ m.kind = "Admit" => s.admissions[m.attempt] = m.admission
    /\ m.kind = "Intent" => s.intents[m.operation] = m.intent
    /\ m.kind = "Cancel" => s.cancellations[m.task] = m.cancellation
    /\ m.kind = "Dispatch" => s.dispatches[m.attempt] = m.operation
    /\ m.kind = "Outcome" => s.outcomes[m.attempt] = m.outcome
    /\ m.kind = "Completion" => s.completions[m.task] = m.attempt

\* Attempts are numbered in the order of their admission.
Numbered(s) ==
    /\ \A i \in 1..Len(s.admission_history) : s.admission_history[i] = i
    /\ \A a \in Attempts : s.admissions[a] # None <=> a <= Len(s.admission_history)

\* The completion history lists exactly the completed tasks.
CompletionsExact(s) ==
    \A t \in Tasks : s.completions[t] # None
        <=> \E i \in 1..Len(s.completion_history) : s.completion_history[i] = t

\* An attempt of an operation belongs to the task that owns the operation.
AdmissionsOwned(s) ==
    \A a \in Attempts : s.admissions[a] # None /\ s.admissions[a].operation # None =>
        /\ s.intents[s.admissions[a].operation] # None
        /\ s.intents[s.admissions[a].operation].task = s.admissions[a].task

DispatchedOnce(s, o) == \E a \in Attempts : s.dispatches[a] = o

OneAttempt(s) ==
    \A o \in Operations : ~DispatchedOnce(s, o) =>
        \A a, b \in Attempts :
            /\ s.admissions[a] # None /\ s.admissions[a].operation = o
            /\ s.admissions[b] # None /\ s.admissions[b].operation = o
            => a = b

PinsKept(s) ==
    \A a \in Attempts : s.admissions[a] # None /\ s.admissions[a].task \in FixedPins =>
        s.identity # None /\ s.identity[s.admissions[a].task].pins = s.admissions[a].pins

FactsInv(s) ==
    /\ s \in RunState /\ Lineage(s) /\ Numbered(s)
    /\ CompletionsReplay(s) /\ CompletionsExact(s) /\ AdmissionsOwned(s)
    /\ HostRetriesFirst => OneAttempt(s)
    /\ PinsKept(s)

\* A key is bound to one mutation, whose fact is recorded.
KeyInv ==
    \A k \in Keys : idempotency[k] # None =>
        run # None /\ \E m \in DurableMutation : idempotency[k] = <<m>> /\ Recorded(run, m)

\* The first commit of a run is that of its identity, once and for all.
IdentityInv ==
    /\ idempotency[IdKey] = None =>
          /\ run \in {None, EmptyRun}
          /\ \A r \in Runtimes : rt[r] # None => rt[r].call # None /\ rt[r].call.at = "identity"
    /\ idempotency[IdKey] # None =>
          /\ run # None /\ run.identity # None
          /\ \A c \in Identities :
                idempotency[IdKey] = <<RecordIdentity(c)>> => PinsAgree(c, run.identity)

----------------------------------------------------------------------------
(* The memory m of a runtime over the facts s *)

\* What the call in progress goes on with.
CallInv(m) ==
    m.call # None =>
        /\ m.call.at \in {"effect", "complete"} => m.call.task \in Tasks
        /\ m.call.at \in {"effect", "dispatch"} => m.call.operation \in Operations
        /\ m.call.at \in {"complete", "dispatch"} => m.call.attempt \in Attempts
        /\ m.call.at = "effect" =>
              /\ m.journal.intents[m.call.operation] # None
              /\ m.journal.intents[m.call.operation].task = m.call.task

\* The memory holds no fact that the run does not.
JournalBehind(j, s) ==
    /\ \A o \in Operations : j.intents[o] # None => s.intents[o] = j.intents[o]
    /\ \A t \in Tasks : j.task_operations[t] # None => s.task_operations[t] = j.task_operations[t]
    /\ \A a \in Attempts : j.dispatches[a] # None => s.dispatches[a] = j.dispatches[a]
    /\ \A a \in Attempts : j.outcomes[a] # None => s.outcomes[a] = j.outcomes[a]
    /\ OwnershipAgrees(j) /\ DispatchHistoryExact(j)

Behind(m, s) ==
    /\ JournalBehind(m.journal, s)
    /\ \A t \in m.completed : s.completions[t] # None
    /\ \A t \in m.cancelled : s.cancellations[t] # None
    /\ m.next_attempt_number \in 1..(Len(s.admission_history) + 1)

\* What the item reports is durable.
Durable(item, s) ==
    /\ s.admissions[item.attempt] # None
    /\ item.event = "TaskCompleted" => s.completions[s.admissions[item.attempt].task] = item.attempt

ItemsDurable(m, s) ==
    /\ \A i \in 1..Len(m.execution_events) : Durable(m.execution_events[i], s)
    /\ \A item \in m.held : Durable(item, s)
    /\ m.pending_started # None => Durable(m.pending_started.item, s)

\* The attempts the memory knows are the first ones of the run.
KnownAttempts(m) ==
    IF m.pending_started = None THEN m.attempts ELSE Append(m.attempts, m.pending_started.attempt)

Knows(m, s) ==
    /\ m.next_attempt_number = Len(KnownAttempts(m)) + 1
    /\ \A i \in 1..Len(KnownAttempts(m)) :
          KnownAttempts(m)[i] = [attempt |-> i, task |-> s.admissions[i].task,
                                 operation |-> s.admissions[i].operation]

\* Sequences: observed, then buffered, then the one handed back.
Ordered(m) ==
    /\ \A n \in 1..m.emitted :
          \/ n \in m.observed
          \/ \E i \in 1..Len(m.execution_events) : n = m.execution_events[i].sequence
          \/ \E item \in m.held : n = item.sequence
    /\ \A n \in m.observed : n \in 1..m.emitted
    /\ \A i \in 1..Len(m.execution_events) :
          /\ m.execution_events[i].sequence <= m.emitted
          /\ \A j \in 1..(i - 1) : m.execution_events[j].sequence < m.execution_events[i].sequence
          /\ \A n \in m.observed : n < m.execution_events[i].sequence
    /\ \A item \in m.held :
          /\ item.sequence = m.emitted
          /\ \A i \in 1..Len(m.execution_events) : m.execution_events[i].sequence < item.sequence
          /\ \A n \in m.observed : n < item.sequence
          /\ \A other \in m.held : other = item
    /\ m.call # None => m.held = {}
    /\ m.pending_started # None => m.held = {m.pending_started.item}

MemInv(m, s) ==
    /\ m \in Memory /\ Len(m.execution_events) <= EventCapacity
    /\ CallInv(m) /\ Behind(m, s) /\ ItemsDurable(m, s)
    /\ HostRetriesFirst => Ordered(m) /\ Knows(m, s)

Past(m) == m.call = None \/ m.call.at # "identity"

MemoriesInv ==
    \A r \in Runtimes : rt[r] # None =>
        /\ run # None /\ known[r] # None
        /\ MemInv(rt[r], run)
        /\ Past(rt[r]) => PinsAgree(rt[r].task_configs, run.identity)

IInv ==
    /\ Store!TypeOK
    /\ rt \in [Runtimes -> Memory \cup {None}]
    /\ granted \in [Operations -> Nat]
    /\ run # None => FactsInv(run)
    /\ KeyInv /\ IdentityInv /\ MemoriesInv

----------------------------------------------------------------------------
(* Commits *)

\* A commit that the store takes, and one it has taken before.
Fresh(r, key, mut) ==
    /\ idempotency[key] = None /\ known[r] = revision /\ revision < MaxRevision
    /\ Accepts(run, mut) /\ run' = Apply(run, mut)
    /\ revision' = revision + 1
    /\ idempotency' = [idempotency EXCEPT ![key] = <<mut>>]
    /\ commit_ledger' = Append(commit_ledger, [key |-> key, mutations |-> <<mut>>,
                                               revision |-> revision + 1])

Replayed(key, mut) ==
    /\ idempotency[key] = <<mut>>
    /\ UNCHANGED <<run, revision, commit_ledger, idempotency>>

\* The answer reaches r, whose memory becomes m, or it is lost.
Answered(r, m) == known' = [known EXCEPT ![r] = revision'] /\ rt' = [rt EXCEPT ![r] = m]
Unanswered(r) ==
    MayLoseAnswers /\ UNCHANGED known /\ rt' = [rt EXCEPT ![r] = Abandoned(rt[r])]

\* The store has its own instance of the facts; they are the same.
LEMMA SameFacts ==
    /\ Store!RunState = RunState
    /\ Store!DurableMutation = DurableMutation
    /\ Store!EmptyRun = EmptyRun
<1>1. Store!RunState = RunState
  BY DEF Store!RunState, RunState, Store!Admission, Admission, Store!Intent, Intent,
         Store!Semantics, Semantics, Store!Cancellation, Cancellation,
         Store!KnownOutcome, KnownOutcome
<1>2. Store!DurableMutation = DurableMutation
  BY DEF Store!DurableMutation, DurableMutation, Store!Admission, Admission, Store!Intent, Intent,
         Store!Semantics, Semantics, Store!Cancellation, Cancellation,
         Store!KnownOutcome, KnownOutcome, Store!RecordIdentity, RecordIdentity,
         Store!AdmitAttempt, AdmitAttempt, Store!RecordIntent, RecordIntent,
         Store!RecordCancellation, RecordCancellation, Store!RecordDispatch, RecordDispatch,
         Store!RecordOutcome, RecordOutcome, Store!RecordCompletion, RecordCompletion
<1>3. Store!EmptyRun = EmptyRun
  BY DEF Store!EmptyRun, EmptyRun
<1> QED BY <1>1, <1>2, <1>3

\* A mutation is accepted and applied alike in both instances.
LEMMA SameStep ==
    ASSUME NEW s, NEW m
    PROVE  (Store!Accepts(s, m) <=> Accepts(s, m)) /\ Store!Apply(s, m) = Apply(s, m)
<1>1. Store!CompletionOK(s, m) <=> CompletionOK(s, m)
  BY Zenon DEF Store!CompletionOK, CompletionOK, Store!latest_dispatch, latest_dispatch
<1>2. (Store!AdmitOK(s, m) <=> AdmitOK(s, m)) /\ (Store!IntentOK(s, m) <=> IntentOK(s, m))
  BY Zenon DEF Store!AdmitOK, AdmitOK, Store!IntentOK, IntentOK
<1>3. (Store!CancelOK(s, m) <=> CancelOK(s, m)) /\ (Store!DispatchOK(s, m) <=> DispatchOK(s, m))
  BY Zenon DEF Store!CancelOK, CancelOK, Store!DispatchOK, DispatchOK
<1>4. Store!OutcomeOK(s, m) <=> OutcomeOK(s, m)
  BY Zenon DEF Store!OutcomeOK, OutcomeOK
<1>5. Store!Accepts(s, m) <=> Accepts(s, m)
  BY <1>1, <1>2, <1>3, <1>4, Zenon DEF Store!Accepts, Accepts
<1>6. Store!Apply(s, m) = Apply(s, m)
  BY Zenon DEF Store!Apply, Apply, Store!Admitted, Admitted, Store!Intended, Intended, Store!Cancelled,
         Cancelled, Store!Dispatched, Dispatched, Store!Observed, Observed, Store!Completed, Completed
<1> QED BY <1>5, <1>6

\* What a commit of one mutation does.
LEMMA CommitFacts ==
    ASSUME NEW r \in Runtimes, NEW key \in Keys, NEW mut, NEW m, commit_durable(r, key, mut, m)
    PROVE  /\ run # None
           /\ Fresh(r, key, mut) \/ Replayed(key, mut)
           /\ Answered(r, m) \/ Unanswered(r)
<1> DEFINE req == [key |-> key, mutations |-> <<mut>>]
           C == Store!Candidates(run, <<mut>>)
<1>1. /\ Store!CommitFresh(r, req) \/ Store!CommitReplayed(req)
      /\ Answered(r, m) \/ Unanswered(r)
  BY Zenon DEF commit_durable, Answered, Unanswered
<1>2. req.key = key /\ req.mutations = <<mut>> /\ Len(<<mut>>) = 1 /\ <<mut>>[1] = mut
  OBVIOUS
<1>3. ASSUME Store!CommitFresh(r, req) PROVE run # None /\ Fresh(r, key, mut)
  <2>1. /\ run # None /\ idempotency[key] = None /\ known[r] = revision /\ revision < MaxRevision
        /\ Store!BatchAccepted(run, <<mut>>) /\ run' = Store!BatchResult(run, <<mut>>)
        /\ revision' = revision + 1
        /\ idempotency' = [idempotency EXCEPT ![key] = <<mut>>]
        /\ commit_ledger' = Append(commit_ledger, [key |-> key, mutations |-> <<mut>>,
                                                   revision |-> revision + 1])
    BY <1>2, <1>3 DEF Store!CommitFresh, Store!record_commit, Store!checked_next
  <2>2. C = CHOOSE f : f = [i \in 0..1 |-> IF i = 0 THEN run ELSE Store!Apply(f[i - 1], <<mut>>[i])]
    BY <1>2 DEF Store!Candidates
  <2>3. \E f : f = [i \in 0..1 |-> IF i = 0 THEN run ELSE Store!Apply(f[i - 1], <<mut>>[i])]
    <3> DEFINE f == [i \in 0..1 |-> IF i = 0 THEN run ELSE Store!Apply(run, mut)]
    <3>1. f = [i \in 0..1 |-> IF i = 0 THEN run ELSE Store!Apply(f[i - 1], <<mut>>[i])]
      OBVIOUS
    <3> QED BY <3>1
  <2>4. C = [i \in 0..1 |-> IF i = 0 THEN run ELSE Store!Apply(C[i - 1], <<mut>>[i])]
    <3> HIDE DEF C
    <3> QED BY <2>2, <2>3
  <2>5. C[0] = run /\ C[1] = Store!Apply(run, mut)
    <3> HIDE DEF C
    <3>1. C[0] = run
      BY <2>4
    <3> QED BY <2>4, <3>1
  <2>6. Store!Accepts(run, mut) /\ run' = Store!Apply(run, mut)
    BY <1>2, <2>1, <2>5 DEF Store!BatchAccepted, Store!BatchResult
  <2> QED BY <2>1, <2>6, SameStep DEF Fresh
<1>4. ASSUME Store!CommitReplayed(req) PROVE run # None /\ Replayed(key, mut)
  BY <1>2, <1>4 DEF Store!CommitReplayed, Store!store, Replayed
<1> QED BY <1>1, <1>3, <1>4

----------------------------------------------------------------------------
(* The facts grow *)

KindStep(s, m, r) ==
    \/ m.kind = "Identity" /\ IdentityStep(s, m, r)
    \/ m.kind = "Admit" /\ AdmitStep(s, m, r)
    \/ m.kind = "Intent" /\ IntentStep(s, m, r)
    \/ m.kind = "Cancel" /\ CancelStep(s, m, r)
    \/ m.kind = "Dispatch" /\ DispatchStep(s, m, r)
    \/ m.kind = "Outcome" /\ OutcomeStep(s, m, r)
    \/ m.kind = "Completion" /\ CompletionStep(s, m, r)

\* An accepted mutation is the step of its kind.
LEMMA AcceptedKind ==
    ASSUME NEW s, NEW m \in DurableMutation, Accepts(s, m)
    PROVE  KindStep(s, m, Apply(s, m)) /\ MutationStep(s, m, Apply(s, m))
<1>0. SUFFICES ASSUME NEW r, r = Apply(s, m) PROVE KindStep(s, m, r) /\ MutationStep(s, m, r)
  OBVIOUS
<1>1. \/ m.kind = "Identity" /\ m.identity \in Identities
      \/ m.kind = "Admit" /\ m.attempt \in Attempts /\ m.admission \in Admission
      \/ m.kind = "Intent" /\ m.operation \in Operations /\ m.intent \in Intent
      \/ m.kind = "Cancel" /\ m.task \in Tasks /\ m.cancellation \in Cancellation
      \/ m.kind = "Dispatch" /\ m.operation \in Operations /\ m.attempt \in Attempts
      \/ /\ m.kind = "Outcome" /\ m.operation \in Operations /\ m.attempt \in Attempts
         /\ m.outcome \in KnownOutcome
      \/ m.kind = "Completion" /\ m.task \in Tasks /\ m.attempt \in Attempts
  BY DEF DurableMutation, RecordIdentity, AdmitAttempt, RecordIntent, RecordCancellation,
         RecordDispatch, RecordOutcome, RecordCompletion
<1>2. /\ m.kind = "Identity" => r = [s EXCEPT !.identity = m.identity]
      /\ m.kind = "Admit" => r = Admitted(s, m)
      /\ m.kind = "Intent" => r = Intended(s, m)
      /\ m.kind = "Cancel" => r = Cancelled(s, m)
      /\ m.kind = "Dispatch" => r = Dispatched(s, m)
      /\ m.kind = "Outcome" => r = Observed(s, m)
      /\ m.kind = "Completion" => r = Completed(s, m)
  BY <1>0 DEF Apply
<1>3. /\ m.kind = "Admit" => AdmitOK(s, m)
      /\ m.kind = "Intent" => IntentOK(s, m)
      /\ m.kind = "Cancel" => CancelOK(s, m)
      /\ m.kind = "Dispatch" => DispatchOK(s, m)
      /\ m.kind = "Outcome" => OutcomeOK(s, m)
      /\ m.kind = "Completion" => CompletionOK(s, m)
  BY DEF Accepts
<1>4. KindStep(s, m, r)
  BY <1>1, <1>2, <1>3, Zenon
     DEF KindStep, IdentityStep, AdmitStep, IntentStep, CancelStep, DispatchStep, OutcomeStep,
         CompletionStep
<1> QED BY <1>4, Zenon DEF KindStep, MutationStep

\* An accepted mutation is recorded.
LEMMA StepRecorded ==
    ASSUME NEW s \in RunState, NEW m, NEW r, KindStep(s, m, r)
    PROVE  Recorded(r, m)
<1> USE DEF RunState, Recorded
<1>1. CASE m.kind = "Identity" /\ IdentityStep(s, m, r)
  BY <1>1
<1>2. CASE m.kind = "Admit" /\ AdmitStep(s, m, r)
  BY <1>2 DEF AdmitStep, Admitted
<1>3. CASE m.kind = "Intent" /\ IntentStep(s, m, r)
  BY <1>3 DEF IntentStep, Intended, IntentOK, Intent
<1>4. CASE m.kind = "Cancel" /\ CancelStep(s, m, r)
  BY <1>4 DEF CancelStep, Cancelled
<1>5. CASE m.kind = "Dispatch" /\ DispatchStep(s, m, r)
  BY <1>5 DEF DispatchStep, Dispatched
<1>6. CASE m.kind = "Outcome" /\ OutcomeStep(s, m, r)
  BY <1>6 DEF OutcomeStep, Observed
<1>7. CASE m.kind = "Completion" /\ CompletionStep(s, m, r)
  BY <1>7 DEF CompletionStep, Completed
<1> QED BY <1>1, <1>2, <1>3, <1>4, <1>5, <1>6, <1>7, Zenon DEF KindStep

\* What a runtime makes sure of before it commits m on the facts s.
Fits(s, m) ==
    /\ m.kind = "Identity" =>
          \A a \in Attempts : s.admissions[a] # None /\ s.admissions[a].task \in FixedPins =>
              m.identity[s.admissions[a].task].pins = s.admissions[a].pins
    /\ m.kind = "Admit" =>
          /\ m.attempt <= Len(s.admission_history) + 1
          /\ m.admission.operation # None =>
                /\ s.intents[m.admission.operation] # None
                /\ s.intents[m.admission.operation].task = m.admission.task
                /\ HostRetriesFirst =>
                      \/ DispatchedOnce(s, m.admission.operation)
                      \/ s.admissions[m.attempt] # None
                      \/ \A a \in Attempts : s.admissions[a] # None =>
                            s.admissions[a].operation # m.admission.operation
          /\ m.admission.task \in FixedPins =>
                s.identity # None /\ s.identity[m.admission.task].pins = m.admission.pins
    /\ m.kind = "Completion" => \A t \in Deps[m.task] : s.completions[t] # None


\* Attempts are numbers from 1 on.
LEMMA AttemptNumbers ==
    /\ Attempts \subseteq Nat
    /\ \A a \in Attempts : a >= 1
    /\ \A a \in Attempts : 1..a \subseteq Attempts
<1>1. Cardinality(Tasks) \in Nat
  BY RuntimeAssumption, FS_CardinalityType
<1>2. MaxPerTask * Cardinality(Tasks) \in Nat
  BY <1>1, RuntimeAssumption
<1> QED BY <1>2, RuntimeAssumption

\* Fields a mutation leaves alone, by kind.
LEMMA StepFrame ==
    ASSUME NEW s \in RunState, NEW m, NEW r, KindStep(s, m, r)
    PROVE  /\ m.kind # "Identity" => r.identity = s.identity
           /\ m.kind # "Admit" => /\ r.admissions = s.admissions
                                  /\ r.admission_history = s.admission_history
           /\ m.kind # "Intent" => r.intents = s.intents /\ r.task_operations = s.task_operations
           /\ m.kind # "Cancel" => r.cancellations = s.cancellations
           /\ m.kind # "Dispatch" => /\ r.dispatches = s.dispatches
                                     /\ r.dispatch_history = s.dispatch_history
           /\ m.kind # "Outcome" => r.outcomes = s.outcomes
           /\ m.kind # "Completion" => /\ r.completions = s.completions
                                       /\ r.completion_history = s.completion_history
<1> USE DEF RunState
<1>1. CASE m.kind = "Identity" /\ IdentityStep(s, m, r)
  BY <1>1 DEF IdentityStep
<1>2. CASE m.kind = "Admit" /\ AdmitStep(s, m, r)
  BY <1>2 DEF AdmitStep, Admitted
<1>3. CASE m.kind = "Intent" /\ IntentStep(s, m, r)
  BY <1>3 DEF IntentStep, Intended
<1>4. CASE m.kind = "Cancel" /\ CancelStep(s, m, r)
  BY <1>4 DEF CancelStep, Cancelled
<1>5. CASE m.kind = "Dispatch" /\ DispatchStep(s, m, r)
  BY <1>5 DEF DispatchStep, Dispatched
<1>6. CASE m.kind = "Outcome" /\ OutcomeStep(s, m, r)
  BY <1>6 DEF OutcomeStep, Observed
<1>7. CASE m.kind = "Completion" /\ CompletionStep(s, m, r)
  BY <1>7 DEF CompletionStep, Completed
<1> QED BY <1>1, <1>2, <1>3, <1>4, <1>5, <1>6, <1>7, Zenon DEF KindStep

\* A new attempt is the next one.
LEMMA AdmitNumbered ==
    ASSUME NEW s \in RunState, Numbered(s), NEW m, NEW r, AdmitStep(s, m, r),
           m.attempt <= Len(s.admission_history) + 1
    PROVE  /\ Numbered(r)
           /\ m.attempt = Len(s.admission_history) + 1
           /\ Len(r.admission_history) = Len(s.admission_history) + 1
           /\ r.admissions = [s.admissions EXCEPT ![m.attempt] = m.admission]
<1> DEFINE k == Len(s.admission_history)
<1>1. /\ m.attempt \in Attempts /\ s.admissions[m.attempt] = None
      /\ r.admissions = [s.admissions EXCEPT ![m.attempt] = m.admission]
      /\ r.admission_history = Append(s.admission_history, m.attempt)
      /\ m.admission # None
  BY NoneIsNoRecord DEF AdmitStep, AdmitOK, Admitted, RunState
<1>2. s.admission_history \in Seq(Attempts) /\ s.admissions \in [Attempts -> Admission \cup {None}]
  BY DEF RunState
<1>3. k \in Nat /\ m.attempt \in Nat /\ m.attempt = k + 1
  BY <1>1, <1>2, AttemptNumbers DEF Numbered
<1>4. Len(r.admission_history) = k + 1
  BY <1>1, <1>2
<1>5. ASSUME NEW i \in 1..Len(r.admission_history) PROVE r.admission_history[i] = i
  <2>1. CASE i = k + 1
    BY <1>1, <1>2, <1>3, <2>1
  <2>2. CASE i # k + 1
    <3>1. i \in 1..k
      BY <1>3, <1>4, <2>2
    <3> QED BY <1>1, <1>2, <3>1 DEF Numbered
  <2> QED BY <2>1, <2>2
<1>6. ASSUME NEW a \in Attempts PROVE r.admissions[a] # None <=> a <= Len(r.admission_history)
  <2>1. a \in Nat /\ (s.admissions[a] # None <=> a <= k)
    BY AttemptNumbers DEF Numbered
  <2>2. CASE a = m.attempt
    BY <1>1, <1>2, <1>3, <1>4, <2>2
  <2>3. CASE a # m.attempt
    BY <1>1, <1>2, <1>3, <1>4, <2>1, <2>3
  <2> QED BY <2>2, <2>3
<1> QED BY <1>1, <1>3, <1>4, <1>5, <1>6 DEF Numbered


\* A completion comes after those of the dependencies.
LEMMA CompletionReplays ==
    ASSUME NEW s \in RunState, CompletionsReplay(s), CompletionsExact(s),
           NEW m, NEW r, CompletionStep(s, m, r), \A t \in Deps[m.task] : s.completions[t] # None
    PROVE  CompletionsReplay(r) /\ CompletionsExact(r)
<1>1. m.task \in Tasks /\ m.attempt \in Attempts /\ CompletionOK(s, m) /\ r = Completed(s, m)
  BY DEF CompletionStep
<1>2. CASE s.completions[m.task] = m.attempt
  BY <1>1, <1>2 DEF Completed
<1>3. CASE s.completions[m.task] # m.attempt
  <2> DEFINE h == s.completion_history
             n == Len(h)
             g == r.completion_history
  <2>1. /\ h \in Seq(Tasks) /\ n \in Nat /\ s.completions \in [Tasks -> Attempts \cup {None}]
        /\ s.completions[m.task] = None /\ m.attempt # None
    BY <1>1, <1>3, NoneAssumption DEF RunState, CompletionOK
  <2>2. /\ r.completions = [s.completions EXCEPT ![m.task] = m.attempt]
        /\ g = Append(h, m.task)
    BY <1>1, <1>3 DEF Completed, RunState
  <2>3. /\ Len(g) = n + 1 /\ g[n + 1] = m.task
        /\ \A i \in 1..n : g[i] = h[i]
    BY <1>1, <2>1, <2>2
  <2>4. \A i \in 1..n : h[i] # m.task
    BY <1>1, <2>1 DEF CompletionsExact
  <2>5. Deps[m.task] \subseteq {h[j] : j \in 1..n}
    <3>1. Deps[m.task] \subseteq Tasks
      BY <1>1, RuntimeAssumption
    <3> QED BY <3>1 DEF CompletionsExact
  <2> HIDE DEF h, n, g
  <2>6. ASSUME NEW i \in 1..(n + 1)
        PROVE  /\ Deps[g[i]] \subseteq {g[j] : j \in 1..(i - 1)}
               /\ \A j \in 1..(i - 1) : g[j] # g[i]
    <3>1. CASE i = n + 1
      <4>1. i - 1 = n /\ g[i] = m.task
        BY <2>1, <2>3, <3>1
      <4>2. {g[j] : j \in 1..n} = {h[j] : j \in 1..n}
        BY <2>3
      <4> QED BY <2>3, <2>4, <2>5, <4>1, <4>2
    <3>2. CASE i # n + 1
      <4>1. i \in 1..n /\ \A j \in 1..(i - 1) : j \in 1..n
        BY <2>1, <3>2
      <4>2. /\ Deps[h[i]] \subseteq {h[j] : j \in 1..(i - 1)}
            /\ \A j \in 1..(i - 1) : h[j] # h[i]
        BY <4>1 DEF CompletionsReplay, h, n
      <4>3. {g[j] : j \in 1..(i - 1)} = {h[j] : j \in 1..(i - 1)}
        BY <2>3, <4>1
      <4> QED BY <2>3, <4>1, <4>2, <4>3
    <3> QED BY <3>1, <3>2
  <2>7. CompletionsReplay(r)
    BY <2>3, <2>6 DEF CompletionsReplay, g
  <2>8. ASSUME NEW t \in Tasks
        PROVE  r.completions[t] # None <=> \E i \in 1..Len(g) : g[i] = t
    <3>1. s.completions[t] # None <=> \E i \in 1..n : h[i] = t
      BY DEF CompletionsExact, h, n
    <3>2. CASE t = m.task
      <4>1. r.completions[t] # None
        BY <1>1, <2>1, <2>2, <3>2
      <4>2. n + 1 \in 1..Len(g) /\ g[n + 1] = t
        BY <2>1, <2>3, <3>2
      <4> QED BY <4>1, <4>2
    <3>3. CASE t # m.task
      <4>1. r.completions[t] = s.completions[t]
        BY <2>1, <2>2, <3>3
      <4>2. ASSUME NEW i \in 1..Len(g), g[i] = t PROVE i \in 1..n /\ h[i] = t
        BY <2>1, <2>3, <3>3, <4>2
      <4>3. ASSUME NEW i \in 1..n, h[i] = t PROVE i \in 1..Len(g) /\ g[i] = t
        BY <2>1, <2>3, <4>3
      <4> QED BY <3>1, <4>1, <4>2, <4>3
    <3> QED BY <3>2, <3>3
  <2>9. CompletionsExact(r)
    BY <2>8 DEF CompletionsExact, g
  <2> QED BY <2>7, <2>9
<1> QED BY <1>2, <1>3

\* The attempts of an operation, after one more of them.
LEMMA AdmitOwned ==
    ASSUME NEW s \in RunState, AdmissionsOwned(s), HostRetriesFirst => OneAttempt(s),
           NEW m, NEW r, AdmitStep(s, m, r), m.kind = "Admit", Fits(s, m),
           r.intents = s.intents, r.dispatches = s.dispatches
    PROVE  AdmissionsOwned(r) /\ (HostRetriesFirst => OneAttempt(r))
<1>1. /\ m.attempt \in Attempts /\ s.admissions[m.attempt] = None
      /\ r.admissions = [s.admissions EXCEPT ![m.attempt] = m.admission]
      /\ m.admission # None /\ s.admissions \in [Attempts -> Admission \cup {None}]
      /\ m.admission \in Admission
  BY NoneIsNoRecord DEF AdmitStep, AdmitOK, Admitted, RunState
<1>2. /\ r.admissions[m.attempt] = m.admission
      /\ \A a \in Attempts : a # m.attempt => r.admissions[a] = s.admissions[a]
  BY <1>1
<1>3. m.admission.operation # None =>
         /\ s.intents[m.admission.operation] # None
         /\ s.intents[m.admission.operation].task = m.admission.task
         /\ HostRetriesFirst =>
               \/ DispatchedOnce(s, m.admission.operation)
               \/ \A a \in Attempts : s.admissions[a] # None =>
                     s.admissions[a].operation # m.admission.operation
  BY <1>1 DEF Fits
<1>4. AdmissionsOwned(r)
  BY <1>1, <1>2, <1>3 DEF AdmissionsOwned
<1>5. ASSUME HostRetriesFirst PROVE OneAttempt(r)
  <2> SUFFICES ASSUME NEW o \in Operations, ~DispatchedOnce(r, o),
                      NEW a \in Attempts, NEW b \in Attempts,
                      r.admissions[a] # None, r.admissions[a].operation = o,
                      r.admissions[b] # None, r.admissions[b].operation = o
               PROVE  a = b
    BY DEF OneAttempt
  <2>1. ~DispatchedOnce(s, o) /\ o # None
    BY NoneAssumption DEF DispatchedOnce
  <2>2. CASE m.admission.operation = o
    BY <1>2, <1>3, <1>5, <2>1, <2>2
  <2>3. CASE m.admission.operation # o
    <3>1. a # m.attempt /\ b # m.attempt
      BY <1>2, <2>3
    <3> QED BY <1>2, <1>5, <2>1, <3>1 DEF OneAttempt
  <2> QED BY <2>2, <2>3
<1> QED BY <1>4, <1>5


\* From s to r no fact is lost and attempts are only added.
Grown(s, r) == FactsKept(s, r) /\ Len(s.admission_history) <= Len(r.admission_history)

\* A commit keeps what the runtimes rely on.
LEMMA FactsStep ==
    ASSUME NEW s, FactsInv(s), NEW m \in DurableMutation, Accepts(s, m), Fits(s, m)
    PROVE  /\ FactsInv(Apply(s, m)) /\ Grown(s, Apply(s, m)) /\ Recorded(Apply(s, m), m)
           /\ KindStep(s, m, Apply(s, m))
<1>0. SUFFICES ASSUME NEW r, r = Apply(s, m)
               PROVE  FactsInv(r) /\ Grown(s, r) /\ Recorded(r, m) /\ KindStep(s, m, r)
  OBVIOUS
<1>1. /\ s \in RunState /\ Lineage(s) /\ Numbered(s) /\ CompletionsReplay(s) /\ CompletionsExact(s)
      /\ AdmissionsOwned(s) /\ (HostRetriesFirst => OneAttempt(s)) /\ PinsKept(s)
  BY DEF FactsInv
<1>2. KindStep(s, m, r) /\ MutationStep(s, m, r)
  BY <1>0, AcceptedKind
<1>3. r \in RunState /\ Lineage(r) /\ FactsKept(s, r) /\ Recorded(r, m)
  BY <1>1, <1>2, AppliedType, AppliedLineage, AppliedKeeps, StepRecorded
<1>4. /\ m.kind # "Identity" => r.identity = s.identity
      /\ m.kind # "Admit" => r.admissions = s.admissions /\ r.admission_history = s.admission_history
      /\ m.kind # "Intent" => r.intents = s.intents /\ r.task_operations = s.task_operations
      /\ m.kind # "Dispatch" => r.dispatches = s.dispatches
      /\ m.kind # "Completion" => /\ r.completions = s.completions
                                  /\ r.completion_history = s.completion_history
  BY <1>1, <1>2, StepFrame
<1>5. /\ m.kind = "Identity" => IdentityStep(s, m, r)
      /\ m.kind = "Admit" => AdmitStep(s, m, r)
      /\ m.kind = "Completion" => CompletionStep(s, m, r)
  BY <1>2 DEF KindStep
<1>6. Numbered(r) /\ Len(s.admission_history) <= Len(r.admission_history)
  <2>1. CASE m.kind = "Admit"
    <3>1. m.attempt <= Len(s.admission_history) + 1
      BY <2>1 DEF Fits
    <3>2. Numbered(r) /\ Len(r.admission_history) = Len(s.admission_history) + 1
      BY <1>1, <1>5, <2>1, <3>1, AdmitNumbered
    <3>3. Len(s.admission_history) \in Nat
      BY <1>1 DEF RunState
    <3> QED BY <3>2, <3>3
  <2>2. CASE m.kind # "Admit"
    <3>1. Len(s.admission_history) \in Nat
      BY <1>1 DEF RunState
    <3> QED BY <1>1, <1>4, <2>2, <3>1 DEF Numbered
  <2> QED BY <2>1, <2>2
<1>7. CompletionsReplay(r) /\ CompletionsExact(r)
  <2>1. CASE m.kind = "Completion"
    <3>1. \A t \in Deps[m.task] : s.completions[t] # None
      BY <2>1 DEF Fits
    <3>2. CompletionStep(s, m, r)
      BY <1>5, <2>1
    <3> QED BY <1>1, <3>1, <3>2, CompletionReplays
  <2>2. CASE m.kind # "Completion"
    <3>1. r.completions = s.completions /\ r.completion_history = s.completion_history
      BY <1>4, <2>2
    <3> DEFINE R(h) == \A i \in 1..Len(h) : /\ Deps[h[i]] \subseteq {h[j] : j \in 1..(i - 1)}
                                            /\ \A j \in 1..(i - 1) : h[j] # h[i]
    <3>2. R(s.completion_history)
      BY <1>1 DEF CompletionsReplay
    <3>3. R(r.completion_history)
      <4> HIDE DEF R
      <4> QED BY <3>1, <3>2
    <3>4. CompletionsReplay(r)
      BY <3>3 DEF CompletionsReplay
    <3>5. CompletionsExact(r)
      BY <1>1, <3>1 DEF CompletionsExact
    <3> QED BY <3>4, <3>5
  <2> QED BY <2>1, <2>2
<1>8. AdmissionsOwned(r) /\ (HostRetriesFirst => OneAttempt(r))
  <2>1. CASE m.kind = "Admit"
    BY <1>1, <1>4, <1>5, <2>1, AdmitOwned
  <2>2. CASE m.kind # "Admit"
    <3>1. r.admissions = s.admissions
      BY <1>4, <2>2
    <3>2. AdmissionsOwned(r)
      <4>1. ASSUME NEW a \in Attempts, r.admissions[a] # None, r.admissions[a].operation # None
            PROVE  /\ r.intents[r.admissions[a].operation] # None
                   /\ r.intents[r.admissions[a].operation].task = r.admissions[a].task
        <5>1. r.admissions[a].operation \in Operations
          BY <1>3, <4>1 DEF RunState, Admission
        <5>2. /\ s.intents[r.admissions[a].operation] # None
              /\ s.intents[r.admissions[a].operation].task = r.admissions[a].task
          BY <1>1, <3>1, <4>1 DEF AdmissionsOwned
        <5> QED BY <1>3, <5>1, <5>2 DEF FactsKept
      <4> QED BY <4>1 DEF AdmissionsOwned
    <3>3. \A o \in Operations : DispatchedOnce(s, o) => DispatchedOnce(r, o)
      BY <1>3, NoneAssumption DEF DispatchedOnce, FactsKept
    <3> QED BY <1>1, <3>1, <3>2, <3>3 DEF OneAttempt
  <2> QED BY <2>1, <2>2
<1>9. PinsKept(r)
  <2>1. CASE m.kind = "Identity"
    <3>1. r.identity = m.identity /\ m.identity \in Identities /\ m.identity # None
      BY <1>1, <1>5, <2>1, NoneAssumption DEF IdentityStep, RunState
    <3> QED BY <1>4, <2>1, <3>1 DEF Fits, PinsKept
  <2>2. CASE m.kind = "Admit"
    <3>1. /\ m.attempt \in Attempts /\ s.admissions \in [Attempts -> Admission \cup {None}]
          /\ r.admissions = [s.admissions EXCEPT ![m.attempt] = m.admission]
      BY <1>1, <1>5, <2>2 DEF AdmitStep, Admitted, RunState
    <3>2. m.admission.task \in FixedPins =>
            s.identity # None /\ s.identity[m.admission.task].pins = m.admission.pins
      BY <2>2 DEF Fits
    <3>3. r.identity = s.identity
      BY <1>4, <2>2
    <3> QED BY <1>1, <3>1, <3>2, <3>3 DEF PinsKept
  <2>3. CASE m.kind \notin {"Identity", "Admit"}
    BY <1>1, <1>4, <2>3 DEF PinsKept
  <2> QED BY <2>1, <2>2, <2>3
<1> QED BY <1>2, <1>3, <1>6, <1>7, <1>8, <1>9 DEF FactsInv, Grown


\* The fact of a mutation stays recorded.
LEMMA RecordedKept ==
    ASSUME NEW s, NEW r, Grown(s, r), NEW m \in DurableMutation, Recorded(s, m)
    PROVE  Recorded(r, m)
<1>1. \/ m.kind = "Identity"
      \/ m.kind = "Admit" /\ m.attempt \in Attempts /\ m.admission \in Admission
      \/ m.kind = "Intent" /\ m.operation \in Operations /\ m.intent \in Intent
      \/ m.kind = "Cancel" /\ m.task \in Tasks /\ m.cancellation \in Cancellation
      \/ m.kind = "Dispatch" /\ m.operation \in Operations /\ m.attempt \in Attempts
      \/ m.kind = "Outcome" /\ m.attempt \in Attempts /\ m.outcome \in KnownOutcome
      \/ m.kind = "Completion" /\ m.task \in Tasks /\ m.attempt \in Attempts
  BY DEF DurableMutation, RecordIdentity, AdmitAttempt, RecordIntent, RecordCancellation,
         RecordDispatch, RecordOutcome, RecordCompletion
<1>2. FactsKept(s, r)
  BY DEF Grown
<1> QED BY <1>1, <1>2, NoneAssumption, NoneIsNoRecord DEF Recorded, FactsKept

\* The attempts known so far are attempts of the run.
LEMMA AdmittedUpTo ==
    ASSUME NEW s, FactsInv(s), NEW i \in 1..Len(s.admission_history)
    PROVE  i \in Attempts /\ s.admissions[i] # None /\ s.admissions[i] \in Admission
<1>1. s \in RunState /\ Numbered(s)
  BY DEF FactsInv
<1>2. s.admission_history \in Seq(Attempts) /\ s.admissions \in [Attempts -> Admission \cup {None}]
  BY <1>1 DEF RunState
<1>3. i \in Attempts
  BY <1>1, <1>2 DEF Numbered
<1>4. s.admissions[i] # None
  BY <1>1, <1>2, <1>3 DEF Numbered
<1> QED BY <1>2, <1>3, <1>4

\* What a memory relies on stays true while the facts grow.
LEMMA JournalGrown ==
    ASSUME NEW s, FactsInv(s), NEW r, FactsInv(r), Grown(s, r), NEW j \in Journal, JournalBehind(j, s)
    PROVE  JournalBehind(j, r)
<1>1. FactsKept(s, r) /\ OwnershipAgrees(s) /\ OwnershipAgrees(r)
  BY DEF Grown, FactsInv, Lineage
<1>2. \A o \in Operations : j.intents[o] # None => r.intents[o] = j.intents[o]
  BY <1>1 DEF JournalBehind, FactsKept
<1>3. ASSUME NEW t \in Tasks, j.task_operations[t] # None
      PROVE  r.task_operations[t] = j.task_operations[t]
  <2>1. s.task_operations[t] = j.task_operations[t] /\ j.task_operations[t] \in Operations
    BY <1>3 DEF JournalBehind, Journal
  <2>2. PICK o \in Operations : o = s.task_operations[t]
    BY <2>1
  <2>3. s.intents[o] # None /\ s.intents[o].task = t
    BY <1>1, <1>3, <2>1, <2>2 DEF OwnershipAgrees
  <2>4. r.intents[o] # None /\ r.intents[o].task = t
    BY <1>1, <2>3 DEF FactsKept
  <2> QED BY <1>1, <2>1, <2>2, <2>4 DEF OwnershipAgrees
<1>4. \A a \in Attempts : j.dispatches[a] # None => r.dispatches[a] = j.dispatches[a]
  BY <1>1 DEF JournalBehind, FactsKept
<1>5. \A a \in Attempts : j.outcomes[a] # None => r.outcomes[a] = j.outcomes[a]
  BY <1>1 DEF JournalBehind, FactsKept
<1> QED BY <1>2, <1>3, <1>4, <1>5 DEF JournalBehind

\* An item that was durable stays durable.
LEMMA DurableGrown ==
    ASSUME NEW s, FactsInv(s), NEW r, Grown(s, r), NEW item \in Item, Durable(item, s)
    PROVE  Durable(item, r)
<1>1. item.attempt \in Attempts /\ s.admissions[item.attempt] \in Admission
  BY DEF Item, Durable, FactsInv, RunState
<1>2. r.admissions[item.attempt] = s.admissions[item.attempt]
  BY <1>1 DEF Grown, FactsKept, Durable
<1>3. s.admissions[item.attempt].task \in Tasks
  BY <1>1 DEF Admission
<1> QED BY <1>1, <1>2, <1>3, NoneAssumption DEF Durable, Grown, FactsKept

\* The known attempts have their types.
LEMMA KnownType ==
    ASSUME NEW m \in Memory
    PROVE  /\ KnownAttempts(m) \in Seq(TaskAttempt)
           /\ Len(KnownAttempts(m)) = IF m.pending_started = None THEN Len(m.attempts)
                                      ELSE Len(m.attempts) + 1
<1>1. m.attempts \in Seq(TaskAttempt)
  BY DEF Memory
<1>2. CASE m.pending_started = None
  BY <1>1, <1>2 DEF KnownAttempts
<1>3. CASE m.pending_started # None
  <2>1. m.pending_started.attempt \in TaskAttempt
    BY <1>3 DEF Memory
  <2> QED BY <1>1, <1>3, <2>1 DEF KnownAttempts
<1> QED BY <1>2, <1>3

\* A memory that was not ahead of the run is not ahead of a later one.
LEMMA MemGrown ==
    ASSUME NEW s, FactsInv(s), NEW r, FactsInv(r), Grown(s, r), NEW m, MemInv(m, s)
    PROVE  MemInv(m, r)
<1>1. /\ m \in Memory /\ Len(m.execution_events) <= EventCapacity /\ CallInv(m)
      /\ Behind(m, s) /\ ItemsDurable(m, s)
      /\ HostRetriesFirst => Ordered(m) /\ Knows(m, s)
  BY DEF MemInv
<1>2. /\ FactsKept(s, r) /\ Len(s.admission_history) <= Len(r.admission_history)
      /\ Len(s.admission_history) \in Nat /\ Len(r.admission_history) \in Nat
  BY DEF Grown, FactsInv, RunState
<1>3. m.journal \in Journal /\ m.completed \subseteq Tasks /\ m.cancelled \subseteq Tasks
      /\ m.execution_events \in Seq(Item) /\ m.held \subseteq Item
  BY <1>1 DEF Memory
<1>4. Behind(m, r)
  <2>1. JournalBehind(m.journal, r)
    BY <1>1, <1>3, JournalGrown DEF Behind
  <2>2. /\ \A t \in m.completed : r.completions[t] # None
        /\ \A t \in m.cancelled : r.cancellations[t] # None
    BY <1>1, <1>2, <1>3 DEF Behind, FactsKept
  <2>3. m.next_attempt_number \in 1..(Len(r.admission_history) + 1)
    BY <1>1, <1>2 DEF Behind
  <2> QED BY <2>1, <2>2, <2>3 DEF Behind
<1>5. ItemsDurable(m, r)
  <2>1. \A i \in 1..Len(m.execution_events) : Durable(m.execution_events[i], r)
    BY <1>1, <1>3, DurableGrown DEF ItemsDurable
  <2>2. \A item \in m.held : Durable(item, r)
    BY <1>1, <1>3, DurableGrown DEF ItemsDurable
  <2>3. m.pending_started # None => m.pending_started.item \in Item
    BY <1>1 DEF Memory
  <2>4. m.pending_started # None => Durable(m.pending_started.item, r)
    BY <1>1, <2>3, DurableGrown DEF ItemsDurable
  <2> QED BY <2>1, <2>2, <2>4 DEF ItemsDurable
<1>6. ASSUME HostRetriesFirst PROVE Knows(m, r)
  <2> DEFINE k == Len(KnownAttempts(m))
  <2>1. Knows(m, s) /\ k \in Nat
    BY <1>1, <1>6, KnownType
  <2>2. k <= Len(s.admission_history)
    BY <1>1, <1>2, <2>1 DEF Knows, Behind
  <2>3. \A i \in 1..k : r.admissions[i] = s.admissions[i]
    <3>1. \A i \in 1..k : i \in 1..Len(s.admission_history)
      BY <1>2, <2>1, <2>2
    <3> QED BY <1>2, <3>1, AdmittedUpTo DEF FactsKept
  <2> QED BY <2>1, <2>3 DEF Knows
<1> QED BY <1>1, <1>4, <1>5, <1>6 DEF MemInv

----------------------------------------------------------------------------
(* A commit keeps the invariant *)

\* A call that fails leaves a memory that may go on, or none.
LEMMA AbandonedMem ==
    ASSUME NEW m, NEW s, MemInv(m, s), Abandoned(m) # None
    PROVE  /\ MemInv(Abandoned(m), s) /\ Past(m) /\ Past(Abandoned(m))
           /\ Abandoned(m).task_configs = m.task_configs
<1>1. m \in Memory
  BY DEF MemInv
<1>2. Abandoned(m) = [m EXCEPT !.call = None] /\ Past(m)
  BY DEF Abandoned, Past
<1>3. PICK n : n = [m EXCEPT !.call = None]
  OBVIOUS
<1>4. /\ n \in Memory /\ n.call = None /\ n.completed = m.completed /\ n.journal = m.journal
      /\ n.cancelled = m.cancelled /\ n.attempts = m.attempts
      /\ n.pending_started = m.pending_started /\ n.next_attempt_number = m.next_attempt_number
      /\ n.task_configs = m.task_configs /\ n.execution_events = m.execution_events
      /\ n.emitted = m.emitted /\ n.observed = m.observed /\ n.held = m.held
  BY <1>1, <1>3 DEF Memory
<1>5. CallInv(n) /\ Behind(n, s) /\ ItemsDurable(n, s)
  BY <1>4 DEF MemInv, CallInv, Behind, ItemsDurable
<1>6. KnownAttempts(n) = KnownAttempts(m)
  BY <1>4 DEF KnownAttempts
<1>7. HostRetriesFirst => Ordered(n) /\ Knows(n, s)
  <2>1. ASSUME HostRetriesFirst PROVE Ordered(n)
    BY <1>4, <2>1 DEF MemInv, Ordered
  <2>2. ASSUME HostRetriesFirst PROVE Knows(n, s)
    BY <1>4, <1>6, <2>2 DEF MemInv, Knows
  <2> QED BY <2>1, <2>2
<1>8. MemInv(n, s) /\ Past(n)
  BY <1>4, <1>5, <1>7 DEF MemInv, Past
<1> QED BY <1>2, <1>3, <1>4, <1>8

\* What the invariant says of the store.
LEMMA StoreFacts ==
    ASSUME IInv
    PROVE  /\ run \in RunState \cup {None}
           /\ revision \in 0..MaxRevision
           /\ commit_ledger \in Seq(Store!Entry)
           /\ idempotency \in [Keys -> Seq(DurableMutation) \cup {None}]
           /\ known \in [Runtimes -> (0..MaxRevision) \cup {None}]
           /\ rt \in [Runtimes -> Memory \cup {None}]
           /\ granted \in [Operations -> Nat]
           /\ MaxRevision \in Nat /\ IdKey \in Keys
<1>1. Store!TypeOK
  BY DEF IInv
<1>2. IdKey \in RuntimeKeys
  BY DEF IdKey, RuntimeKeys
<1> QED BY <1>1, <1>2, SameFacts, RunAssumption DEF IInv, Store!TypeOK

\* The store after a commit, whether it is new or not.
StoreGrows(mut) ==
    /\ run # None /\ run' # None /\ FactsInv(run) /\ FactsInv(run')
    /\ Grown(run, run') /\ Recorded(run', mut)
    /\ Store!TypeOK' /\ KeyInv'
    /\ run' = run \/ KindStep(run, mut, run')
    /\ \A k \in Keys : idempotency[k] # None => idempotency'[k] = idempotency[k]

\* A commit only grows the facts, and its key is bound to its mutation.
LEMMA StoreStep ==
    ASSUME IInv, NEW r \in Runtimes, NEW key \in Keys, NEW mut \in DurableMutation, NEW m,
           commit_durable(r, key, mut, m), Fits(run, mut)
    PROVE  /\ StoreGrows(mut) /\ idempotency'[key] = <<mut>>
           /\ Answered(r, m) \/ Unanswered(r)
<1>1. /\ run # None /\ (Fresh(r, key, mut) \/ Replayed(key, mut))
      /\ Answered(r, m) \/ Unanswered(r)
  BY CommitFacts
<1>2. run \in RunState /\ FactsInv(run)
  BY <1>1, StoreFacts DEF IInv
<1>3. <<mut>> \in Seq(DurableMutation) /\ <<mut>> # None
  <2>1. <<mut>> \in Seq(DurableMutation)
    OBVIOUS
  <2> QED BY <2>1, RunAssumption
<1>4. CASE Fresh(r, key, mut)
  <2>1. /\ idempotency[key] = None /\ revision < MaxRevision /\ revision' = revision + 1
        /\ Accepts(run, mut) /\ run' = Apply(run, mut)
        /\ idempotency' = [idempotency EXCEPT ![key] = <<mut>>]
        /\ commit_ledger' = Append(commit_ledger, [key |-> key, mutations |-> <<mut>>,
                                                   revision |-> revision + 1])
    BY <1>4 DEF Fresh
  <2>2. FactsInv(run') /\ Grown(run, run') /\ Recorded(run', mut) /\ KindStep(run, mut, run')
    BY <1>2, <2>1, FactsStep
  <2>3. run' \in RunState /\ run' # None
    BY <2>2, RunAssumption DEF FactsInv
  <2>4. /\ idempotency'[key] = <<mut>>
        /\ \A k \in Keys : k # key => idempotency'[k] = idempotency[k]
        /\ idempotency' \in [Keys -> Seq(DurableMutation) \cup {None}]
    BY <1>3, <2>1, StoreFacts
  <2>5. KeyInv'
    <3>1. ASSUME NEW k \in Keys, idempotency'[k] # None
          PROVE  \E n \in DurableMutation : idempotency'[k] = <<n>> /\ Recorded(run', n)
      <4>1. CASE k = key
        BY <2>2, <2>4, <4>1
      <4>2. CASE k # key
        <5>1. PICK n \in DurableMutation : idempotency[k] = <<n>> /\ Recorded(run, n)
          BY <2>4, <3>1, <4>2 DEF IInv, KeyInv
        <5>2. Recorded(run', n)
          BY <2>2, <5>1, RecordedKept
        <5> QED BY <2>4, <4>2, <5>1, <5>2
      <4> QED BY <4>1, <4>2
    <3> QED BY <2>3, <3>1 DEF KeyInv
  <2>6. revision' \in 0..MaxRevision
    BY <2>1, StoreFacts
  <2>7. commit_ledger' \in Seq(Store!Entry)
    <3>1. [key |-> key, mutations |-> <<mut>>, revision |-> revision + 1] \in Store!Entry
      BY <1>3, StoreFacts, SameFacts DEF Store!Entry
    <3> QED BY <2>1, <3>1, StoreFacts
  <2>8. known' \in [Runtimes -> (0..MaxRevision) \cup {None}]
    BY <1>1, <2>6, StoreFacts DEF Answered, Unanswered
  <2>9. Store!TypeOK'
    BY <2>3, <2>4, <2>6, <2>7, <2>8, SameFacts DEF Store!TypeOK
  <2>10. \A k \in Keys : idempotency[k] # None => idempotency'[k] = idempotency[k]
    BY <2>1, <2>4
  <2> QED BY <1>1, <1>2, <2>2, <2>3, <2>4, <2>5, <2>9, <2>10 DEF StoreGrows
<1>5. CASE Replayed(key, mut)
  <2>1. idempotency[key] = <<mut>> /\ UNCHANGED <<run, revision, commit_ledger, idempotency>>
    BY <1>5 DEF Replayed
  <2>2. Recorded(run, mut)
    <3>1. PICK n \in DurableMutation : idempotency[key] = <<n>> /\ Recorded(run, n)
      BY <1>3, <2>1 DEF IInv, KeyInv
    <3>2. n = mut
      BY <2>1, <3>1
    <3> QED BY <3>1, <3>2
  <2>3. Grown(run, run)
    <3>1. Len(run.admission_history) \in Nat
      BY <1>2 DEF RunState
    <3> QED BY <3>1 DEF Grown, FactsKept
  <2>4. KeyInv'
    BY <2>1 DEF IInv, KeyInv
  <2>5. known' \in [Runtimes -> (0..MaxRevision) \cup {None}]
    BY <1>1, <2>1, StoreFacts DEF Answered, Unanswered
  <2>6. Store!TypeOK'
    BY <2>1, <2>5 DEF IInv, Store!TypeOK
  <2> QED BY <1>1, <1>2, <2>1, <2>2, <2>3, <2>4, <2>6 DEF StoreGrows
<1> QED BY <1>1, <1>4, <1>5


\* The memories of the other runtimes, and the identity of the run.
LEMMA CommitInv ==
    ASSUME IInv, NEW r \in Runtimes, NEW key \in Keys, NEW mut \in DurableMutation, NEW m,
           commit_durable(r, key, mut, m), Fits(run, mut), StoreGrows(mut),
           rt[r] # None, Past(rt[r]),
           mut.kind = "Identity" => PinsAgree(mut.identity, run.identity),
           MemInv(m, run'), Past(m),
           mut.kind # "Identity" => m.task_configs = rt[r].task_configs,
           mut.kind = "Identity" => m.task_configs = mut.identity,
           granted' \in [Operations -> Nat]
    PROVE  IInv'
<1>1. /\ Store!TypeOK' /\ KeyInv' /\ run # None /\ run' # None /\ FactsInv(run) /\ FactsInv(run')
      /\ Grown(run, run') /\ (run' = run \/ KindStep(run, mut, run'))
      /\ \A k \in Keys : idempotency[k] # None => idempotency'[k] = idempotency[k]
  BY DEF StoreGrows
<1>2. Answered(r, m) \/ Unanswered(r)
  BY StoreStep
<1>3. MemInv(rt[r], run) /\ m \in Memory
  BY DEF IInv, MemoriesInv, MemInv
<1>4. PICK n : rt' = [rt EXCEPT ![r] = n] /\ n \in {m, Abandoned(rt[r])}
  BY <1>2 DEF Answered, Unanswered
<1>5. n # None => MemInv(n, run') /\ Past(n)
  <2>1. CASE n = m
    BY <2>1
  <2>2. CASE n = Abandoned(rt[r])
    BY <1>1, <1>3, <2>2, AbandonedMem, MemGrown
  <2> QED BY <1>4, <2>1, <2>2
<1>6. rt' \in [Runtimes -> Memory \cup {None}]
  BY <1>4, <1>5, StoreFacts DEF MemInv
<1>7. idempotency[IdKey] # None /\ idempotency'[IdKey] = idempotency[IdKey]
  <2>1. idempotency[IdKey] # None
    BY DEF IInv, IdentityInv, Past
  <2> QED BY <1>1, <2>1, StoreFacts
<1>8. run.identity # None /\ run'.identity # None
  <2>1. run.identity # None
    BY <1>7 DEF IInv, IdentityInv
  <2>2. CASE mut.kind = "Identity" /\ KindStep(run, mut, run')
    <3>1. IdentityStep(run, mut, run') /\ run \in RunState
      BY <1>1, <2>2 DEF KindStep, FactsInv
    <3>2. run'.identity = mut.identity /\ mut.identity \in Identities
      BY <3>1 DEF IdentityStep, RunState
    <3> QED BY <2>1, <3>2, NoneAssumption
  <2>3. CASE mut.kind # "Identity" /\ KindStep(run, mut, run')
    BY <1>1, <2>1, <2>3, StepFrame DEF FactsInv
  <2> QED BY <1>1, <2>1, <2>2, <2>3
<1>9. /\ mut.kind # "Identity" => run'.identity = run.identity
      /\ run'.identity = run.identity \/ (mut.kind = "Identity" /\ run'.identity = mut.identity)
  <2>1. CASE mut.kind = "Identity" /\ KindStep(run, mut, run')
    BY <1>1, <2>1 DEF KindStep, IdentityStep, FactsInv, RunState
  <2>2. CASE mut.kind # "Identity" /\ KindStep(run, mut, run')
    BY <1>1, <2>2, StepFrame DEF FactsInv
  <2> QED BY <1>1, <2>1, <2>2
<1>10. ASSUME NEW c, PinsAgree(c, run.identity) PROVE PinsAgree(c, run'.identity)
  BY <1>9, <1>10 DEF PinsAgree
<1>11. IdentityInv'
  BY <1>1, <1>7, <1>8, <1>10 DEF IInv, IdentityInv
<1>12. ASSUME NEW q \in Runtimes, rt'[q] # None
       PROVE  MemInv(rt'[q], run') /\ (Past(rt'[q]) => PinsAgree(rt'[q].task_configs, run'.identity))
  <2>1. CASE q = r
    <3>1. rt'[q] = n /\ n # None
      BY <1>4, <1>12, <2>1, StoreFacts
    <3>2. PinsAgree(n.task_configs, run'.identity)
      <4>1. PinsAgree(rt[r].task_configs, run.identity)
        BY DEF IInv, MemoriesInv
      <4>2. CASE n = Abandoned(rt[r])
        BY <1>3, <1>10, <3>1, <4>1, <4>2, AbandonedMem
      <4>3. CASE n = m /\ mut.kind # "Identity"
        BY <1>10, <4>1, <4>3
      <4>4. CASE n = m /\ mut.kind = "Identity"
        BY <1>10, <4>4
      <4> QED BY <1>4, <4>2, <4>3, <4>4
    <3> QED BY <1>5, <3>1, <3>2
  <2>2. CASE q # r
    <3>1. rt'[q] = rt[q] /\ rt[q] # None
      BY <1>4, <1>12, <2>2, StoreFacts
    <3>2. /\ MemInv(rt[q], run)
          /\ Past(rt[q]) => PinsAgree(rt[q].task_configs, run.identity)
      BY <3>1 DEF IInv, MemoriesInv
    <3>3. MemInv(rt[q], run')
      BY <1>1, <3>2, MemGrown
    <3> QED BY <1>10, <3>1, <3>2, <3>3
  <2> QED BY <2>1, <2>2
<1>13. MemoriesInv'
  <2>1. /\ revision' \in 0..MaxRevision /\ known \in [Runtimes -> (0..MaxRevision) \cup {None}]
        /\ MaxRevision \in Nat
    BY <1>1, StoreFacts DEF Store!TypeOK
  <2>2. revision' # None
    BY <2>1, RunAssumption
  <2>3. \A q \in Runtimes : known[q] # None => known'[q] # None
    BY <1>2, <2>1, <2>2 DEF Answered, Unanswered
  <2>4. ASSUME NEW q \in Runtimes, rt'[q] # None PROVE rt[q] # None
    BY <1>4, <2>4, StoreFacts
  <2>5. \A q \in Runtimes : rt'[q] # None => known'[q] # None
    BY <2>3, <2>4 DEF IInv, MemoriesInv
  <2> QED BY <1>1, <1>12, <2>5 DEF MemoriesInv
<1> QED BY <1>1, <1>6, <1>11, <1>13 DEF IInv


\* A step that leaves the store alone.
LEMMA LocalInv ==
    ASSUME IInv, NEW r \in Runtimes, NEW n, rt' = [rt EXCEPT ![r] = n],
           UNCHANGED <<run, revision, commit_ledger, idempotency, known, granted>>,
           n # None => /\ rt[r] # None /\ MemInv(n, run)
                       /\ Past(n) => Past(rt[r])
                       /\ n.task_configs = rt[r].task_configs
    PROVE  IInv'
<1>1. n \in Memory \cup {None}
  BY DEF MemInv
<1>2. /\ rt' \in [Runtimes -> Memory \cup {None}] /\ rt'[r] = n
      /\ \A q \in Runtimes : q # r => rt'[q] = rt[q]
  BY <1>1, StoreFacts
<1>3. Store!TypeOK' /\ KeyInv'
  BY DEF IInv, Store!TypeOK, KeyInv
<1>4. ASSUME idempotency[IdKey] = None, NEW q \in Runtimes, rt'[q] # None
      PROVE  rt'[q].call # None /\ rt'[q].call.at = "identity"
  <2>1. rt[q] # None => ~Past(rt[q])
    BY <1>4 DEF IInv, IdentityInv, Past
  <2> QED BY <1>2, <1>4, <2>1 DEF Past
<1>5. IdentityInv'
  BY <1>4 DEF IInv, IdentityInv
<1>6. ASSUME NEW q \in Runtimes, rt'[q] # None
      PROVE  /\ run # None /\ known[q] # None /\ MemInv(rt'[q], run)
             /\ Past(rt'[q]) => PinsAgree(rt'[q].task_configs, run.identity)
  <2>1. CASE q = r
    BY <1>2, <1>6, <2>1 DEF IInv, MemoriesInv
  <2>2. CASE q # r
    BY <1>2, <1>6, <2>2 DEF IInv, MemoriesInv
  <2> QED BY <2>1, <2>2
<1>7. MemoriesInv'
  BY <1>6 DEF MemoriesInv
<1> QED BY <1>2, <1>3, <1>5, <1>7 DEF IInv

----------------------------------------------------------------------------
(* Reads *)

\* The last index of a nonempty set of indexes.
LEMMA LastIndex ==
    ASSUME NEW n \in Nat, NEW I \in SUBSET (1..n), I # {}
    PROVE  /\ (CHOOSE i \in I : \A j \in I : j <= i) \in I
           /\ \A j \in I : j <= (CHOOSE i \in I : \A k \in I : k <= i)
<1> DEFINE T == {x \in Nat : n - x \in I}
<1>1. T \in SUBSET Nat
  OBVIOUS
<1>2. T # {}
  <2>1. PICK i \in I : TRUE
    OBVIOUS
  <2>2. i \in 1..n /\ n - i \in Nat /\ n - (n - i) = i
    OBVIOUS
  <2>3. n - i \in T
    BY <2>2
  <2> QED BY <2>3
<1>3. PICK x \in T : \A y \in T : x <= y
  BY <1>1, <1>2, SmallestMember
<1>4. n - x \in I
  BY <1>3
<1>5. ASSUME NEW j \in I PROVE j <= n - x
  <2>1. j \in 1..n /\ n - j \in Nat /\ n - (n - j) = j
    OBVIOUS
  <2>2. n - j \in T
    BY <2>1
  <2>3. x <= n - j /\ x \in Nat
    BY <1>3, <2>2
  <2> QED BY <2>1, <2>3
<1>6. \E i \in I : \A j \in I : j <= i
  BY <1>4, <1>5
<1> QED BY <1>6

\* The last dispatch of an operation is one of its dispatches, if there is any.
LEMMA LatestDispatch ==
    ASSUME NEW s, s.dispatch_history \in Seq(Attempts), NEW o
    PROVE  /\ latest_dispatch(s, o) \in Attempts \cup {None}
           /\ latest_dispatch(s, o) # None => s.dispatches[latest_dispatch(s, o)] = o
           /\ latest_dispatch(s, o) = None =>
                 \A i \in 1..Len(s.dispatch_history) : s.dispatches[s.dispatch_history[i]] # o
<1> DEFINE I == {i \in 1..Len(s.dispatch_history) : s.dispatches[s.dispatch_history[i]] = o}
           last == CHOOSE i \in I : \A j \in I : j <= i
<1>1. latest_dispatch(s, o) = IF I = {} THEN None ELSE s.dispatch_history[last]
  BY DEF latest_dispatch
<1>2. CASE I = {}
  BY <1>1, <1>2
<1>3. CASE I # {}
  <2>1. last \in I
    <3>1. Len(s.dispatch_history) \in Nat /\ I \in SUBSET (1..Len(s.dispatch_history))
      OBVIOUS
    <3> HIDE DEF I
    <3> QED BY <1>3, <3>1, LastIndex
  <2> HIDE DEF last
  <2>2. s.dispatch_history[last] \in Attempts /\ s.dispatches[s.dispatch_history[last]] = o
    BY <2>1
  <2>3. s.dispatch_history[last] # None
    BY <2>2, NoneAssumption
  <2> QED BY <1>1, <1>3, <2>2, <2>3
<1> QED BY <1>2, <1>3

\* The attempt a call goes on with is a known one, or there is none for the task.
LEMMA AttemptFor ==
    ASSUME NEW m \in Memory, NEW t, NEW o
    PROVE  /\ attempt_for_task(m, t, o) \in Attempts \cup {None}
           /\ attempt_for_task(m, t, o) = None =>
                 \A i \in 1..Len(KnownAttempts(m)) :
                    ~(KnownAttempts(m)[i].task = t /\ KnownAttempts(m)[i].operation = o)
           /\ attempt_for_task(m, t, o) # None =>
                 \E i \in 1..Len(KnownAttempts(m)) :
                    /\ KnownAttempts(m)[i].attempt = attempt_for_task(m, t, o)
                    /\ KnownAttempts(m)[i].task = t /\ KnownAttempts(m)[i].operation = o
<1> DEFINE p == m.pending_started
           I == {i \in 1..Len(m.attempts) : m.attempts[i].task = t /\ m.attempts[i].operation = o}
           last == CHOOSE i \in I : \A j \in I : j <= i
           a == attempt_for_task(m, t, o)
           K == KnownAttempts(m)
           mine == p # None /\ p.attempt.task = t /\ p.attempt.operation = o
<1>1. a = IF mine THEN p.attempt.attempt ELSE IF I = {} THEN None ELSE m.attempts[last].attempt
  BY DEF attempt_for_task
<1>2. /\ m.attempts \in Seq(TaskAttempt) /\ (p # None => p.attempt \in TaskAttempt)
      /\ Len(m.attempts) \in Nat
  BY DEF Memory
<1>3. /\ p = None => K = m.attempts
      /\ p # None => K = Append(m.attempts, p.attempt)
  BY DEF KnownAttempts
<1>4. I # {} => last \in I
  <2>1. I \in SUBSET (1..Len(m.attempts))
    OBVIOUS
  <2> HIDE DEF I
  <2> QED BY <1>2, <2>1, LastIndex
<1> HIDE DEF a, K, last
<1>5. /\ \A i \in 1..Len(m.attempts) : i \in 1..Len(K) /\ K[i] = m.attempts[i]
      /\ p # None => Len(m.attempts) + 1 \in 1..Len(K) /\ K[Len(m.attempts) + 1] = p.attempt
      /\ p # None => Len(K) = Len(m.attempts) + 1
      /\ p = None => Len(K) = Len(m.attempts)
  BY <1>2, <1>3
<1>6. CASE mine
  <2>1. a = p.attempt.attempt /\ a \in Attempts
    BY <1>1, <1>2, <1>6 DEF TaskAttempt
  <2> QED BY <1>5, <1>6, <2>1, NoneAssumption DEF a, K
<1>7. CASE ~mine /\ I = {}
  <2>1. a = None
    BY <1>1, <1>7
  <2>2. ASSUME NEW i \in 1..Len(K) PROVE ~(K[i].task = t /\ K[i].operation = o)
    <3>1. CASE i \in 1..Len(m.attempts)
      BY <1>5, <1>7, <3>1
    <3>2. CASE i \notin 1..Len(m.attempts)
      <4>1. p # None /\ i = Len(m.attempts) + 1
        BY <1>2, <1>5, <3>2
      <4> QED BY <1>5, <1>7, <4>1
    <3> QED BY <3>1, <3>2
  <2> QED BY <2>1, <2>2 DEF a, K
<1>8. CASE ~mine /\ I # {}
  <2>1. a = m.attempts[last].attempt /\ last \in I
    BY <1>1, <1>4, <1>8
  <2>2. a \in Attempts
    <3>1. m.attempts[last] \in TaskAttempt
      BY <1>2, <2>1
    <3> QED BY <2>1, <3>1 DEF TaskAttempt
  <2> QED BY <1>5, <2>1, <2>2, NoneAssumption DEF a, K
<1> QED BY <1>6, <1>7, <1>8

\* step() takes a ready task.
LEMMA FirstTaskReady ==
    ASSUME NEW m, ready_tasks(m) \ m.cancelled # {}
    PROVE  FirstTask(m) \in ready_tasks(m) /\ FirstTask(m) \in Tasks /\ FirstTask(m) \notin m.cancelled
<1> DEFINE S == ready_tasks(m) \ m.cancelled
<1>1. S \subseteq Tasks
  BY DEF ready_tasks
<1>2. \E x \in S : \A y \in S : x <= y
  BY <1>1, RuntimeAssumption, SmallestMember
<1>3. FirstTask(m) \in S
  BY <1>2 DEF FirstTask
<1> QED BY <1>1, <1>3

----------------------------------------------------------------------------
(* What a memory becomes *)

\* An item appended to the buffer.
LEMMA Appended ==
    ASSUME NEW q \in Seq(Item), NEW item \in Item
    PROVE  /\ Append(q, item) \in Seq(Item) /\ Len(Append(q, item)) = Len(q) + 1
           /\ Append(q, item)[Len(q) + 1] = item
           /\ \A i \in 1..Len(q) : Append(q, item)[i] = q[i]
           /\ Len(q) \in Nat
OBVIOUS

\* n is m with one more item, next in sequence, in the buffer or handed back.
Emits(m, n, item) ==
    /\ n \in Memory /\ item \in Item /\ item.sequence = m.emitted + 1
    /\ n.emitted = m.emitted + 1 /\ n.observed = m.observed
    /\ \/ /\ Room(m) /\ n.execution_events = Append(m.execution_events, item) /\ n.held = m.held
       \/ /\ ~Room(m) /\ n.execution_events = m.execution_events /\ n.held = m.held \cup {item}

\* An emission comes after everything emitted before it.
LEMMA EmitsOrdered ==
    ASSUME NEW m \in Memory, NEW n, NEW item, Emits(m, n, item), Ordered(m), m.held = {},
           n.call # None => n.held = {},
           n.pending_started # None => n.held = {n.pending_started.item}
    PROVE  Ordered(n)
<1>1. /\ m.emitted \in Nat /\ m.observed \subseteq Nat /\ m.execution_events \in Seq(Item)
      /\ item \in Item /\ item.sequence = m.emitted + 1 /\ n.emitted = m.emitted + 1
      /\ n.observed = m.observed
      /\ \A i \in 1..Len(m.execution_events) : m.execution_events[i].sequence \in Nat
  <2>1. m.emitted \in Nat /\ m.observed \subseteq Nat /\ m.execution_events \in Seq(Item)
    BY DEF Memory
  <2>2. /\ item \in Item /\ item.sequence = m.emitted + 1 /\ n.emitted = m.emitted + 1
        /\ n.observed = m.observed
    BY DEF Emits
  <2>3. \A i \in 1..Len(m.execution_events) : m.execution_events[i] \in Item
    BY <2>1
  <2>4. \A x \in Item : x.sequence \in Nat
    BY DEF Item
  <2> QED BY <2>1, <2>2, <2>3, <2>4
<1>2. /\ \A x \in 1..m.emitted :
            \/ x \in m.observed
            \/ \E i \in 1..Len(m.execution_events) : x = m.execution_events[i].sequence
      /\ \A x \in m.observed : x \in 1..m.emitted
      /\ \A i \in 1..Len(m.execution_events) :
            /\ m.execution_events[i].sequence <= m.emitted
            /\ \A j \in 1..(i - 1) : m.execution_events[j].sequence < m.execution_events[i].sequence
            /\ \A x \in m.observed : x < m.execution_events[i].sequence
  BY DEF Ordered
<1>3. CASE Room(m)
  <2> DEFINE q == m.execution_events
             p == n.execution_events
             k == Len(q)
  <2>1. p = Append(q, item) /\ n.held = {}
    BY <1>3 DEF Emits
  <2>2. /\ k \in Nat /\ Len(p) = k + 1 /\ p[k + 1] = item
        /\ \A i \in 1..k : p[i] = q[i]
    BY <1>1, <2>1, Appended
  <2> HIDE DEF p, q, k
  <2>3. ASSUME NEW x \in 1..n.emitted
        PROVE  x \in n.observed \/ \E i \in 1..Len(p) : x = p[i].sequence
    <3>1. CASE x = m.emitted + 1
      <4>1. k + 1 \in 1..Len(p) /\ x = p[k + 1].sequence
        BY <1>1, <2>2, <3>1
      <4> QED BY <4>1
    <3>2. CASE x # m.emitted + 1
      <4>1. x \in 1..m.emitted
        BY <1>1, <3>2
      <4>2. \A i \in 1..k : i \in 1..Len(p) /\ p[i].sequence = q[i].sequence
        BY <2>2
      <4> QED BY <1>1, <1>2, <4>1, <4>2 DEF q, k
    <3> QED BY <3>1, <3>2
  <2>4. \A x \in n.observed : x \in 1..n.emitted
    BY <1>1, <1>2
  <2>5. ASSUME NEW i \in 1..Len(p)
        PROVE  /\ p[i].sequence <= n.emitted
               /\ \A j \in 1..(i - 1) : p[j].sequence < p[i].sequence
               /\ \A x \in n.observed : x < p[i].sequence
    <3>1. CASE i = k + 1
      <4>1. p[i].sequence = m.emitted + 1
        BY <1>1, <2>2, <3>1
      <4>2. \A j \in 1..(i - 1) : j \in 1..k /\ p[j].sequence = q[j].sequence
        BY <2>2, <3>1
      <4>3. \A j \in 1..k : q[j].sequence <= m.emitted /\ q[j].sequence \in Nat
        BY <1>1, <1>2 DEF q, k
      <4> QED BY <1>1, <1>2, <4>1, <4>2, <4>3
    <3>2. CASE i # k + 1
      <4>1. i \in 1..k /\ p[i] = q[i] /\ \A j \in 1..(i - 1) : j \in 1..k /\ p[j] = q[j]
        BY <2>2, <3>2
      <4>2. /\ q[i].sequence <= m.emitted /\ q[i].sequence \in Nat
            /\ \A j \in 1..(i - 1) : q[j].sequence < q[i].sequence
            /\ \A x \in m.observed : x < q[i].sequence
        BY <1>1, <1>2, <4>1 DEF q, k
      <4> QED BY <1>1, <4>1, <4>2
    <3> QED BY <3>1, <3>2
  <2> QED BY <2>1, <2>3, <2>4, <2>5 DEF Ordered, p
<1>4. CASE ~Room(m)
  <2>1. n.execution_events = m.execution_events /\ n.held = {item}
    BY <1>4 DEF Emits
  <2>2. ASSUME NEW x \in 1..n.emitted
        PROVE  \/ x \in n.observed
               \/ \E i \in 1..Len(n.execution_events) : x = n.execution_events[i].sequence
               \/ \E y \in n.held : x = y.sequence
    <3>1. CASE x = m.emitted + 1
      BY <1>1, <2>1, <3>1
    <3>2. CASE x # m.emitted + 1
      <4>1. x \in 1..m.emitted
        BY <1>1, <3>2
      <4> QED BY <1>1, <1>2, <2>1, <4>1
    <3> QED BY <3>1, <3>2
  <2>3. \A x \in n.observed : x \in 1..n.emitted
    BY <1>1, <1>2
  <2>4. \A i \in 1..Len(n.execution_events) :
            /\ n.execution_events[i].sequence <= n.emitted
            /\ \A j \in 1..(i - 1) : n.execution_events[j].sequence < n.execution_events[i].sequence
            /\ \A x \in n.observed : x < n.execution_events[i].sequence
    BY <1>1, <1>2, <2>1
  <2>5. \A y \in n.held :
          /\ y.sequence = n.emitted
          /\ \A i \in 1..Len(n.execution_events) : n.execution_events[i].sequence < y.sequence
          /\ \A x \in n.observed : x < y.sequence
          /\ \A other \in n.held : other = y
    BY <1>1, <1>2, <2>1
  <2> QED BY <2>2, <2>3, <2>4, <2>5 DEF Ordered
<1> QED BY <1>3, <1>4


\* n has the attempts and the items of m.
SameStreams(m, n) ==
    /\ n.attempts = m.attempts /\ n.pending_started = m.pending_started
    /\ n.next_attempt_number = m.next_attempt_number
    /\ n.execution_events = m.execution_events /\ n.emitted = m.emitted
    /\ n.observed = m.observed /\ n.held = m.held

\* What the view of n says is durable.
ViewBehind(n, s) ==
    /\ JournalBehind(n.journal, s)
    /\ \A t \in n.completed : s.completions[t] # None
    /\ \A t \in n.cancelled : s.cancellations[t] # None

\* A step that changes the view or the call only.
LEMMA ViewMem ==
    ASSUME NEW m, NEW s, MemInv(m, s), NEW n \in Memory, SameStreams(m, n), ViewBehind(n, s),
           CallInv(n), HostRetriesFirst /\ n.call # None => n.held = {}
    PROVE  MemInv(n, s)
<1>1. /\ n.attempts = m.attempts /\ n.pending_started = m.pending_started
      /\ n.next_attempt_number = m.next_attempt_number
      /\ n.execution_events = m.execution_events /\ n.emitted = m.emitted
      /\ n.observed = m.observed /\ n.held = m.held
  BY DEF SameStreams
<1>2. Behind(n, s) /\ ItemsDurable(n, s)
  BY <1>1 DEF MemInv, Behind, ItemsDurable, ViewBehind
<1>3. KnownAttempts(n) = KnownAttempts(m)
  BY <1>1 DEF KnownAttempts
<1>4. ASSUME HostRetriesFirst PROVE Ordered(n)
  BY <1>1, <1>4 DEF MemInv, Ordered
<1>5. ASSUME HostRetriesFirst PROVE Knows(n, s)
  BY <1>1, <1>3, <1>5 DEF MemInv, Knows
<1> QED BY <1>1, <1>2, <1>4, <1>5 DEF MemInv

\* An emission keeps the buffer within its bound and every item durable.
LEMMA EmitsItems ==
    ASSUME NEW m, NEW s, MemInv(m, s), NEW n, NEW item, Emits(m, n, item), Durable(item, s),
           n.pending_started \in {m.pending_started} \/ n.pending_started.item = item
    PROVE  ItemsDurable(n, s) /\ Len(n.execution_events) <= EventCapacity
<1>1. /\ m.execution_events \in Seq(Item) /\ item \in Item /\ EventCapacity \in Nat
      /\ Len(m.execution_events) <= EventCapacity
  BY RuntimeAssumption DEF Emits, MemInv, Memory
<1>2. CASE Room(m)
  <2> DEFINE q == m.execution_events
             p == n.execution_events
  <2>1. p = Append(q, item) /\ n.held = m.held /\ Len(q) < EventCapacity
    BY <1>2 DEF Emits, Room
  <2>2. /\ Len(q) \in Nat /\ Len(p) = Len(q) + 1 /\ p[Len(q) + 1] = item
        /\ \A i \in 1..Len(q) : p[i] = q[i]
    BY <1>1, <2>1, Appended
  <2> HIDE DEF p
  <2>3. ASSUME NEW i \in 1..Len(p) PROVE Durable(p[i], s)
    <3>1. CASE i = Len(q) + 1
      BY <2>2, <3>1
    <3>2. CASE i # Len(q) + 1
      <4>1. i \in 1..Len(q) /\ p[i] = q[i]
        BY <2>2, <3>2
      <4> QED BY <4>1 DEF MemInv, ItemsDurable
    <3> QED BY <3>1, <3>2
  <2> QED BY <1>1, <2>1, <2>2, <2>3 DEF MemInv, ItemsDurable, p
<1>3. CASE ~Room(m)
  BY <1>1, <1>3 DEF Emits, MemInv, ItemsDurable
<1> QED BY <1>2, <1>3

\* An emission that starts no attempt.
LEMMA EmitMem ==
    ASSUME NEW m, NEW s, MemInv(m, s), NEW n, NEW item, Emits(m, n, item), Durable(item, s),
           n.attempts = m.attempts, n.pending_started = m.pending_started,
           n.next_attempt_number = m.next_attempt_number,
           n.journal = m.journal, n.completed = m.completed, n.cancelled = m.cancelled,
           n.call = None, HostRetriesFirst => m.held = {}
    PROVE  MemInv(n, s)
<1>1. ItemsDurable(n, s) /\ Len(n.execution_events) <= EventCapacity
  BY EmitsItems
<1>2. n \in Memory /\ m \in Memory
  BY DEF Emits, MemInv
<1>3. Behind(n, s) /\ CallInv(n)
  BY DEF MemInv, Behind, CallInv
<1>4. ASSUME HostRetriesFirst PROVE Ordered(n)
  <2>1. Ordered(m) /\ m.held = {}
    BY <1>4 DEF MemInv
  <2>2. m.pending_started = None
    BY <2>1 DEF Ordered
  <2> QED BY <1>2, <2>1, <2>2, EmitsOrdered
<1>5. KnownAttempts(n) = KnownAttempts(m)
  BY DEF KnownAttempts
<1>6. ASSUME HostRetriesFirst PROVE Knows(n, s)
  BY <1>5, <1>6 DEF MemInv, Knows
<1> QED BY <1>1, <1>2, <1>3, <1>4, <1>6 DEF MemInv

\* The completion of a task is emitted.
LEMMA CompletedMem ==
    ASSUME NEW m, NEW s, MemInv(m, s), NEW a \in Attempts, HostRetriesFirst => m.held = {},
           s.admissions[a] # None, s.completions[s.admissions[a].task] = a
    PROVE  /\ MemInv(emit_completed(m, a), s) /\ Past(emit_completed(m, a))
           /\ emit_completed(m, a).task_configs = m.task_configs
<1> DEFINE item == NextItem(m, "TaskCompleted", a)
<1>1. m \in Memory /\ m.emitted \in Nat /\ m.execution_events \in Seq(Item) /\ m.held \subseteq Item
  BY DEF MemInv, Memory
<1>2. item \in Item /\ item.sequence = m.emitted + 1 /\ item.event = "TaskCompleted" /\ item.attempt = a
  BY <1>1 DEF NextItem, Item
<1>3. Durable(item, s)
  BY <1>2 DEF Durable
<1> HIDE DEF item
<1>4. PICK n : n = emit_completed(m, a)
  OBVIOUS
<1>5. PICK q \in Seq(Item), h \in SUBSET Item :
          /\ n = [m EXCEPT !.emitted = m.emitted + 1, !.call = None, !.execution_events = q, !.held = h]
          /\ \/ Room(m) /\ q = Append(m.execution_events, item) /\ h = m.held
             \/ ~Room(m) /\ q = m.execution_events /\ h = m.held \cup {item}
  <2>1. CASE Room(m)
    <3>1. n = [m EXCEPT !.emitted = m.emitted + 1, !.call = None,
                        !.execution_events = Append(m.execution_events, item), !.held = m.held]
      BY <1>1, <1>4, <2>1 DEF emit_completed, Enqueued, item, Memory
    <3>2. Append(m.execution_events, item) \in Seq(Item) /\ m.held \in SUBSET Item
      BY <1>1, <1>2
    <3> QED BY <2>1, <3>1, <3>2
  <2>2. CASE ~Room(m)
    <3>1. n = [m EXCEPT !.emitted = m.emitted + 1, !.call = None,
                        !.execution_events = m.execution_events, !.held = m.held \cup {item}]
      BY <1>1, <1>4, <2>2 DEF emit_completed, item, Memory
    <3>2. m.execution_events \in Seq(Item) /\ m.held \cup {item} \in SUBSET Item
      BY <1>1, <1>2
    <3> QED BY <2>2, <3>1, <3>2
  <2> QED BY <2>1, <2>2
<1>6. /\ n \in Memory /\ n.call = None /\ n.completed = m.completed /\ n.journal = m.journal
      /\ n.cancelled = m.cancelled /\ n.attempts = m.attempts
      /\ n.pending_started = m.pending_started /\ n.next_attempt_number = m.next_attempt_number
      /\ n.task_configs = m.task_configs /\ n.execution_events = q
      /\ n.emitted = m.emitted + 1 /\ n.observed = m.observed /\ n.held = h
  <2>1. m.emitted + 1 \in Nat
    BY <1>1
  <2>2. PICK e \in Nat : e = m.emitted + 1
    BY <2>1
  <2>3. n = [m EXCEPT !.emitted = e, !.call = None, !.execution_events = q, !.held = h]
    BY <1>5, <2>2
  <2> QED BY <1>1, <2>2, <2>3 DEF Memory
<1>7. Emits(m, n, item)
  BY <1>2, <1>5, <1>6 DEF Emits
<1>8. MemInv(n, s)
  BY <1>3, <1>6, <1>7, EmitMem
<1> QED BY <1>4, <1>6, <1>8 DEF Past


\* Where a call goes on once its attempt is admitted.
GoesOn(next) ==
    next # None =>
        /\ next \in Call /\ next.at \in {"complete", "dispatch"} /\ next.attempt \in Attempts
        /\ next.at = "complete" => next.task \in Tasks
        /\ next.at = "dispatch" => next.operation \in Operations

\* The attempt joins the known ones with its item.
LEMMA StartedMem ==
    ASSUME NEW m, NEW s, MemInv(m, s), FactsInv(s), NEW att \in TaskAttempt, NEW next, GoesOn(next),
           att.attempt = m.next_attempt_number, HostRetriesFirst => m.held = {},
           s.admissions[att.attempt] # None,
           s.admissions[att.attempt].task = att.task,
           s.admissions[att.attempt].operation = att.operation
    PROVE  /\ MemInv(TaskStarted(m, att, next), s) /\ Past(TaskStarted(m, att, next))
           /\ TaskStarted(m, att, next).task_configs = m.task_configs
<1> DEFINE item == NextItem(m, "TaskStarted", att.attempt)
           started == [attempt |-> att, item |-> item]
<1>1. /\ m \in Memory /\ m.emitted \in Nat /\ m.execution_events \in Seq(Item) /\ m.held \subseteq Item
      /\ m.next_attempt_number \in Nat /\ m.attempts \in Seq(TaskAttempt)
      /\ m.pending_started \in [attempt : TaskAttempt, item : Item] \cup {None}
  BY DEF MemInv, Memory
<1>2. /\ item \in Item /\ item.sequence = m.emitted + 1 /\ item.event = "TaskStarted"
      /\ item.attempt = att.attempt
  BY <1>1 DEF NextItem, Item, TaskAttempt
<1>3. Durable(item, s)
  BY <1>2 DEF Durable
<1>4. started \in [attempt : TaskAttempt, item : Item] /\ started.item = item /\ started.attempt = att
      /\ started # None
  BY <1>2, NoneIsNoMemory
<1> HIDE DEF item, started
<1>5. PICK n : n = TaskStarted(m, att, next)
  OBVIOUS
<1>6. PICK q \in Seq(Item), h \in SUBSET Item, k \in Seq(TaskAttempt), c \in Call \cup {None},
           p \in [attempt : TaskAttempt, item : Item] \cup {None} :
          /\ n = [m EXCEPT !.emitted = m.emitted + 1,
                           !.next_attempt_number = m.next_attempt_number + 1,
                           !.call = c, !.execution_events = q, !.held = h, !.attempts = k,
                           !.pending_started = p]
          /\ \/ /\ Room(m) /\ q = Append(m.execution_events, item) /\ h = m.held
                /\ k = Append(m.attempts, att) /\ p = m.pending_started /\ c = next
             \/ /\ ~Room(m) /\ q = m.execution_events /\ h = m.held \cup {item}
                /\ k = m.attempts /\ p = started /\ c = None
  <2>1. CASE Room(m)
    <3>1. n = [m EXCEPT !.emitted = m.emitted + 1,
                        !.next_attempt_number = m.next_attempt_number + 1, !.call = next,
                        !.execution_events = Append(m.execution_events, item), !.held = m.held,
                        !.attempts = Append(m.attempts, att), !.pending_started = m.pending_started]
      BY <1>1, <1>5, <2>1 DEF TaskStarted, Enqueued, item, Memory
    <3>2. /\ Append(m.execution_events, item) \in Seq(Item) /\ m.held \in SUBSET Item
          /\ Append(m.attempts, att) \in Seq(TaskAttempt) /\ next \in Call \cup {None}
      BY <1>1, <1>2 DEF GoesOn
    <3> QED BY <1>1, <2>1, <3>1, <3>2
  <2>2. CASE ~Room(m)
    <3>1. n = [m EXCEPT !.emitted = m.emitted + 1,
                        !.next_attempt_number = m.next_attempt_number + 1, !.call = None,
                        !.execution_events = m.execution_events, !.held = m.held \cup {item},
                        !.attempts = m.attempts, !.pending_started = started]
      BY <1>1, <1>5, <2>2 DEF TaskStarted, item, started, Memory
    <3>2. m.execution_events \in Seq(Item) /\ m.held \cup {item} \in SUBSET Item
      BY <1>1, <1>2
    <3> QED BY <1>1, <1>4, <2>2, <3>1, <3>2
  <2> QED BY <2>1, <2>2
<1>7. /\ n \in Memory /\ n.call = c /\ n.completed = m.completed /\ n.journal = m.journal
      /\ n.cancelled = m.cancelled /\ n.attempts = k
      /\ n.pending_started = p /\ n.next_attempt_number = m.next_attempt_number + 1
      /\ n.task_configs = m.task_configs /\ n.execution_events = q
      /\ n.emitted = m.emitted + 1 /\ n.observed = m.observed /\ n.held = h
  <2>1. m.emitted + 1 \in Nat /\ m.next_attempt_number + 1 \in Nat
    BY <1>1
  <2>2. PICK e \in Nat, x \in Nat : e = m.emitted + 1 /\ x = m.next_attempt_number + 1
    BY <2>1
  <2>3. n = [m EXCEPT !.emitted = e, !.next_attempt_number = x, !.call = c, !.execution_events = q,
                      !.held = h, !.attempts = k, !.pending_started = p]
    BY <1>6, <2>2
  <2> QED BY <1>1, <2>2, <2>3 DEF Memory
<1>8. Emits(m, n, item)
  BY <1>2, <1>6, <1>7 DEF Emits
<1>9. ItemsDurable(n, s) /\ Len(n.execution_events) <= EventCapacity
  BY <1>3, <1>4, <1>6, <1>7, <1>8, EmitsItems
<1>10. CallInv(n) /\ Past(n)
  BY <1>6, <1>7 DEF CallInv, GoesOn, Past
<1>11. Behind(n, s)
  <2>1. att.attempt \in Attempts /\ s \in RunState /\ Numbered(s)
    BY DEF TaskAttempt, FactsInv
  <2>2. m.next_attempt_number <= Len(s.admission_history) /\ Len(s.admission_history) \in Nat
    BY <2>1 DEF Numbered, RunState
  <2>3. n.next_attempt_number \in 1..(Len(s.admission_history) + 1)
    BY <1>1, <1>7, <2>2
  <2> QED BY <1>7, <2>3 DEF MemInv, Behind
<1>12. ASSUME HostRetriesFirst PROVE Ordered(n) /\ Knows(n, s)
  <2>1. Ordered(m) /\ m.held = {} /\ Knows(m, s)
    BY <1>12 DEF MemInv
  <2>2. m.pending_started = None
    BY <2>1 DEF Ordered
  <2>3. Ordered(n)
    <3>1. n.call # None => n.held = {}
      BY <1>6, <1>7, <2>1
    <3>2. n.pending_started # None => n.held = {n.pending_started.item}
      BY <1>4, <1>6, <1>7, <2>1, <2>2
    <3> QED BY <1>1, <1>8, <2>1, <3>1, <3>2, EmitsOrdered
  <2>4. KnownAttempts(m) = m.attempts /\ KnownAttempts(n) = Append(m.attempts, att)
    BY <1>4, <1>6, <1>7, <2>2 DEF KnownAttempts
  <2>5. /\ Len(m.attempts) \in Nat /\ m.next_attempt_number = Len(m.attempts) + 1
        /\ \A i \in 1..Len(m.attempts) :
              m.attempts[i] = [attempt |-> i, task |-> s.admissions[i].task,
                               operation |-> s.admissions[i].operation]
    BY <1>1, <2>1, <2>4 DEF Knows
  <2>6. att = [attempt |-> m.next_attempt_number, task |-> s.admissions[m.next_attempt_number].task,
               operation |-> s.admissions[m.next_attempt_number].operation]
    BY DEF TaskAttempt
  <2>7. /\ Len(Append(m.attempts, att)) = Len(m.attempts) + 1
        /\ Append(m.attempts, att)[Len(m.attempts) + 1] = att
        /\ \A i \in 1..Len(m.attempts) : Append(m.attempts, att)[i] = m.attempts[i]
    BY <1>1
  <2>8. ASSUME NEW i \in 1..(Len(m.attempts) + 1)
        PROVE  Append(m.attempts, att)[i] = [attempt |-> i, task |-> s.admissions[i].task,
                                             operation |-> s.admissions[i].operation]
    <3>1. CASE i = Len(m.attempts) + 1
      BY <2>5, <2>6, <2>7, <3>1
    <3>2. CASE i # Len(m.attempts) + 1
      <4>1. i \in 1..Len(m.attempts)
        BY <2>5, <3>2
      <4> QED BY <2>5, <2>7, <4>1
    <3> QED BY <3>1, <3>2
  <2>9. Knows(n, s)
    BY <1>7, <2>4, <2>5, <2>7, <2>8 DEF Knows
  <2> QED BY <2>3, <2>9
<1>13. MemInv(n, s)
  BY <1>7, <1>9, <1>10, <1>11, <1>12 DEF MemInv
<1> QED BY <1>5, <1>7, <1>10, <1>13


\* The item handed back goes into the buffer.
LEMMA RetriedOrdered ==
    ASSUME NEW m \in Memory, Ordered(m), NEW item \in Item, m.held = {item},
           NEW n, n.execution_events = Append(m.execution_events, item), n.held = {},
           n.emitted = m.emitted, n.observed = m.observed, n.pending_started = None
    PROVE  Ordered(n)
<1> DEFINE q == m.execution_events
           p == n.execution_events
           k == Len(q)
<1>1. m.emitted \in Nat /\ m.observed \subseteq Nat /\ q \in Seq(Item)
  BY DEF Memory
<1>2. \A x \in Item : x.sequence \in Nat
  BY DEF Item
<1>3. \A i \in 1..Len(q) : q[i].sequence \in Nat
  BY <1>1, <1>2
<1>4. /\ \A x \in 1..m.emitted :
            x \in m.observed \/ (\E i \in 1..Len(q) : x = q[i].sequence) \/ x = item.sequence
      /\ \A x \in m.observed : x \in 1..m.emitted
      /\ \A i \in 1..Len(q) :
            /\ q[i].sequence <= m.emitted
            /\ \A j \in 1..(i - 1) : q[j].sequence < q[i].sequence
            /\ \A x \in m.observed : x < q[i].sequence
      /\ item.sequence = m.emitted
      /\ \A i \in 1..Len(q) : q[i].sequence < item.sequence
      /\ \A x \in m.observed : x < item.sequence
  BY DEF Ordered
<1>5. /\ k \in Nat /\ Len(p) = k + 1 /\ p[k + 1] = item
      /\ \A i \in 1..k : p[i] = q[i]
  BY <1>1, Appended
<1> HIDE DEF p, q, k
<1>6. ASSUME NEW x \in 1..m.emitted
      PROVE  x \in m.observed \/ \E i \in 1..Len(p) : x = p[i].sequence
  <2>1. k + 1 \in 1..Len(p) /\ \A i \in 1..k : i \in 1..Len(p) /\ p[i].sequence = q[i].sequence
    BY <1>5
  <2>2. CASE x = item.sequence
    BY <1>5, <2>1, <2>2
  <2>3. CASE x # item.sequence
    BY <1>4, <2>1, <2>3 DEF k
  <2> QED BY <2>2, <2>3
<1>7. ASSUME NEW i \in 1..Len(p)
      PROVE  /\ p[i].sequence <= m.emitted
             /\ \A j \in 1..(i - 1) : p[j].sequence < p[i].sequence
             /\ \A x \in m.observed : x < p[i].sequence
  <2>1. CASE i = k + 1
    <3>1. p[i] = item /\ \A j \in 1..(i - 1) : j \in 1..k /\ p[j] = q[j]
      BY <1>5, <2>1
    <3> QED BY <1>1, <1>4, <3>1 DEF k
  <2>2. CASE i # k + 1
    <3>1. i \in 1..k /\ p[i] = q[i] /\ \A j \in 1..(i - 1) : j \in 1..k /\ p[j] = q[j]
      BY <1>5, <2>2
    <3> QED BY <1>4, <3>1 DEF k
  <2> QED BY <2>1, <2>2
<1> QED BY <1>4, <1>6, <1>7 DEF Ordered, p

Retried(m, item) ==
    IF m.pending_started # None
    THEN [Enqueued(m, m.pending_started.item) EXCEPT !.attempts = Append(@, m.pending_started.attempt),
                                                     !.pending_started = None, !.held = @ \ {item}]
    ELSE [Enqueued(m, item) EXCEPT !.held = @ \ {item}]

\* retry_execution_event keeps what is said of a memory.
LEMMA RetriedMem ==
    ASSUME NEW m, NEW s, MemInv(m, s), m.call = None, Room(m), NEW item \in m.held, NEW n,
           n = Retried(m, item)
    PROVE  MemInv(n, s) /\ n.call = None /\ n.task_configs = m.task_configs
<1>1. /\ m \in Memory /\ m.execution_events \in Seq(Item) /\ m.held \subseteq Item /\ item \in Item
      /\ m.attempts \in Seq(TaskAttempt)
      /\ m.pending_started # None => /\ m.pending_started.item \in Item
                                     /\ m.pending_started.attempt \in TaskAttempt
  BY DEF MemInv, Memory
<1>2. PICK x \in Item, k \in Seq(TaskAttempt) :
          /\ n = [m EXCEPT !.execution_events = Append(m.execution_events, x),
                           !.attempts = k, !.pending_started = None, !.held = m.held \ {item}]
          /\ \/ /\ m.pending_started # None /\ x = m.pending_started.item
                /\ k = Append(m.attempts, m.pending_started.attempt)
             \/ m.pending_started = None /\ x = item /\ k = m.attempts
  <2>1. CASE m.pending_started # None
    <3>1. n = [m EXCEPT !.execution_events = Append(m.execution_events, m.pending_started.item),
                        !.attempts = Append(m.attempts, m.pending_started.attempt),
                        !.pending_started = None, !.held = m.held \ {item}]
      BY <1>1, <2>1 DEF Retried, Enqueued, Memory
    <3>2. Append(m.attempts, m.pending_started.attempt) \in Seq(TaskAttempt)
      BY <1>1, <2>1
    <3> QED BY <1>1, <2>1, <3>1, <3>2
  <2>2. CASE m.pending_started = None
    <3>1. n = [m EXCEPT !.execution_events = Append(m.execution_events, item),
                        !.attempts = m.attempts, !.pending_started = None, !.held = m.held \ {item}]
      BY <1>1, <2>2 DEF Retried, Enqueued, Memory
    <3> QED BY <1>1, <2>2, <3>1
  <2> QED BY <2>1, <2>2
<1>3. PICK q \in Seq(Item), h \in SUBSET Item :
          q = Append(m.execution_events, x) /\ h = m.held \ {item}
  <2>1. Append(m.execution_events, x) \in Seq(Item) /\ m.held \ {item} \in SUBSET Item
    BY <1>1
  <2> QED BY <2>1
<1>4. /\ n \in Memory /\ n.call = None /\ n.completed = m.completed /\ n.journal = m.journal
      /\ n.cancelled = m.cancelled /\ n.attempts = k
      /\ n.pending_started = None /\ n.next_attempt_number = m.next_attempt_number
      /\ n.task_configs = m.task_configs /\ n.execution_events = q
      /\ n.emitted = m.emitted /\ n.observed = m.observed /\ n.held = h
  BY <1>1, <1>2, <1>3 DEF Memory
<1>5. Durable(x, s)
  BY <1>2 DEF MemInv, ItemsDurable
<1>6. /\ Len(m.execution_events) \in Nat /\ Len(q) = Len(m.execution_events) + 1
      /\ q[Len(m.execution_events) + 1] = x
      /\ \A i \in 1..Len(m.execution_events) : q[i] = m.execution_events[i]
  BY <1>1, <1>3, Appended
<1>7. ItemsDurable(n, s) /\ Len(n.execution_events) <= EventCapacity
  <2>1. ASSUME NEW i \in 1..Len(q) PROVE Durable(q[i], s)
    <3>1. CASE i = Len(m.execution_events) + 1
      BY <1>5, <1>6, <3>1
    <3>2. CASE i # Len(m.execution_events) + 1
      <4>1. i \in 1..Len(m.execution_events)
        BY <1>6, <3>2
      <4> QED BY <1>6, <4>1 DEF MemInv, ItemsDurable
    <3> QED BY <3>1, <3>2
  <2>2. \A y \in h : Durable(y, s)
    BY <1>3 DEF MemInv, ItemsDurable
  <2>3. Len(q) <= EventCapacity
    BY <1>6, RuntimeAssumption DEF Room
  <2> QED BY <1>4, <2>1, <2>2, <2>3 DEF ItemsDurable
<1>8. CallInv(n) /\ Behind(n, s)
  BY <1>4 DEF MemInv, CallInv, Behind
<1>9. ASSUME HostRetriesFirst PROVE Ordered(n) /\ Knows(n, s)
  <2>1. Ordered(m) /\ Knows(m, s)
    BY <1>9 DEF MemInv
  <2>2. m.held = {x} /\ h = {}
    BY <1>2, <1>3, <2>1 DEF Ordered
  <2>3. Ordered(n)
    BY <1>1, <1>3, <1>4, <2>1, <2>2, RetriedOrdered
  <2>4. KnownAttempts(n) = KnownAttempts(m)
    BY <1>2, <1>4 DEF KnownAttempts
  <2>5. Knows(n, s)
    BY <1>4, <2>1, <2>4 DEF Knows
  <2> QED BY <2>3, <2>5
<1> QED BY <1>4, <1>7, <1>8, <1>9 DEF MemInv

\* The consumer drains the buffer.
Drained(m) ==
    [m EXCEPT !.execution_events = <<>>,
              !.observed = @ \cup {m.execution_events[i].sequence : i \in 1..Len(m.execution_events)}]

\* drain_execution_events keeps what is said of a memory.
LEMMA DrainedMem ==
    ASSUME NEW m, NEW s, MemInv(m, s), m.call = None, NEW n,
           n = Drained(m)
    PROVE  MemInv(n, s) /\ n.call = None /\ n.task_configs = m.task_configs
<1> DEFINE q == m.execution_events
           D == {q[i].sequence : i \in 1..Len(q)}
<1>1. m \in Memory /\ q \in Seq(Item) /\ m.observed \subseteq Nat /\ m.emitted \in Nat
  BY DEF MemInv, Memory
<1>2. \A x \in Item : x.sequence \in Nat \ {0}
  BY DEF Item
<1>3. ASSUME NEW d \in D PROVE d \in Nat /\ d >= 1
  <2>1. PICK i \in 1..Len(q) : d = q[i].sequence
    OBVIOUS
  <2> QED BY <1>1, <1>2, <2>1
<1>4. m.observed \cup D \in SUBSET Nat
  BY <1>1, <1>3
<1>5. PICK ob \in SUBSET Nat, e \in Seq(Item) :
          ob = m.observed \cup D /\ e = <<>> /\ n = [m EXCEPT !.execution_events = e, !.observed = ob]
  <2>1. <<>> \in Seq(Item)
    OBVIOUS
  <2> QED BY <1>1, <1>4, <2>1 DEF Memory, Drained
<1> HIDE DEF D
<1>6. /\ n \in Memory /\ n.call = None /\ n.completed = m.completed /\ n.journal = m.journal
      /\ n.cancelled = m.cancelled /\ n.attempts = m.attempts
      /\ n.pending_started = m.pending_started /\ n.next_attempt_number = m.next_attempt_number
      /\ n.task_configs = m.task_configs /\ n.execution_events = e
      /\ n.emitted = m.emitted /\ n.observed = ob /\ n.held = m.held
  BY <1>1, <1>5 DEF Memory
<1>7. Len(e) = 0 /\ Len(e) <= EventCapacity
  BY <1>5, RuntimeAssumption
<1>8. CallInv(n) /\ Behind(n, s) /\ ItemsDurable(n, s)
  BY <1>6, <1>7 DEF MemInv, CallInv, Behind, ItemsDurable
<1>9. ASSUME HostRetriesFirst PROVE Ordered(n) /\ Knows(n, s)
  <2>1. Ordered(m) /\ Knows(m, s)
    BY <1>9 DEF MemInv
  <2>2. ASSUME NEW x \in 1..m.emitted PROVE x \in ob \/ \E y \in m.held : x = y.sequence
    BY <1>5, <2>1 DEF Ordered, D
  <2>3. ASSUME NEW x \in ob PROVE x \in 1..m.emitted /\ \A y \in m.held : x < y.sequence
    <3>1. CASE x \in m.observed
      BY <2>1, <3>1 DEF Ordered
    <3>2. CASE x \in D
      <4>1. PICK i \in 1..Len(q) : x = q[i].sequence
        BY <3>2 DEF D
      <4>2. x <= m.emitted /\ \A y \in m.held : x < y.sequence
        BY <2>1, <4>1 DEF Ordered
      <4> QED BY <1>1, <1>3, <3>2, <4>2
    <3> QED BY <1>5, <3>1, <3>2
  <2>4. Ordered(n)
    <3>1. /\ \A y \in m.held : y.sequence = m.emitted /\ \A z \in m.held : z = y
          /\ m.pending_started # None => m.held = {m.pending_started.item}
      BY <2>1 DEF Ordered
    <3>2. 1..Len(n.execution_events) = {}
      BY <1>6, <1>7
    <3>3. /\ n.emitted = m.emitted /\ n.observed = ob /\ n.held = m.held /\ n.call = None
          /\ n.pending_started = m.pending_started
      BY <1>6
    <3>4. /\ \A x \in 1..n.emitted : x \in n.observed \/ \E y \in n.held : x = y.sequence
          /\ \A x \in n.observed : x \in 1..n.emitted
      BY <2>2, <2>3, <3>3
    <3>5. \A y \in n.held : /\ y.sequence = n.emitted
                            /\ \A x \in n.observed : x < y.sequence
                            /\ \A other \in n.held : other = y
      BY <2>3, <3>1, <3>3
    <3>6. /\ n.call # None => n.held = {}
          /\ n.pending_started # None => n.held = {n.pending_started.item}
      BY <3>1, <3>3
    <3> HIDE DEF q
    <3> QED BY <3>2, <3>4, <3>5, <3>6 DEF Ordered
  <2>5. KnownAttempts(n) = KnownAttempts(m)
    BY <1>6 DEF KnownAttempts
  <2>6. Knows(n, s)
    BY <1>6, <2>1, <2>5 DEF Knows
  <2> QED BY <2>4, <2>6
<1> QED BY <1>6, <1>7, <1>8, <1>9 DEF MemInv


----------------------------------------------------------------------------
(* What a journal becomes *)

\* An intent that is durable may join the journal.
LEMMA IntendedJournal ==
    ASSUME NEW s, FactsInv(s), NEW j \in Journal, JournalBehind(j, s),
           NEW o \in Operations, NEW intent \in Intent, s.intents[o] = intent,
           j.intents[o] = None, j.task_operations[intent.task] = None, NEW k,
           k = Intended(j, RecordIntent(o, intent))
    PROVE  k \in Journal /\ JournalBehind(k, s) /\ k.intents[o] = intent
<1>1. intent.task \in Tasks /\ intent # None /\ o # None
  BY NoneAssumption, NoneIsNoRecord DEF Intent
<1>2. k = [j EXCEPT !.task_operations = [j.task_operations EXCEPT ![intent.task] = o],
                    !.intents = [j.intents EXCEPT ![o] = intent]]
  BY DEF Intended, RecordIntent
<1>3. /\ j.intents \in [Operations -> Intent \cup {None}]
      /\ j.task_operations \in [Tasks -> Operations \cup {None}]
  BY DEF Journal
<1>4. /\ k.intents = [j.intents EXCEPT ![o] = intent]
      /\ k.task_operations = [j.task_operations EXCEPT ![intent.task] = o]
      /\ k.dispatches = j.dispatches /\ k.dispatch_history = j.dispatch_history
      /\ k.outcomes = j.outcomes
  BY <1>2 DEF Journal
<1>5. k \in Journal
  <2>1. PICK d \in [Operations -> Intent \cup {None}], e \in [Tasks -> Operations \cup {None}] :
            d = [j.intents EXCEPT ![o] = intent] /\ e = [j.task_operations EXCEPT ![intent.task] = o]
    <3>1. /\ [j.intents EXCEPT ![o] = intent] \in [Operations -> Intent \cup {None}]
          /\ [j.task_operations EXCEPT ![intent.task] = o] \in [Tasks -> Operations \cup {None}]
      BY <1>1, <1>3
    <3> QED BY <3>1
  <2>2. k = [j EXCEPT !.task_operations = e, !.intents = d]
    BY <1>2, <2>1
  <2> QED BY <2>2 DEF Journal
<1>6. s.task_operations[intent.task] = o
  BY <1>1 DEF FactsInv, Lineage, OwnershipAgrees
<1>7. /\ \A x \in Operations : k.intents[x] # None => s.intents[x] = k.intents[x]
      /\ \A t \in Tasks : k.task_operations[t] # None => s.task_operations[t] = k.task_operations[t]
  BY <1>3, <1>4, <1>6 DEF JournalBehind
<1>8. OwnershipAgrees(k)
  <2>1. ASSUME NEW x \in Operations, k.intents[x] # None
        PROVE  k.task_operations[k.intents[x].task] = x
    <3>1. CASE x = o
      BY <1>1, <1>3, <1>4, <3>1
    <3>2. CASE x # o
      <4>1. k.intents[x] = j.intents[x] /\ j.intents[x] \in Intent
        BY <1>3, <1>4, <2>1, <3>2
      <4>2. j.task_operations[j.intents[x].task] = x /\ j.intents[x].task \in Tasks /\ x # None
        BY <2>1, <4>1, NoneAssumption DEF JournalBehind, OwnershipAgrees, Intent
      <4>3. j.intents[x].task # intent.task
        BY <4>2
      <4> QED BY <1>3, <1>4, <4>1, <4>2, <4>3
    <3> QED BY <3>1, <3>2
  <2>2. ASSUME NEW t \in Tasks, k.task_operations[t] # None
        PROVE  /\ k.intents[k.task_operations[t]] # None
               /\ k.intents[k.task_operations[t]].task = t
    <3>1. CASE t = intent.task
      BY <1>1, <1>3, <1>4, <3>1
    <3>2. CASE t # intent.task
      <4>1. k.task_operations[t] = j.task_operations[t] /\ j.task_operations[t] \in Operations
        BY <1>3, <1>4, <2>2, <3>2
      <4>2. j.intents[j.task_operations[t]] # None /\ j.intents[j.task_operations[t]].task = t
        BY <2>2, <4>1 DEF JournalBehind, OwnershipAgrees
      <4>3. j.task_operations[t] # o
        BY <4>2
      <4> QED BY <1>3, <1>4, <4>1, <4>2, <4>3
    <3> QED BY <3>1, <3>2
  <2> QED BY <2>1, <2>2 DEF OwnershipAgrees
<1>9. DispatchHistoryExact(k)
  BY <1>4 DEF JournalBehind, DispatchHistoryExact
<1>10. k.intents[o] = intent
  BY <1>3, <1>4
<1> QED BY <1>4, <1>5, <1>7, <1>8, <1>9, <1>10 DEF JournalBehind

\* A dispatch that is durable may join the journal.
LEMMA DispatchedJournal ==
    ASSUME NEW s, NEW j \in Journal, JournalBehind(j, s),
           NEW o \in Operations, NEW a \in Attempts, s.dispatches[a] = o, j.dispatches[a] = None,
           NEW k, k = Dispatched(j, RecordDispatch(o, a))
    PROVE  k \in Journal /\ JournalBehind(k, s)
<1> DEFINE h == j.dispatch_history
           n == Len(j.dispatch_history)
<1>1. k = [j EXCEPT !.dispatches = [j.dispatches EXCEPT ![a] = o], !.dispatch_history = Append(h, a)]
  BY DEF Dispatched, RecordDispatch
<1>2. j.dispatches \in [Attempts -> Operations \cup {None}] /\ h \in Seq(Attempts)
  BY DEF Journal
<1>3. /\ k.dispatches = [j.dispatches EXCEPT ![a] = o] /\ k.dispatch_history = Append(h, a)
      /\ k.intents = j.intents /\ k.task_operations = j.task_operations /\ k.outcomes = j.outcomes
  BY <1>1 DEF Journal
<1>4. k \in Journal
  <2>1. PICK d \in [Attempts -> Operations \cup {None}], e \in Seq(Attempts) :
            d = [j.dispatches EXCEPT ![a] = o] /\ e = Append(h, a)
    <3>1. /\ [j.dispatches EXCEPT ![a] = o] \in [Attempts -> Operations \cup {None}]
          /\ Append(h, a) \in Seq(Attempts)
      BY <1>2
    <3> QED BY <3>1
  <2>2. k = [j EXCEPT !.dispatches = d, !.dispatch_history = e]
    BY <1>1, <2>1
  <2> QED BY <2>2 DEF Journal
<1>5. \A x \in Attempts : k.dispatches[x] # None => s.dispatches[x] = k.dispatches[x]
  BY <1>2, <1>3 DEF JournalBehind
<1>6. OwnershipAgrees(k)
  BY <1>3 DEF JournalBehind, OwnershipAgrees
<1>7. DispatchHistoryExact(k)
  <2>1. /\ n \in Nat /\ 1..(n + 1) = (1..n) \cup {n + 1}
        /\ Len(k.dispatch_history) = n + 1
        /\ \A i \in 1..n : k.dispatch_history[i] = h[i]
        /\ k.dispatch_history[n + 1] = a
    BY <1>2, <1>3
  <2>2. \A x \in Attempts : k.dispatches[x] = IF x = a THEN o ELSE j.dispatches[x]
    BY <1>2, <1>3
  <2>3. /\ \A x \in Attempts : j.dispatches[x] # None <=> \E i \in 1..n : h[i] = x
        /\ \A i, l \in 1..n : h[i] = h[l] => i = l
    BY DEF JournalBehind, DispatchHistoryExact
  <2>4. o # None
    BY NoneAssumption
  <2> HIDE DEF h, n
  <2>5. ASSUME NEW x \in Attempts
        PROVE  k.dispatches[x] # None <=> \E i \in 1..(n + 1) : k.dispatch_history[i] = x
    <3>1. CASE x = a
      BY <2>1, <2>2, <2>4, <3>1
    <3>2. CASE x # a
      BY <2>1, <2>2, <2>3, <3>2
    <3> QED BY <3>1, <3>2
  <2>6. ASSUME NEW i \in 1..(n + 1), NEW l \in 1..(n + 1),
               k.dispatch_history[i] = k.dispatch_history[l]
        PROVE  i = l
    <3>1. \A y \in 1..n : h[y] # a
      BY <2>3
    <3>2. (i \in 1..n \/ i = n + 1) /\ (l \in 1..n \/ l = n + 1)
      BY <2>1
    <3> QED BY <2>1, <2>3, <2>6, <3>1, <3>2
  <2> QED BY <2>1, <2>5, <2>6 DEF DispatchHistoryExact
<1> QED BY <1>3, <1>4, <1>5, <1>6, <1>7 DEF JournalBehind

\* An outcome that is durable may join the journal.
LEMMA ObservedJournal ==
    ASSUME NEW s, NEW j \in Journal, JournalBehind(j, s),
           NEW o, NEW a \in Attempts, NEW x \in KnownOutcome, s.outcomes[a] = x,
           NEW k, k = Observed(j, RecordOutcome(o, a, x))
    PROVE  k \in Journal /\ JournalBehind(k, s)
<1>1. k = [j EXCEPT !.outcomes = [j.outcomes EXCEPT ![a] = x]]
  BY DEF Observed, RecordOutcome
<1>2. j.outcomes \in [Attempts -> KnownOutcome \cup {None}]
  BY DEF Journal
<1>3. /\ k.outcomes = [j.outcomes EXCEPT ![a] = x] /\ k.dispatches = j.dispatches
      /\ k.dispatch_history = j.dispatch_history
      /\ k.intents = j.intents /\ k.task_operations = j.task_operations
  BY <1>1 DEF Journal
<1>4. k \in Journal
  BY <1>1, <1>2 DEF Journal
<1>5. \A y \in Attempts : k.outcomes[y] # None => s.outcomes[y] = k.outcomes[y]
  BY <1>2, <1>3 DEF JournalBehind
<1>6. OwnershipAgrees(k) /\ DispatchHistoryExact(k)
  BY <1>3 DEF JournalBehind, OwnershipAgrees, DispatchHistoryExact
<1> QED BY <1>3, <1>4, <1>5, <1>6 DEF JournalBehind

----------------------------------------------------------------------------
(* A memory that was just built *)

\* A record with the right fields is a memory.
LEMMA MemoryFields ==
    ASSUME NEW c \in Call \cup {None}, NEW d \in SUBSET Tasks, NEW j \in Journal,
           NEW e \in SUBSET Tasks, NEW k \in Seq(TaskAttempt),
           NEW p \in [attempt : TaskAttempt, item : Item] \cup {None}, NEW x \in Nat,
           NEW configs \in Identities, NEW q \in Seq(Item), NEW z \in Nat,
           NEW w \in SUBSET Nat, NEW y \in SUBSET Item
    PROVE  [call |-> c, completed |-> d, journal |-> j, cancelled |-> e, attempts |-> k,
            pending_started |-> p, next_attempt_number |-> x, task_configs |-> configs,
            execution_events |-> q, emitted |-> z, observed |-> w, held |-> y] \in Memory
BY DEF Memory

\* A memory that was just built, with the rest of its call.
BuiltFor(s, configs, next) == [Built(s, configs) EXCEPT !.call = next]

\* What a start or a restore builds from the facts is not ahead of them.
LEMMA BuiltMem ==
    ASSUME NEW s, FactsInv(s), NEW configs \in Identities, NEW c,
           c = None \/ c = At("identity", None, None, None), NEW n,
           n = BuiltFor(s, configs, c)
    PROVE  MemInv(n, s) /\ n.call = c /\ n.task_configs = configs
<1>1. s \in RunState /\ Numbered(s) /\ Lineage(s)
  BY DEF FactsInv
<1> DEFINE h == s.admission_history
           k == [i \in 1..Len(h) |-> [attempt |-> h[i], task |-> s.admissions[h[i]].task,
                                      operation |-> s.admissions[h[i]].operation]]
<1>2. h \in Seq(Attempts) /\ Len(h) \in Nat /\ \A i \in 1..Len(h) : h[i] = i
  BY <1>1 DEF RunState, Numbered
<1>3. k \in Seq(TaskAttempt) /\ Len(k) = Len(h)
  <2>1. ASSUME NEW i \in 1..Len(h)
        PROVE  [attempt |-> h[i], task |-> s.admissions[h[i]].task,
                operation |-> s.admissions[h[i]].operation] \in TaskAttempt
    <3>1. h[i] = i /\ i \in Attempts /\ s.admissions[i] \in Admission
      BY <1>2, AdmittedUpTo
    <3> QED BY <3>1 DEF Admission, TaskAttempt
  <2> HIDE DEF h
  <2> QED BY <1>2, <2>1
<1>4. JournalOf(s) \in Journal /\ JournalBehind(JournalOf(s), s)
  <2>1. PICK j : j = JournalOf(s)
    OBVIOUS
  <2>2. /\ j \in Journal /\ j.intents = s.intents /\ j.task_operations = s.task_operations
        /\ j.dispatches = s.dispatches /\ j.dispatch_history = s.dispatch_history
        /\ j.outcomes = s.outcomes
    BY <1>1, <2>1 DEF JournalOf, Journal, RunState
  <2>3. OwnershipAgrees(j) /\ DispatchHistoryExact(j)
    BY <1>1, <2>2 DEF Lineage, OwnershipAgrees, DispatchHistoryExact
  <2>4. JournalBehind(j, s)
    BY <2>2, <2>3 DEF JournalBehind
  <2> QED BY <2>1, <2>2, <2>4
<1>5. c \in Call \cup {None}
  BY DEF At, Call
<1> HIDE DEF k
<1>6. /\ n.call = c /\ n.completed = {t \in Tasks : s.completions[t] # None}
      /\ n.journal = JournalOf(s) /\ n.cancelled = {t \in Tasks : s.cancellations[t] # None}
      /\ n.attempts = k /\ n.pending_started = None /\ n.next_attempt_number = Len(h) + 1
      /\ n.task_configs = configs /\ n.execution_events = <<>> /\ n.emitted = 0
      /\ n.observed = {} /\ n.held = {}
  BY DEF BuiltFor, Built, k
<1>7. n \in Memory
  <2>1. PICK j \in Journal, x \in Nat, d \in SUBSET Tasks, e \in SUBSET Tasks :
            /\ j = JournalOf(s) /\ x = Len(h) + 1
            /\ d = {t \in Tasks : s.completions[t] # None}
            /\ e = {t \in Tasks : s.cancellations[t] # None}
    <3>1. /\ Len(h) + 1 \in Nat
          /\ {t \in Tasks : s.completions[t] # None} \in SUBSET Tasks
          /\ {t \in Tasks : s.cancellations[t] # None} \in SUBSET Tasks
      BY <1>2
    <3> HIDE DEF h
    <3> QED BY <1>4, <3>1
  <2>2. n = [call |-> c, completed |-> d, journal |-> j, cancelled |-> e, attempts |-> k,
             pending_started |-> None, next_attempt_number |-> x, task_configs |-> configs,
             execution_events |-> <<>>, emitted |-> 0, observed |-> {}, held |-> {}]
    BY <2>1 DEF BuiltFor, Built, k
  <2>3. PICK q \in Seq(Item), w \in SUBSET Nat, y \in SUBSET Item, z \in Nat :
            q = <<>> /\ w = {} /\ y = {} /\ z = 0
    <3>1. <<>> \in Seq(Item)
      OBVIOUS
    <3> QED BY <3>1
  <2>4. n = [call |-> c, completed |-> d, journal |-> j, cancelled |-> e, attempts |-> k,
             pending_started |-> None, next_attempt_number |-> x, task_configs |-> configs,
             execution_events |-> q, emitted |-> z, observed |-> w, held |-> y]
    BY <2>2, <2>3
  <2>5. None \in [attempt : TaskAttempt, item : Item] \cup {None} /\ k \in Seq(TaskAttempt)
    BY <1>3
  <2>6. [call |-> c, completed |-> d, journal |-> j, cancelled |-> e, attempts |-> k,
         pending_started |-> None, next_attempt_number |-> x, task_configs |-> configs,
         execution_events |-> q, emitted |-> z, observed |-> w, held |-> y] \in Memory
    BY <1>5, <2>5, MemoryFields, Zenon
  <2> QED BY <2>4, <2>6
<1>8. Len(<<>>) = 0 /\ Len(n.execution_events) <= EventCapacity
  BY <1>6, RuntimeAssumption
<1>9. CallInv(n) /\ ItemsDurable(n, s)
  BY <1>6, <1>8 DEF CallInv, At, ItemsDurable
<1>10. Behind(n, s)
  BY <1>2, <1>4, <1>6 DEF Behind
<1>11. Ordered(n)
  BY <1>6, <1>8 DEF Ordered
<1>12. Knows(n, s)
  <2>1. KnownAttempts(n) = k
    BY <1>6 DEF KnownAttempts
  <2>2. \A i \in 1..Len(h) : k[i] = [attempt |-> i, task |-> s.admissions[i].task,
                                     operation |-> s.admissions[i].operation]
    BY <1>2 DEF k
  <2> QED BY <1>3, <1>6, <2>1, <2>2 DEF Knows
<1> QED BY <1>6, <1>7, <1>8, <1>9, <1>10, <1>11, <1>12 DEF MemInv


----------------------------------------------------------------------------
(* The parts of calls that commit *)

\* What the calls commit are mutations.
LEMMA MutationTypes ==
    /\ \A i \in Identities : RecordIdentity(i) \in DurableMutation
    /\ \A a \in Attempts, adm \in Admission : AdmitAttempt(a, adm) \in DurableMutation
    /\ \A o \in Operations, int \in Intent : RecordIntent(o, int) \in DurableMutation
    /\ \A t \in Tasks, c \in Cancellation : RecordCancellation(t, c) \in DurableMutation
    /\ \A o \in Operations, a \in Attempts : RecordDispatch(o, a) \in DurableMutation
    /\ \A o \in Operations, a \in Attempts, x \in KnownOutcome :
          RecordOutcome(o, a, x) \in DurableMutation
    /\ \A t \in Tasks, a \in Attempts : RecordCompletion(t, a) \in DurableMutation
<1>1. \A i \in Identities : RecordIdentity(i) \in DurableMutation
  BY DEF DurableMutation
<1>2. ASSUME NEW a \in Attempts, NEW adm \in Admission
      PROVE  AdmitAttempt(a, adm) \in DurableMutation
  <2>1. <<a, adm>> \in Attempts \X Admission /\ <<a, adm>>[1] = a /\ <<a, adm>>[2] = adm
    OBVIOUS
  <2> QED BY <2>1, Zenon DEF DurableMutation
<1>3. ASSUME NEW o \in Operations, NEW int \in Intent
      PROVE  RecordIntent(o, int) \in DurableMutation
  <2>1. <<o, int>> \in Operations \X Intent /\ <<o, int>>[1] = o /\ <<o, int>>[2] = int
    OBVIOUS
  <2> QED BY <2>1, Zenon DEF DurableMutation
<1>4. ASSUME NEW t \in Tasks, NEW c \in Cancellation
      PROVE  RecordCancellation(t, c) \in DurableMutation
  <2>1. <<t, c>> \in Tasks \X Cancellation /\ <<t, c>>[1] = t /\ <<t, c>>[2] = c
    OBVIOUS
  <2> QED BY <2>1, Zenon DEF DurableMutation
<1>5. ASSUME NEW o \in Operations, NEW a \in Attempts
      PROVE  RecordDispatch(o, a) \in DurableMutation
  <2>1. <<o, a>> \in Operations \X Attempts /\ <<o, a>>[1] = o /\ <<o, a>>[2] = a
    OBVIOUS
  <2> QED BY <2>1, Zenon DEF DurableMutation
<1>6. ASSUME NEW o \in Operations, NEW a \in Attempts, NEW x \in KnownOutcome
      PROVE  RecordOutcome(o, a, x) \in DurableMutation
  <2>1. /\ <<o, a, x>> \in Operations \X Attempts \X KnownOutcome
        /\ <<o, a, x>>[1] = o /\ <<o, a, x>>[2] = a /\ <<o, a, x>>[3] = x
    OBVIOUS
  <2> QED BY <2>1, Zenon DEF DurableMutation
<1>7. ASSUME NEW t \in Tasks, NEW a \in Attempts
      PROVE  RecordCompletion(t, a) \in DurableMutation
  <2>1. <<t, a>> \in Tasks \X Attempts /\ <<t, a>>[1] = t /\ <<t, a>>[2] = a
    OBVIOUS
  <2> QED BY <2>1, Zenon DEF DurableMutation
<1> QED BY <1>1, <1>2, <1>3, <1>4, <1>5, <1>6, <1>7, Zenon

\* The keys of the calls are keys of the store.
LEMMA KeyTypes ==
    /\ \A o \in Operations : <<"intent", o>> \in Keys
    /\ \A a \in Attempts : /\ <<"admit", a>> \in Keys /\ <<"dispatch", a>> \in Keys
                           /\ <<"outcome", a>> \in Keys
    /\ \A t \in Tasks : <<"cancel", t>> \in Keys
    /\ \A t \in Tasks, a \in Attempts : <<"completion", t, a>> \in Keys
    /\ \A n \in 0..MaxRevision, i \in Identities : <<"workflow-identity", n, i>> \in Keys
<1>1. \A o \in Operations : <<"intent", o>> \in RuntimeKeys
  BY DEF RuntimeKeys
<1>2. \A a \in Attempts : /\ <<"admit", a>> \in RuntimeKeys /\ <<"dispatch", a>> \in RuntimeKeys
                          /\ <<"outcome", a>> \in RuntimeKeys
  BY DEF RuntimeKeys
<1>3. \A t \in Tasks : <<"cancel", t>> \in RuntimeKeys
  BY DEF RuntimeKeys
<1>4. \A t \in Tasks, a \in Attempts : <<"completion", t, a>> \in RuntimeKeys
  BY DEF RuntimeKeys
<1>5. \A n \in 0..MaxRevision, i \in Identities : <<"workflow-identity", n, i>> \in RuntimeKeys
  BY DEF RuntimeKeys
<1> QED BY <1>1, <1>2, <1>3, <1>4, <1>5, RunAssumption

\* What holds of a runtime that is up and past its start.
Up(r) == r \in Runtimes /\ rt[r] # None /\ Past(rt[r])

\* What the invariant says of such a runtime.
LEMMA UpFacts ==
    ASSUME IInv, NEW r, Up(r)
    PROVE  /\ r \in Runtimes /\ rt[r] # None /\ rt[r] \in Memory /\ Past(rt[r])
           /\ run # None /\ FactsInv(run) /\ run.identity # None /\ MemInv(rt[r], run)
           /\ PinsAgree(rt[r].task_configs, run.identity)
<1>1. r \in Runtimes /\ rt[r] # None /\ Past(rt[r])
  BY DEF Up
<1>2. /\ run # None /\ FactsInv(run) /\ MemInv(rt[r], run)
      /\ PinsAgree(rt[r].task_configs, run.identity)
  BY <1>1 DEF IInv, MemoriesInv
<1>3. idempotency[IdKey] # None
  BY <1>1 DEF IInv, IdentityInv, Past
<1> QED BY <1>1, <1>2, <1>3 DEF IInv, IdentityInv, MemInv

\* A commit of anything but an identity, by a runtime that is up.
LEMMA UpCommit ==
    ASSUME IInv, NEW r, Up(r), NEW key \in Keys, NEW mut \in DurableMutation, NEW m,
           commit_durable(r, key, mut, m), Fits(run, mut), mut.kind # "Identity",
           granted' \in [Operations -> Nat],
           StoreGrows(mut) /\ MemInv(rt[r], run') =>
               MemInv(m, run') /\ Past(m) /\ m.task_configs = rt[r].task_configs
    PROVE  IInv'
<1>1. r \in Runtimes /\ rt[r] # None /\ Past(rt[r]) /\ MemInv(rt[r], run)
  BY UpFacts
<1>2. StoreGrows(mut)
  BY <1>1, StoreStep
<1>3. MemInv(rt[r], run')
  BY <1>1, <1>2, MemGrown DEF StoreGrows
<1>4. MemInv(m, run') /\ Past(m) /\ m.task_configs = rt[r].task_configs
  BY <1>2, <1>3
<1> QED BY <1>1, <1>2, <1>4, CommitInv


\* record_intent: the intent is new, or it is the one recorded.
LEMMA IntentStepInv ==
    ASSUME IInv, NEW r, Up(r), NEW t \in Tasks, NEW o \in Operations, NEW semantics \in Semantics,
           NEW next, next = None \/ next = At("effect", t, o, None),
           HostRetriesFirst /\ next # None => rt[r].held = {},
           record_intent(r, t, o, semantics, next)
    PROVE  IInv'
<1> DEFINE m == rt[r]
           intent == [task |-> t, semantics |-> semantics]
           mut == RecordIntent(o, intent)
<1>1. m \in Memory /\ m.journal \in Journal
  BY UpFacts DEF Memory
<1>2. intent \in Intent /\ intent.task = t
  BY DEF Intent
<1>3. mut \in DurableMutation /\ <<"intent", o>> \in Keys /\ mut.kind = "Intent"
      /\ mut.operation = o /\ mut.intent = intent
  BY <1>2, MutationTypes, KeyTypes DEF RecordIntent
<1>4. PICK n : /\ commit_durable(r, <<"intent", o>>, mut, n)
               /\ n = [m EXCEPT !.journal = Intended(m.journal, mut), !.call = next]
               /\ m.journal.intents[o] = None /\ m.journal.task_operations[t] = None
               /\ granted' = granted
  BY DEF record_intent
<1>5. Fits(run, mut)
  BY <1>3 DEF Fits
<1> HIDE DEF mut, intent
<1>6. ASSUME StoreGrows(mut), MemInv(m, run')
      PROVE  MemInv(n, run') /\ Past(n) /\ n.task_configs = m.task_configs
  <2>1. FactsInv(run') /\ run'.intents[o] = intent
    BY <1>3, <1>6 DEF StoreGrows, Recorded
  <2>2. JournalBehind(m.journal, run')
    BY <1>6 DEF MemInv, Behind
  <2>3. PICK k \in Journal : /\ k = Intended(m.journal, mut) /\ JournalBehind(k, run')
                             /\ k.intents[o] = intent
    BY <1>1, <1>2, <1>4, <2>1, <2>2, IntendedJournal DEF mut
  <2>4. next \in Call \cup {None}
    BY DEF At, Call
  <2>5. n = [m EXCEPT !.journal = k, !.call = next]
    BY <1>4, <2>3
  <2>6. /\ n \in Memory /\ n.call = next /\ n.completed = m.completed /\ n.journal = k
        /\ n.cancelled = m.cancelled /\ n.task_configs = m.task_configs /\ SameStreams(m, n)
    BY <1>1, <2>3, <2>4, <2>5 DEF Memory, SameStreams
  <2>7. ViewBehind(n, run')
    BY <1>6, <2>3, <2>6 DEF MemInv, Behind, ViewBehind
  <2>8. CallInv(n) /\ Past(n)
    <3>1. intent # None
      BY <1>2, NoneIsNoRecord
    <3> QED BY <1>2, <2>3, <2>6, <3>1 DEF CallInv, At, Past
  <2>9. HostRetriesFirst /\ n.call # None => n.held = {}
    BY <2>6 DEF SameStreams
  <2> QED BY <1>6, <2>6, <2>7, <2>8, <2>9, ViewMem
<1>7. granted' \in [Operations -> Nat]
  BY <1>4, StoreFacts
<1> QED BY <1>3, <1>4, <1>5, <1>6, <1>7, UpCommit

\* record_dispatch: the dispatch of an attempt the journal knows.
LEMMA DispatchStepInv ==
    ASSUME IInv, NEW r, Up(r), NEW o \in Operations, NEW a \in Attempts, record_dispatch(r, o, a)
    PROVE  IInv'
<1> DEFINE m == rt[r]
           mut == RecordDispatch(o, a)
<1>1. m \in Memory /\ m.journal \in Journal
  BY UpFacts DEF Memory
<1>2. mut \in DurableMutation /\ <<"dispatch", a>> \in Keys /\ mut.kind = "Dispatch"
      /\ mut.operation = o /\ mut.attempt = a
  BY MutationTypes, KeyTypes DEF RecordDispatch
<1>3. PICK n : /\ commit_durable(r, <<"dispatch", a>>, mut, n)
               /\ n = [m EXCEPT !.journal = Dispatched(m.journal, mut), !.call = None]
               /\ m.journal.dispatches[a] = None
               /\ granted' \in {granted, [granted EXCEPT ![o] = @ + 1]}
  BY DEF record_dispatch
<1>4. Fits(run, mut)
  BY <1>2 DEF Fits
<1> HIDE DEF mut
<1>5. ASSUME StoreGrows(mut), MemInv(m, run')
      PROVE  MemInv(n, run') /\ Past(n) /\ n.task_configs = m.task_configs
  <2>1. run'.dispatches[a] = o
    BY <1>2, <1>5 DEF StoreGrows, Recorded
  <2>2. JournalBehind(m.journal, run')
    BY <1>5 DEF MemInv, Behind
  <2>3. PICK k \in Journal : k = Dispatched(m.journal, mut) /\ JournalBehind(k, run')
    BY <1>1, <1>3, <2>1, <2>2, DispatchedJournal DEF mut
  <2>4. n = [m EXCEPT !.journal = k, !.call = None]
    BY <1>3, <2>3
  <2>5. /\ n \in Memory /\ n.call = None /\ n.completed = m.completed /\ n.journal = k
        /\ n.cancelled = m.cancelled /\ n.task_configs = m.task_configs /\ SameStreams(m, n)
    BY <1>1, <2>3, <2>4 DEF Memory, SameStreams
  <2>6. ViewBehind(n, run')
    BY <1>5, <2>3, <2>5 DEF MemInv, Behind, ViewBehind
  <2>7. CallInv(n) /\ Past(n)
    BY <2>5 DEF CallInv, Past
  <2> QED BY <1>5, <2>5, <2>6, <2>7, ViewMem
<1>6. granted' \in [Operations -> Nat]
  BY <1>3, StoreFacts
<1> QED BY <1>2, <1>3, <1>4, <1>5, <1>6, UpCommit

\* record_effect_outcome: an outcome of a dispatch the journal knows.
LEMMA OutcomeStepInv ==
    ASSUME IInv, NEW r, Up(r), NEW o \in Operations, NEW a \in Attempts, NEW x \in KnownOutcome,
           record_effect_outcome(r, o, a, x)
    PROVE  IInv'
<1> DEFINE m == rt[r]
           mut == RecordOutcome(o, a, x)
<1>1. m \in Memory /\ m.journal \in Journal
  BY UpFacts DEF Memory
<1>2. mut \in DurableMutation /\ <<"outcome", a>> \in Keys /\ mut.kind = "Outcome"
      /\ mut.attempt = a /\ mut.outcome = x
  BY MutationTypes, KeyTypes DEF RecordOutcome
<1>3. PICK n : /\ commit_durable(r, <<"outcome", a>>, mut, n)
               /\ n = [m EXCEPT !.journal = Observed(m.journal, mut)]
               /\ m.call = None /\ granted' = granted
  BY DEF record_effect_outcome, Available
<1>4. Fits(run, mut)
  BY <1>2 DEF Fits
<1> HIDE DEF mut
<1>5. ASSUME StoreGrows(mut), MemInv(m, run')
      PROVE  MemInv(n, run') /\ Past(n) /\ n.task_configs = m.task_configs
  <2>1. run'.outcomes[a] = x
    BY <1>2, <1>5 DEF StoreGrows, Recorded
  <2>2. JournalBehind(m.journal, run')
    BY <1>5 DEF MemInv, Behind
  <2>3. PICK k \in Journal : k = Observed(m.journal, mut) /\ JournalBehind(k, run')
    BY <1>1, <1>3, <2>1, <2>2, ObservedJournal DEF mut
  <2>4. n = [m EXCEPT !.journal = k]
    BY <1>3, <2>3
  <2>5. /\ n \in Memory /\ n.call = None /\ n.completed = m.completed /\ n.journal = k
        /\ n.cancelled = m.cancelled /\ n.task_configs = m.task_configs /\ SameStreams(m, n)
    BY <1>1, <1>3, <2>3, <2>4 DEF Memory, SameStreams
  <2>6. ViewBehind(n, run')
    BY <1>5, <2>3, <2>5 DEF MemInv, Behind, ViewBehind
  <2>7. CallInv(n) /\ Past(n)
    BY <2>5 DEF CallInv, Past
  <2> QED BY <1>5, <2>5, <2>6, <2>7, ViewMem
<1>6. granted' \in [Operations -> Nat]
  BY <1>3, StoreFacts
<1> QED BY <1>2, <1>3, <1>4, <1>5, <1>6, UpCommit

\* cancel_task: a cancellation with the operation and attempt known.
LEMMA CancelStepInv ==
    ASSUME IInv, NEW r, Up(r), NEW t \in Tasks, cancel_task(r, t)
    PROVE  IInv'
<1> DEFINE m == rt[r]
           o == m.journal.task_operations[t]
           a == IF o = None THEN None ELSE attempt_for_task(m, t, o)
           c == [operation |-> o, attempt |-> a]
           mut == RecordCancellation(t, c)
<1>1. m \in Memory /\ m.journal \in Journal
  BY UpFacts DEF Memory
<1>2. o \in Operations \cup {None}
  BY <1>1 DEF Journal
<1>3. a \in Attempts \cup {None}
  BY <1>1, AttemptFor
<1>4. c \in Cancellation /\ c # None
  <2> HIDE DEF o, a
  <2> QED BY <1>2, <1>3, NoneIsNoRecord DEF Cancellation
<1> HIDE DEF c
<1>5. mut \in DurableMutation /\ <<"cancel", t>> \in Keys /\ mut.kind = "Cancel"
      /\ mut.task = t /\ mut.cancellation = c
  BY <1>4, MutationTypes, KeyTypes DEF RecordCancellation
<1>6. PICK n : /\ commit_durable(r, <<"cancel", t>>, mut, n)
               /\ n = [m EXCEPT !.cancelled = m.cancelled \cup {t}]
               /\ m.call = None /\ granted' = granted
  BY DEF cancel_task, Available, c
<1>7. Fits(run, mut)
  BY <1>5 DEF Fits
<1> HIDE DEF mut
<1>8. ASSUME StoreGrows(mut), MemInv(m, run')
      PROVE  MemInv(n, run') /\ Past(n) /\ n.task_configs = m.task_configs
  <2>1. run'.cancellations[t] # None
    BY <1>4, <1>5, <1>8 DEF StoreGrows, Recorded
  <2>2. /\ n \in Memory /\ n.call = None /\ n.completed = m.completed /\ n.journal = m.journal
        /\ n.cancelled = m.cancelled \cup {t} /\ n.task_configs = m.task_configs
        /\ SameStreams(m, n)
    BY <1>1, <1>6 DEF Memory, SameStreams
  <2>3. ViewBehind(n, run')
    BY <1>8, <2>1, <2>2 DEF MemInv, Behind, ViewBehind
  <2>4. CallInv(n) /\ Past(n)
    BY <2>2 DEF CallInv, Past
  <2> QED BY <1>8, <2>2, <2>3, <2>4, ViewMem
<1>9. granted' \in [Operations -> Nat]
  BY <1>6, StoreFacts
<1> QED BY <1>5, <1>6, <1>7, <1>8, <1>9, UpCommit

\* complete_task: the dependencies are completed in the run as well.
LEMMA CompleteStepInv ==
    ASSUME IInv, NEW r, Up(r), NEW t \in Tasks, NEW a \in Attempts,
           HostRetriesFirst => rt[r].held = {}, complete_task(r, t, a)
    PROVE  IInv'
<1> DEFINE m == rt[r]
           d == [m EXCEPT !.completed = m.completed \cup {t}]
           mut == RecordCompletion(t, a)
<1>1. m \in Memory /\ m.completed \subseteq Tasks /\ MemInv(m, run)
  BY UpFacts DEF Memory
<1>2. mut \in DurableMutation /\ <<"completion", t, a>> \in Keys /\ mut.kind = "Completion"
      /\ mut.task = t /\ mut.attempt = a
  BY MutationTypes, KeyTypes DEF RecordCompletion
<1>3. /\ commit_durable(r, <<"completion", t, a>>, mut, emit_completed(d, a))
      /\ Deps[t] \subseteq m.completed /\ granted' = granted
  BY DEF complete_task, ready_tasks
<1>4. Fits(run, mut)
  BY <1>1, <1>2, <1>3 DEF Fits, MemInv, Behind
<1> HIDE DEF mut
<1>5. ASSUME StoreGrows(mut), MemInv(m, run')
      PROVE  /\ MemInv(emit_completed(d, a), run') /\ Past(emit_completed(d, a))
             /\ emit_completed(d, a).task_configs = m.task_configs
  <2>1. FactsInv(run') /\ run'.completions[t] = a /\ a # None
    BY <1>2, <1>5, NoneAssumption DEF StoreGrows, Recorded
  <2>2. run'.admissions[a] # None /\ run'.admissions[a].task = t
    BY <2>1 DEF FactsInv, Lineage, CompletionHasSuccess
  <2>3. /\ d \in Memory /\ d.call = m.call /\ d.completed = m.completed \cup {t}
        /\ d.journal = m.journal /\ d.held = m.held
        /\ d.cancelled = m.cancelled /\ d.task_configs = m.task_configs /\ SameStreams(m, d)
    BY <1>1 DEF Memory, SameStreams
  <2> HIDE DEF d
  <2>4. ViewBehind(d, run')
    BY <1>5, <2>1, <2>3 DEF MemInv, Behind, ViewBehind
  <2>5. CallInv(d)
    BY <1>5, <2>3 DEF MemInv, CallInv
  <2>6. MemInv(d, run')
    BY <1>5, <2>3, <2>4, <2>5, ViewMem
  <2> QED BY <2>1, <2>2, <2>3, <2>6, CompletedMem
<1>6. granted' \in [Operations -> Nat]
  BY <1>3, StoreFacts
<1> QED BY <1>2, <1>3, <1>4, <1>5, <1>6, UpCommit


\* A configuration gives every task its pins.
LEMMA ConfigTypes ==
    ASSUME NEW configs \in Identities, NEW t \in Tasks
    PROVE  /\ configs[t] \in Config /\ configs[t].pins \in Pins
           /\ configs[t] \in ConfigChoices[t]
           /\ configs[t].effect # None => /\ configs[t].effect.operation \in Operations
                                          /\ configs[t].effect.semantics \in Semantics
<1>1. configs \in [Tasks -> Config] /\ configs[t] \in ConfigChoices[t]
  BY RuntimeAssumption
<1>2. configs[t] \in Config
  BY <1>1
<1> QED BY <1>1, <1>2 DEF Config, Effect

\* Without a known attempt for the operation, the next number is taken or is
\* its first attempt.
LEMMA NoOtherAttempt ==
    ASSUME NEW m, NEW s, MemInv(m, s), FactsInv(s), HostRetriesFirst,
           NEW t \in Tasks, NEW o \in Operations, s.intents[o] # None, s.intents[o].task = t,
           attempt_for_task(m, t, o) = None, m.next_attempt_number \in Attempts,
           s.admissions[m.next_attempt_number] = None, NEW a \in Attempts, s.admissions[a] # None
    PROVE  s.admissions[a].operation # o
<1>1. m \in Memory /\ Knows(m, s) /\ Numbered(s) /\ s \in RunState
  BY DEF MemInv, FactsInv
<1>2. Len(s.admission_history) \in Nat /\ Attempts \subseteq Nat /\ a >= 1
  BY <1>1, AttemptNumbers DEF RunState
<1>3. a <= Len(s.admission_history) /\ ~(m.next_attempt_number <= Len(s.admission_history))
  BY <1>1 DEF Numbered
<1>4. m.next_attempt_number = Len(KnownAttempts(m)) + 1 /\ Len(KnownAttempts(m)) \in Nat
  BY <1>1, KnownType DEF Knows
<1>5. a \in 1..Len(KnownAttempts(m))
  <2>1. a \in Nat /\ m.next_attempt_number \in Nat
    BY <1>2
  <2> QED BY <1>2, <1>3, <1>4, <2>1
<1>6. SUFFICES ASSUME s.admissions[a].operation = o PROVE FALSE
  OBVIOUS
<1>7. s.admissions[a].task = t
  BY <1>6, NoneAssumption DEF FactsInv, AdmissionsOwned
<1>8. KnownAttempts(m)[a] = [attempt |-> a, task |-> t, operation |-> o]
  BY <1>1, <1>5, <1>6, <1>7 DEF Knows
<1>9. KnownAttempts(m)[a].task = t /\ KnownAttempts(m)[a].operation = o
  BY <1>8
<1> QED BY <1>1, <1>5, <1>9, AttemptFor

\* begin_attempt: the next number, or the attempt another runtime took it for.
LEMMA AttemptStepInv ==
    ASSUME IInv, NEW r, Up(r), NEW t \in Tasks, NEW o \in Operations \cup {None}, NEW next,
           next \in {None, "complete", "dispatch"}, next = "dispatch" => o # None,
           HostRetriesFirst => rt[r].held = {},
           o # None => /\ rt[r].journal.intents[o] # None
                       /\ rt[r].journal.intents[o].task = t
                       /\ DispatchedOnce(run, o) \/ attempt_for_task(rt[r], t, o) = None,
           begin_attempt(r, t, o, next)
    PROVE  IInv'
<1> DEFINE m == rt[r]
           n == m.next_attempt_number
           rest == IF next = None THEN None ELSE At(next, t, o, n)
           admission == [task |-> t, operation |-> o, pins |-> m.task_configs[t].pins]
           att == [attempt |-> n, task |-> t, operation |-> o]
           mut == AdmitAttempt(n, admission)
<1>1. /\ m \in Memory /\ MemInv(m, run) /\ FactsInv(run) /\ run.identity # None
      /\ PinsAgree(m.task_configs, run.identity)
  BY UpFacts
<1>2. m.task_configs \in Identities
  BY <1>1 DEF Memory
<1>3. /\ n \in Attempts /\ granted' = granted
      /\ commit_durable(r, <<"admit", n>>, mut, TaskStarted(m, att, rest))
  BY DEF begin_attempt
<1>4. admission \in Admission /\ admission # None /\ admission.task = t /\ admission.operation = o
      /\ admission.pins = m.task_configs[t].pins
  BY <1>2, ConfigTypes, NoneIsNoRecord DEF Admission
<1> HIDE DEF admission
<1>5. /\ mut \in DurableMutation /\ <<"admit", n>> \in Keys /\ mut.kind = "Admit"
      /\ mut.attempt = n /\ mut.admission = admission
  BY <1>3, <1>4, MutationTypes, KeyTypes DEF AdmitAttempt
<1>6. att \in TaskAttempt /\ att.attempt = n /\ att.task = t /\ att.operation = o
  BY <1>3 DEF TaskAttempt
<1>7. GoesOn(rest)
  <2>1. CASE next = None
    BY <2>1 DEF GoesOn
  <2>2. CASE next \in {"complete", "dispatch"} /\ next # None
    <3> HIDE DEF n
    <3>1. rest = At(next, t, o, n)
      BY <2>2
    <3> QED BY <1>3, <2>2, <3>1 DEF GoesOn, At, Call
  <2> QED BY <2>1, <2>2
<1>8. Fits(run, mut)
  <2>1. n <= Len(run.admission_history) + 1
    BY <1>1 DEF MemInv, Behind
  <2>2. ASSUME o # None
        PROVE  /\ run.intents[o] # None /\ run.intents[o].task = t
               /\ HostRetriesFirst =>
                     \/ DispatchedOnce(run, o) \/ run.admissions[n] # None
                     \/ \A a \in Attempts : run.admissions[a] # None => run.admissions[a].operation # o
    <3>1. o \in Operations
      BY <2>2
    <3>2. run.intents[o] = m.journal.intents[o]
      BY <1>1, <2>2, <3>1 DEF MemInv, Behind, JournalBehind
    <3>3. run.intents[o] # None /\ run.intents[o].task = t
      BY <2>2, <3>2
    <3> HIDE DEF n
    <3> QED BY <1>1, <1>3, <2>2, <3>1, <3>3, NoOtherAttempt DEF n
  <2>3. t \in FixedPins => run.identity[t].pins = m.task_configs[t].pins
    BY <1>1 DEF PinsAgree
  <2> HIDE DEF mut, n, m
  <2> QED BY <1>1, <1>4, <1>5, <2>1, <2>2, <2>3 DEF Fits
<1> HIDE DEF mut, att, rest
<1>9. ASSUME StoreGrows(mut), MemInv(m, run')
      PROVE  /\ MemInv(TaskStarted(m, att, rest), run') /\ Past(TaskStarted(m, att, rest))
             /\ TaskStarted(m, att, rest).task_configs = m.task_configs
  <2>1. FactsInv(run') /\ run'.admissions[n] = admission
    BY <1>5, <1>9 DEF StoreGrows, Recorded
  <2> HIDE DEF n, m
  <2>2. n = m.next_attempt_number /\ (HostRetriesFirst => m.held = {})
    BY DEF n, m
  <2> QED BY <1>4, <1>6, <1>7, <1>9, <2>1, <2>2, StartedMem
<1>10. granted' \in [Operations -> Nat]
  BY <1>3, StoreFacts
<1> QED BY <1>3, <1>5, <1>8, <1>9, <1>10, UpCommit


\* configure_task: the identity of the run follows the configuration.
LEMMA ConfigureStepInv ==
    ASSUME IInv, NEW r, Up(r), NEW t \in Reconfigurable, NEW config \in ConfigChoices[t],
           configure_task(r, t, config)
    PROVE  IInv'
<1> DEFINE m == rt[r]
           configs == [m.task_configs EXCEPT ![t] = config]
           mut == RecordIdentity(configs)
           key == <<"workflow-identity", known[r], configs>>
<1>1. /\ m \in Memory /\ MemInv(m, run) /\ FactsInv(run) /\ run.identity # None /\ r \in Runtimes
      /\ m # None /\ Past(m)
      /\ PinsAgree(m.task_configs, run.identity)
  BY UpFacts
<1>2. t \in Tasks /\ m.task_configs \in Identities
  BY <1>1, RuntimeAssumption DEF Memory
<1>3. m.task_configs \in [Tasks -> Config] /\ \A u \in Tasks : m.task_configs[u] \in ConfigChoices[u]
  BY <1>2, RuntimeAssumption
<1>4. config \in Config /\ configs \in [Tasks -> Config]
  <2>1. config \in Config
    BY <1>2, RuntimeAssumption
  <2> QED BY <1>3, <2>1
<1>5. configs[t] = config /\ \A u \in Tasks : u # t => configs[u] = m.task_configs[u]
  BY <1>2, <1>3
<1> HIDE DEF configs
<1>6. configs \in Identities
  BY <1>3, <1>4, <1>5, RuntimeAssumption
<1>7. PinsAgree(configs, run.identity)
  <2>1. t \in FixedPins => config.pins = m.task_configs[t].pins
    BY <1>2, <1>3 DEF FixedPins
  <2> QED BY <1>1, <1>2, <1>5, <2>1 DEF PinsAgree, FixedPins
<1>8. known[r] \in 0..MaxRevision
  BY <1>1, StoreFacts DEF IInv, MemoriesInv
<1>9. mut \in DurableMutation /\ key \in Keys /\ mut.kind = "Identity" /\ mut.identity = configs
  BY <1>6, <1>8, MutationTypes, KeyTypes DEF RecordIdentity
<1>10. PICK n : /\ commit_durable(r, key, mut, n) /\ n = [m EXCEPT !.task_configs = configs]
                /\ m.call = None /\ granted' = granted
  BY DEF configure_task, configs, Available
<1> HIDE DEF mut, key
<1>11. Fits(run, mut)
  <2>1. ASSUME NEW a \in Attempts, run.admissions[a] # None, run.admissions[a].task \in FixedPins
        PROVE  configs[run.admissions[a].task].pins = run.admissions[a].pins
    <3>1. run.admissions[a].task \in Tasks
      BY <1>1, <2>1 DEF FactsInv, RunState, Admission
    <3> QED BY <1>1, <1>7, <2>1, <3>1 DEF PinsAgree, FactsInv, PinsKept
  <2> QED BY <1>9, <2>1 DEF Fits
<1>12. StoreGrows(mut)
  BY <1>1, <1>9, <1>10, <1>11, StoreStep
<1>13. MemInv(m, run')
  BY <1>1, <1>12, MemGrown DEF StoreGrows
<1>14. /\ n \in Memory /\ n.call = None /\ n.completed = m.completed /\ n.journal = m.journal
       /\ n.cancelled = m.cancelled /\ n.task_configs = configs /\ SameStreams(m, n)
  BY <1>1, <1>6, <1>10 DEF Memory, SameStreams
<1>15. ViewBehind(n, run') /\ CallInv(n) /\ Past(n)
  BY <1>13, <1>14 DEF MemInv, Behind, ViewBehind, CallInv, Past
<1>16. MemInv(n, run')
  BY <1>13, <1>14, <1>15, ViewMem
<1>17. granted' \in [Operations -> Nat]
  BY <1>10, StoreFacts
<1> QED BY <1>1, <1>7, <1>9, <1>10, <1>11, <1>12, <1>14, <1>15, <1>16, <1>17, CommitInv

----------------------------------------------------------------------------
(* Start and restart *)

\* A run that was just created satisfies what is said of runs.
LEMMA EmptyRunInv == FactsInv(EmptyRun) /\ EmptyRun # None /\ EmptyRun.identity = None
                     /\ \A a \in Attempts : EmptyRun.admissions[a] = None
<1>1. /\ EmptyRun.identity = None /\ EmptyRun.admission_history = <<>>
      /\ EmptyRun.completion_history = <<>>
      /\ \A a \in Attempts : EmptyRun.admissions[a] = None
      /\ \A t \in Tasks : EmptyRun.completions[t] = None
  BY DEF EmptyRun
<1>2. EmptyRun \in RunState /\ Lineage(EmptyRun) /\ EmptyRun # None
  BY EmptyRunFacts, RunAssumption
<1>3. Len(<<>>) = 0
  OBVIOUS
<1>4. Numbered(EmptyRun)
  BY <1>1, <1>3, AttemptNumbers DEF Numbered
<1>5. CompletionsReplay(EmptyRun) /\ CompletionsExact(EmptyRun)
  BY <1>1, <1>3 DEF CompletionsReplay, CompletionsExact
<1>6. AdmissionsOwned(EmptyRun) /\ OneAttempt(EmptyRun) /\ PinsKept(EmptyRun)
  BY <1>1 DEF AdmissionsOwned, OneAttempt, PinsKept
<1> QED BY <1>1, <1>2, <1>4, <1>5, <1>6 DEF FactsInv

\* A memory that joins while the facts stay what they are.
LEMMA JoinInv ==
    ASSUME IInv, NEW r \in Runtimes, NEW n, rt' = [rt EXCEPT ![r] = n], n # None,
           UNCHANGED <<run, revision, commit_ledger, idempotency, granted>>,
           known' = [known EXCEPT ![r] = revision], run # None, MemInv(n, run),
           idempotency[IdKey] = None => ~Past(n),
           Past(n) => PinsAgree(n.task_configs, run.identity)
    PROVE  IInv'
<1>1. revision \in 0..MaxRevision /\ revision # None /\ n \in Memory
  BY StoreFacts, RunAssumption DEF MemInv
<1>2. /\ known' \in [Runtimes -> (0..MaxRevision) \cup {None}]
      /\ known'[r] # None /\ \A q \in Runtimes : q # r => known'[q] = known[q]
  BY <1>1, StoreFacts
<1>3. /\ rt' \in [Runtimes -> Memory \cup {None}] /\ rt'[r] = n
      /\ \A q \in Runtimes : q # r => rt'[q] = rt[q]
  BY <1>1, StoreFacts
<1>4. Store!TypeOK' /\ KeyInv'
  BY <1>2 DEF IInv, Store!TypeOK, KeyInv
<1>5. ASSUME NEW q \in Runtimes, rt'[q] # None
      PROVE  /\ known'[q] # None /\ MemInv(rt'[q], run)
             /\ Past(rt'[q]) => PinsAgree(rt'[q].task_configs, run.identity)
  BY <1>2, <1>3, <1>5 DEF IInv, MemoriesInv
<1>6. ASSUME idempotency[IdKey] = None, NEW q \in Runtimes, rt'[q] # None
      PROVE  rt'[q].call # None /\ rt'[q].call.at = "identity"
  BY <1>3, <1>6 DEF IInv, IdentityInv, Past
<1>7. IdentityInv'
  BY <1>6 DEF IInv, IdentityInv
<1>8. MemoriesInv'
  BY <1>5 DEF MemoriesInv
<1> QED BY <1>3, <1>4, <1>7, <1>8 DEF IInv

\* start_run creates the run, or joins one without facts.
LEMMA StartRunInv ==
    ASSUME IInv, NEW r \in Runtimes, NEW configs \in Identities, start_run(r, configs)
    PROVE  IInv'
<1>1. PICK c, n : /\ c = At("identity", None, None, None) /\ n = BuiltFor(EmptyRun, configs, c)
                  /\ rt[r] = None /\ rt' = [rt EXCEPT ![r] = n] /\ granted' = granted
                  /\ Store!create_run(r) \/ (is_pristine_bootstrap /\ Store!load_run(r))
  BY DEF start_run, BuiltFor
<1>2. MemInv(n, EmptyRun) /\ n.call = c
  BY <1>1, EmptyRunInv, BuiltMem
<1>3. n \in Memory /\ n # None /\ c # None /\ c.at = "identity" /\ ~Past(n)
  <2>1. c \in Call /\ c.at = "identity"
    BY <1>1 DEF At, Call
  <2> QED BY <1>2, <2>1, NoneIsNoMemory DEF MemInv, Past
<1>4. CASE Store!create_run(r)
  <2>1. /\ run = None /\ run' = EmptyRun /\ known' = [known EXCEPT ![r] = 0]
        /\ UNCHANGED <<revision, commit_ledger, idempotency>>
    BY <1>4, SameFacts DEF Store!create_run
  <2>2. /\ rt' \in [Runtimes -> Memory \cup {None}] /\ rt'[r] = n
        /\ \A q \in Runtimes : q # r => rt'[q] = rt[q]
    BY <1>1, <1>3, StoreFacts
  <2>3. \A q \in Runtimes : rt[q] = None
    BY <2>1 DEF IInv, MemoriesInv
  <2>4. 0 # None /\ 0 \in 0..MaxRevision
    BY RunAssumption
  <2>5. known' \in [Runtimes -> (0..MaxRevision) \cup {None}] /\ known'[r] # None
    BY <2>1, <2>4, StoreFacts
  <2>6. \A k \in Keys : idempotency[k] = None
    BY <2>1 DEF IInv, KeyInv
  <2>7. Store!TypeOK'
    BY <2>1, <2>5, EmptyRunFacts, SameFacts DEF IInv, Store!TypeOK
  <2>8. KeyInv'
    BY <2>1, <2>6 DEF KeyInv
  <2>9. IdentityInv'
    BY <1>2, <1>3, <2>1, <2>2, <2>3, <2>6, StoreFacts DEF IdentityInv
  <2>10. MemoriesInv'
    BY <1>2, <1>3, <2>1, <2>2, <2>3, <2>5, EmptyRunInv DEF MemoriesInv
  <2>11. FactsInv(run') /\ granted' \in [Operations -> Nat]
    BY <1>1, <2>1, EmptyRunInv, StoreFacts
  <2> QED BY <2>2, <2>7, <2>8, <2>9, <2>10, <2>11 DEF IInv
<1>5. CASE is_pristine_bootstrap /\ Store!load_run(r)
  <2>1. /\ run = EmptyRun /\ known' = [known EXCEPT ![r] = revision]
        /\ UNCHANGED <<run, revision, commit_ledger, idempotency>>
    BY <1>5 DEF is_pristine_bootstrap, Store!load_run, Store!store
  <2> QED BY <1>1, <1>2, <1>3, <2>1, EmptyRunInv, JoinInv
<1> QED BY <1>1, <1>4, <1>5

\* restore_run builds a memory from the facts it has loaded.
LEMMA RestoreRunInv ==
    ASSUME IInv, NEW r \in Runtimes, NEW configs \in Identities, restore_run(r, configs)
    PROVE  IInv'
<1>1. /\ run # None /\ known' = [known EXCEPT ![r] = revision]
      /\ UNCHANGED <<run, revision, commit_ledger, idempotency, granted>>
      /\ run.identity = configs
      /\ rt' = [rt EXCEPT ![r] = Built(run, configs)]
  BY DEF restore_run, Store!load_run, Store!store, RestoreAccepted
<1>2. PICK c, n : c = None /\ n = BuiltFor(run, configs, c)
  OBVIOUS
<1>3. MemInv(n, run) /\ n.call = None /\ n.task_configs = configs
  <2>1. FactsInv(run)
    BY <1>1 DEF IInv
  <2> QED BY <1>2, <2>1, BuiltMem
<1>4. n = Built(run, configs)
  BY <1>2 DEF BuiltFor, Built
<1>5. n # None
  BY <1>3, NoneIsNoMemory DEF MemInv
<1>6. idempotency[IdKey] # None
  <2>1. run.identity # None
    BY <1>1, NoneAssumption
  <2> QED BY <1>1, <2>1, EmptyRunInv DEF IInv, IdentityInv
<1>7. PinsAgree(n.task_configs, run.identity)
  BY <1>1, <1>3 DEF PinsAgree
<1> QED BY <1>1, <1>3, <1>4, <1>5, <1>6, <1>7, JoinInv


\* The second half of a start, which records the identity.
LEMMA StartIdentityInv ==
    ASSUME IInv, NEW r \in Runtimes, rt[r] # None, rt[r].call # None, start_identity(r)
    PROVE  IInv'
<1> DEFINE m == rt[r]
           configs == m.task_configs
           mut == RecordIdentity(configs)
<1>1. /\ m \in Memory /\ MemInv(m, run) /\ run # None /\ FactsInv(run)
      /\ configs \in Identities
  BY DEF IInv, MemoriesInv, MemInv, Memory
<1>2. PICK n : /\ commit_durable(r, IdKey, mut, n) /\ n = [m EXCEPT !.call = None]
               /\ m.call.at = "identity" /\ granted' = granted
  BY DEF start_identity, IdKey
<1>3. /\ mut \in DurableMutation /\ IdKey \in Keys /\ mut.kind = "Identity"
      /\ mut.identity = configs
  BY <1>1, MutationTypes, StoreFacts DEF RecordIdentity
<1> HIDE DEF mut, configs
<1>4. Fresh(r, IdKey, mut) \/ Replayed(IdKey, mut)
  BY <1>2, <1>3, CommitFacts
<1>5. \/ idempotency[IdKey] = None /\ run = EmptyRun /\ Fresh(r, IdKey, mut)
      \/ /\ idempotency[IdKey] = <<mut>> /\ idempotency[IdKey] # None /\ run.identity # None /\ run' = run
         /\ PinsAgree(configs, run.identity)
  <2>1. CASE Fresh(r, IdKey, mut)
    BY <1>1, <2>1 DEF Fresh, IInv, IdentityInv
  <2>2. CASE Replayed(IdKey, mut)
    <3>1. idempotency[IdKey] = <<mut>> /\ <<mut>> # None /\ run' = run
      <4>1. <<mut>> \in Seq(DurableMutation)
        BY <1>3
      <4> QED BY <2>2, <4>1, RunAssumption DEF Replayed
    <3>2. /\ run.identity # None
          /\ \A c \in Identities :
                idempotency[IdKey] = <<RecordIdentity(c)>> => PinsAgree(c, run.identity)
      BY <3>1 DEF IInv, IdentityInv
    <3> QED BY <1>1, <3>1, <3>2 DEF mut
  <2> QED BY <1>4, <2>1, <2>2
<1>6. Fits(run, mut)
  <2>1. ASSUME NEW a \in Attempts, run.admissions[a] # None, run.admissions[a].task \in FixedPins
        PROVE  configs[run.admissions[a].task].pins = run.admissions[a].pins
    <3>1. run.admissions[a].task \in Tasks
      BY <1>1, <2>1 DEF FactsInv, RunState, Admission
    <3>2. PinsAgree(configs, run.identity)
      BY <1>5, <2>1, EmptyRunInv
    <3> QED BY <1>1, <2>1, <3>1, <3>2 DEF PinsAgree, FactsInv, PinsKept
  <2> QED BY <1>3, <2>1 DEF Fits
<1>7. /\ StoreGrows(mut) /\ idempotency'[IdKey] = <<mut>> /\ <<mut>> # None
      /\ Answered(r, n) \/ Unanswered(r)
  <2>1. <<mut>> \in Seq(DurableMutation)
    BY <1>3
  <2> QED BY <1>2, <1>3, <1>6, <2>1, StoreStep, RunAssumption
<1>8. /\ Store!TypeOK' /\ KeyInv' /\ run' # None /\ FactsInv(run') /\ Grown(run, run')
  BY <1>7 DEF StoreGrows
<1>9. run'.identity # None /\ PinsAgree(configs, run'.identity)
  <2>1. CASE run = EmptyRun /\ Fresh(r, IdKey, mut)
    <3>1. run' = Apply(run, mut) /\ Accepts(run, mut)
      BY <2>1 DEF Fresh
    <3>2. IdentityStep(run, mut, run')
      BY <1>3, <3>1, AcceptedKind DEF KindStep
    <3>3. run'.identity = configs
      BY <1>1, <1>3, <3>2 DEF IdentityStep, FactsInv, RunState
    <3> QED BY <1>1, <3>3, NoneAssumption DEF PinsAgree
  <2>2. CASE run.identity # None /\ run' = run /\ PinsAgree(configs, run.identity)
    BY <2>2
  <2> QED BY <1>5, <2>1, <2>2
<1>10. IdentityInv'
  <2>1. ASSUME NEW c \in Identities, idempotency'[IdKey] = <<RecordIdentity(c)>> PROVE c = configs
    <3>1. RecordIdentity(c).identity = c /\ <<RecordIdentity(c)>>[1] = RecordIdentity(c)
          /\ <<mut>>[1] = mut
      BY DEF RecordIdentity
    <3>2. RecordIdentity(c) = mut
      BY <1>7, <2>1, <3>1
    <3> QED BY <1>3, <3>1, <3>2
  <2> QED BY <1>7, <1>8, <1>9, <2>1 DEF IdentityInv
<1>11. MemInv(n, run') /\ n.task_configs = configs
  <2>1. MemInv(m, run')
    BY <1>1, <1>8, MemGrown
  <2>2. Abandoned(m) = None
    BY <1>2 DEF Abandoned
  <2>3. /\ n \in Memory /\ n.call = None /\ n.completed = m.completed /\ n.journal = m.journal
        /\ n.cancelled = m.cancelled /\ n.task_configs = m.task_configs /\ SameStreams(m, n)
    BY <1>1, <1>2 DEF Memory, SameStreams
  <2>4. ViewBehind(n, run') /\ CallInv(n)
    BY <2>1, <2>3 DEF MemInv, Behind, ViewBehind, CallInv
  <2> QED BY <2>1, <2>3, <2>4, ViewMem DEF configs
<1>12. PICK w : rt' = [rt EXCEPT ![r] = w] /\ w \in {n, None}
  BY <1>2, <1>7 DEF Answered, Unanswered, Abandoned
<1>13. /\ rt' \in [Runtimes -> Memory \cup {None}] /\ rt'[r] = w
       /\ \A q \in Runtimes : q # r => rt'[q] = rt[q]
  <2>1. w \in Memory \cup {None}
    BY <1>11, <1>12 DEF MemInv
  <2> QED BY <1>12, <2>1, StoreFacts
<1>14. \A q \in Runtimes : known[q] # None => known'[q] # None
  <2>1. /\ revision' \in 0..MaxRevision /\ known \in [Runtimes -> (0..MaxRevision) \cup {None}]
    BY <1>8, StoreFacts DEF Store!TypeOK
  <2>2. revision' # None
    BY <2>1, RunAssumption
  <2> QED BY <1>7, <2>1, <2>2 DEF Answered, Unanswered
<1>15. ASSUME NEW q \in Runtimes, rt'[q] # None
       PROVE  /\ known'[q] # None /\ MemInv(rt'[q], run')
              /\ Past(rt'[q]) => PinsAgree(rt'[q].task_configs, run'.identity)
  <2>1. CASE q = r
    <3>1. rt'[q] = n /\ known[q] # None
      BY <1>12, <1>13, <1>15, <2>1 DEF IInv, MemoriesInv
    <3> QED BY <1>9, <1>11, <1>14, <3>1
  <2>2. CASE q # r
    <3>1. rt'[q] = rt[q] /\ rt[q] # None /\ MemInv(rt[q], run) /\ known[q] # None
      BY <1>13, <1>15, <2>2 DEF IInv, MemoriesInv
    <3>2. MemInv(rt[q], run')
      BY <1>1, <1>8, <3>1, MemGrown
    <3>3. Past(rt[q]) => PinsAgree(rt[q].task_configs, run'.identity)
      BY <1>5, <3>1 DEF IInv, IdentityInv, MemoriesInv, Past
    <3> QED BY <1>14, <3>1, <3>2, <3>3
  <2> QED BY <2>1, <2>2
<1>16. MemoriesInv'
  BY <1>8, <1>15 DEF MemoriesInv
<1> QED BY <1>2, <1>8, <1>10, <1>13, <1>16, StoreFacts DEF IInv


----------------------------------------------------------------------------
(* Calls *)

\* A call that is in progress has nothing handed back.
LEMMA InCall ==
    ASSUME IInv, NEW r, Up(r), rt[r].call # None
    PROVE  /\ HostRetriesFirst => rt[r].held = {}
           /\ CallInv(rt[r])
BY UpFacts DEF MemInv, Ordered

\* An effect that was dispatched in the journal was dispatched in the run.
LEMMA StateKnown ==
    ASSUME NEW m, NEW s, MemInv(m, s), NEW o \in Operations
    PROVE  /\ effect_state(m.journal, o) # "NotPrepared" => m.journal.intents[o] # None
           /\ effect_state(m.journal, o) \in {"OutcomeUnknown", "Succeeded", "Failed"} =>
                 latest_dispatch(m.journal, o) \in Attempts /\ DispatchedOnce(s, o)
<1>1. m.journal \in Journal /\ JournalBehind(m.journal, s)
  BY DEF MemInv, Memory, Behind
<1>2. m.journal.dispatch_history \in Seq(Attempts)
  BY <1>1 DEF Journal
<1> DEFINE a == latest_dispatch(m.journal, o)
<1>3. a \in Attempts \cup {None} /\ (a # None => m.journal.dispatches[a] = o)
  BY <1>2, LatestDispatch
<1> HIDE DEF a
<1>4. a # None => a \in Attempts /\ DispatchedOnce(s, o)
  <2>1. ASSUME a # None PROVE s.dispatches[a] = o /\ a \in Attempts
    BY <1>1, <1>3, <2>1, NoneAssumption DEF JournalBehind
  <2> QED BY <2>1 DEF DispatchedOnce
<1>5. effect_state(m.journal, o) # "NotPrepared" => m.journal.intents[o] # None
  BY DEF effect_state
<1>6. effect_state(m.journal, o) \in {"OutcomeUnknown", "Succeeded", "Failed"} => a # None
  BY DEF effect_state, a
<1> QED BY <1>4, <1>5, <1>6 DEF a

\* step() on a task with a recorded intent.
LEMMA StepEffectInv ==
    ASSUME IInv, NEW r, Up(r), NEW t \in Tasks, NEW o \in Operations,
           HostRetriesFirst => rt[r].held = {},
           rt[r].journal.intents[o] # None, rt[r].journal.intents[o].task = t,
           step_effect(r, t, o)
    PROVE  IInv'
<1>1. MemInv(rt[r], run)
  BY UpFacts
<1>2. CASE attempt_for_task(rt[r], t, o) = None /\ begin_attempt(r, t, o, None)
  <2>1. o \in Operations \cup {None} /\ None \in {None, "complete", "dispatch"} /\ o # None
    BY NoneAssumption
  <2> QED BY <1>2, <2>1, AttemptStepInv, Zenon
<1>3. CASE effect_state(rt[r].journal, o) = "Succeeded" /\ complete_task(r, t, latest_dispatch(rt[r].journal, o))
  <2>1. latest_dispatch(rt[r].journal, o) \in Attempts
    BY <1>1, <1>3, StateKnown
  <2> QED BY <1>3, <2>1, CompleteStepInv
<1> QED BY <1>2, <1>3 DEF step_effect

\* step() keeps the invariant.
LEMMA StepInv ==
    ASSUME IInv, NEW r, Up(r), step(r)
    PROVE  IInv'
<1> DEFINE m == rt[r]
           t == FirstTask(m)
           o == m.journal.task_operations[t]
           effect == m.task_configs[t].effect
<1>1. /\ HostRetriesFirst => m.held = {}
      /\ ready_tasks(m) \ m.cancelled # {}
      /\ \/ o # None /\ step_effect(r, t, o)
         \/ o = None /\ effect = None /\ step_plain(r, t)
         \/ /\ o = None /\ effect # None
            /\ record_intent(r, t, effect.operation, effect.semantics,
                             At("effect", t, effect.operation, None))
  BY DEF step, MayEmit
<1>2. t \in Tasks
  BY <1>1, FirstTaskReady
<1>3. m \in Memory /\ MemInv(m, run) /\ m.journal \in Journal /\ m.task_configs \in Identities
  BY UpFacts DEF Memory
<1> HIDE DEF t
<1>4. CASE o # None /\ step_effect(r, t, o)
  <2>1. o \in Operations
    BY <1>2, <1>3, <1>4 DEF Journal
  <2>2. m.journal.intents[o] # None /\ m.journal.intents[o].task = t
    BY <1>2, <1>3, <1>4 DEF MemInv, Behind, JournalBehind, OwnershipAgrees
  <2> QED BY <1>1, <1>2, <1>4, <2>1, <2>2, StepEffectInv
<1>5. CASE step_plain(r, t)
  <2> DEFINE a == attempt_for_task(m, t, None)
  <2>1. a \in Attempts \cup {None}
    BY <1>3, AttemptFor
  <2>2. \/ begin_attempt(r, t, None, "complete")
        \/ a # None /\ complete_task(r, t, a)
    BY <1>5 DEF step_plain
  <2> HIDE DEF a
  <2>3. CASE begin_attempt(r, t, None, "complete")
    BY <1>1, <1>2, <2>3, AttemptStepInv
  <2>4. CASE a # None /\ complete_task(r, t, a)
    BY <1>1, <1>2, <2>1, <2>4, CompleteStepInv
  <2> QED BY <2>2, <2>3, <2>4
<1>6. CASE /\ effect # None
           /\ record_intent(r, t, effect.operation, effect.semantics,
                            At("effect", t, effect.operation, None))
  <2>1. effect.operation \in Operations /\ effect.semantics \in Semantics
    BY <1>2, <1>3, <1>6, ConfigTypes
  <2> HIDE DEF effect
  <2> QED BY <1>1, <1>2, <1>6, <2>1, IntentStepInv
<1> QED BY <1>1, <1>4, <1>5, <1>6

\* dispatch_effect keeps the invariant.
LEMMA DispatchEffectInv ==
    ASSUME IInv, NEW r, Up(r), NEW o \in Operations, dispatch_effect(r, o)
    PROVE  IInv'
<1> DEFINE m == rt[r]
           t == m.journal.intents[o].task
<1>1. /\ HostRetriesFirst => m.held = {}
      /\ m.journal.intents[o] # None
      /\ \/ /\ attempt_for_task(m, t, o) # None
            /\ record_dispatch(r, o, attempt_for_task(m, t, o))
         \/ /\ attempt_for_task(m, t, o) = None \/ effect_state(m.journal, o) = "OutcomeUnknown"
            /\ begin_attempt(r, t, o, "dispatch")
  BY DEF dispatch_effect, MayEmit
<1>2. m \in Memory /\ MemInv(m, run) /\ m.journal \in Journal
  BY UpFacts DEF Memory
<1>3. t \in Tasks /\ o # None
  BY <1>1, <1>2, NoneAssumption DEF Journal, Intent
<1>4. CASE attempt_for_task(m, t, o) # None /\ record_dispatch(r, o, attempt_for_task(m, t, o))
  <2>1. attempt_for_task(m, t, o) \in Attempts
    BY <1>2, <1>4, AttemptFor
  <2> QED BY <1>4, <2>1, DispatchStepInv
<1>5. CASE /\ attempt_for_task(m, t, o) = None \/ effect_state(m.journal, o) = "OutcomeUnknown"
           /\ begin_attempt(r, t, o, "dispatch")
  <2>1. DispatchedOnce(run, o) \/ attempt_for_task(m, t, o) = None
    BY <1>2, <1>5, StateKnown
  <2> QED BY <1>1, <1>3, <1>5, <2>1, AttemptStepInv
<1> QED BY <1>1, <1>4, <1>5

\* Recovery completes only a task whose effect succeeded.
LEMMA RecoversSuccess ==
    ASSUME NEW m, m.journal \in Journal, NEW o \in Operations,
           classify_recovery(m, o) = "CompleteWithoutReexecution"
    PROVE  effect_state(m.journal, o) = "Succeeded"
<1> DEFINE state == effect_state(m.journal, o)
           a == latest_dispatch(m.journal, o)
<1>1. state \in {"NotPrepared", "Prepared", "OutcomeUnknown", "Succeeded", "Failed"}
  <2>1. m.journal.dispatch_history \in Seq(Attempts)
    BY DEF Journal
  <2>2. a \in Attempts \cup {None}
    BY <2>1, LatestDispatch
  <2>3. m.journal.outcomes \in [Attempts -> KnownOutcome \cup {None}]
    BY DEF Journal
  <2> HIDE DEF a
  <2>4. a # None => m.journal.outcomes[a] \in KnownOutcome \cup {None}
    BY <2>2, <2>3
  <2> QED BY <2>4 DEF effect_state, a, KnownOutcome
<1> HIDE DEF state
<1> QED BY <1>1 DEF classify_recovery, state

\* recover keeps the invariant.
LEMMA RecoverInv ==
    ASSUME IInv, NEW r, Up(r), NEW o \in Operations, recover(r, o)
    PROVE  IInv'
<1> DEFINE m == rt[r]
           t == m.journal.intents[o].task
           a == latest_dispatch(m.journal, o)
<1>1. /\ HostRetriesFirst => m.held = {}
      /\ classify_recovery(m, o) = "CompleteWithoutReexecution"
      /\ complete_task(r, t, a)
  BY DEF recover, MayEmit
<1>2. m \in Memory /\ MemInv(m, run) /\ m.journal \in Journal
  BY UpFacts DEF Memory
<1>3. effect_state(m.journal, o) = "Succeeded"
  BY <1>1, <1>2, RecoversSuccess
<1>4. a \in Attempts /\ m.journal.intents[o] # None
  BY <1>2, <1>3, StateKnown
<1>5. t \in Tasks
  BY <1>2, <1>4 DEF Journal, Intent
<1> QED BY <1>1, <1>4, <1>5, CompleteStepInv


\* retry_execution_event keeps the invariant.
LEMMA RetryInv ==
    ASSUME IInv, NEW r, Up(r), NEW item \in rt[r].held, retry_execution_event(r, item)
    PROVE  IInv'
<1> DEFINE m == rt[r]
<1>1. m # None /\ r \in Runtimes /\ MemInv(m, run) /\ m.call = None /\ Room(m)
  BY UpFacts DEF retry_execution_event, Available
<1>2. PICK n : rt' = [rt EXCEPT ![r] = n] /\ n = Retried(m, item)
  BY DEF retry_execution_event, Retried
<1>3. UNCHANGED <<run, revision, commit_ledger, idempotency, known, granted>>
  BY DEF retry_execution_event
<1>4. MemInv(n, run) /\ n.call = None /\ n.task_configs = m.task_configs
  BY <1>1, <1>2, RetriedMem
<1>5. Past(m)
  BY <1>1 DEF Past
<1> QED BY <1>1, <1>2, <1>3, <1>4, <1>5, LocalInv

\* drain_execution_events keeps the invariant.
LEMMA DrainInv ==
    ASSUME IInv, NEW r, Up(r), drain_execution_events(r)
    PROVE  IInv'
<1> DEFINE m == rt[r]
<1>1. m # None /\ r \in Runtimes /\ MemInv(m, run) /\ m.call = None
  BY UpFacts DEF drain_execution_events, Available
<1>2. PICK n : n = Drained(m)
  OBVIOUS
<1>3. rt' = [rt EXCEPT ![r] = n]
  BY <1>1, <1>2, StoreFacts DEF drain_execution_events, Drained
<1>4. UNCHANGED <<run, revision, commit_ledger, idempotency, known, granted>>
  BY DEF drain_execution_events
<1>5. MemInv(n, run) /\ n.call = None /\ n.task_configs = m.task_configs
  BY <1>1, <1>2, DrainedMem
<1>6. Past(m)
  BY <1>1 DEF Past
<1> QED BY <1>1, <1>3, <1>4, <1>5, <1>6, LocalInv

\* A call that fails keeps the invariant.
LEMMA FailInv ==
    ASSUME IInv, NEW r \in Runtimes, fail(r)
    PROVE  IInv'
<1>1. /\ rt[r] # None /\ UNCHANGED <<run, revision, commit_ledger, idempotency, known, granted>>
      /\ rt' = [rt EXCEPT ![r] = Abandoned(rt[r])]
  BY DEF fail
<1>2. MemInv(rt[r], run)
  BY <1>1 DEF IInv, MemoriesInv
<1>3. PICK n : n = Abandoned(rt[r])
  OBVIOUS
<1>4. n # None => MemInv(n, run) /\ Past(rt[r]) /\ n.task_configs = rt[r].task_configs
  BY <1>2, <1>3, AbandonedMem
<1> QED BY <1>1, <1>3, <1>4, LocalInv

\* A crash keeps the invariant.
LEMMA CrashInv ==
    ASSUME IInv, NEW r \in Runtimes, crash(r)
    PROVE  IInv'
<1>1. PICK n : n = None /\ rt' = [rt EXCEPT ![r] = n]
  BY DEF crash
<1> QED BY <1>1, LocalInv DEF crash

\* The rest of a call keeps the invariant.
LEMMA ResumeInv ==
    ASSUME IInv, NEW r \in Runtimes, resume(r)
    PROVE  IInv'
<1> DEFINE c == rt[r].call
<1>1. /\ rt[r] # None /\ c # None
      /\ \/ start_identity(r)
         \/ c.at = "effect" /\ step_effect(r, c.task, c.operation)
         \/ c.at = "complete" /\ complete_task(r, c.task, c.attempt)
         \/ c.at = "dispatch" /\ record_dispatch(r, c.operation, c.attempt)
  BY DEF resume
<1>2. CASE start_identity(r)
  BY <1>1, <1>2, StartIdentityInv
<1>3. ASSUME c.at # "identity"
      PROVE  /\ Up(r) /\ (HostRetriesFirst => rt[r].held = {})
             /\ c.at \in {"effect", "complete"} => c.task \in Tasks
             /\ c.at \in {"effect", "dispatch"} => c.operation \in Operations
             /\ c.at \in {"complete", "dispatch"} => c.attempt \in Attempts
             /\ c.at = "effect" => /\ rt[r].journal.intents[c.operation] # None
                                   /\ rt[r].journal.intents[c.operation].task = c.task
  <2>1. Up(r)
    BY <1>1, <1>3 DEF Up, Past
  <2> QED BY <1>1, <2>1, InCall DEF CallInv
<1>4. CASE c.at = "effect" /\ step_effect(r, c.task, c.operation)
  BY <1>3, <1>4, StepEffectInv
<1>5. CASE c.at = "complete" /\ complete_task(r, c.task, c.attempt)
  BY <1>3, <1>5, CompleteStepInv
<1>6. CASE c.at = "dispatch" /\ record_dispatch(r, c.operation, c.attempt)
  BY <1>3, <1>6, DispatchStepInv
<1> QED BY <1>1, <1>2, <1>4, <1>5, <1>6

\* Every call of the host keeps the invariant.
LEMMA CallStepInv ==
    ASSUME IInv, NEW r \in Runtimes, Available(r), call(r)
    PROVE  IInv'
<1>1. Up(r)
  BY DEF Available, Up, Past
<1>2. CASE step(r)
  BY <1>1, <1>2, StepInv
<1>3. CASE \E i \in HostIntents : record_effect_intent(r, i[1], i[2], i[3])
  <2>1. PICK i \in HostIntents : record_effect_intent(r, i[1], i[2], i[3])
    BY <1>3
  <2>2. i[1] \in Tasks /\ i[2] \in Operations /\ i[3] \in Semantics
    BY RuntimeAssumption
  <2>3. record_intent(r, i[1], i[2], i[3], None)
    BY <2>1 DEF record_effect_intent
  <2> QED BY <1>1, <2>2, <2>3, IntentStepInv
<1>4. CASE \E o \in Operations : dispatch_effect(r, o)
  BY <1>1, <1>4, DispatchEffectInv
<1>5. CASE \E o \in Operations, a \in Attempts, x \in KnownOutcome : record_effect_outcome(r, o, a, x)
  BY <1>1, <1>5, OutcomeStepInv
<1>6. CASE \E o \in Operations : recover(r, o)
  BY <1>1, <1>6, RecoverInv
<1>7. CASE \E t \in Tasks : cancel_task(r, t)
  BY <1>1, <1>7, CancelStepInv
<1>8. CASE \E t \in Reconfigurable : \E config \in ConfigChoices[t] : configure_task(r, t, config)
  BY <1>1, <1>8, ConfigureStepInv
<1>9. CASE \E item \in rt[r].held : retry_execution_event(r, item)
  BY <1>1, <1>9, RetryInv
<1>10. CASE drain_execution_events(r)
  BY <1>1, <1>10, DrainInv
<1> QED BY <1>2, <1>3, <1>4, <1>5, <1>6, <1>7, <1>8, <1>9, <1>10 DEF call

----------------------------------------------------------------------------
(* The invariant *)

\* The invariant holds before the run exists.
LEMMA InitInv == Init => IInv
<1> SUFFICES ASSUME Init PROVE IInv
  OBVIOUS
<1>1. /\ run = None /\ revision = 0 /\ commit_ledger = <<>> /\ idempotency = [k \in Keys |-> None]
      /\ known = [c \in Runtimes |-> None] /\ rt = [r \in Runtimes |-> None]
      /\ granted = [o \in Operations |-> 0]
  BY DEF Init, Store!Init
<1>2. Store!TypeOK
  BY <1>1, RunAssumption DEF Store!TypeOK
<1>3. IdKey \in Keys
  BY RunAssumption DEF IdKey, RuntimeKeys
<1>4. KeyInv /\ IdentityInv /\ MemoriesInv
  BY <1>1, <1>3 DEF KeyInv, IdentityInv, MemoriesInv
<1> QED BY <1>1, <1>2, <1>4 DEF IInv

\* Every step keeps the invariant.
LEMMA NextInv == IInv /\ [Next]_vars => IInv'
<1> SUFFICES ASSUME IInv, [Next]_vars PROVE IInv'
  OBVIOUS
<1>1. CASE UNCHANGED vars
  <2>1. UNCHANGED <<run, revision, commit_ledger, idempotency, known, rt, granted>>
    BY <1>1 DEF vars
  <2>2. Store!TypeOK' /\ KeyInv' /\ IdentityInv' /\ MemoriesInv'
    BY <2>1 DEF IInv, Store!TypeOK, KeyInv, IdentityInv, MemoriesInv
  <2> QED BY <2>1, <2>2 DEF IInv
<1>2. ASSUME NEW r \in Runtimes, NEW configs \in Identities, start_run(r, configs) PROVE IInv'
  BY <1>2, StartRunInv
<1>3. ASSUME NEW r \in Runtimes, NEW configs \in Identities, restore_run(r, configs) PROVE IInv'
  BY <1>3, RestoreRunInv
<1>4. ASSUME NEW r \in Runtimes, Available(r), call(r) PROVE IInv'
  BY <1>4, CallStepInv
<1>5. ASSUME NEW r \in Runtimes, resume(r) PROVE IInv'
  BY <1>5, ResumeInv
<1>6. ASSUME NEW r \in Runtimes, fail(r) PROVE IInv'
  BY <1>6, FailInv
<1>7. ASSUME NEW r \in Runtimes, crash(r) PROVE IInv'
  BY <1>7, CrashInv
<1> QED BY <1>1, <1>2, <1>3, <1>4, <1>5, <1>6, <1>7 DEF Next

\* The inductive invariant holds in every reachable state: no runtime is ever
\* ahead of the facts of the run, and these can always be replayed.
THEOREM Invariance == Spec => []IInv
BY InitInv, NextInv, PTL DEF Spec


----------------------------------------------------------------------------
(* What follows from it *)

\* Every variable keeps its type, and a buffer never exceeds its capacity.
THEOREM TypeCorrect == Spec => []RuntimeTypeOK
<1>1. IInv => RuntimeTypeOK
  <2> SUFFICES ASSUME IInv PROVE RuntimeTypeOK
    OBVIOUS
  <2>1. \A r \in Runtimes : rt[r] # None => Len(rt[r].execution_events) <= EventCapacity
    BY DEF IInv, MemoriesInv, MemInv
  <2> QED BY <2>1 DEF IInv, RuntimeTypeOK
<1> QED BY <1>1, Invariance, PTL

\* Whatever a consumer observes was made durable before, whatever the host
\* does, and whoever else writes to the run.
THEOREM ObservedIsDurable == Spec => []ObservationsAreDurable
<1>1. IInv => ObservationsAreDurable
  <2> SUFFICES ASSUME IInv, NEW r \in Runtimes, rt[r] # None, NEW item \in Outstanding(r)
               PROVE  Durable(item, run)
    BY DEF ObservationsAreDurable, Durable
  <2>1. ItemsDurable(rt[r], run)
    BY DEF IInv, MemoriesInv, MemInv
  <2> QED BY <2>1 DEF Outstanding, ItemsDurable
<1> QED BY <1>1, Invariance, PTL

\* A host that retries what it was handed back before its next call loses no
\* item: TaskStarted and TaskCompleted are emitted at most once and kept.
THEOREM NoItemIsLost == ASSUME HostRetriesFirst PROVE Spec => []NothingLost
<1>1. IInv => NothingLost
  <2> SUFFICES ASSUME IInv, NEW r \in Runtimes, rt[r] # None
               PROVE  1..rt[r].emitted = rt[r].observed \cup {item.sequence : item \in Outstanding(r)}
    BY DEF NothingLost
  <2> DEFINE m == rt[r]
  <2>1. m \in Memory /\ Ordered(m)
    BY DEF IInv, MemoriesInv, MemInv
  <2>2. m.emitted \in Nat /\ m.execution_events \in Seq(Item) /\ m.held \subseteq Item
    BY <2>1 DEF Memory
  <2>3. ASSUME NEW n \in 1..m.emitted
        PROVE  n \in m.observed \cup {item.sequence : item \in Outstanding(r)}
    BY <2>1 DEF Ordered, Outstanding
  <2>4. ASSUME NEW n \in m.observed PROVE n \in 1..m.emitted
    BY <2>1 DEF Ordered
  <2>5. ASSUME NEW item \in Outstanding(r) PROVE item.sequence \in 1..m.emitted
    <3>1. item \in Item /\ item.sequence <= m.emitted
      <4>1. CASE item \in m.held
        <5>1. item \in Item /\ item.sequence = m.emitted
          BY <2>1, <2>2, <4>1 DEF Ordered
        <5> QED BY <2>2, <5>1
      <4>2. CASE item \notin m.held
        <5>1. PICK i \in 1..Len(m.execution_events) : item = m.execution_events[i]
          BY <4>2 DEF Outstanding
        <5> QED BY <2>1, <2>2, <5>1 DEF Ordered
      <4> QED BY <4>1, <4>2
    <3>2. item.sequence \in Nat \ {0}
      BY <3>1 DEF Item
    <3> QED BY <2>2, <3>1, <3>2
  <2> QED BY <2>3, <2>4, <2>5
<1> QED BY <1>1, Invariance, PTL

\* With the same host, a consumer sees each item once and in the order of its
\* emission.
THEOREM DrainsInOrder == ASSUME HostRetriesFirst PROVE Spec => []DrainedInOrder
<1>1. IInv => DrainedInOrder
  <2> SUFFICES ASSUME IInv, NEW r \in Runtimes, rt[r] # None,
                      NEW i \in 1..Len(rt[r].execution_events)
               PROVE  /\ \A j \in 1..(i - 1) :
                            rt[r].execution_events[j].sequence < rt[r].execution_events[i].sequence
                      /\ \A n \in rt[r].observed : n < rt[r].execution_events[i].sequence
                      /\ \A item \in rt[r].held : rt[r].execution_events[i].sequence < item.sequence
    BY DEF DrainedInOrder
  <2>1. Ordered(rt[r])
    BY DEF IInv, MemoriesInv, MemInv
  <2> QED BY <2>1 DEF Ordered
<1> QED BY <1>1, Invariance, PTL

\* With the same host, an operation has at most one attempt until it is
\* dispatched, however often its process dies and whoever else drives the run.
THEOREM OneAttemptBeforeDispatch == ASSUME HostRetriesFirst PROVE Spec => []OneAttemptUntilDispatch
<1>1. IInv => OneAttemptUntilDispatch
  <2> SUFFICES ASSUME IInv, run # None, NEW o \in Operations, effect_state(run, o) = "Prepared"
               PROVE  Cardinality({a \in Attempts : /\ run.admissions[a] # None
                                                    /\ run.admissions[a].operation = o}) <= 1
    BY DEF OneAttemptUntilDispatch
  <2> DEFINE S == {a \in Attempts : run.admissions[a] # None /\ run.admissions[a].operation = o}
  <2>1. run \in RunState /\ DispatchHistoryExact(run) /\ OneAttempt(run)
    BY DEF IInv, FactsInv, Lineage
  <2>2. run.dispatch_history \in Seq(Attempts)
        /\ run.outcomes \in [Attempts -> KnownOutcome \cup {None}]
    BY <2>1 DEF RunState
  <2>3. latest_dispatch(run, o) = None
    <3>1. latest_dispatch(run, o) \in Attempts \cup {None}
      BY <2>2, LatestDispatch
    <3>2. latest_dispatch(run, o) # None =>
              run.outcomes[latest_dispatch(run, o)] \in KnownOutcome \cup {None}
      BY <2>2, <3>1
    <3> QED BY <3>2 DEF effect_state, KnownOutcome
  <2>4. \A i \in 1..Len(run.dispatch_history) : run.dispatches[run.dispatch_history[i]] # o
    BY <2>2, <2>3, LatestDispatch
  <2>5. ~DispatchedOnce(run, o)
    BY <2>1, <2>4, NoneAssumption DEF DispatchedOnce, DispatchHistoryExact
  <2>6. \A a, b \in S : a = b
    BY <2>1, <2>5 DEF OneAttempt
  <2> HIDE DEF S
  <2>7. CASE S = {}
    BY <2>7, FS_EmptySet DEF S
  <2>8. CASE S # {}
    <3>1. PICK a \in S : S = {a}
      BY <2>6, <2>8
    <3>2. Cardinality({a}) = 1
      BY FS_Singleton
    <3>3. Cardinality(S) = 1
      BY <3>1, <3>2
    <3> QED BY <3>3 DEF S
  <2> QED BY <2>7, <2>8
<1> QED BY <1>1, Invariance, PTL

\* The completions of a run always replay, and its attempts find their pins
\* unless configure_task changed what their task requires.
THEOREM OnlyRepinningRefuses == Spec => []RestoresUnlessRepinned
<1>1. IInv => RestoresUnlessRepinned
  <2> SUFFICES ASSUME IInv, run # None, run.identity # None
               PROVE  CompletionsReplay(run) /\ PinsReplayFor(FixedPins)
    BY DEF RestoresUnlessRepinned
  <2>1. CompletionsReplay(run) /\ PinsKept(run)
    BY DEF IInv, FactsInv
  <2> QED BY <2>1 DEF PinsReplayFor, PinsKept
<1> QED BY <1>1, Invariance, PTL

\* The run passes every check of restore_run with its durable configuration.
AlwaysRestorable ==
    run # None /\ run.identity # None => RestoreAccepted(run, run.identity)

\* While configure_task leaves the required capabilities of every task alone,
\* restore_run accepts the run with its durable identity at any moment.
THEOREM CanBeRestored == ASSUME FixedPins = Tasks PROVE Spec => []AlwaysRestorable
<1>1. IInv => AlwaysRestorable
  <2> SUFFICES ASSUME IInv, run # None, run.identity # None PROVE RestoreAccepted(run, run.identity)
    BY DEF AlwaysRestorable
  <2>1. CompletionsReplay(run) /\ PinsKept(run) /\ run \in RunState
    BY DEF IInv, FactsInv
  <2>2. \A a \in Attempts : run.admissions[a] # None => run.admissions[a].task \in Tasks
    BY <2>1 DEF RunState, Admission
  <2> QED BY <2>1, <2>2 DEF RestoreAccepted, PinsReplay, PinsKept
<1> QED BY <1>1, Invariance, PTL

----------------------------------------------------------------------------
(* Runtime implements EffectContract, and its view of the run is never     *)
(* stale, as long as one runtime at a time drives the run and every commit *)
(* that takes effect is answered.  Crashes, restarts and refused commits   *)
(* may come at any point.                                                  *)

\* One process drives the run, and a commit that took effect says so.
SoleClient == ~MayLoseAnswers /\ \A q, r \in Runtimes : q = r

\* The view of m is the run.
Current(m, s) ==
    /\ m.journal.intents = s.intents /\ m.journal.task_operations = s.task_operations
    /\ m.journal.dispatches = s.dispatches /\ m.journal.dispatch_history = s.dispatch_history
    /\ m.journal.outcomes = s.outcomes
    /\ m.completed = {t \in Tasks : s.completions[t] # None}
    /\ m.cancelled = {t \in Tasks : s.cancellations[t] # None}
    /\ m.next_attempt_number = Len(s.admission_history) + 1

\* The operation may be dispatched, cancellations aside.
Dispatchable(s, o) ==
    \/ effect_state(s, o) = "Prepared"
    \/ effect_state(s, o) = "OutcomeUnknown" /\ s.intents[o].semantics = "Idempotent"

\* What made a call go on still holds.
CallSound(m, s) ==
    m.call # None =>
        /\ m.call.at = "complete" => s.task_operations[m.call.task] = None
        /\ m.call.at = "dispatch" => Dispatchable(s, m.call.operation)

CurrentInv ==
    /\ run = None => revision = 0
    /\ \A r \in Runtimes : rt[r] # None =>
          known[r] = revision /\ Current(rt[r], run) /\ CallSound(rt[r], run)
    /\ \A o \in Operations : granted[o] > 0 => run # None /\ DispatchedOnce(run, o)

\* The state of an operation depends on its facts only.
LEMMA StateSame ==
    ASSUME NEW s, NEW r, NEW o, r.intents[o] = s.intents[o], r.dispatches = s.dispatches,
           r.dispatch_history = s.dispatch_history, r.outcomes = s.outcomes
    PROVE  effect_state(r, o) = effect_state(s, o)
<1>1. latest_dispatch(r, o) = latest_dispatch(s, o)
  BY DEF latest_dispatch
<1> QED BY <1>1 DEF effect_state

\* r is s with a dispatch of o by a.
AddsDispatch(s, o, a, r) ==
    /\ r.intents = s.intents /\ r.outcomes = s.outcomes
    /\ r.dispatches = [s.dispatches EXCEPT ![a] = o]
    /\ r.dispatch_history = Append(s.dispatch_history, a)

\* A dispatch makes the state of its operation unknown, and no other.
LEMMA StateDispatched ==
    ASSUME NEW s \in RunState, Lineage(s), NEW o \in Operations, NEW a \in Attempts,
           s.dispatches[a] = None, s.intents[o] # None, NEW r, AddsDispatch(s, o, a, r)
    PROVE  /\ effect_state(r, o) = "OutcomeUnknown"
           /\ \A p \in Operations : p # o => effect_state(r, p) = effect_state(s, p)
<1> DEFINE h == s.dispatch_history
           g == r.dispatch_history
           n == Len(s.dispatch_history)
           S(p) == {i \in 1..Len(h) : s.dispatches[h[i]] = p}
           R(p) == {i \in 1..Len(g) : r.dispatches[g[i]] = p}
<1> USE DEF AddsDispatch
<1>1. h \in Seq(Attempts) /\ s.dispatches \in [Attempts -> Operations \cup {None}]
  BY DEF RunState
<1>2. /\ n \in Nat /\ Len(g) = n + 1 /\ g[n + 1] = a
      /\ \A i \in 1..n : g[i] = h[i] /\ h[i] \in Attempts
  BY <1>1
<1>3. ASSUME NEW i \in 1..n PROVE h[i] # a
  BY <1>2, <1>3 DEF Lineage, DispatchHistoryExact
<1>4. /\ r.dispatches[a] = o
      /\ \A i \in 1..n : r.dispatches[g[i]] = s.dispatches[h[i]]
  BY <1>1, <1>2, <1>3
<1> HIDE DEF h, g, n
<1>5. latest_dispatch(r, o) = a
  <2> DEFINE last == CHOOSE i \in R(o) : \A j \in R(o) : j <= i
  <2>1. n + 1 \in R(o)
    BY <1>2, <1>4
  <2>2. R(o) \in SUBSET (1..(n + 1)) /\ n + 1 \in Nat
    BY <1>2
  <2>3. latest_dispatch(r, o) = g[last]
    BY <2>1 DEF latest_dispatch, g
  <2> HIDE DEF R
  <2>4. last \in R(o) /\ \A j \in R(o) : j <= last
    BY <2>1, <2>2, LastIndex
  <2> HIDE DEF last
  <2>5. last = n + 1
    BY <1>2, <2>1, <2>2, <2>4
  <2> QED BY <1>2, <2>3, <2>5
<1>6. effect_state(r, o) = "OutcomeUnknown"
  <2>1. s.outcomes[a] = None
    BY DEF Lineage, OutcomeHasDispatch
  <2> QED BY <1>5, <2>1, NoneAssumption DEF effect_state
<1>7. ASSUME NEW p \in Operations, p # o PROVE effect_state(r, p) = effect_state(s, p)
  <2>1. R(p) = S(p)
    <3>1. ASSUME NEW i \in R(p) PROVE i \in S(p)
      <4>1. i \in 1..n
        BY <1>2, <1>4, <1>7, <3>1
      <4> QED BY <1>4, <4>1 DEF n, h
    <3>2. ASSUME NEW i \in S(p) PROVE i \in R(p)
      <4>1. i \in 1..n
        BY <3>2 DEF n, h
      <4> QED BY <1>2, <1>4, <4>1
    <3> HIDE DEF R, S
    <3> QED BY <3>1, <3>2
  <2> DEFINE last == CHOOSE i \in S(p) : \A j \in S(p) : j <= i
  <2>2. latest_dispatch(s, p) = IF S(p) = {} THEN None ELSE h[last]
    BY DEF latest_dispatch, h
  <2>3. latest_dispatch(r, p) = IF S(p) = {} THEN None ELSE g[last]
    <3>1. latest_dispatch(r, p) = IF R(p) = {} THEN None
                                  ELSE g[CHOOSE i \in R(p) : \A j \in R(p) : j <= i]
      BY DEF latest_dispatch, g
    <3> HIDE DEF R, S
    <3> QED BY <2>1, <3>1
  <2>4. S(p) # {} => last \in 1..n
    <3>1. S(p) \in SUBSET (1..n)
      BY DEF n, h
    <3> HIDE DEF S
    <3> QED BY <1>2, <3>1, LastIndex
  <2> HIDE DEF S, R, last
  <2>5. latest_dispatch(r, p) = latest_dispatch(s, p)
    BY <1>2, <2>2, <2>3, <2>4
  <2> QED BY <2>5 DEF effect_state
<1> QED BY <1>6, <1>7

\* An outcome is that of its operation if it is for the latest dispatch.
LEMMA StateObserved ==
    ASSUME NEW s \in RunState, Lineage(s), NEW o \in Operations, NEW a \in Attempts,
           NEW x \in KnownOutcome, s.dispatches[a] = o, s.outcomes[a] = None, NEW r,
           r.intents = s.intents, r.dispatches = s.dispatches,
           r.dispatch_history = s.dispatch_history,
           r.outcomes = [s.outcomes EXCEPT ![a] = x]
    PROVE  /\ \A p \in Operations : p # o => effect_state(r, p) = effect_state(s, p)
           /\ \/ effect_state(s, o) = "OutcomeUnknown" /\ effect_state(r, o) = x
              \/ effect_state(r, o) = effect_state(s, o)
<1>1. /\ s.dispatch_history \in Seq(Attempts) /\ s.outcomes \in [Attempts -> KnownOutcome \cup {None}]
  BY DEF RunState
<1>2. ASSUME NEW p PROVE latest_dispatch(r, p) = latest_dispatch(s, p)
  BY DEF latest_dispatch
<1>3. ASSUME NEW p, latest_dispatch(s, p) # a PROVE effect_state(r, p) = effect_state(s, p)
  <2>1. latest_dispatch(s, p) \in Attempts \cup {None}
    BY <1>1, LatestDispatch
  <2>2. CASE latest_dispatch(s, p) = None
    BY <1>2, <2>2 DEF effect_state
  <2>3. CASE latest_dispatch(s, p) \in Attempts
    <3>1. r.outcomes[latest_dispatch(s, p)] = s.outcomes[latest_dispatch(s, p)]
      BY <1>1, <1>3, <2>3
    <3> QED BY <1>2, <3>1 DEF effect_state
  <2> QED BY <2>1, <2>2, <2>3
<1>4. ASSUME NEW p \in Operations, p # o PROVE latest_dispatch(s, p) # a
  BY <1>1, <1>4, LatestDispatch, NoneAssumption
<1>5. CASE latest_dispatch(s, o) = a
  <2>1. s.intents[o] # None /\ a # None /\ x # None /\ r.outcomes[a] = x
    BY <1>1, NoneAssumption DEF Lineage, DispatchHasAuthority
  <2>2. latest_dispatch(r, o) = a
    BY <1>2, <1>5
  <2> QED BY <1>3, <1>4, <1>5, <2>1, <2>2 DEF effect_state
<1>6. CASE latest_dispatch(s, o) # a
  BY <1>3, <1>4, <1>6
<1> QED BY <1>5, <1>6

----------------------------------------------------------------------------
(* Steps of the contract *)

StatusOf(s) == [o \in Operations |-> effect_state(s, o)]
CancelledOf(s) == {t \in Tasks : s.cancellations[t] # None}
DoneOf(s) == {t \in Tasks : s.completions[t] # None}

\* What the contract sees of a run stays.
SameEffects(s, r) ==
    /\ r.intents = s.intents /\ StatusOf(r) = StatusOf(s)
    /\ CancelledOf(r) = CancelledOf(s) /\ DoneOf(r) = DoneOf(s)

\* A step that leaves the facts about effects alone is none of the contract.
LEMMA ContractStutters ==
    ASSUME run # None, run' # None, SameEffects(run, run'), granted' = granted
    PROVE  UNCHANGED Contract!vars
BY DEF SameEffects, StatusOf, CancelledOf, DoneOf, Contract!vars

\* The first intent of a task is a Prepare.
LEMMA ContractPrepares ==
    ASSUME run # None, run' # None, FactsInv(run), FactsInv(run'), granted' = granted,
           NEW o \in Operations, NEW int \in Intent,
           run.intents[o] = None, run.task_operations[int.task] = None,
           run'.intents = [run.intents EXCEPT ![o] = int],
           run'.dispatches = run.dispatches, run'.dispatch_history = run.dispatch_history,
           run'.outcomes = run.outcomes, CancelledOf(run') = CancelledOf(run),
           DoneOf(run') = DoneOf(run)
    PROVE  Contract!Next
<1>1. /\ run \in RunState /\ OwnershipAgrees(run) /\ DispatchHasAuthority(run)
      /\ run.intents \in [Operations -> Intent \cup {None}]
      /\ run.dispatch_history \in Seq(Attempts)
  BY DEF FactsInv, Lineage, RunState
<1>2. int.task \in Tasks /\ int.semantics \in {"Idempotent", "NonIdempotent"} /\ int # None
      /\ int = [task |-> int.task, semantics |-> int.semantics]
  BY NoneIsNoRecord DEF Intent, Semantics
<1>3. ASSUME NEW p \in Operations, run.intents[p] # None PROVE run.intents[p].task # int.task
  BY <1>1, <1>3, NoneAssumption DEF OwnershipAgrees
<1>4. effect_state(run, o) = "NotPrepared"
  BY DEF effect_state
<1>5. effect_state(run', o) = "Prepared"
  <2>1. run'.intents[o] # None
    BY <1>1, <1>2
  <2>2. run'.dispatch_history \in Seq(Attempts)
    BY <1>1
  <2>3. latest_dispatch(run', o) = None
    BY <1>1, <2>2, LatestDispatch, NoneAssumption DEF DispatchHasAuthority
  <2> QED BY <2>1, <2>3 DEF effect_state
<1>6. ASSUME NEW p \in Operations, p # o PROVE effect_state(run', p) = effect_state(run, p)
  <2>1. run'.intents[p] = run.intents[p]
    BY <1>1, <1>6
  <2>2. PICK s, r : s = run /\ r = run'
    OBVIOUS
  <2>3. /\ r.intents[p] = s.intents[p] /\ r.dispatches = s.dispatches
        /\ r.dispatch_history = s.dispatch_history /\ r.outcomes = s.outcomes
    BY <2>1, <2>2
  <2>4. effect_state(r, p) = effect_state(s, p)
    BY <2>3, StateSame
  <2> QED BY <2>2, <2>4
<1>7. StatusOf(run') = [StatusOf(run) EXCEPT ![o] = "Prepared"]
  BY <1>5, <1>6 DEF StatusOf
<1>8. Contract!Prepare(o, int.task, int.semantics)
  BY <1>2, <1>3, <1>4, <1>7 DEF Contract!Prepare, StatusOf, CancelledOf, DoneOf
<1> QED BY <1>2, <1>8 DEF Contract!Next

\* A granted dispatch is a Dispatch.
LEMMA ContractDispatches ==
    ASSUME run # None, run' # None, FactsInv(run),
           NEW o \in Operations, NEW a \in Attempts, DispatchStep(run, RecordDispatch(o, a), run'),
           Dispatchable(run, o),
           granted \in [Operations -> Nat], granted' = [granted EXCEPT ![o] = @ + 1],
           granted[o] > 0 => DispatchedOnce(run, o)
    PROVE  Contract!Next
<1>1. /\ run \in RunState /\ Lineage(run)
      /\ run.intents \in [Operations -> Intent \cup {None}]
      /\ run.dispatch_history \in Seq(Attempts)
      /\ run.outcomes \in [Attempts -> KnownOutcome \cup {None}]
  BY DEF FactsInv, RunState
<1>2. /\ run.intents[o] # None /\ run.admissions[a] # None
      /\ run.intents[o].task = run.admissions[a].task
      /\ run.cancellations[run.admissions[a].task] = None
      /\ run.dispatches[a] = None
      /\ run' = Dispatched(run, RecordDispatch(o, a))
  BY DEF DispatchStep, DispatchOK, RecordDispatch
<1>3. /\ run'.intents = run.intents /\ run'.outcomes = run.outcomes
      /\ run'.cancellations = run.cancellations /\ run'.completions = run.completions
      /\ run'.dispatches = [run.dispatches EXCEPT ![a] = o]
      /\ run'.dispatch_history = Append(run.dispatch_history, a)
  BY <1>1, <1>2 DEF Dispatched, RecordDispatch, RunState
<1>4. /\ effect_state(run', o) = "OutcomeUnknown"
      /\ \A p \in Operations : p # o => effect_state(run', p) = effect_state(run, p)
  <2>1. PICK s, r : s = run /\ r = run'
    OBVIOUS
  <2>2. /\ s \in RunState /\ Lineage(s) /\ s.dispatches[a] = None /\ s.intents[o] # None
        /\ AddsDispatch(s, o, a, r)
    BY <1>1, <1>2, <1>3, <2>1 DEF AddsDispatch
  <2>3. /\ effect_state(r, o) = "OutcomeUnknown"
        /\ \A p \in Operations : p # o => effect_state(r, p) = effect_state(s, p)
    BY <2>2, StateDispatched
  <2> QED BY <2>1, <2>3
<1>5. StatusOf(run') = [StatusOf(run) EXCEPT ![o] = "OutcomeUnknown"]
  BY <1>4 DEF StatusOf
<1>6. run.intents[o].task \notin CancelledOf(run)
  BY <1>2 DEF CancelledOf
<1>7. ASSUME run.intents[o].semantics = "NonIdempotent" PROVE granted[o] = 0
  <2>1. effect_state(run, o) = "Prepared"
    BY <1>7 DEF Dispatchable
  <2>2. latest_dispatch(run, o) \in Attempts \cup {None}
    BY <1>1, LatestDispatch
  <2>3. latest_dispatch(run, o) # None =>
            run.outcomes[latest_dispatch(run, o)] \in KnownOutcome \cup {None}
    BY <1>1, <2>2
  <2>4. latest_dispatch(run, o) = None
    BY <2>1, <2>3 DEF effect_state, KnownOutcome
  <2>5. \A i \in 1..Len(run.dispatch_history) : run.dispatches[run.dispatch_history[i]] # o
    BY <1>1, <2>4, LatestDispatch
  <2>6. ~DispatchedOnce(run, o)
    BY <1>1, <2>5, NoneAssumption DEF DispatchedOnce, Lineage, DispatchHistoryExact
  <2> QED BY <2>6
<1>8. Contract!MayDispatch(o)
  BY <1>6 DEF Contract!MayDispatch, Dispatchable, CancelledOf
<1>9. Contract!MayRun(o) /\ Contract!Run(o)
  BY <1>7 DEF Contract!MayRun, Contract!Run
<1>10. Contract!Dispatch(o)
  BY <1>3, <1>5, <1>8, <1>9 DEF Contract!Dispatch, StatusOf
<1> QED BY <1>10 DEF Contract!Next

\* An outcome is an Observe, or late and nothing to the contract.
LEMMA ContractObserves ==
    ASSUME run # None, run' # None, FactsInv(run), granted' = granted,
           NEW o \in Operations, NEW a \in Attempts, NEW x \in KnownOutcome,
           OutcomeStep(run, RecordOutcome(o, a, x), run')
    PROVE  Contract!Next \/ UNCHANGED Contract!vars
<1>1. /\ run \in RunState /\ Lineage(run)
      /\ run.outcomes \in [Attempts -> KnownOutcome \cup {None}]
  BY DEF FactsInv, RunState
<1>2. /\ run.dispatches[a] = o /\ run.outcomes[a] \in {None, x}
      /\ run' = Observed(run, RecordOutcome(o, a, x))
  BY DEF OutcomeStep, OutcomeOK, RecordOutcome
<1>3. /\ run'.intents = run.intents /\ run'.outcomes = [run.outcomes EXCEPT ![a] = x]
      /\ run'.cancellations = run.cancellations /\ run'.completions = run.completions
      /\ run'.dispatches = run.dispatches /\ run'.dispatch_history = run.dispatch_history
  BY <1>1, <1>2 DEF Observed, RecordOutcome, RunState
<1>4. CASE run.outcomes[a] = None
  <2>1. /\ \A p \in Operations : p # o => effect_state(run', p) = effect_state(run, p)
        /\ \/ effect_state(run, o) = "OutcomeUnknown" /\ effect_state(run', o) = x
           \/ effect_state(run', o) = effect_state(run, o)
    BY <1>1, <1>2, <1>3, <1>4, StateObserved
  <2>2. CASE effect_state(run, o) = "OutcomeUnknown" /\ effect_state(run', o) = x
    <3>1. StatusOf(run') = [StatusOf(run) EXCEPT ![o] = x]
      BY <2>1, <2>2 DEF StatusOf
    <3>2. Contract!Observe(o, x)
      BY <1>3, <2>2, <3>1 DEF Contract!Observe, StatusOf
    <3> QED BY <3>2 DEF Contract!Next, KnownOutcome
  <2>3. CASE effect_state(run', o) = effect_state(run, o)
    <3>1. SameEffects(run, run')
      BY <1>3, <2>1, <2>3 DEF SameEffects, StatusOf, CancelledOf, DoneOf
    <3> QED BY <3>1, ContractStutters
  <2> QED BY <2>1, <2>2, <2>3
<1>5. CASE run.outcomes[a] # None
  <2>1. run'.outcomes = run.outcomes
    BY <1>1, <1>2, <1>3, <1>5
  <2>2. \A p \in Operations : effect_state(run', p) = effect_state(run, p)
    BY <1>3, <2>1, StateSame
  <2>3. SameEffects(run, run')
    BY <1>3, <2>2 DEF SameEffects, StatusOf, CancelledOf, DoneOf
  <2> QED BY <2>3, ContractStutters
<1> QED BY <1>4, <1>5

\* The first cancellation of a task is a Cancel.
LEMMA ContractCancels ==
    ASSUME run # None, run' # None, FactsInv(run), granted' = granted,
           NEW t \in Tasks, NEW c \in Cancellation, CancelStep(run, RecordCancellation(t, c), run')
    PROVE  Contract!Next
<1>1. run \in RunState /\ run.cancellations \in [Tasks -> Cancellation \cup {None}] /\ c # None
  BY NoneIsNoRecord DEF FactsInv, RunState
<1>2. run' = Cancelled(run, RecordCancellation(t, c))
  BY DEF CancelStep
<1>3. /\ run'.intents = run.intents /\ run'.outcomes = run.outcomes
      /\ run'.cancellations = [run.cancellations EXCEPT ![t] = c]
      /\ run'.completions = run.completions
      /\ run'.dispatches = run.dispatches /\ run'.dispatch_history = run.dispatch_history
  BY <1>1, <1>2 DEF Cancelled, RecordCancellation, RunState
<1>4. StatusOf(run') = StatusOf(run)
  <2>1. \A p \in Operations : effect_state(run', p) = effect_state(run, p)
    BY <1>3, StateSame
  <2> QED BY <2>1 DEF StatusOf
<1>5. CancelledOf(run') = CancelledOf(run) \cup {t}
  BY <1>1, <1>3 DEF CancelledOf
<1>6. Contract!Cancel(t)
  BY <1>3, <1>4, <1>5 DEF Contract!Cancel, StatusOf, CancelledOf
<1> QED BY <1>6 DEF Contract!Next

\* The first completion of a task is a Complete.
LEMMA ContractCompletes ==
    ASSUME run # None, run' # None, FactsInv(run), granted' = granted,
           NEW t \in Tasks, NEW a \in Attempts, CompletionStep(run, RecordCompletion(t, a), run'),
           run.completions[t] = None, Deps[t] \subseteq DoneOf(run),
           \A o \in Operations : run.intents[o] # None /\ run.intents[o].task = t =>
               effect_state(run, o) = "Succeeded"
    PROVE  Contract!Next
<1>1. run \in RunState /\ run.completions \in [Tasks -> Attempts \cup {None}] /\ a # None
  BY NoneAssumption DEF FactsInv, RunState
<1>2. run' = Completed(run, RecordCompletion(t, a))
  BY DEF CompletionStep
<1>3. /\ run'.intents = run.intents /\ run'.outcomes = run.outcomes
      /\ run'.cancellations = run.cancellations
      /\ run'.completions = [run.completions EXCEPT ![t] = a]
      /\ run'.dispatches = run.dispatches /\ run'.dispatch_history = run.dispatch_history
  BY <1>1, <1>2 DEF Completed, RecordCompletion, RunState
<1>4. StatusOf(run') = StatusOf(run)
  <2>1. \A p \in Operations : effect_state(run', p) = effect_state(run, p)
    BY <1>3, StateSame
  <2> QED BY <2>1 DEF StatusOf
<1>5. DoneOf(run') = DoneOf(run) \cup {t} /\ t \notin DoneOf(run)
  BY <1>1, <1>3 DEF DoneOf
<1>6. Contract!Complete(t)
  BY <1>3, <1>4, <1>5 DEF Contract!Complete, StatusOf, DoneOf
<1> QED BY <1>6 DEF Contract!Next

----------------------------------------------------------------------------
(* Every step keeps the view current and is one of the contract *)

Simulates == CurrentInv' /\ (Contract!Next \/ UNCHANGED Contract!vars)

\* What a current view says of an operation is what the run says.
LEMMA ViewIs ==
    ASSUME NEW m, NEW s, Current(m, s)
    PROVE  /\ m.journal.intents = s.intents /\ m.journal.task_operations = s.task_operations
           /\ m.journal.dispatches = s.dispatches
           /\ m.journal.dispatch_history = s.dispatch_history /\ m.journal.outcomes = s.outcomes
           /\ \A o : effect_state(m.journal, o) = effect_state(s, o)
           /\ \A o : latest_dispatch(m.journal, o) = latest_dispatch(s, o)
<1>1. /\ m.journal.intents = s.intents /\ m.journal.task_operations = s.task_operations
      /\ m.journal.dispatches = s.dispatches
      /\ m.journal.dispatch_history = s.dispatch_history /\ m.journal.outcomes = s.outcomes
  BY DEF Current
<1>2. ASSUME NEW o PROVE latest_dispatch(m.journal, o) = latest_dispatch(s, o)
  BY <1>1 DEF latest_dispatch
<1>3. ASSUME NEW o PROVE effect_state(m.journal, o) = effect_state(s, o)
  BY <1>1, <1>2 DEF effect_state
<1> QED BY <1>1, <1>2, <1>3

\* The memory of the only runtime becomes n.
LEMMA SoleStep ==
    ASSUME SoleClient, IInv, NEW r \in Runtimes, NEW n, rt' = [rt EXCEPT ![r] = n],
           n # None => known'[r] = revision' /\ Current(n, run') /\ CallSound(n, run'),
           run' # None, \A o \in Operations : granted'[o] > 0 => DispatchedOnce(run', o)
    PROVE  CurrentInv'
<1>1. rt'[r] = n /\ \A q \in Runtimes : q = r
  BY StoreFacts DEF SoleClient
<1> QED BY <1>1 DEF CurrentInv

\* The commit of the only runtime is answered; it is new, or it restates a
\* recorded fact.
LEMMA SoleCommit ==
    ASSUME SoleClient, IInv, CurrentInv, NEW r \in Runtimes, NEW key \in Keys,
           NEW mut \in DurableMutation, NEW n, commit_durable(r, key, mut, n)
    PROVE  /\ run # None /\ FactsInv(run) /\ run' # None
           /\ known'[r] = revision' /\ rt' = [rt EXCEPT ![r] = n]
           /\ KindStep(run, mut, run') \/ (run' = run /\ Recorded(run, mut))
           /\ \A o \in Operations : granted[o] > 0 => DispatchedOnce(run', o)
<1>1. /\ run # None /\ (Fresh(r, key, mut) \/ Replayed(key, mut)) /\ Answered(r, n)
  BY CommitFacts DEF SoleClient, Unanswered
<1>2. known'[r] = revision' /\ rt' = [rt EXCEPT ![r] = n]
  BY <1>1, StoreFacts DEF Answered
<1>3. FactsInv(run) /\ run \in RunState
  BY <1>1 DEF IInv, FactsInv
<1>4. CASE Fresh(r, key, mut)
  <2>1. KindStep(run, mut, run') /\ MutationStep(run, mut, run')
    BY <1>4, AcceptedKind DEF Fresh
  <2>2. run' \in RunState /\ FactsKept(run, run')
    BY <1>3, <2>1, AppliedType, AppliedKeeps
  <2>3. ASSUME NEW o \in Operations, granted[o] > 0 PROVE DispatchedOnce(run', o)
    <3>1. PICK a \in Attempts : run.dispatches[a] = o
      BY <2>3 DEF CurrentInv, DispatchedOnce
    <3> QED BY <2>2, <3>1, NoneAssumption DEF FactsKept, DispatchedOnce
  <2> QED BY <1>1, <1>2, <1>3, <2>1, <2>2, <2>3, RunAssumption
<1>5. CASE Replayed(key, mut)
  <2>1. idempotency[key] = <<mut>> /\ run' = run
    BY <1>5 DEF Replayed
  <2>2. <<mut>> \in Seq(DurableMutation)
    OBVIOUS
  <2>3. PICK m \in DurableMutation : idempotency[key] = <<m>> /\ Recorded(run, m)
    BY <2>1, <2>2, RunAssumption DEF IInv, KeyInv
  <2>4. m = mut
    BY <2>1, <2>3
  <2> QED BY <1>1, <1>2, <1>3, <2>1, <2>3, <2>4 DEF CurrentInv
<1> QED BY <1>1, <1>4, <1>5

\* What holds of a view that is up.
LEMMA UpView ==
    ASSUME IInv, CurrentInv, NEW r, Up(r)
    PROVE  /\ r \in Runtimes /\ rt[r] # None /\ rt[r] \in Memory
           /\ run # None /\ FactsInv(run) /\ run \in RunState /\ MemInv(rt[r], run)
           /\ Current(rt[r], run) /\ CallSound(rt[r], run)
           /\ rt[r].journal \in Journal
<1>1. /\ r \in Runtimes /\ rt[r] # None /\ rt[r] \in Memory /\ run # None /\ FactsInv(run)
      /\ MemInv(rt[r], run)
  BY UpFacts
<1> QED BY <1>1 DEF CurrentInv, Current, FactsInv, Memory

\* record_intent is a Prepare.
LEMMA IntentSim ==
    ASSUME SoleClient, IInv, IInv', CurrentInv, NEW r, Up(r), NEW t \in Tasks, NEW o \in Operations,
           NEW semantics \in Semantics, NEW next, next = None \/ next = At("effect", t, o, None),
           record_intent(r, t, o, semantics, next)
    PROVE  Simulates
<1> DEFINE m == rt[r]
           intent == [task |-> t, semantics |-> semantics]
           mut == RecordIntent(o, intent)
<1>1. /\ r \in Runtimes /\ m \in Memory /\ Current(m, run) /\ run \in RunState /\ m.journal \in Journal
  BY UpView
<1>2. intent \in Intent /\ intent.task = t /\ intent # None
  BY NoneIsNoRecord DEF Intent
<1>3. mut \in DurableMutation /\ <<"intent", o>> \in Keys /\ mut.kind = "Intent"
      /\ mut.operation = o /\ mut.intent = intent
  BY <1>2, MutationTypes, KeyTypes DEF RecordIntent
<1>4. PICK n : /\ commit_durable(r, <<"intent", o>>, mut, n)
               /\ n = [m EXCEPT !.journal = Intended(m.journal, mut), !.call = next]
               /\ m.journal.intents[o] = None /\ m.journal.task_operations[t] = None
               /\ granted' = granted
  BY DEF record_intent
<1>5. run.intents[o] = None /\ run.task_operations[t] = None
  BY <1>1, <1>4, ViewIs
<1> HIDE DEF mut, intent
<1>6. /\ run # None /\ FactsInv(run) /\ run' # None /\ known'[r] = revision' /\ rt' = [rt EXCEPT ![r] = n]
      /\ KindStep(run, mut, run') \/ (run' = run /\ Recorded(run, mut))
      /\ \A p \in Operations : granted'[p] > 0 => DispatchedOnce(run', p)
  BY <1>1, <1>3, <1>4, SoleCommit
<1>7. run' = Intended(run, mut)
  BY <1>2, <1>3, <1>5, <1>6 DEF Recorded, KindStep, IntentStep
<1>8. /\ run' = [run EXCEPT !.task_operations = [run.task_operations EXCEPT ![t] = o],
                            !.intents = [run.intents EXCEPT ![o] = intent]]
  BY <1>2, <1>3, <1>5, <1>7 DEF Intended
<1>9. /\ run'.intents = [run.intents EXCEPT ![o] = intent]
      /\ run'.task_operations = [run.task_operations EXCEPT ![t] = o]
      /\ run'.dispatches = run.dispatches /\ run'.dispatch_history = run.dispatch_history
      /\ run'.outcomes = run.outcomes /\ run'.cancellations = run.cancellations
      /\ run'.completions = run.completions /\ run'.admission_history = run.admission_history
  BY <1>1, <1>8 DEF RunState
<1>10. PICK k : k = Intended(m.journal, mut)
  OBVIOUS
<1>11. /\ k.intents = run'.intents /\ k.task_operations = run'.task_operations
       /\ k.dispatches = run'.dispatches /\ k.dispatch_history = run'.dispatch_history
       /\ k.outcomes = run'.outcomes
  <2>1. k = [m.journal EXCEPT !.task_operations = [m.journal.task_operations EXCEPT ![t] = o],
                              !.intents = [m.journal.intents EXCEPT ![o] = intent]]
    BY <1>2, <1>3, <1>4, <1>10 DEF Intended
  <2>2. /\ k.task_operations = [m.journal.task_operations EXCEPT ![t] = o]
        /\ k.intents = [m.journal.intents EXCEPT ![o] = intent]
        /\ k.dispatches = m.journal.dispatches /\ k.dispatch_history = m.journal.dispatch_history
        /\ k.outcomes = m.journal.outcomes
    BY <1>1, <2>1 DEF Journal
  <2> QED BY <1>1, <1>9, <2>2 DEF Current
<1>12. /\ n.journal = k /\ n.completed = m.completed /\ n.cancelled = m.cancelled
       /\ n.next_attempt_number = m.next_attempt_number /\ n.call = next
  BY <1>1, <1>4, <1>10 DEF Memory
<1>13. Current(n, run') /\ CallSound(n, run')
  BY <1>1, <1>9, <1>11, <1>12 DEF Current, CallSound, At
<1>14. CurrentInv'
  BY <1>1, <1>6, <1>13, SoleStep
<1>15. Contract!Next
  <2>1. FactsInv(run')
    BY <1>6 DEF IInv
  <2>2. CancelledOf(run') = CancelledOf(run) /\ DoneOf(run') = DoneOf(run)
    BY <1>9 DEF CancelledOf, DoneOf
  <2> QED BY <1>2, <1>4, <1>5, <1>6, <1>9, <2>1, <2>2, ContractPrepares
<1> QED BY <1>14, <1>15 DEF Simulates

\* record_dispatch is a Dispatch.
LEMMA DispatchSim ==
    ASSUME SoleClient, IInv, IInv', CurrentInv, NEW r, Up(r), NEW o \in Operations, NEW a \in Attempts,
           Dispatchable(run, o), record_dispatch(r, o, a)
    PROVE  Simulates
<1> DEFINE m == rt[r]
           mut == RecordDispatch(o, a)
<1>1. /\ r \in Runtimes /\ m \in Memory /\ Current(m, run) /\ run \in RunState /\ m.journal \in Journal
  BY UpView
<1>2. mut \in DurableMutation /\ <<"dispatch", a>> \in Keys /\ mut.kind = "Dispatch"
      /\ mut.operation = o /\ mut.attempt = a
  BY MutationTypes, KeyTypes DEF RecordDispatch
<1>3. PICK n : /\ commit_durable(r, <<"dispatch", a>>, mut, n)
               /\ n = [m EXCEPT !.journal = Dispatched(m.journal, mut), !.call = None]
               /\ m.journal.dispatches[a] = None
               /\ granted' = IF rt'[r].journal.dispatches[a] = o
                             THEN [granted EXCEPT ![o] = @ + 1] ELSE granted
  BY DEF record_dispatch
<1>4. run.dispatches[a] = None /\ o # None
  BY <1>1, <1>3, NoneAssumption DEF Current
<1> HIDE DEF mut
<1>5. /\ run # None /\ FactsInv(run) /\ run' # None /\ known'[r] = revision' /\ rt' = [rt EXCEPT ![r] = n]
      /\ KindStep(run, mut, run') \/ (run' = run /\ Recorded(run, mut))
      /\ \A p \in Operations : granted[p] > 0 => DispatchedOnce(run', p)
  BY <1>1, <1>2, <1>3, SoleCommit
<1>6. DispatchStep(run, mut, run')
  BY <1>2, <1>4, <1>5 DEF Recorded, KindStep
<1>7. /\ run'.intents = run.intents /\ run'.outcomes = run.outcomes
      /\ run'.task_operations = run.task_operations
      /\ run'.cancellations = run.cancellations /\ run'.completions = run.completions
      /\ run'.dispatches = [run.dispatches EXCEPT ![a] = o]
      /\ run'.dispatch_history = Append(run.dispatch_history, a)
      /\ run'.admission_history = run.admission_history
  BY <1>1, <1>2, <1>6 DEF DispatchStep, Dispatched, RunState
<1>8. PICK k : k = Dispatched(m.journal, mut)
  OBVIOUS
<1>9. /\ k.intents = run'.intents /\ k.task_operations = run'.task_operations
      /\ k.dispatches = run'.dispatches /\ k.dispatch_history = run'.dispatch_history
      /\ k.outcomes = run'.outcomes
  <2>1. /\ k.task_operations = m.journal.task_operations /\ k.intents = m.journal.intents
        /\ k.dispatches = [m.journal.dispatches EXCEPT ![a] = o]
        /\ k.dispatch_history = Append(m.journal.dispatch_history, a)
        /\ k.outcomes = m.journal.outcomes
    BY <1>1, <1>2, <1>8 DEF Dispatched, Journal
  <2> QED BY <1>1, <1>7, <2>1 DEF Current
<1>10. /\ n.journal = k /\ n.completed = m.completed /\ n.cancelled = m.cancelled
       /\ n.next_attempt_number = m.next_attempt_number /\ n.call = None
  BY <1>1, <1>3, <1>8 DEF Memory
<1>11. Current(n, run') /\ CallSound(n, run')
  BY <1>1, <1>7, <1>9, <1>10 DEF Current, CallSound
<1>12. rt'[r] = n /\ k.dispatches[a] = o /\ run'.dispatches[a] = o
  BY <1>1, <1>5, <1>7, <1>9, StoreFacts DEF RunState
<1>13. granted' = [granted EXCEPT ![o] = @ + 1] /\ granted \in [Operations -> Nat]
  BY <1>3, <1>10, <1>12, StoreFacts
<1>14. \A p \in Operations : granted'[p] > 0 => DispatchedOnce(run', p)
  <2>1. ASSUME NEW p \in Operations, granted'[p] > 0 PROVE DispatchedOnce(run', p)
    <3>1. CASE p = o
      BY <1>12, <3>1 DEF DispatchedOnce
    <3>2. CASE p # o
      BY <1>5, <1>13, <2>1, <3>2
    <3> QED BY <3>1, <3>2
  <2> QED BY <2>1
<1>15. CurrentInv'
  BY <1>1, <1>5, <1>11, <1>14, SoleStep
<1>16. Contract!Next
  <2>1. granted[o] > 0 => DispatchedOnce(run, o)
    BY DEF CurrentInv
  <2> QED BY <1>5, <1>6, <1>13, <2>1, ContractDispatches DEF mut
<1> QED BY <1>15, <1>16 DEF Simulates

\* record_effect_outcome is an Observe, or nothing.
LEMMA OutcomeSim ==
    ASSUME SoleClient, IInv, IInv', CurrentInv, NEW r, Up(r), NEW o \in Operations, NEW a \in Attempts,
           NEW x \in KnownOutcome, record_effect_outcome(r, o, a, x)
    PROVE  Simulates
<1> DEFINE m == rt[r]
           mut == RecordOutcome(o, a, x)
<1>1. /\ r \in Runtimes /\ m \in Memory /\ Current(m, run) /\ run \in RunState /\ m.journal \in Journal
  BY UpView
<1>2. mut \in DurableMutation /\ <<"outcome", a>> \in Keys /\ mut.kind = "Outcome"
      /\ mut.operation = o /\ mut.attempt = a /\ mut.outcome = x
  BY MutationTypes, KeyTypes DEF RecordOutcome
<1>3. PICK n : /\ commit_durable(r, <<"outcome", a>>, mut, n)
               /\ n = [m EXCEPT !.journal = Observed(m.journal, mut)]
               /\ m.call = None /\ granted' = granted
  BY DEF record_effect_outcome, Available
<1> HIDE DEF mut
<1>4. /\ run # None /\ FactsInv(run) /\ run' # None /\ known'[r] = revision' /\ rt' = [rt EXCEPT ![r] = n]
      /\ KindStep(run, mut, run') \/ (run' = run /\ Recorded(run, mut))
      /\ \A p \in Operations : granted'[p] > 0 => DispatchedOnce(run', p)
  BY <1>1, <1>2, <1>3, SoleCommit
<1>5. OutcomeStep(run, mut, run') \/ (run' = run /\ run.outcomes[a] = x)
  BY <1>2, <1>4 DEF Recorded, KindStep
<1>6. /\ run'.intents = run.intents /\ run'.task_operations = run.task_operations
      /\ run'.cancellations = run.cancellations /\ run'.completions = run.completions
      /\ run'.dispatches = run.dispatches /\ run'.dispatch_history = run.dispatch_history
      /\ run'.admission_history = run.admission_history
      /\ run'.outcomes = [run.outcomes EXCEPT ![a] = x]
  <2>1. CASE OutcomeStep(run, mut, run')
    BY <1>1, <1>2, <2>1 DEF OutcomeStep, Observed, RunState
  <2>2. CASE run' = run /\ run.outcomes[a] = x
    <3>1. run.outcomes \in [Attempts -> KnownOutcome \cup {None}]
      BY <1>1 DEF RunState
    <3>2. run.outcomes = [run.outcomes EXCEPT ![a] = x]
      BY <2>2, <3>1
    <3> QED BY <2>2, <3>2
  <2> QED BY <1>5, <2>1, <2>2
<1>7. PICK k : k = Observed(m.journal, mut)
  OBVIOUS
<1>8. /\ k.intents = run'.intents /\ k.task_operations = run'.task_operations
      /\ k.dispatches = run'.dispatches /\ k.dispatch_history = run'.dispatch_history
      /\ k.outcomes = run'.outcomes
  <2>1. /\ k.task_operations = m.journal.task_operations /\ k.intents = m.journal.intents
        /\ k.dispatches = m.journal.dispatches /\ k.dispatch_history = m.journal.dispatch_history
        /\ k.outcomes = [m.journal.outcomes EXCEPT ![a] = x]
    BY <1>1, <1>2, <1>7 DEF Observed, Journal
  <2> QED BY <1>1, <1>6, <2>1 DEF Current
<1>9. /\ n.journal = k /\ n.completed = m.completed /\ n.cancelled = m.cancelled
      /\ n.next_attempt_number = m.next_attempt_number /\ n.call = None
  BY <1>1, <1>3, <1>7 DEF Memory
<1>10. Current(n, run') /\ CallSound(n, run')
  BY <1>1, <1>6, <1>8, <1>9 DEF Current, CallSound
<1>11. CurrentInv'
  BY <1>1, <1>4, <1>10, SoleStep
<1>12. Contract!Next \/ UNCHANGED Contract!vars
  <2>1. CASE OutcomeStep(run, mut, run')
    BY <1>3, <1>4, <2>1, ContractObserves DEF mut
  <2>2. CASE run' = run
    BY <1>3, <1>4, <2>2, ContractStutters DEF SameEffects
  <2> QED BY <1>5, <2>1, <2>2
<1> QED BY <1>11, <1>12 DEF Simulates

\* cancel_task is a Cancel, or nothing.
LEMMA CancelSim ==
    ASSUME SoleClient, IInv, IInv', CurrentInv, NEW r, Up(r), NEW t \in Tasks, cancel_task(r, t)
    PROVE  Simulates
<1> DEFINE m == rt[r]
           o == m.journal.task_operations[t]
           a == IF o = None THEN None ELSE attempt_for_task(m, t, o)
           c == [operation |-> o, attempt |-> a]
           mut == RecordCancellation(t, c)
<1>1. /\ r \in Runtimes /\ m \in Memory /\ Current(m, run) /\ run \in RunState /\ m.journal \in Journal
  BY UpView
<1>2. o \in Operations \cup {None}
  BY <1>1 DEF Journal
<1>3. a \in Attempts \cup {None}
  BY <1>1, AttemptFor
<1>4. c \in Cancellation /\ c # None
  <2> HIDE DEF o, a
  <2> QED BY <1>2, <1>3, NoneIsNoRecord DEF Cancellation
<1> HIDE DEF c
<1>5. mut \in DurableMutation /\ <<"cancel", t>> \in Keys /\ mut.kind = "Cancel"
      /\ mut.task = t /\ mut.cancellation = c
  BY <1>4, MutationTypes, KeyTypes DEF RecordCancellation
<1>6. PICK n : /\ commit_durable(r, <<"cancel", t>>, mut, n)
               /\ n = [m EXCEPT !.cancelled = m.cancelled \cup {t}]
               /\ m.call = None /\ granted' = granted
  BY DEF cancel_task, Available, c
<1> HIDE DEF mut
<1>7. /\ run # None /\ FactsInv(run) /\ run' # None /\ known'[r] = revision' /\ rt' = [rt EXCEPT ![r] = n]
      /\ KindStep(run, mut, run') \/ (run' = run /\ Recorded(run, mut))
      /\ \A p \in Operations : granted'[p] > 0 => DispatchedOnce(run', p)
  BY <1>1, <1>5, <1>6, SoleCommit
<1>8. CancelStep(run, mut, run') \/ (run' = run /\ run.cancellations[t] = c)
  BY <1>5, <1>7 DEF Recorded, KindStep
<1>9. /\ run'.intents = run.intents /\ run'.task_operations = run.task_operations
      /\ run'.completions = run.completions
      /\ run'.dispatches = run.dispatches /\ run'.dispatch_history = run.dispatch_history
      /\ run'.admission_history = run.admission_history /\ run'.outcomes = run.outcomes
      /\ \A u \in Tasks : run'.cancellations[u] = IF u = t THEN c ELSE run.cancellations[u]
  <2>1. CASE CancelStep(run, mut, run')
    BY <1>1, <1>5, <2>1 DEF CancelStep, Cancelled, RunState
  <2>2. CASE run' = run /\ run.cancellations[t] = c
    BY <2>2
  <2> QED BY <1>8, <2>1, <2>2
<1>10. /\ n.journal = m.journal /\ n.completed = m.completed /\ n.cancelled = m.cancelled \cup {t}
       /\ n.next_attempt_number = m.next_attempt_number /\ n.call = None
  BY <1>1, <1>6 DEF Memory
<1>11. n.cancelled = {u \in Tasks : run'.cancellations[u] # None}
  BY <1>1, <1>4, <1>9, <1>10 DEF Current
<1>12. Current(n, run') /\ CallSound(n, run')
  BY <1>1, <1>9, <1>10, <1>11 DEF Current, CallSound
<1>13. CurrentInv'
  BY <1>1, <1>7, <1>12, SoleStep
<1>14. Contract!Next \/ UNCHANGED Contract!vars
  <2>1. CASE CancelStep(run, mut, run')
    BY <1>4, <1>6, <1>7, <2>1, ContractCancels DEF mut
  <2>2. CASE run' = run
    BY <1>6, <1>7, <2>2, ContractStutters DEF SameEffects
  <2> QED BY <1>8, <2>1, <2>2
<1> QED BY <1>13, <1>14 DEF Simulates

\* What an emission leaves of the view.
LEMMA EmittedView ==
    ASSUME NEW m \in Memory, NEW a, NEW n, n = emit_completed(m, a)
    PROVE  /\ n.journal = m.journal /\ n.completed = m.completed /\ n.cancelled = m.cancelled
           /\ n.next_attempt_number = m.next_attempt_number /\ n.call = None
<1>1. PICK item : item = NextItem(m, "TaskCompleted", a)
  OBVIOUS
<1>2. PICK e : e = [m EXCEPT !.emitted = m.emitted + 1, !.call = None]
  OBVIOUS
<1>3. n = IF Room(m) THEN [e EXCEPT !.execution_events = Append(e.execution_events, item)]
          ELSE [e EXCEPT !.held = e.held \cup {item}]
  BY <1>1, <1>2 DEF emit_completed, Enqueued
<1> QED BY <1>2, <1>3 DEF Memory

\* Starting an attempt leaves the rest of the view alone.
LEMMA StartedView ==
    ASSUME NEW m \in Memory, NEW att, NEW next, NEW n, n = TaskStarted(m, att, next)
    PROVE  /\ n.journal = m.journal /\ n.completed = m.completed /\ n.cancelled = m.cancelled
           /\ n.next_attempt_number = m.next_attempt_number + 1 /\ n.call \in {next, None}
<1>1. PICK item : item = NextItem(m, "TaskStarted", att.attempt)
  OBVIOUS
<1>2. PICK e : e = [m EXCEPT !.emitted = m.emitted + 1, !.next_attempt_number = m.next_attempt_number + 1]
  OBVIOUS
<1>3. n = IF Room(m)
          THEN [e EXCEPT !.execution_events = Append(e.execution_events, item),
                         !.attempts = Append(e.attempts, att), !.call = next]
          ELSE [e EXCEPT !.pending_started = [attempt |-> att, item |-> item],
                         !.held = e.held \cup {item}, !.call = None]
  BY <1>1, <1>2 DEF TaskStarted, Enqueued, Memory
<1> QED BY <1>2, <1>3 DEF Memory

\* complete_task is a Complete.
LEMMA CompleteSim ==
    ASSUME SoleClient, IInv, IInv', CurrentInv, NEW r, Up(r), NEW t \in Tasks, NEW a \in Attempts,
           \A o \in Operations : run.intents[o] # None /\ run.intents[o].task = t =>
               effect_state(run, o) = "Succeeded",
           complete_task(r, t, a)
    PROVE  Simulates
<1> DEFINE m == rt[r]
           d == [m EXCEPT !.completed = m.completed \cup {t}]
           mut == RecordCompletion(t, a)
<1>1. /\ r \in Runtimes /\ m \in Memory /\ Current(m, run) /\ run \in RunState
  BY UpView
<1>2. mut \in DurableMutation /\ <<"completion", t, a>> \in Keys /\ mut.kind = "Completion"
      /\ mut.task = t /\ mut.attempt = a
  BY MutationTypes, KeyTypes DEF RecordCompletion
<1>3. PICK n : /\ n = emit_completed(d, a) /\ commit_durable(r, <<"completion", t, a>>, mut, n)
               /\ t \notin m.completed /\ Deps[t] \subseteq m.completed /\ granted' = granted
  BY DEF complete_task, ready_tasks
<1> HIDE DEF mut
<1>4. /\ run # None /\ FactsInv(run) /\ run' # None /\ known'[r] = revision' /\ rt' = [rt EXCEPT ![r] = n]
      /\ KindStep(run, mut, run') \/ (run' = run /\ Recorded(run, mut))
      /\ \A p \in Operations : granted'[p] > 0 => DispatchedOnce(run', p)
  BY <1>1, <1>2, <1>3, SoleCommit
<1>5. m.completed = DoneOf(run) /\ run.completions[t] = None /\ a # None
  BY <1>1, <1>3, NoneAssumption DEF Current, DoneOf
<1>6. CompletionStep(run, mut, run')
  BY <1>2, <1>4, <1>5 DEF Recorded, KindStep
<1>7. /\ run'.intents = run.intents /\ run'.task_operations = run.task_operations
      /\ run'.cancellations = run.cancellations /\ run'.outcomes = run.outcomes
      /\ run'.dispatches = run.dispatches /\ run'.dispatch_history = run.dispatch_history
      /\ run'.admission_history = run.admission_history
      /\ run'.completions = [run.completions EXCEPT ![t] = a]
  <2>1. run' = [run EXCEPT !.completions = [run.completions EXCEPT ![t] = a],
                           !.completion_history = Append(run.completion_history, t)]
    BY <1>2, <1>5, <1>6 DEF CompletionStep, Completed
  <2> QED BY <1>1, <2>1 DEF RunState
<1>8. /\ d \in Memory /\ d.journal = m.journal /\ d.completed = m.completed \cup {t}
      /\ d.cancelled = m.cancelled /\ d.next_attempt_number = m.next_attempt_number
  <2>1. m.completed \cup {t} \in SUBSET Tasks
    BY <1>1 DEF Memory
  <2> QED BY <1>1, <2>1 DEF Memory
<1> HIDE DEF d
<1>9. /\ n.journal = m.journal /\ n.completed = m.completed \cup {t} /\ n.cancelled = m.cancelled
      /\ n.next_attempt_number = m.next_attempt_number /\ n.call = None
  BY <1>3, <1>8, EmittedView
<1>10. n.completed = {u \in Tasks : run'.completions[u] # None}
  <2>1. run.completions \in [Tasks -> Attempts \cup {None}]
    BY <1>1 DEF RunState
  <2> QED BY <1>5, <1>7, <1>9, <2>1 DEF DoneOf
<1>11. Current(n, run') /\ CallSound(n, run')
  BY <1>1, <1>7, <1>9, <1>10 DEF Current, CallSound
<1>12. CurrentInv'
  BY <1>1, <1>4, <1>11, SoleStep
<1>13. Contract!Next
  BY <1>3, <1>4, <1>5, <1>6, ContractCompletes DEF mut
<1> QED BY <1>12, <1>13 DEF Simulates

\* begin_attempt is nothing to the contract.
LEMMA AttemptSim ==
    ASSUME SoleClient, IInv, IInv', CurrentInv, NEW r, Up(r), NEW t \in Tasks,
           NEW o \in Operations \cup {None}, NEW next, next \in {None, "complete", "dispatch"},
           next # None /\ next = "complete" => run.task_operations[t] = None,
           next # None /\ next = "dispatch" => o \in Operations /\ Dispatchable(run, o),
           begin_attempt(r, t, o, next)
    PROVE  Simulates
<1> DEFINE m == rt[r]
           k == m.next_attempt_number
           rest == IF next = None THEN None ELSE At(next, t, o, k)
           admission == [task |-> t, operation |-> o, pins |-> m.task_configs[t].pins]
           att == [attempt |-> k, task |-> t, operation |-> o]
           mut == AdmitAttempt(k, admission)
<1>1. /\ r \in Runtimes /\ m \in Memory /\ Current(m, run) /\ run \in RunState /\ FactsInv(run)
      /\ m.task_configs \in Identities
  BY UpView DEF Memory
<1>2. PICK n : /\ k \in Attempts /\ granted' = granted /\ n = TaskStarted(m, att, rest)
               /\ commit_durable(r, <<"admit", k>>, mut, n)
  BY DEF begin_attempt
<1>3. admission \in Admission /\ admission # None
  BY <1>1, ConfigTypes, NoneIsNoRecord DEF Admission
<1> HIDE DEF admission
<1>4. /\ mut \in DurableMutation /\ <<"admit", k>> \in Keys /\ mut.kind = "Admit"
      /\ mut.attempt = k /\ mut.admission = admission
  BY <1>2, <1>3, MutationTypes, KeyTypes DEF AdmitAttempt
<1> HIDE DEF mut
<1>5. /\ run # None /\ run' # None /\ known'[r] = revision' /\ rt' = [rt EXCEPT ![r] = n]
      /\ KindStep(run, mut, run') \/ (run' = run /\ Recorded(run, mut))
      /\ \A p \in Operations : granted'[p] > 0 => DispatchedOnce(run', p)
  BY <1>1, <1>2, <1>4, SoleCommit
<1>6. k = Len(run.admission_history) + 1 /\ Len(run.admission_history) \in Nat
  BY <1>1 DEF Current, RunState
<1>7. run.admissions[k] = None
  BY <1>1, <1>2, <1>6 DEF FactsInv, Numbered
<1>8. AdmitStep(run, mut, run')
  BY <1>3, <1>4, <1>5, <1>7 DEF Recorded, KindStep
<1>9. /\ run'.intents = run.intents /\ run'.task_operations = run.task_operations
      /\ run'.cancellations = run.cancellations /\ run'.outcomes = run.outcomes
      /\ run'.dispatches = run.dispatches /\ run'.dispatch_history = run.dispatch_history
      /\ run'.completions = run.completions
      /\ run'.admission_history = Append(run.admission_history, k)
  BY <1>1, <1>4, <1>8 DEF AdmitStep, Admitted, RunState
<1>10. Len(run'.admission_history) = Len(run.admission_history) + 1
  <2>1. run.admission_history \in Seq(Attempts)
    BY <1>1 DEF RunState
  <2> QED BY <1>2, <1>9, <2>1
<1> HIDE DEF rest, att
<1>11. /\ n.journal = m.journal /\ n.completed = m.completed /\ n.cancelled = m.cancelled
       /\ n.next_attempt_number = m.next_attempt_number + 1 /\ n.call \in {rest, None}
  BY <1>1, <1>2, StartedView
<1>12. \A p \in Operations : effect_state(run', p) = effect_state(run, p)
  BY <1>9, StateSame
<1>13. Current(n, run')
  BY <1>1, <1>6, <1>9, <1>10, <1>11 DEF Current
<1>14. CallSound(n, run')
  <2>1. SUFFICES ASSUME n.call # None
                 PROVE  /\ n.call.at = "complete" => run'.task_operations[n.call.task] = None
                        /\ n.call.at = "dispatch" => Dispatchable(run', n.call.operation)
    BY DEF CallSound
  <2>2. next # None /\ n.call.at = next /\ n.call.task = t /\ n.call.operation = o
    BY <1>11, <2>1 DEF rest, At
  <2> QED BY <1>9, <1>12, <2>2 DEF Dispatchable
<1>15. CurrentInv'
  BY <1>1, <1>5, <1>13, <1>14, SoleStep
<1>16. UNCHANGED Contract!vars
  <2>1. SameEffects(run, run')
    BY <1>9, <1>12 DEF SameEffects, StatusOf, CancelledOf, DoneOf
  <2> QED BY <1>2, <1>5, <2>1, ContractStutters
<1> QED BY <1>15, <1>16 DEF Simulates

\* n has the view of m.
SameView(m, n) ==
    /\ n.journal = m.journal /\ n.completed = m.completed /\ n.cancelled = m.cancelled
    /\ n.next_attempt_number = m.next_attempt_number

\* The commit of an identity leaves the facts of the contract alone.
LEMMA IdentitySim ==
    ASSUME SoleClient, IInv, CurrentInv, NEW r \in Runtimes, rt[r] # None, NEW key \in Keys,
           NEW configs \in Identities, NEW n, SameView(rt[r], n), n.call = None,
           commit_durable(r, key, RecordIdentity(configs), n), granted' = granted
    PROVE  Simulates
<1> DEFINE m == rt[r]
           mut == RecordIdentity(configs)
<1>1. Current(m, run)
  BY DEF CurrentInv
<1>2. mut \in DurableMutation /\ mut.kind = "Identity"
  BY MutationTypes DEF RecordIdentity
<1> HIDE DEF mut
<1>3. /\ run # None /\ FactsInv(run) /\ run' # None /\ known'[r] = revision' /\ rt' = [rt EXCEPT ![r] = n]
      /\ KindStep(run, mut, run') \/ (run' = run /\ Recorded(run, mut))
      /\ \A p \in Operations : granted'[p] > 0 => DispatchedOnce(run', p)
  BY <1>2, SoleCommit DEF mut
<1>4. IdentityStep(run, mut, run') \/ run' = run
  BY <1>2, <1>3 DEF KindStep
<1>5. /\ run'.intents = run.intents /\ run'.task_operations = run.task_operations
      /\ run'.cancellations = run.cancellations /\ run'.outcomes = run.outcomes
      /\ run'.dispatches = run.dispatches /\ run'.dispatch_history = run.dispatch_history
      /\ run'.completions = run.completions /\ run'.admission_history = run.admission_history
  <2>1. run \in RunState
    BY <1>3 DEF FactsInv
  <2> QED BY <1>4, <2>1 DEF IdentityStep, RunState
<1>6. Current(n, run') /\ CallSound(n, run')
  BY <1>1, <1>5 DEF Current, SameView, CallSound
<1>7. CurrentInv'
  BY <1>3, <1>6, SoleStep
<1>8. \A p \in Operations : effect_state(run', p) = effect_state(run, p)
  BY <1>5, StateSame
<1>9. SameEffects(run, run')
  BY <1>5, <1>8 DEF SameEffects, StatusOf, CancelledOf, DoneOf
<1>10. UNCHANGED Contract!vars
  BY <1>3, <1>9, ContractStutters
<1> QED BY <1>7, <1>10 DEF Simulates

\* configure_task is nothing to the contract.
LEMMA ConfigureSim ==
    ASSUME SoleClient, IInv, CurrentInv, NEW r, Up(r), NEW t \in Reconfigurable,
           NEW config \in ConfigChoices[t], configure_task(r, t, config)
    PROVE  Simulates
<1> DEFINE m == rt[r]
           configs == [m.task_configs EXCEPT ![t] = config]
           key == <<"workflow-identity", known[r], configs>>
<1>1. r \in Runtimes /\ m # None /\ m \in Memory /\ t \in Tasks /\ m.task_configs \in Identities
  BY UpView, RuntimeAssumption DEF Memory
<1>2. m.task_configs \in [Tasks -> Config] /\ \A u \in Tasks : m.task_configs[u] \in ConfigChoices[u]
  BY <1>1, RuntimeAssumption
<1>3. config \in Config /\ configs \in [Tasks -> Config]
  <2>1. config \in Config
    BY <1>1, RuntimeAssumption
  <2> QED BY <1>2, <2>1
<1>4. configs[t] = config /\ \A u \in Tasks : u # t => configs[u] = m.task_configs[u]
  BY <1>1, <1>2
<1>5. PICK n : /\ commit_durable(r, key, RecordIdentity(configs), n)
               /\ n = [m EXCEPT !.task_configs = configs]
               /\ m.call = None /\ granted' = granted
  BY DEF configure_task, Available
<1> HIDE DEF configs
<1>6. configs \in Identities
  BY <1>2, <1>3, <1>4, RuntimeAssumption
<1>7. known[r] \in 0..MaxRevision
  BY <1>1, StoreFacts DEF IInv, MemoriesInv
<1>8. key \in Keys
  BY <1>6, <1>7, KeyTypes
<1>9. SameView(m, n) /\ n.call = None
  BY <1>1, <1>5 DEF Memory, SameView
<1> HIDE DEF key
<1> QED BY <1>1, <1>5, <1>6, <1>8, <1>9, IdentitySim

\* The second half of a start is nothing to the contract.
LEMMA StartIdentitySim ==
    ASSUME SoleClient, IInv, CurrentInv, NEW r \in Runtimes, rt[r] # None, start_identity(r)
    PROVE  Simulates
<1> DEFINE m == rt[r]
<1>1. m \in Memory /\ m.task_configs \in Identities
  BY DEF IInv, MemoriesInv, MemInv, Memory
<1>2. PICK n : /\ commit_durable(r, IdKey, RecordIdentity(m.task_configs), n)
               /\ n = [m EXCEPT !.call = None] /\ granted' = granted
  BY DEF start_identity, IdKey
<1>3. SameView(m, n) /\ n.call = None
  BY <1>1, <1>2 DEF Memory, SameView
<1> QED BY <1>1, <1>2, <1>3, IdentitySim, StoreFacts

\* A memory that was just built is current.
LEMMA BuiltView ==
    ASSUME NEW s, NEW configs, NEW c, NEW n, n = BuiltFor(s, configs, c)
    PROVE  Current(n, s) /\ n.call = c
BY DEF BuiltFor, Built, Current, JournalOf

\* Creating the run changes nothing the contract sees.
LEMMA ContractCreates ==
    ASSUME run = None, run' = EmptyRun, granted' = granted
    PROVE  UNCHANGED Contract!vars
<1>1. /\ EmptyRun.intents = [o \in Operations |-> None]
      /\ \A t \in Tasks : EmptyRun.cancellations[t] = None /\ EmptyRun.completions[t] = None
  BY DEF EmptyRun
<1>2. EmptyRun # None
  BY EmptyRunInv
<1>3. \A o \in Operations : effect_state(EmptyRun, o) = "NotPrepared"
  BY <1>1 DEF effect_state
<1> QED BY <1>1, <1>2, <1>3 DEF Contract!vars

\* start_run is nothing to the contract.
LEMMA StartRunSim ==
    ASSUME SoleClient, IInv, CurrentInv, NEW r \in Runtimes, NEW configs \in Identities,
           start_run(r, configs)
    PROVE  Simulates
<1>1. PICK c, n : /\ c = At("identity", None, None, None) /\ n = BuiltFor(EmptyRun, configs, c)
                  /\ rt' = [rt EXCEPT ![r] = n] /\ granted' = granted
                  /\ Store!create_run(r) \/ (is_pristine_bootstrap /\ Store!load_run(r))
  BY DEF start_run, BuiltFor
<1>2. Current(n, EmptyRun) /\ CallSound(n, EmptyRun)
  <2>1. Current(n, EmptyRun) /\ n.call = c
    BY <1>1, BuiltView
  <2> QED BY <1>1, <2>1 DEF CallSound, At
<1>3. run' = EmptyRun /\ known'[r] = revision' /\ run \in {None, EmptyRun}
  <2>1. CASE Store!create_run(r)
    <3>1. /\ run = None /\ run' = EmptyRun /\ known' = [known EXCEPT ![r] = 0] /\ revision' = revision
      BY <2>1, SameFacts DEF Store!create_run
    <3> QED BY <3>1, StoreFacts DEF CurrentInv
  <2>2. CASE is_pristine_bootstrap /\ Store!load_run(r)
    <3>1. /\ run = EmptyRun /\ run' = run /\ known' = [known EXCEPT ![r] = revision]
          /\ revision' = revision
      BY <2>2 DEF is_pristine_bootstrap, Store!load_run, Store!store
    <3> QED BY <3>1, StoreFacts
  <2> QED BY <1>1, <2>1, <2>2
<1>4. ASSUME NEW o \in Operations, granted'[o] > 0 PROVE DispatchedOnce(run', o)
  <2>1. run # None /\ DispatchedOnce(run, o)
    BY <1>1, <1>4 DEF CurrentInv
  <2> QED BY <1>3, <2>1
<1>5. CurrentInv'
  BY <1>1, <1>2, <1>3, <1>4, EmptyRunInv, SoleStep
<1>6. UNCHANGED Contract!vars
  <2>1. CASE run = None
    BY <1>1, <1>3, <2>1, ContractCreates
  <2>2. CASE run = EmptyRun
    <3>1. run # None /\ run' # None /\ SameEffects(run, run')
      BY <1>3, <2>2, EmptyRunInv DEF SameEffects
    <3> QED BY <1>1, <3>1, ContractStutters
  <2> QED BY <1>3, <2>1, <2>2
<1> QED BY <1>5, <1>6 DEF Simulates

\* A step that leaves the run alone.
LEMMA LocalSim ==
    ASSUME SoleClient, IInv, CurrentInv, NEW r \in Runtimes, NEW n, rt' = [rt EXCEPT ![r] = n],
           UNCHANGED <<run, revision, granted>>, run # None,
           n # None => known'[r] = revision /\ Current(n, run) /\ n.call = None
    PROVE  Simulates
<1>1. n # None => known'[r] = revision' /\ Current(n, run') /\ CallSound(n, run')
  BY DEF CallSound
<1>2. \A o \in Operations : granted'[o] > 0 => DispatchedOnce(run', o)
  BY DEF CurrentInv
<1>3. CurrentInv'
  BY <1>1, <1>2, SoleStep
<1>4. UNCHANGED Contract!vars
  BY ContractStutters DEF SameEffects
<1> QED BY <1>3, <1>4 DEF Simulates

\* restore_run is nothing to the contract.
LEMMA RestoreRunSim ==
    ASSUME SoleClient, IInv, CurrentInv, NEW r \in Runtimes, NEW configs \in Identities,
           restore_run(r, configs)
    PROVE  Simulates
<1>1. /\ run # None /\ known' = [known EXCEPT ![r] = revision]
      /\ UNCHANGED <<run, revision, granted>> /\ rt' = [rt EXCEPT ![r] = Built(run, configs)]
  BY DEF restore_run, Store!load_run, Store!store
<1>2. PICK c, n : c = None /\ n = BuiltFor(run, configs, c)
  OBVIOUS
<1>3. Current(n, run) /\ n.call = None
  BY <1>2, BuiltView
<1>4. n = Built(run, configs)
  BY <1>2 DEF BuiltFor, Built
<1> QED BY <1>1, <1>3, <1>4, LocalSim, StoreFacts

\* A step of the memory alone.
LEMMA MemorySim ==
    ASSUME SoleClient, IInv, CurrentInv, NEW r \in Runtimes, rt[r] # None, NEW n,
           rt' = [rt EXCEPT ![r] = n],
           UNCHANGED <<run, revision, commit_ledger, idempotency, known, granted>>,
           n # None => SameView(rt[r], n) /\ n.call = None
    PROVE  Simulates
<1>1. run # None /\ known[r] = revision /\ Current(rt[r], run)
  BY DEF IInv, MemoriesInv, CurrentInv
<1>2. n # None => known'[r] = revision /\ Current(n, run) /\ n.call = None
  BY <1>1 DEF Current, SameView
<1> QED BY <1>1, <1>2, LocalSim

\* retry_execution_event is nothing to the contract.
LEMMA RetrySim ==
    ASSUME SoleClient, IInv, CurrentInv, NEW r, Up(r), NEW item \in rt[r].held,
           retry_execution_event(r, item)
    PROVE  Simulates
<1> DEFINE m == rt[r]
<1>1. m # None /\ r \in Runtimes /\ m \in Memory /\ m.call = None
  BY UpView DEF retry_execution_event, Available
<1>2. PICK n : rt' = [rt EXCEPT ![r] = n] /\ n = Retried(m, item)
  BY DEF retry_execution_event, Retried
<1>3. UNCHANGED <<run, revision, commit_ledger, idempotency, known, granted>>
  BY DEF retry_execution_event
<1>4. SameView(m, n) /\ n.call = None
  <2>1. PICK x, k, p : n = [m EXCEPT !.execution_events = x, !.attempts = k, !.pending_started = p,
                                     !.held = m.held \ {item}]
    <3>1. CASE m.pending_started # None
      <4>1. n = [m EXCEPT !.execution_events = Append(m.execution_events, m.pending_started.item),
                          !.attempts = Append(m.attempts, m.pending_started.attempt),
                          !.pending_started = None, !.held = m.held \ {item}]
        BY <1>1, <1>2, <3>1 DEF Retried, Enqueued, Memory
      <4> QED BY <4>1
    <3>2. CASE m.pending_started = None
      <4>1. n = [m EXCEPT !.execution_events = Append(m.execution_events, item),
                          !.attempts = m.attempts, !.pending_started = None, !.held = m.held \ {item}]
        BY <1>1, <1>2, <3>2 DEF Retried, Enqueued, Memory
      <4> QED BY <4>1
    <3> QED BY <3>1, <3>2
  <2> QED BY <1>1, <2>1 DEF Memory, SameView
<1> QED BY <1>1, <1>2, <1>3, <1>4, MemorySim

\* drain_execution_events is nothing to the contract.
LEMMA DrainSim ==
    ASSUME SoleClient, IInv, CurrentInv, NEW r, Up(r), drain_execution_events(r)
    PROVE  Simulates
<1> DEFINE m == rt[r]
<1>1. m # None /\ r \in Runtimes /\ m \in Memory /\ m.call = None
  BY UpView DEF drain_execution_events, Available
<1>2. PICK n : n = Drained(m)
  OBVIOUS
<1>3. rt' = [rt EXCEPT ![r] = n]
  BY <1>1, <1>2, StoreFacts DEF drain_execution_events, Drained
<1>4. UNCHANGED <<run, revision, commit_ledger, idempotency, known, granted>>
  BY DEF drain_execution_events
<1>5. SameView(m, n) /\ n.call = None
  BY <1>1, <1>2 DEF Drained, Memory, SameView
<1> QED BY <1>1, <1>3, <1>4, <1>5, MemorySim

\* A call that fails is nothing to the contract.
LEMMA FailSim ==
    ASSUME SoleClient, IInv, CurrentInv, NEW r \in Runtimes, fail(r)
    PROVE  Simulates
<1>1. /\ rt[r] # None /\ UNCHANGED <<run, revision, commit_ledger, idempotency, known, granted>>
      /\ rt' = [rt EXCEPT ![r] = Abandoned(rt[r])]
  BY DEF fail
<1>2. PICK n : n = Abandoned(rt[r])
  OBVIOUS
<1>3. n # None => SameView(rt[r], n) /\ n.call = None
  <2>1. rt[r] \in Memory
    BY <1>1, StoreFacts
  <2> QED BY <1>2, <2>1 DEF Abandoned, Memory, SameView
<1> QED BY <1>1, <1>2, <1>3, MemorySim

\* A crash is nothing to the contract.
LEMMA CrashSim ==
    ASSUME SoleClient, IInv, CurrentInv, NEW r \in Runtimes, crash(r)
    PROVE  Simulates
<1>1. PICK n : n = None /\ rt' = [rt EXCEPT ![r] = n]
  BY DEF crash
<1> QED BY <1>1, MemorySim DEF crash

\* A task owns one operation, so its success is that of all it owns.
LEMMA OwnsOne ==
    ASSUME NEW s, FactsInv(s), NEW t \in Tasks, NEW o \in Operations, s.intents[o] # None,
           s.intents[o].task = t, effect_state(s, o) = "Succeeded", NEW p \in Operations,
           s.intents[p] # None, s.intents[p].task = t
    PROVE  effect_state(s, p) = "Succeeded"
<1>1. s.task_operations[t] = o /\ s.task_operations[t] = p
  BY DEF FactsInv, Lineage, OwnershipAgrees
<1> QED BY <1>1

\* A task without an operation owns none.
LEMMA OwnsNone ==
    ASSUME NEW s, FactsInv(s), NEW t \in Tasks, s.task_operations[t] = None, NEW p \in Operations,
           s.intents[p] # None
    PROVE  s.intents[p].task # t
BY NoneAssumption DEF FactsInv, Lineage, OwnershipAgrees

\* step() on a task with a recorded intent.
LEMMA StepEffectSim ==
    ASSUME SoleClient, IInv, IInv', CurrentInv, NEW r, Up(r), NEW t \in Tasks, NEW o \in Operations,
           rt[r].journal.intents[o] # None, rt[r].journal.intents[o].task = t,
           step_effect(r, t, o)
    PROVE  Simulates
<1>1. MemInv(rt[r], run) /\ Current(rt[r], run) /\ FactsInv(run)
  BY UpView
<1>2. CASE begin_attempt(r, t, o, None)
  <2>1. o \in Operations \cup {None} /\ None \in {None, "complete", "dispatch"}
    OBVIOUS
  <2> QED BY <1>2, <2>1, AttemptSim, Zenon
<1>3. CASE effect_state(rt[r].journal, o) = "Succeeded" /\ complete_task(r, t, latest_dispatch(rt[r].journal, o))
  <2>1. latest_dispatch(rt[r].journal, o) \in Attempts
    BY <1>1, <1>3, StateKnown
  <2>2. run.intents[o] # None /\ run.intents[o].task = t /\ effect_state(run, o) = "Succeeded"
    BY <1>1, <1>3, ViewIs
  <2>3. \A p \in Operations : run.intents[p] # None /\ run.intents[p].task = t =>
            effect_state(run, p) = "Succeeded"
    BY <1>1, <2>2, OwnsOne
  <2> QED BY <1>3, <2>1, <2>3, CompleteSim
<1> QED BY <1>2, <1>3 DEF step_effect

\* step() is a step of the contract or nothing.
LEMMA StepSim ==
    ASSUME SoleClient, IInv, IInv', CurrentInv, NEW r, Up(r), step(r)
    PROVE  Simulates
<1> DEFINE m == rt[r]
           t == FirstTask(m)
           o == m.journal.task_operations[t]
           effect == m.task_configs[t].effect
<1>1. /\ ready_tasks(m) \ m.cancelled # {}
      /\ \/ o # None /\ step_effect(r, t, o)
         \/ o = None /\ effect = None /\ step_plain(r, t)
         \/ /\ o = None /\ effect # None
            /\ record_intent(r, t, effect.operation, effect.semantics,
                             At("effect", t, effect.operation, None))
  BY DEF step
<1>2. t \in Tasks
  BY <1>1, FirstTaskReady
<1>3. /\ m \in Memory /\ MemInv(m, run) /\ m.journal \in Journal /\ m.task_configs \in Identities
      /\ Current(m, run) /\ FactsInv(run)
  BY UpView DEF Memory
<1> HIDE DEF t
<1>4. CASE o # None /\ step_effect(r, t, o)
  <2>1. o \in Operations
    BY <1>2, <1>3, <1>4 DEF Journal
  <2>2. m.journal.intents[o] # None /\ m.journal.intents[o].task = t
    BY <1>2, <1>3, <1>4 DEF MemInv, Behind, JournalBehind, OwnershipAgrees
  <2> QED BY <1>2, <1>4, <2>1, <2>2, StepEffectSim
<1>5. CASE o = None /\ step_plain(r, t)
  <2> DEFINE a == attempt_for_task(m, t, None)
  <2>1. a \in Attempts \cup {None}
    BY <1>3, AttemptFor
  <2>2. \/ begin_attempt(r, t, None, "complete")
        \/ a # None /\ complete_task(r, t, a)
    BY <1>5 DEF step_plain
  <2>3. run.task_operations[t] = None
    BY <1>3, <1>5, ViewIs
  <2> HIDE DEF a
  <2>4. CASE begin_attempt(r, t, None, "complete")
    BY <1>2, <2>3, <2>4, AttemptSim
  <2>5. CASE a # None /\ complete_task(r, t, a)
    <3>1. \A p \in Operations : run.intents[p] # None /\ run.intents[p].task = t =>
              effect_state(run, p) = "Succeeded"
      BY <1>2, <1>3, <2>3, OwnsNone
    <3> QED BY <1>2, <2>1, <2>5, <3>1, CompleteSim
  <2> QED BY <2>2, <2>4, <2>5
<1>6. CASE /\ effect # None
           /\ record_intent(r, t, effect.operation, effect.semantics,
                            At("effect", t, effect.operation, None))
  <2>1. effect.operation \in Operations /\ effect.semantics \in Semantics
    BY <1>2, <1>3, <1>6, ConfigTypes
  <2> HIDE DEF effect
  <2> QED BY <1>2, <1>6, <2>1, IntentSim
<1> QED BY <1>1, <1>4, <1>5, <1>6

\* dispatch_effect is a Dispatch, or starts the attempt first.
LEMMA DispatchEffectSim ==
    ASSUME SoleClient, IInv, IInv', CurrentInv, NEW r, Up(r), NEW o \in Operations, dispatch_effect(r, o)
    PROVE  Simulates
<1> DEFINE m == rt[r]
           t == m.journal.intents[o].task
<1>1. /\ m.journal.intents[o] # None
      /\ \/ /\ effect_state(m.journal, o) = "Prepared" /\ attempt_for_task(m, t, o) # None
            /\ record_dispatch(r, o, attempt_for_task(m, t, o))
         \/ /\ \/ effect_state(m.journal, o) = "Prepared"
               \/ /\ effect_state(m.journal, o) = "OutcomeUnknown"
                  /\ m.journal.intents[o].semantics = "Idempotent"
            /\ begin_attempt(r, t, o, "dispatch")
  BY DEF dispatch_effect
<1>2. m \in Memory /\ m.journal \in Journal /\ Current(m, run)
  BY UpView
<1>3. t \in Tasks
  BY <1>1, <1>2 DEF Journal, Intent
<1>4. Dispatchable(run, o)
  BY <1>1, <1>2, ViewIs DEF Dispatchable
<1>5. CASE attempt_for_task(m, t, o) # None /\ record_dispatch(r, o, attempt_for_task(m, t, o))
  <2>1. attempt_for_task(m, t, o) \in Attempts
    BY <1>2, <1>5, AttemptFor
  <2> QED BY <1>4, <1>5, <2>1, DispatchSim
<1>6. CASE begin_attempt(r, t, o, "dispatch")
  BY <1>3, <1>4, <1>6, AttemptSim
<1> QED BY <1>1, <1>5, <1>6

\* recover is a Complete.
LEMMA RecoverSim ==
    ASSUME SoleClient, IInv, IInv', CurrentInv, NEW r, Up(r), NEW o \in Operations, recover(r, o)
    PROVE  Simulates
<1> DEFINE m == rt[r]
           t == m.journal.intents[o].task
           a == latest_dispatch(m.journal, o)
<1>1. classify_recovery(m, o) = "CompleteWithoutReexecution" /\ complete_task(r, t, a)
  BY DEF recover
<1>2. m \in Memory /\ MemInv(m, run) /\ m.journal \in Journal /\ Current(m, run) /\ FactsInv(run)
  BY UpView
<1>3. effect_state(m.journal, o) = "Succeeded"
  BY <1>1, <1>2, RecoversSuccess
<1>4. a \in Attempts /\ m.journal.intents[o] # None
  BY <1>2, <1>3, StateKnown
<1>5. t \in Tasks
  BY <1>2, <1>4 DEF Journal, Intent
<1>6. run.intents[o] # None /\ run.intents[o].task = t /\ effect_state(run, o) = "Succeeded"
  BY <1>2, <1>3, <1>4, ViewIs
<1>7. \A p \in Operations : run.intents[p] # None /\ run.intents[p].task = t =>
          effect_state(run, p) = "Succeeded"
  BY <1>2, <1>5, <1>6, OwnsOne
<1> QED BY <1>1, <1>4, <1>5, <1>7, CompleteSim

\* The rest of a call is a step of the contract or nothing.
LEMMA ResumeSim ==
    ASSUME SoleClient, IInv, IInv', CurrentInv, NEW r \in Runtimes, resume(r)
    PROVE  Simulates
<1> DEFINE c == rt[r].call
<1>1. /\ rt[r] # None /\ c # None
      /\ \/ start_identity(r)
         \/ c.at = "effect" /\ step_effect(r, c.task, c.operation)
         \/ c.at = "complete" /\ complete_task(r, c.task, c.attempt)
         \/ c.at = "dispatch" /\ record_dispatch(r, c.operation, c.attempt)
  BY DEF resume
<1>2. CASE start_identity(r)
  BY <1>1, <1>2, StartIdentitySim
<1>3. ASSUME c.at # "identity"
      PROVE  /\ Up(r) /\ CallSound(rt[r], run) /\ FactsInv(run)
             /\ c.at \in {"effect", "complete"} => c.task \in Tasks
             /\ c.at \in {"effect", "dispatch"} => c.operation \in Operations
             /\ c.at \in {"complete", "dispatch"} => c.attempt \in Attempts
             /\ c.at = "effect" => /\ rt[r].journal.intents[c.operation] # None
                                   /\ rt[r].journal.intents[c.operation].task = c.task
  <2>1. Up(r)
    BY <1>1, <1>3 DEF Up, Past
  <2> QED BY <1>1, <2>1, InCall, UpView DEF CallInv
<1>4. CASE c.at = "effect" /\ step_effect(r, c.task, c.operation)
  BY <1>3, <1>4, StepEffectSim
<1>5. CASE c.at = "complete" /\ complete_task(r, c.task, c.attempt)
  <2>1. run.task_operations[c.task] = None
    BY <1>1, <1>3, <1>5 DEF CallSound
  <2>2. c.task \in Tasks /\ c.attempt \in Attempts /\ FactsInv(run) /\ Up(r)
    BY <1>3, <1>5
  <2>3. \A p \in Operations : run.intents[p] # None /\ run.intents[p].task = c.task =>
            effect_state(run, p) = "Succeeded"
    BY <2>1, <2>2, OwnsNone
  <2> QED BY <1>5, <2>2, <2>3, CompleteSim
<1>6. CASE c.at = "dispatch" /\ record_dispatch(r, c.operation, c.attempt)
  <2>1. Dispatchable(run, c.operation)
    BY <1>1, <1>3, <1>6 DEF CallSound
  <2> QED BY <1>3, <1>6, <2>1, DispatchSim
<1> QED BY <1>1, <1>2, <1>4, <1>5, <1>6

\* Every call of the host is a step of the contract or nothing.
LEMMA CallSim ==
    ASSUME SoleClient, IInv, IInv', CurrentInv, NEW r \in Runtimes, Available(r), call(r)
    PROVE  Simulates
<1>1. Up(r)
  BY DEF Available, Up, Past
<1>2. CASE step(r)
  BY <1>1, <1>2, StepSim
<1>3. CASE \E i \in HostIntents : record_effect_intent(r, i[1], i[2], i[3])
  <2>1. PICK i \in HostIntents : record_effect_intent(r, i[1], i[2], i[3])
    BY <1>3
  <2>2. i[1] \in Tasks /\ i[2] \in Operations /\ i[3] \in Semantics
    BY RuntimeAssumption
  <2>3. record_intent(r, i[1], i[2], i[3], None)
    BY <2>1 DEF record_effect_intent
  <2> QED BY <1>1, <2>2, <2>3, IntentSim
<1>4. CASE \E o \in Operations : dispatch_effect(r, o)
  BY <1>1, <1>4, DispatchEffectSim
<1>5. CASE \E o \in Operations, a \in Attempts, x \in KnownOutcome : record_effect_outcome(r, o, a, x)
  BY <1>1, <1>5, OutcomeSim
<1>6. CASE \E o \in Operations : recover(r, o)
  BY <1>1, <1>6, RecoverSim
<1>7. CASE \E t \in Tasks : cancel_task(r, t)
  BY <1>1, <1>7, CancelSim
<1>8. CASE \E t \in Reconfigurable : \E config \in ConfigChoices[t] : configure_task(r, t, config)
  BY <1>1, <1>8, ConfigureSim
<1>9. CASE \E item \in rt[r].held : retry_execution_event(r, item)
  BY <1>1, <1>9, RetrySim
<1>10. CASE drain_execution_events(r)
  BY <1>1, <1>10, DrainSim
<1> QED BY <1>2, <1>3, <1>4, <1>5, <1>6, <1>7, <1>8, <1>9, <1>10 DEF call

\* The view is current before the run exists.
LEMMA InitCurrent == Init => CurrentInv
<1> SUFFICES ASSUME Init PROVE CurrentInv
  OBVIOUS
<1>1. /\ run = None /\ revision = 0 /\ rt = [r \in Runtimes |-> None]
      /\ granted = [o \in Operations |-> 0]
  BY DEF Init, Store!Init
<1> QED BY <1>1 DEF CurrentInv

\* Every step keeps the view current and is a step of the contract or nothing.
LEMMA NextSim ==
    ASSUME SoleClient, IInv, IInv', CurrentInv, [Next]_vars
    PROVE  Simulates
<1>1. CASE UNCHANGED vars
  <2>1. UNCHANGED <<run, revision, commit_ledger, idempotency, known, rt, granted>>
    BY <1>1 DEF vars
  <2>2. CurrentInv'
    BY <2>1 DEF CurrentInv
  <2>3. UNCHANGED Contract!vars
    BY <2>1 DEF Contract!vars
  <2> QED BY <2>2, <2>3 DEF Simulates
<1>2. ASSUME NEW r \in Runtimes, NEW configs \in Identities, start_run(r, configs) PROVE Simulates
  BY <1>2, StartRunSim
<1>3. ASSUME NEW r \in Runtimes, NEW configs \in Identities, restore_run(r, configs) PROVE Simulates
  BY <1>3, RestoreRunSim
<1>4. ASSUME NEW r \in Runtimes, Available(r), call(r) PROVE Simulates
  BY <1>4, CallSim
<1>5. ASSUME NEW r \in Runtimes, resume(r) PROVE Simulates
  BY <1>5, ResumeSim
<1>6. ASSUME NEW r \in Runtimes, fail(r) PROVE Simulates
  BY <1>6, FailSim
<1>7. ASSUME NEW r \in Runtimes, crash(r) PROVE Simulates
  BY <1>7, CrashSim
<1> QED BY <1>1, <1>2, <1>3, <1>4, <1>5, <1>6, <1>7 DEF Next

\* With one runtime whose commits are answered, the invariant of the view
\* holds throughout.
THEOREM ViewInvariance == ASSUME SoleClient PROVE Spec => []CurrentInv
<1>1. IInv /\ IInv' /\ CurrentInv /\ [Next]_vars => CurrentInv'
  BY NextSim DEF Simulates
<1> QED BY <1>1, InitCurrent, Invariance, PTL DEF Spec

\* A runtime that has the run for itself and whose commits are answered never
\* acts on a stale view: journal, completions, cancellations and attempts are
\* those of the store, after any crash, restart, failure or backpressure.
THEOREM ViewStaysCurrent ==
    ASSUME SoleClient, HostRetriesFirst PROVE Spec => []ViewIsCurrent
<1>1. IInv /\ CurrentInv => ViewIsCurrent
  <2> SUFFICES ASSUME IInv, CurrentInv, NEW r \in Runtimes, rt[r] # None
               PROVE  /\ rt[r].journal = Built(run, rt[r].task_configs).journal
                      /\ rt[r].completed = Built(run, rt[r].task_configs).completed
                      /\ rt[r].cancelled = Built(run, rt[r].task_configs).cancelled
                      /\ rt[r].next_attempt_number = Built(run, rt[r].task_configs).next_attempt_number
                      /\ KnownAttempts(rt[r]) = Built(run, rt[r].task_configs).attempts
    BY DEF ViewIsCurrent, KnownAttempts
  <2> DEFINE m == rt[r]
             s == Built(run, m.task_configs)
             h == run.admission_history
             k == KnownAttempts(m)
  <2>1. /\ m \in Memory /\ MemInv(m, run) /\ run # None /\ FactsInv(run) /\ run \in RunState
        /\ Current(m, run) /\ Knows(m, run) /\ Numbered(run) /\ m.journal \in Journal
    BY DEF IInv, MemoriesInv, MemInv, CurrentInv, FactsInv, Memory
  <2>2. /\ s.journal = JournalOf(run) /\ s.completed = {t \in Tasks : run.completions[t] # None}
        /\ s.cancelled = {t \in Tasks : run.cancellations[t] # None}
        /\ s.next_attempt_number = Len(h) + 1
        /\ s.attempts = [i \in 1..Len(h) |-> [attempt |-> h[i], task |-> run.admissions[h[i]].task,
                                              operation |-> run.admissions[h[i]].operation]]
    BY DEF Built
  <2>3. m.journal = JournalOf(run)
    <3>1. JournalOf(run) \in Journal
      BY <2>1 DEF JournalOf, Journal, RunState
    <3>2. /\ JournalOf(run).intents = run.intents
          /\ JournalOf(run).task_operations = run.task_operations
          /\ JournalOf(run).dispatches = run.dispatches
          /\ JournalOf(run).dispatch_history = run.dispatch_history
          /\ JournalOf(run).outcomes = run.outcomes
      BY DEF JournalOf
    <3> HIDE DEF m
    <3> QED BY <2>1, <3>1, <3>2 DEF Current, Journal
  <2>4. k = s.attempts
    <3>1. h \in Seq(Attempts) /\ Len(h) \in Nat /\ k \in Seq(TaskAttempt) /\ Len(k) \in Nat
      BY <2>1, KnownType DEF RunState
    <3>2. Len(k) = Len(h)
      <4>1. Len(k) + 1 = Len(h) + 1
        BY <2>1 DEF Knows, Current
      <4> QED BY <3>1, <4>1
    <3>3. \A i \in 1..Len(h) : h[i] = i
      BY <2>1 DEF Numbered
    <3>4. \A i \in 1..Len(k) : k[i] = [attempt |-> i, task |-> run.admissions[i].task,
                                       operation |-> run.admissions[i].operation]
      BY <2>1 DEF Knows
    <3> HIDE DEF k, h, s
    <3>5. k = [i \in 1..Len(k) |-> k[i]]
      BY <3>1
    <3> QED BY <2>2, <3>2, <3>3, <3>4, <3>5
  <2> QED BY <2>1, <2>2, <2>3, <2>4 DEF Current
<1> QED BY <1>1, Invariance, ViewInvariance, PTL

\* Such a runtime implements the contract of its effects: no second run of a
\* non-idempotent operation, no dispatch after a cancellation or a known
\* outcome, no run without a durable dispatch, no completion before the
\* dependencies or without a success, whatever crashes and fails between.
THEOREM KeepsContract == ASSUME SoleClient PROVE Spec => ImplementsContract
<1>1. Init => Contract!Init
  <2> SUFFICES ASSUME Init PROVE Contract!Init
    OBVIOUS
  <2>1. run = None /\ granted = [o \in Operations |-> 0]
    BY DEF Init, Store!Init
  <2> QED BY <2>1 DEF Contract!Init
<1>2. IInv /\ IInv' /\ CurrentInv /\ [Next]_vars => [Contract!Next]_(Contract!vars)
  BY NextSim DEF Simulates
<1> QED BY <1>1, <1>2, Invariance, ViewInvariance, PTL DEF Spec, ImplementsContract, Contract!Spec

\* "Rejects dispatches after a known outcome": what persist_dispatch says of
\* itself does hold for such a runtime.
THEOREM OutcomeStaysKnown == ASSUME SoleClient PROVE Spec => KnownOutcomeIsFinal
<1> DEFINE Final == run # None => \A o \in Operations :
               effect_state(run, o) \in KnownOutcome => effect_state(run', o) = effect_state(run, o)
           status == IF run = None THEN [o \in Operations |-> "NotPrepared"]
                     ELSE [o \in Operations |-> effect_state(run, o)]
<1>1. ASSUME Contract!Next \/ UNCHANGED Contract!vars, run # None, NEW o \in Operations,
             effect_state(run, o) \in KnownOutcome
      PROVE  effect_state(run', o) = effect_state(run, o)
  <2>1. status[o] = effect_state(run, o) /\ status[o] \in {"Succeeded", "Failed"}
    BY <1>1 DEF KnownOutcome
  <2>2. DOMAIN status = Operations
    OBVIOUS
  <2>3. status'[o] = status[o]
    <3>1. CASE UNCHANGED Contract!vars
      BY <3>1 DEF Contract!vars
    <3>2. CASE \E p \in Operations, t \in Tasks, k \in {"Idempotent", "NonIdempotent"} :
                   Contract!Prepare(p, t, k)
      <4>1. PICK p \in Operations : status[p] = "NotPrepared" /\ status' = [status EXCEPT ![p] = "Prepared"]
        BY <3>2 DEF Contract!Prepare
      <4> HIDE DEF status
      <4> QED BY <2>1, <2>2, <4>1
    <3>3. CASE \E p \in Operations : Contract!Dispatch(p) \/ Contract!Execute(p)
      <4>1. PICK p \in Operations :
               /\ status[p] \in {"Prepared", "OutcomeUnknown"}
               /\ status' = [status EXCEPT ![p] = "OutcomeUnknown"] \/ status' = status
        BY <3>3 DEF Contract!Dispatch, Contract!Execute, Contract!MayDispatch
      <4> HIDE DEF status
      <4> QED BY <2>1, <2>2, <4>1
    <3>4. CASE \E p \in Operations, x \in {"Succeeded", "Failed"} : Contract!Observe(p, x)
      <4>1. PICK p \in Operations, x \in {"Succeeded", "Failed"} :
               status[p] = "OutcomeUnknown" /\ status' = [status EXCEPT ![p] = x]
        BY <3>4 DEF Contract!Observe
      <4> HIDE DEF status
      <4> QED BY <2>1, <2>2, <4>1
    <3>5. CASE \E t \in Tasks : Contract!Cancel(t) \/ Contract!Complete(t)
      BY <3>5 DEF Contract!Cancel, Contract!Complete
    <3> QED BY <1>1, <3>1, <3>2, <3>3, <3>4, <3>5 DEF Contract!Next
  <2>4. status'[o] = IF run' = None THEN "NotPrepared" ELSE effect_state(run', o)
    OBVIOUS
  <2> HIDE DEF status
  <2> QED BY <2>1, <2>3, <2>4
<1>2. IInv /\ IInv' /\ CurrentInv /\ [Next]_vars => [Final]_vars
  BY <1>1, NextSim DEF Simulates
<1> QED BY <1>2, Invariance, ViewInvariance, PTL DEF Spec, KnownOutcomeIsFinal
=============================================================================
