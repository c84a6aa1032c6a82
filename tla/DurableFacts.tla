---------------------------- MODULE DurableFacts ----------------------------
(***************************************************************************)
(* The durable facts of one run (DurableRunState) and the typed mutations  *)
(* that grow them (apply_mutation), as operators on a record: the store    *)
(* applies them to a candidate copy, the ledger replay applies them again. *)
(*                                                                         *)
(* A map of the code is a total function with None for an absent key.  A   *)
(* dispatch or outcome record is the value it adds to its attempt; the     *)
(* run identity carried by every record is left out: there is one run.     *)
(***************************************************************************)
EXTENDS Naturals, Sequences

CONSTANTS
    Tasks, Operations, Attempts,
    Identities,   \* workflow replay identities
    Pins,         \* capability replay identities an attempt was admitted with
    None

Semantics == {"Idempotent", "NonIdempotent"}
KnownOutcome == {"Succeeded", "Failed"}

ASSUME NoneAssumption ==
    None \notin Tasks \cup Operations \cup Attempts \cup Identities \cup KnownOutcome

Admission == [task : Tasks, operation : Operations \cup {None}, pins : Pins]
Intent == [task : Tasks, semantics : Semantics]
Cancellation == [operation : Operations \cup {None}, attempt : Attempts \cup {None}]

ASSUME NoneIsNoRecord == None \notin Admission \cup Intent \cup Cancellation

RunState ==
    [identity           : Identities \cup {None},
     admissions         : [Attempts -> Admission \cup {None}],
     admission_history  : Seq(Attempts),
     intents            : [Operations -> Intent \cup {None}],
     task_operations    : [Tasks -> Operations \cup {None}],
     cancellations      : [Tasks -> Cancellation \cup {None}],
     dispatches         : [Attempts -> Operations \cup {None}],
     dispatch_history   : Seq(Attempts),
     outcomes           : [Attempts -> KnownOutcome \cup {None}],
     completions        : [Tasks -> Attempts \cup {None}],
     completion_history : Seq(Tasks)]

EmptyRun ==
    [identity           |-> None,
     admissions         |-> [a \in Attempts |-> None],
     admission_history  |-> <<>>,
     intents            |-> [o \in Operations |-> None],
     task_operations    |-> [t \in Tasks |-> None],
     cancellations      |-> [t \in Tasks |-> None],
     dispatches         |-> [a \in Attempts |-> None],
     dispatch_history   |-> <<>>,
     outcomes           |-> [a \in Attempts |-> None],
     completions        |-> [t \in Tasks |-> None],
     completion_history |-> <<>>]

----------------------------------------------------------------------------
(* DurableMutation *)

RecordIdentity(i) == [kind |-> "Identity", identity |-> i]
AdmitAttempt(a, adm) == [kind |-> "Admit", attempt |-> a, admission |-> adm]
RecordIntent(o, int) == [kind |-> "Intent", operation |-> o, intent |-> int]
RecordCancellation(t, c) == [kind |-> "Cancel", task |-> t, cancellation |-> c]
RecordDispatch(o, a) == [kind |-> "Dispatch", operation |-> o, attempt |-> a]
RecordOutcome(o, a, x) == [kind |-> "Outcome", operation |-> o, attempt |-> a, outcome |-> x]
RecordCompletion(t, a) == [kind |-> "Completion", task |-> t, attempt |-> a]

DurableMutation ==
    {RecordIdentity(i) : i \in Identities}
      \cup {AdmitAttempt(p[1], p[2]) : p \in Attempts \X Admission}
      \cup {RecordIntent(p[1], p[2]) : p \in Operations \X Intent}
      \cup {RecordCancellation(p[1], p[2]) : p \in Tasks \X Cancellation}
      \cup {RecordDispatch(p[1], p[2]) : p \in Operations \X Attempts}
      \cup {RecordOutcome(p[1], p[2], p[3]) : p \in Operations \X Attempts \X KnownOutcome}
      \cup {RecordCompletion(p[1], p[2]) : p \in Tasks \X Attempts}

----------------------------------------------------------------------------
(* Reads *)

\* The attempt of the last dispatch of operation o, which owns recovery.
latest_dispatch(s, o) ==
    LET mine == {i \in 1..Len(s.dispatch_history) :
                    s.dispatches[s.dispatch_history[i]] = o}
    IN  IF mine = {} THEN None
        ELSE s.dispatch_history[CHOOSE i \in mine : \A j \in mine : j <= i]

effect_state(s, o) ==
    IF s.intents[o] = None THEN "NotPrepared"
    ELSE IF latest_dispatch(s, o) = None THEN "Prepared"
    ELSE IF s.outcomes[latest_dispatch(s, o)] = None THEN "OutcomeUnknown"
    ELSE s.outcomes[latest_dispatch(s, o)]

----------------------------------------------------------------------------
(* apply_mutation: when each mutation is accepted and what it adds.  A     *)
(* mutation that restates a recorded fact is accepted and adds nothing.    *)

AdmitOK(s, m) == s.admissions[m.attempt] = None

Admitted(s, m) ==
    [s EXCEPT !.admissions = [@ EXCEPT ![m.attempt] = m.admission],
              !.admission_history = Append(@, m.attempt)]

IntentOK(s, m) ==
    \/ s.intents[m.operation] = m.intent
    \/ s.intents[m.operation] = None /\ s.task_operations[m.intent.task] = None

Intended(s, m) ==
    IF s.intents[m.operation] # None THEN s
    ELSE [s EXCEPT !.task_operations = [@ EXCEPT ![m.intent.task] = m.operation],
                   !.intents = [@ EXCEPT ![m.operation] = m.intent]]

CancelOK(s, m) ==
    LET c == m.cancellation
    IN  \/ s.cancellations[m.task] = c
        \/ /\ s.cancellations[m.task] = None
           /\ c.operation # None => s.task_operations[m.task] = c.operation
           /\ c.attempt # None =>
                /\ s.admissions[c.attempt] # None
                /\ s.admissions[c.attempt].task = m.task
                /\ s.admissions[c.attempt].operation = c.operation

Cancelled(s, m) ==
    [s EXCEPT !.cancellations = [@ EXCEPT ![m.task] = m.cancellation]]

\* Mutant: a durable cancellation does not stop a dispatch.
DispatchCancelledOK(s, m) ==
    /\ s.intents[m.operation] # None
    /\ s.admissions[m.attempt] # None
    /\ s.admissions[m.attempt].operation = m.operation
    /\ s.intents[m.operation].task = s.admissions[m.attempt].task
    /\ s.dispatches[m.attempt] = None

DispatchOK(s, m) ==
    /\ s.intents[m.operation] # None
    /\ s.admissions[m.attempt] # None
    /\ s.admissions[m.attempt].operation = m.operation
    /\ s.intents[m.operation].task = s.admissions[m.attempt].task
    /\ s.cancellations[s.admissions[m.attempt].task] = None
    /\ s.dispatches[m.attempt] = None

Dispatched(s, m) ==
    [s EXCEPT !.dispatches = [@ EXCEPT ![m.attempt] = m.operation],
              !.dispatch_history = Append(@, m.attempt)]

OutcomeOK(s, m) ==
    /\ s.admissions[m.attempt] # None
    /\ s.dispatches[m.attempt] # None
    /\ s.dispatches[m.attempt] = m.operation
    /\ s.admissions[m.attempt].operation = m.operation
    /\ s.outcomes[m.attempt] \in {None, m.outcome}

Observed(s, m) ==
    [s EXCEPT !.outcomes = [@ EXCEPT ![m.attempt] = m.outcome]]

\* Mutant: any recorded outcome, not only success, completes an effect task.
CompletionAnyOutcomeOK(s, m) ==
    /\ s.admissions[m.attempt] # None
    /\ s.admissions[m.attempt].task = m.task
    /\ LET o == s.admissions[m.attempt].operation
       IN  o # None => /\ s.intents[o] # None
                       /\ s.dispatches[m.attempt] = o
                       /\ latest_dispatch(s, o) = m.attempt
                       /\ s.outcomes[m.attempt] # None
    /\ s.completions[m.task] \in {None, m.attempt}

\* Mutant: a later attempt may take over a recorded completion.
CompletionConflictOK(s, m) ==
    /\ s.admissions[m.attempt] # None
    /\ s.admissions[m.attempt].task = m.task
    /\ LET o == s.admissions[m.attempt].operation
       IN  o # None => /\ s.intents[o] # None
                       /\ s.dispatches[m.attempt] = o
                       /\ latest_dispatch(s, o) = m.attempt
                       /\ s.outcomes[m.attempt] = "Succeeded"

CompletionOK(s, m) ==
    /\ s.admissions[m.attempt] # None
    /\ s.admissions[m.attempt].task = m.task
    /\ LET o == s.admissions[m.attempt].operation
       IN  o # None => /\ s.intents[o] # None
                       /\ s.dispatches[m.attempt] = o
                       /\ latest_dispatch(s, o) = m.attempt
                       /\ s.outcomes[m.attempt] = "Succeeded"
    /\ s.completions[m.task] \in {None, m.attempt}

Completed(s, m) ==
    IF s.completions[m.task] = m.attempt THEN s
    ELSE [s EXCEPT !.completions = [@ EXCEPT ![m.task] = m.attempt],
                   !.completion_history = Append(@, m.task)]

Accepts(s, m) ==
    \/ m.kind = "Identity"
    \/ m.kind = "Admit" /\ AdmitOK(s, m)
    \/ m.kind = "Intent" /\ IntentOK(s, m)
    \/ m.kind = "Cancel" /\ CancelOK(s, m)
    \/ m.kind = "Dispatch" /\ DispatchOK(s, m)
    \/ m.kind = "Outcome" /\ OutcomeOK(s, m)
    \/ m.kind = "Completion" /\ CompletionOK(s, m)

Apply(s, m) ==
    CASE m.kind = "Identity" -> [s EXCEPT !.identity = m.identity]
      [] m.kind = "Admit" -> Admitted(s, m)
      [] m.kind = "Intent" -> Intended(s, m)
      [] m.kind = "Cancel" -> Cancelled(s, m)
      [] m.kind = "Dispatch" -> Dispatched(s, m)
      [] m.kind = "Outcome" -> Observed(s, m)
      [] m.kind = "Completion" -> Completed(s, m)

\* The candidate after each mutation of a commit, from the state s.
Candidates(s, ms) ==
    LET after[i \in 0..Len(ms)] == IF i = 0 THEN s ELSE Apply(after[i - 1], ms[i])
    IN  after

\* Every mutation is accepted by the candidate that those before it built.
BatchAccepted(s, ms) ==
    \A i \in 1..Len(ms) : Accepts(Candidates(s, ms)[i - 1], ms[i])

BatchResult(s, ms) == Candidates(s, ms)[Len(ms)]

----------------------------------------------------------------------------
(* What the facts of a run say of each other *)

\* A task has one operation, and the two indexes of ownership agree.
OwnershipAgrees(s) ==
    /\ \A o \in Operations : s.intents[o] # None
          => s.task_operations[s.intents[o].task] = o
    /\ \A t \in Tasks : s.task_operations[t] # None
          => /\ s.intents[s.task_operations[t]] # None
             /\ s.intents[s.task_operations[t]].task = t

\* A dispatch has an intent and an admission, of one operation and one task.
DispatchHasAuthority(s) ==
    \A a \in Attempts : s.dispatches[a] # None =>
        /\ s.admissions[a] # None
        /\ s.admissions[a].operation = s.dispatches[a]
        /\ s.intents[s.dispatches[a]] # None
        /\ s.intents[s.dispatches[a]].task = s.admissions[a].task

OutcomeHasDispatch(s) ==
    \A a \in Attempts : s.outcomes[a] # None => s.dispatches[a] # None

\* A task is complete through an attempt of its own, and through a dispatched
\* and successful one when the attempt has an effect.
CompletionHasSuccess(s) ==
    \A t \in Tasks : s.completions[t] # None =>
        LET a == s.completions[t]
        IN  /\ s.admissions[a] # None
            /\ s.admissions[a].task = t
            /\ s.admissions[a].operation # None =>
                 /\ s.dispatches[a] = s.admissions[a].operation
                 /\ s.outcomes[a] = "Succeeded"

CancellationHasLineage(s) ==
    \A t \in Tasks : s.cancellations[t] # None =>
        LET c == s.cancellations[t]
        IN  /\ c.operation # None => s.task_operations[t] = c.operation
            /\ c.attempt # None => /\ s.admissions[c.attempt] # None
                                   /\ s.admissions[c.attempt].task = t
                                   /\ s.admissions[c.attempt].operation = c.operation

\* The dispatch history lists exactly the dispatched attempts, each once.
DispatchHistoryExact(s) ==
    /\ \A a \in Attempts : s.dispatches[a] # None
          <=> \E i \in 1..Len(s.dispatch_history) : s.dispatch_history[i] = a
    /\ \A i, j \in 1..Len(s.dispatch_history) :
          s.dispatch_history[i] = s.dispatch_history[j] => i = j

Lineage(s) ==
    /\ OwnershipAgrees(s)
    /\ DispatchHasAuthority(s)
    /\ OutcomeHasDispatch(s)
    /\ CompletionHasSuccess(s)
    /\ CancellationHasLineage(s)
    /\ DispatchHistoryExact(s)

\* Every fact of s is a fact of s2: facts are appended, never changed.
FactsKept(s, s2) ==
    /\ \A a \in Attempts : s.admissions[a] # None => s2.admissions[a] = s.admissions[a]
    /\ \A o \in Operations : s.intents[o] # None => s2.intents[o] = s.intents[o]
    /\ \A t \in Tasks : s.cancellations[t] # None => s2.cancellations[t] = s.cancellations[t]
    /\ \A a \in Attempts : s.dispatches[a] # None => s2.dispatches[a] = s.dispatches[a]
    /\ \A a \in Attempts : s.outcomes[a] # None => s2.outcomes[a] = s.outcomes[a]
    /\ \A t \in Tasks : s.completions[t] # None => s2.completions[t] = s.completions[t]
============================================================================
