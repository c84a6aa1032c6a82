------------------------- MODULE DurableStoreProofs -------------------------
(***************************************************************************)
(* Theorems about DurableStore, for all clients and requests, for batches  *)
(* of any length and ledgers of any length: the facts keep their lineage,  *)
(* none is removed, and the ledger of a run rebuilds it.  An accepted      *)
(* mutation keeps the lineage of the facts and removes none; a batch is a  *)
(* sequence of them, and so is a ledger.                                   *)
(***************************************************************************)
EXTENDS DurableStore, Integers, WellFoundedInduction, TLAPS

----------------------------------------------------------------------------
(* Induction over the natural numbers, with a set in the place of the      *)
(* predicate: the numbers that have the property.                          *)

\* A nonempty set of natural numbers has a smallest member.
LEMMA SmallestMember ==
    ASSUME NEW T \in SUBSET Nat, T # {}
    PROVE  \E x \in T : \A y \in T : x <= y
<1> DEFINE R == {p \in Nat \X Nat : p[1] < p[2]}
<1>1. IsWellFoundedOn(R, Nat)
  BY NatLessThanWellFounded DEF OpToRel
<1>2. PICK x \in T : \A y \in T : ~(<<y, x>> \in R)
  BY <1>1, WFMin
<1>3. SUFFICES ASSUME NEW y \in T PROVE x <= y
  OBVIOUS
<1>4. /\ x \in Nat /\ y \in Nat /\ <<y, x>> \in Nat \X Nat
      /\ <<y, x>>[1] = y /\ <<y, x>>[2] = x
  OBVIOUS
<1>5. ~(<<y, x>>[1] < <<y, x>>[2])
  BY <1>2, <1>4
<1> QED BY <1>4, <1>5

\* A set of natural numbers that holds 0 and every successor holds them all.
LEMMA NatInduct ==
    ASSUME NEW T \in SUBSET Nat, 0 \in T, \A n \in T : n + 1 \in T
    PROVE  T = Nat
<1> SUFFICES ASSUME T # Nat PROVE FALSE
  OBVIOUS
<1>1. Nat \ T # {} /\ (Nat \ T) \in SUBSET Nat
  OBVIOUS
<1>2. PICK x \in Nat \ T : \A y \in Nat \ T : x <= y
  BY <1>1, SmallestMember
<1>3. x # 0 /\ x - 1 \in Nat /\ x - 1 < x
  BY <1>2
<1>4. x - 1 \in T
  BY <1>2, <1>3
<1>5. (x - 1) + 1 \in T
  BY <1>4
<1> QED BY <1>5, <1>2

\* The same up to a bound.
LEMMA NatInductTo ==
    ASSUME NEW N \in Nat, NEW T, 0 \in T,
           \A n \in 0..(N - 1) : n \in T => n + 1 \in T
    PROVE  \A n \in 0..N : n \in T
<1> DEFINE S == {n \in Nat : n <= N => n \in T}
<1>1. S \in SUBSET Nat /\ 0 \in S
  OBVIOUS
<1>2. \A n \in S : n + 1 \in S
  OBVIOUS
<1>3. S = Nat
  BY <1>1, <1>2, NatInduct
<1> QED BY <1>3

----------------------------------------------------------------------------
(* One mutation *)

\* An accepted mutation m takes the facts s to the facts r.
IdentityStep(s, m, r) == m.identity \in Identities /\ r = [s EXCEPT !.identity = m.identity]
AdmitStep(s, m, r) ==
    m.attempt \in Attempts /\ m.admission \in Admission /\ AdmitOK(s, m) /\ r = Admitted(s, m)
IntentStep(s, m, r) ==
    m.operation \in Operations /\ m.intent \in Intent /\ IntentOK(s, m) /\ r = Intended(s, m)
CancelStep(s, m, r) ==
    m.task \in Tasks /\ m.cancellation \in Cancellation /\ CancelOK(s, m) /\ r = Cancelled(s, m)
DispatchStep(s, m, r) ==
    m.operation \in Operations /\ m.attempt \in Attempts /\ DispatchOK(s, m) /\ r = Dispatched(s, m)
OutcomeStep(s, m, r) ==
    /\ m.operation \in Operations /\ m.attempt \in Attempts /\ m.outcome \in KnownOutcome
    /\ OutcomeOK(s, m) /\ r = Observed(s, m)
CompletionStep(s, m, r) ==
    m.task \in Tasks /\ m.attempt \in Attempts /\ CompletionOK(s, m) /\ r = Completed(s, m)

MutationStep(s, m, r) ==
    \/ IdentityStep(s, m, r) \/ AdmitStep(s, m, r) \/ IntentStep(s, m, r)
    \/ CancelStep(s, m, r) \/ DispatchStep(s, m, r) \/ OutcomeStep(s, m, r)
    \/ CompletionStep(s, m, r)

\* Every accepted mutation is one of these steps.
LEMMA AcceptedStep ==
    ASSUME NEW s, NEW m \in DurableMutation, Accepts(s, m)
    PROVE  MutationStep(s, m, Apply(s, m))
<1>0. SUFFICES ASSUME NEW r, r = Apply(s, m) PROVE MutationStep(s, m, r)
  OBVIOUS
<1>1. \/ m.kind = "Identity" /\ m.identity \in Identities
      \/ m.kind = "Admit" /\ m.attempt \in Attempts /\ m.admission \in Admission
      \/ m.kind = "Intent" /\ m.operation \in Operations /\ m.intent \in Intent
      \/ m.kind = "Cancel" /\ m.task \in Tasks /\ m.cancellation \in Cancellation
      \/ m.kind = "Dispatch" /\ m.operation \in Operations /\ m.attempt \in Attempts
      \/ /\ m.kind = "Outcome" /\ m.operation \in Operations /\ m.attempt \in Attempts
         /\ m.outcome \in KnownOutcome
      \/ m.kind = "Completion" /\ m.task \in Tasks /\ m.attempt \in Attempts
  BY DEF DurableMutation, RecordIdentity, AdmitAttempt, RecordIntent, RecordCancellation,
         RecordDispatch, RecordOutcome, RecordCompletion
<1>2. /\ m.kind = "Identity" => r = [s EXCEPT !.identity = m.identity]
      /\ m.kind = "Admit" => r = Admitted(s, m)
      /\ m.kind = "Intent" => r = Intended(s, m)
      /\ m.kind = "Cancel" => r = Cancelled(s, m)
      /\ m.kind = "Dispatch" => r = Dispatched(s, m)
      /\ m.kind = "Outcome" => r = Observed(s, m)
      /\ m.kind = "Completion" => r = Completed(s, m)
  BY <1>0 DEF Apply
<1>3. /\ m.kind = "Admit" => AdmitOK(s, m)
      /\ m.kind = "Intent" => IntentOK(s, m)
      /\ m.kind = "Cancel" => CancelOK(s, m)
      /\ m.kind = "Dispatch" => DispatchOK(s, m)
      /\ m.kind = "Outcome" => OutcomeOK(s, m)
      /\ m.kind = "Completion" => CompletionOK(s, m)
  BY DEF Accepts
<1> QED BY <1>1, <1>2, <1>3, Zenon
        DEF MutationStep, IdentityStep, AdmitStep, IntentStep, CancelStep, DispatchStep,
            OutcomeStep, CompletionStep

\* The facts keep their shape.
LEMMA AppliedType ==
    ASSUME NEW s \in RunState, NEW m, NEW r, MutationStep(s, m, r)
    PROVE  r \in RunState
<1> USE DEF RunState
<1>1. CASE IdentityStep(s, m, r)
  BY <1>1 DEF IdentityStep
<1>2. CASE AdmitStep(s, m, r)
  <2>1. m.attempt \in Attempts /\ m.admission \in Admission /\ r = Admitted(s, m)
    BY <1>2 DEF AdmitStep
  <2>2. Append(s.admission_history, m.attempt) \in Seq(Attempts)
    BY <2>1
  <2> QED BY <2>1, <2>2 DEF Admitted
<1>3. CASE IntentStep(s, m, r)
  <2>1. m.operation \in Operations /\ m.intent \in Intent /\ r = Intended(s, m)
    BY <1>3 DEF IntentStep
  <2> QED BY <2>1 DEF Intended, Intent
<1>4. CASE CancelStep(s, m, r)
  <2>1. m.task \in Tasks /\ m.cancellation \in Cancellation /\ r = Cancelled(s, m)
    BY <1>4 DEF CancelStep
  <2> QED BY <2>1 DEF Cancelled
<1>5. CASE DispatchStep(s, m, r)
  <2>1. m.operation \in Operations /\ m.attempt \in Attempts /\ r = Dispatched(s, m)
    BY <1>5 DEF DispatchStep
  <2>2. Append(s.dispatch_history, m.attempt) \in Seq(Attempts)
    BY <2>1
  <2> QED BY <2>1, <2>2 DEF Dispatched
<1>6. CASE OutcomeStep(s, m, r)
  <2>1. m.attempt \in Attempts /\ m.outcome \in KnownOutcome /\ r = Observed(s, m)
    BY <1>6 DEF OutcomeStep
  <2> QED BY <2>1 DEF Observed
<1>7. CASE CompletionStep(s, m, r)
  <2>1. m.task \in Tasks /\ m.attempt \in Attempts /\ r = Completed(s, m)
    BY <1>7 DEF CompletionStep
  <2>2. Append(s.completion_history, m.task) \in Seq(Tasks)
    BY <2>1
  <2> QED BY <2>1, <2>2 DEF Completed
<1> QED BY <1>1, <1>2, <1>3, <1>4, <1>5, <1>6, <1>7, Zenon DEF MutationStep

\* No accepted mutation changes or removes a fact.
LEMMA AppliedKeeps ==
    ASSUME NEW s \in RunState, NEW m, NEW r, MutationStep(s, m, r)
    PROVE  FactsKept(s, r)
<1> USE DEF RunState, FactsKept
<1>1. CASE IdentityStep(s, m, r)
  BY <1>1 DEF IdentityStep
<1>2. CASE AdmitStep(s, m, r)
  BY <1>2 DEF AdmitStep, Admitted, AdmitOK
<1>3. CASE IntentStep(s, m, r)
  BY <1>3 DEF IntentStep, Intended, IntentOK, Intent
<1>4. CASE CancelStep(s, m, r)
  BY <1>4 DEF CancelStep, Cancelled, CancelOK
<1>5. CASE DispatchStep(s, m, r)
  BY <1>5 DEF DispatchStep, Dispatched, DispatchOK
<1>6. CASE OutcomeStep(s, m, r)
  BY <1>6 DEF OutcomeStep, Observed, OutcomeOK
<1>7. CASE CompletionStep(s, m, r)
  BY <1>7 DEF CompletionStep, Completed, CompletionOK
<1> QED BY <1>1, <1>2, <1>3, <1>4, <1>5, <1>6, <1>7, Zenon DEF MutationStep

\* A mutation that adds a dispatch finds its task not cancelled.
LEMMA AppliedDispatch ==
    ASSUME NEW s \in RunState, NEW m, NEW r, MutationStep(s, m, r),
           NEW a \in Attempts, s.dispatches[a] = None, r.dispatches[a] # None
    PROVE  s.admissions[a] # None /\ s.cancellations[s.admissions[a].task] = None
<1> USE DEF RunState
<1>1. DispatchStep(s, m, r)
  <2>1. ~IdentityStep(s, m, r)
    BY DEF IdentityStep
  <2>2. ~AdmitStep(s, m, r)
    BY DEF AdmitStep, Admitted
  <2>3. ~IntentStep(s, m, r)
    BY DEF IntentStep, Intended
  <2>4. ~CancelStep(s, m, r)
    BY DEF CancelStep, Cancelled
  <2>5. ~OutcomeStep(s, m, r)
    BY DEF OutcomeStep, Observed
  <2>6. ~CompletionStep(s, m, r)
    BY DEF CompletionStep, Completed
  <2> QED BY <2>1, <2>2, <2>3, <2>4, <2>5, <2>6, Zenon DEF MutationStep
<1> QED BY <1>1 DEF DispatchStep, Dispatched, DispatchOK

\* An accepted mutation keeps the lineage of the facts, one part at a time.
LEMMA AppliedLineage ==
    ASSUME NEW s \in RunState, NEW m, NEW r, MutationStep(s, m, r),
           Lineage(s)
    PROVE  Lineage(r)
<1> USE DEF RunState
<1>0. /\ OwnershipAgrees(s) /\ DispatchHasAuthority(s) /\ OutcomeHasDispatch(s)
      /\ CompletionHasSuccess(s) /\ CancellationHasLineage(s) /\ DispatchHistoryExact(s)
  BY DEF Lineage
<1>1. CASE IdentityStep(s, m, r)
  BY <1>0, <1>1 DEF IdentityStep, Lineage, OwnershipAgrees, DispatchHasAuthority,
     OutcomeHasDispatch, CompletionHasSuccess, CancellationHasLineage, DispatchHistoryExact
<1>2. CASE AdmitStep(s, m, r)
  <2> USE <1>0, <1>2, NoneIsNoRecord DEF AdmitStep, Admitted, AdmitOK
  <2>1. OwnershipAgrees(r)
    BY DEF OwnershipAgrees
  <2>2. DispatchHasAuthority(r)
    BY DEF DispatchHasAuthority
  <2>3. OutcomeHasDispatch(r)
    BY DEF OutcomeHasDispatch
  <2>4. CompletionHasSuccess(r)
    BY DEF CompletionHasSuccess
  <2>5. CancellationHasLineage(r)
    BY DEF CancellationHasLineage
  <2>6. DispatchHistoryExact(r)
    BY DEF DispatchHistoryExact
  <2> QED BY <2>1, <2>2, <2>3, <2>4, <2>5, <2>6 DEF Lineage
<1>3. CASE IntentStep(s, m, r)
  <2> USE <1>0, <1>3, NoneIsNoRecord, NoneAssumption DEF IntentStep, Intended, IntentOK, Intent
  <2>1. OwnershipAgrees(r)
    BY SMTT(30) DEF OwnershipAgrees
  <2>2. DispatchHasAuthority(r)
    BY DEF DispatchHasAuthority
  <2>3. OutcomeHasDispatch(r)
    BY DEF OutcomeHasDispatch
  <2>4. CompletionHasSuccess(r)
    BY DEF CompletionHasSuccess
  <2>5. CancellationHasLineage(r)
    BY DEF CancellationHasLineage
  <2>6. DispatchHistoryExact(r)
    BY DEF DispatchHistoryExact
  <2> QED BY <2>1, <2>2, <2>3, <2>4, <2>5, <2>6 DEF Lineage
<1>4. CASE CancelStep(s, m, r)
  <2> USE <1>0, <1>4, NoneIsNoRecord DEF CancelStep, Cancelled, CancelOK, Cancellation
  <2>1. OwnershipAgrees(r)
    BY DEF OwnershipAgrees
  <2>2. DispatchHasAuthority(r)
    BY DEF DispatchHasAuthority
  <2>3. OutcomeHasDispatch(r)
    BY DEF OutcomeHasDispatch
  <2>4. CompletionHasSuccess(r)
    BY DEF CompletionHasSuccess
  <2>5. CancellationHasLineage(r)
    BY DEF CancellationHasLineage
  <2>6. DispatchHistoryExact(r)
    BY DEF DispatchHistoryExact
  <2> QED BY <2>1, <2>2, <2>3, <2>4, <2>5, <2>6 DEF Lineage
<1>5. CASE DispatchStep(s, m, r)
  <2> USE <1>0, <1>5, NoneAssumption DEF DispatchStep, Dispatched, DispatchOK
  <2>1. OwnershipAgrees(r)
    BY DEF OwnershipAgrees
  <2>2. DispatchHasAuthority(r)
    BY DEF DispatchHasAuthority
  <2>3. OutcomeHasDispatch(r)
    BY DEF OutcomeHasDispatch
  <2>4. CompletionHasSuccess(r)
    BY DEF CompletionHasSuccess
  <2>5. CancellationHasLineage(r)
    BY DEF CancellationHasLineage
  <2>6. DispatchHistoryExact(r)
    <3> DEFINE h == s.dispatch_history
               n == Len(s.dispatch_history)
    <3>1. /\ n \in Nat /\ 1..(n + 1) = (1..n) \cup {n + 1}
          /\ r.dispatch_history = Append(h, m.attempt)
          /\ Len(r.dispatch_history) = n + 1
          /\ \A i \in 1..n : r.dispatch_history[i] = h[i]
          /\ r.dispatch_history[n + 1] = m.attempt
      OBVIOUS
    <3>2. \A a \in Attempts :
             r.dispatches[a] = IF a = m.attempt THEN m.operation ELSE s.dispatches[a]
      OBVIOUS
    <3>3. /\ m.attempt \in Attempts /\ m.operation # None /\ s.dispatches[m.attempt] = None
      OBVIOUS
    <3>4. /\ \A a \in Attempts : s.dispatches[a] # None <=> \E i \in 1..n : h[i] = a
          /\ \A i, j \in 1..n : h[i] = h[j] => i = j
      BY DEF DispatchHistoryExact
    <3> HIDE <1>0, <1>5 DEF h, n, DispatchStep, Dispatched, DispatchOK
    <3> QED BY <3>1, <3>2, <3>3, <3>4 DEF DispatchHistoryExact
  <2> QED BY <2>1, <2>2, <2>3, <2>4, <2>5, <2>6 DEF Lineage
<1>6. CASE OutcomeStep(s, m, r)
  <2> USE <1>0, <1>6, NoneAssumption DEF OutcomeStep, Observed, OutcomeOK, KnownOutcome
  <2>1. OwnershipAgrees(r)
    BY DEF OwnershipAgrees
  <2>2. DispatchHasAuthority(r)
    BY DEF DispatchHasAuthority
  <2>3. OutcomeHasDispatch(r)
    BY DEF OutcomeHasDispatch
  <2>4. CompletionHasSuccess(r)
    BY DEF CompletionHasSuccess
  <2>5. CancellationHasLineage(r)
    BY DEF CancellationHasLineage
  <2>6. DispatchHistoryExact(r)
    BY DEF DispatchHistoryExact
  <2> QED BY <2>1, <2>2, <2>3, <2>4, <2>5, <2>6 DEF Lineage
<1>7. CASE CompletionStep(s, m, r)
  <2> USE <1>0, <1>7 DEF CompletionStep, Completed, CompletionOK
  <2>1. OwnershipAgrees(r)
    BY DEF OwnershipAgrees
  <2>2. DispatchHasAuthority(r)
    BY DEF DispatchHasAuthority
  <2>3. OutcomeHasDispatch(r)
    BY DEF OutcomeHasDispatch
  <2>4. CompletionHasSuccess(r)
    BY DEF CompletionHasSuccess
  <2>5. CancellationHasLineage(r)
    BY DEF CancellationHasLineage
  <2>6. DispatchHistoryExact(r)
    BY DEF DispatchHistoryExact
  <2> QED BY <2>1, <2>2, <2>3, <2>4, <2>5, <2>6 DEF Lineage
<1> QED BY <1>1, <1>2, <1>3, <1>4, <1>5, <1>6, <1>7, Zenon DEF MutationStep

----------------------------------------------------------------------------
(* A batch of mutations *)

\* The equation of the recursive function Candidates: it has a solution.
LEMMA CandidatesDef ==
    ASSUME NEW s, NEW ms, Len(ms) \in Nat
    PROVE  Candidates(s, ms)
             = [i \in 0..Len(ms) |-> IF i = 0 THEN s ELSE Apply(Candidates(s, ms)[i - 1], ms[i])]
<1> DEFINE Solves(f, n) == f = [i \in 0..n |-> IF i = 0 THEN s ELSE Apply(f[i - 1], ms[i])]
           T == {n \in Nat : \E f : Solves(f, n)}
<1>1. 0 \in T
  <2>1. Solves([i \in 0..0 |-> s], 0)
    OBVIOUS
  <2> QED BY <2>1
<1>2. ASSUME NEW n \in T PROVE n + 1 \in T
  <2>1. PICK f : Solves(f, n)
    BY <1>2
  <2> DEFINE g == [i \in 0..(n + 1) |-> IF i = n + 1 THEN Apply(f[n], ms[n + 1]) ELSE f[i]]
  <2>2. ASSUME NEW i \in 0..(n + 1)
        PROVE  g[i] = IF i = 0 THEN s ELSE Apply(g[i - 1], ms[i])
    <3>1. CASE i = n + 1
      BY <3>1, n \in Nat
    <3>2. CASE i # n + 1
      <4>1. i \in 0..n /\ (i # 0 => i - 1 \in 0..n /\ i - 1 \in 0..(n + 1) /\ i - 1 # n + 1)
        BY <3>2, n \in Nat
      <4>2. f[i] = IF i = 0 THEN s ELSE Apply(f[i - 1], ms[i])
        BY <2>1, <4>1
      <4> QED BY <3>2, <4>1, <4>2
    <3> QED BY <3>1, <3>2
  <2>3. Solves(g, n + 1)
    BY <2>2
  <2>4. n + 1 \in Nat
    OBVIOUS
  <2> QED
    <3> HIDE DEF g, Solves
    <3> QED BY <2>3, <2>4
<1>3. T = Nat
  <2>1. T \in SUBSET Nat
    OBVIOUS
  <2> HIDE DEF T
  <2> QED BY <1>1, <1>2, <2>1, NatInduct
<1>4. \E f : Solves(f, Len(ms))
  BY <1>3
<1>5. Candidates(s, ms) = CHOOSE f : Solves(f, Len(ms))
  BY DEF Candidates
<1>6. Solves(Candidates(s, ms), Len(ms))
  <2> HIDE DEF Solves
  <2> QED BY <1>4, <1>5
<1> QED BY <1>6

\* The facts a batch may add: none is changed, and a dispatch is added only
\* for a task that was not cancelled before the batch.
NoLateDispatch(s, r) ==
    \A a \in Attempts : s.dispatches[a] = None /\ r.dispatches[a] # None =>
        r.admissions[a] # None /\ s.cancellations[r.admissions[a].task] = None

Extends(s, r) == r \in RunState /\ Lineage(r) /\ FactsKept(s, r) /\ NoLateDispatch(s, r)

\* One more accepted mutation keeps extending the facts.
LEMMA ExtendsStep ==
    ASSUME NEW s \in RunState, NEW q, Extends(s, q), NEW m, NEW r, MutationStep(q, m, r)
    PROVE  Extends(s, r)
<1>1. q \in RunState /\ Lineage(q) /\ FactsKept(s, q) /\ NoLateDispatch(s, q)
  BY DEF Extends
<1>2. r \in RunState /\ Lineage(r) /\ FactsKept(q, r)
  BY <1>1, AppliedType, AppliedKeeps, AppliedLineage
<1>3. FactsKept(s, r)
  BY <1>1, <1>2 DEF FactsKept
<1>4. NoLateDispatch(s, r)
  <2> SUFFICES ASSUME NEW a \in Attempts, s.dispatches[a] = None, r.dispatches[a] # None
               PROVE  r.admissions[a] # None /\ s.cancellations[r.admissions[a].task] = None
    BY DEF NoLateDispatch
  <2>1. CASE q.dispatches[a] # None
    BY <1>1, <1>2, <2>1 DEF NoLateDispatch, FactsKept
  <2>2. CASE q.dispatches[a] = None
    <3>1. q.admissions[a] # None /\ q.cancellations[q.admissions[a].task] = None
      BY <1>1, <2>2, AppliedDispatch
    <3>2. r.admissions[a] = q.admissions[a]
      BY <1>2, <3>1 DEF FactsKept
    <3>3. q.admissions[a].task \in Tasks
      BY <1>1, <3>1 DEF RunState, Admission
    <3> QED BY <1>1, <3>1, <3>2, <3>3 DEF FactsKept
  <2> QED BY <2>1, <2>2
<1> QED BY <1>2, <1>3, <1>4 DEF Extends

\* An accepted batch, of whatever length, extends the facts it starts from.
LEMMA BatchExtends ==
    ASSUME NEW s \in RunState, Lineage(s), NEW ms \in Seq(DurableMutation), BatchAccepted(s, ms)
    PROVE  Extends(s, BatchResult(s, ms))
<1> DEFINE C == Candidates(s, ms)
           T == {n \in 0..Len(ms) : Extends(s, C[n])}
<1>1. /\ Len(ms) \in Nat
      /\ C = [i \in 0..Len(ms) |-> IF i = 0 THEN s ELSE Apply(C[i - 1], ms[i])]
  BY CandidatesDef
<1> HIDE DEF C
<1>2. 0 \in T
  <2>1. C[0] = s
    BY <1>1
  <2>2. Extends(s, s)
    BY DEF Extends, FactsKept, NoLateDispatch
  <2> QED BY <1>1, <2>1, <2>2
<1>3. ASSUME NEW n \in 0..(Len(ms) - 1), n \in T PROVE n + 1 \in T
  <2>1. n + 1 \in 1..Len(ms) /\ (n + 1) - 1 = n /\ n + 1 \in 0..Len(ms)
    BY <1>1
  <2>2. C[n + 1] = Apply(C[n], ms[n + 1])
    BY <1>1, <2>1
  <2>3. Accepts(C[n], ms[n + 1]) /\ ms[n + 1] \in DurableMutation
    BY <2>1 DEF BatchAccepted, C
  <2>4. MutationStep(C[n], ms[n + 1], C[n + 1])
    BY <2>2, <2>3, AcceptedStep
  <2>5. Extends(s, C[n])
    BY <1>3
  <2> QED BY <2>1, <2>4, <2>5, ExtendsStep
<1>4. Len(ms) \in T
  <2> HIDE DEF T
  <2>1. \A n \in 0..Len(ms) : n \in T
    BY <1>1, <1>2, <1>3, NatInductTo
  <2> QED BY <1>1, <2>1
<1> QED BY <1>4 DEF BatchResult, C

----------------------------------------------------------------------------
(* The empty run *)

\* A run without facts is a consistent one.
LEMMA EmptyRunFacts == EmptyRun \in RunState /\ Lineage(EmptyRun)
<1>1. EmptyRun \in RunState
  BY DEF EmptyRun, RunState
<1>2. Lineage(EmptyRun)
  BY DEF EmptyRun, Lineage, OwnershipAgrees, DispatchHasAuthority, OutcomeHasDispatch,
         CompletionHasSuccess, CancellationHasLineage, DispatchHistoryExact
<1> QED BY <1>1, <1>2

----------------------------------------------------------------------------
(* Replay of a ledger *)

\* The equation of the recursive function ReplayStates: it has a solution.
LEMMA ReplayStatesDef ==
    ASSUME NEW ledger, Len(ledger) \in Nat
    PROVE  ReplayStates(ledger)
             = [i \in 0..Len(ledger) |->
                   IF i = 0 THEN EmptyRun
                   ELSE BatchResult(ReplayStates(ledger)[i - 1], ledger[i].mutations)]
<1> DEFINE Solves(f, n) ==
             f = [i \in 0..n |-> IF i = 0 THEN EmptyRun
                                 ELSE BatchResult(f[i - 1], ledger[i].mutations)]
           T == {n \in Nat : \E f : Solves(f, n)}
<1>1. 0 \in T
  <2>1. Solves([i \in 0..0 |-> EmptyRun], 0)
    OBVIOUS
  <2> QED BY <2>1
<1>2. ASSUME NEW n \in T PROVE n + 1 \in T
  <2>1. PICK f : Solves(f, n)
    BY <1>2
  <2> DEFINE g == [i \in 0..(n + 1) |-> IF i = n + 1
                                        THEN BatchResult(f[n], ledger[n + 1].mutations)
                                        ELSE f[i]]
  <2>2. ASSUME NEW i \in 0..(n + 1)
        PROVE  g[i] = IF i = 0 THEN EmptyRun ELSE BatchResult(g[i - 1], ledger[i].mutations)
    <3>1. CASE i = n + 1
      BY <3>1, n \in Nat
    <3>2. CASE i # n + 1
      <4>1. i \in 0..n /\ (i # 0 => i - 1 \in 0..n /\ i - 1 \in 0..(n + 1) /\ i - 1 # n + 1)
        BY <3>2, n \in Nat
      <4>2. f[i] = IF i = 0 THEN EmptyRun ELSE BatchResult(f[i - 1], ledger[i].mutations)
        BY <2>1, <4>1
      <4> QED BY <3>2, <4>1, <4>2
    <3> QED BY <3>1, <3>2
  <2>3. Solves(g, n + 1)
    BY <2>2
  <2>4. n + 1 \in Nat
    OBVIOUS
  <2> QED
    <3> HIDE DEF g, Solves
    <3> QED BY <2>3, <2>4
<1>3. T = Nat
  <2>1. T \in SUBSET Nat
    OBVIOUS
  <2> HIDE DEF T
  <2> QED BY <1>1, <1>2, <2>1, NatInduct
<1>4. \E f : Solves(f, Len(ledger))
  BY <1>3
<1>5. ReplayStates(ledger) = CHOOSE f : Solves(f, Len(ledger))
  BY DEF ReplayStates
<1>6. Solves(ReplayStates(ledger), Len(ledger))
  <2> HIDE DEF Solves
  <2> QED BY <1>4, <1>5
<1> QED BY <1>6

\* An appended entry leaves the replay of the earlier ones as it was.
LEMMA ReplayAppend ==
    ASSUME NEW ledger \in Seq(Entry), NEW e \in Entry
    PROVE  LET longer == Append(ledger, e)
               n == Len(ledger)
           IN  /\ \A i \in 0..n : ReplayStates(longer)[i] = ReplayStates(ledger)[i]
               /\ ReplayStates(longer)[n + 1] = BatchResult(ReplayStates(ledger)[n], e.mutations)
<1> DEFINE longer == Append(ledger, e)
           n == Len(ledger)
           R == ReplayStates(ledger)
           L == ReplayStates(longer)
           T == {i \in 0..n : L[i] = R[i]}
<1>1. /\ n \in Nat /\ Len(longer) = n + 1
      /\ \A i \in 1..n : longer[i] = ledger[i]
      /\ longer[n + 1] = e
  OBVIOUS
<1>2. R = [i \in 0..n |-> IF i = 0 THEN EmptyRun ELSE BatchResult(R[i - 1], ledger[i].mutations)]
  BY <1>1, ReplayStatesDef
<1>3. L = [i \in 0..(n + 1) |-> IF i = 0 THEN EmptyRun
                                ELSE BatchResult(L[i - 1], longer[i].mutations)]
  BY <1>1, ReplayStatesDef
<1> HIDE DEF longer, n, R, L
<1>4. 0 \in T
  BY <1>1, <1>2, <1>3
<1>5. ASSUME NEW i \in 0..(n - 1), i \in T PROVE i + 1 \in T
  <2>1. i + 1 \in 1..n /\ i + 1 \in 0..n /\ i + 1 \in 0..(n + 1) /\ (i + 1) - 1 = i /\ i + 1 # 0
    BY <1>1
  <2>2. R[i + 1] = BatchResult(R[i], ledger[i + 1].mutations)
    BY <1>2, <2>1
  <2>3. L[i + 1] = BatchResult(L[i], longer[i + 1].mutations)
    BY <1>3, <2>1
  <2> QED BY <1>1, <1>5, <2>1, <2>2, <2>3
<1>6. \A i \in 0..n : i \in T
  <2> HIDE DEF T
  <2> QED BY <1>1, <1>4, <1>5, NatInductTo
<1>7. L[n + 1] = BatchResult(L[n], e.mutations)
  <2>1. n + 1 \in 0..(n + 1) /\ (n + 1) - 1 = n /\ n + 1 # 0
    BY <1>1
  <2> QED BY <1>1, <1>3, <2>1
<1>8. n \in 0..n
  BY <1>1
<1> QED BY <1>6, <1>7, <1>8 DEF longer, n, R, L

----------------------------------------------------------------------------
(* The invariant *)

\* Every entry was accepted by the facts that the entries before it rebuild.
LedgerInv ==
    /\ Len(commit_ledger) = revision
    /\ \A i \in 1..Len(commit_ledger) :
          /\ commit_ledger[i].mutations # <<>>
          /\ commit_ledger[i].revision = i
          /\ BatchAccepted(ReplayStates(commit_ledger)[i - 1], commit_ledger[i].mutations)

\* The row, once there is one, is what its ledger replays to.
RowInv ==
    IF run = None THEN commit_ledger = <<>>
    ELSE ReplayStates(commit_ledger)[Len(commit_ledger)] = run

\* The index binds exactly the keys of the ledger, each to its only entry.
IndexInv ==
    /\ \A k \in Keys : idempotency[k] # None =>
          \E i \in 1..Len(commit_ledger) : commit_ledger[i].key = k
    /\ \A i \in 1..Len(commit_ledger) :
          /\ idempotency[commit_ledger[i].key] = commit_ledger[i].mutations
          /\ \A j \in 1..(i - 1) : commit_ledger[j].key # commit_ledger[i].key

\* The inductive invariant.
IInv == TypeOK /\ LineageHolds /\ LedgerInv /\ RowInv /\ IndexInv

\* An accepted fresh request: the lineage grows and the ledger follows.
LEMMA CommitFreshIInv ==
    ASSUME IInv, NEW c \in Clients, NEW req \in Requests, CommitFresh(c, req),
           known' \in [Clients -> (0..MaxRevision) \cup {None}]
    PROVE  IInv' /\ Extends(run, run')
<1> DEFINE e == [key |-> req.key, mutations |-> req.mutations, revision |-> revision + 1]
           n == Len(commit_ledger)
<1>1. /\ run # None /\ run \in RunState /\ Lineage(run)
      /\ req \in Request /\ req.key \in Keys /\ req.mutations \in Seq(DurableMutation)
      /\ req.mutations # <<>> /\ idempotency[req.key] = None
      /\ revision \in Nat /\ revision < MaxRevision /\ MaxRevision \in Nat
      /\ BatchAccepted(run, req.mutations)
      /\ run' = BatchResult(run, req.mutations)
      /\ commit_ledger \in Seq(Entry) /\ n = revision
      /\ None \notin RunState /\ None \notin Seq(DurableMutation)
  BY StoreAssumption DEF IInv, TypeOK, LineageHolds, LedgerInv, CommitFresh, checked_next, Request
<1>2. /\ revision' = revision + 1
      /\ commit_ledger' = Append(commit_ledger, e)
      /\ idempotency' = [idempotency EXCEPT ![req.key] = req.mutations]
  BY DEF CommitFresh, record_commit
<1>3. e \in Entry
  BY <1>1 DEF Entry
<1>4. Extends(run, run')
  BY <1>1, BatchExtends
<1>5. run' \in RunState /\ Lineage(run') /\ run' # None
  BY <1>1, <1>4 DEF Extends
<1>6. /\ commit_ledger' \in Seq(Entry) /\ Len(commit_ledger') = n + 1 /\ n \in Nat
      /\ \A i \in 1..n : commit_ledger'[i] = commit_ledger[i]
      /\ commit_ledger'[n + 1] = e
  BY <1>1, <1>2, <1>3
<1>7. /\ \A i \in 0..n : ReplayStates(commit_ledger')[i] = ReplayStates(commit_ledger)[i]
      /\ ReplayStates(commit_ledger')[n + 1]
            = BatchResult(ReplayStates(commit_ledger)[n], e.mutations)
  BY <1>1, <1>2, <1>3, ReplayAppend
<1>8. ReplayStates(commit_ledger)[n] = run
  BY <1>1 DEF IInv, RowInv
<1>9. TypeOK'
  <2>1. idempotency' \in [Keys -> Seq(DurableMutation) \cup {None}]
    BY <1>1, <1>2 DEF IInv, TypeOK
  <2>2. revision' \in 0..MaxRevision
    BY <1>1, <1>2
  <2> QED BY <1>5, <1>6, <2>1, <2>2 DEF TypeOK
<1>10. LineageHolds'
  BY <1>5 DEF LineageHolds
<1>11. LedgerInv'
  <2>1. ASSUME NEW i \in 1..(n + 1)
        PROVE  /\ commit_ledger'[i].mutations # <<>>
               /\ commit_ledger'[i].revision = i
               /\ BatchAccepted(ReplayStates(commit_ledger')[i - 1], commit_ledger'[i].mutations)
    <3>1. CASE i \in 1..n
      <4>1. i - 1 \in 0..n
        BY <3>1, <1>6
      <4>2. /\ commit_ledger[i].mutations # <<>>
            /\ commit_ledger[i].revision = i
            /\ BatchAccepted(ReplayStates(commit_ledger)[i - 1], commit_ledger[i].mutations)
        BY <3>1 DEF IInv, LedgerInv
      <4> QED BY <1>6, <1>7, <3>1, <4>1, <4>2
    <3>2. CASE i = n + 1
      <4>1. i - 1 = n /\ n \in 0..n
        BY <3>2, <1>6
      <4> QED BY <1>1, <1>6, <1>7, <1>8, <3>2, <4>1
    <3> QED BY <3>1, <3>2, <1>6
  <2> QED BY <1>1, <1>2, <1>6, <2>1 DEF LedgerInv
<1>12. RowInv'
  BY <1>1, <1>5, <1>6, <1>7, <1>8 DEF RowInv
<1>13. IndexInv'
  <2>1. \A i \in 1..n : commit_ledger[i].key # req.key /\ commit_ledger[i].key \in Keys
    <3> SUFFICES ASSUME NEW i \in 1..n
                 PROVE  commit_ledger[i].key # req.key /\ commit_ledger[i].key \in Keys
      OBVIOUS
    <3>1. commit_ledger[i] \in Entry
      BY <1>1
    <3>2. commit_ledger[i].mutations # None /\ commit_ledger[i].key \in Keys
      BY <1>1, <3>1 DEF Entry
    <3>3. idempotency[commit_ledger[i].key] = commit_ledger[i].mutations
      BY DEF IInv, IndexInv
    <3> QED BY <1>1, <3>2, <3>3
  <2>2. \A k \in Keys : idempotency'[k] = IF k = req.key THEN req.mutations ELSE idempotency[k]
    BY <1>1, <1>2 DEF IInv, TypeOK
  <2>3. \A k \in Keys : idempotency'[k] # None =>
            \E i \in 1..(n + 1) : commit_ledger'[i].key = k
    <3> SUFFICES ASSUME NEW k \in Keys, idempotency'[k] # None
                 PROVE  \E i \in 1..(n + 1) : commit_ledger'[i].key = k
      OBVIOUS
    <3>1. CASE k = req.key
      BY <1>6, <3>1
    <3>2. CASE k # req.key
      <4>1. PICK i \in 1..n : commit_ledger[i].key = k
        BY <2>2, <3>2 DEF IInv, IndexInv
      <4> QED BY <1>6, <4>1
    <3> QED BY <3>1, <3>2
  <2>4. ASSUME NEW i \in 1..(n + 1)
        PROVE  /\ idempotency'[commit_ledger'[i].key] = commit_ledger'[i].mutations
               /\ \A j \in 1..(i - 1) : commit_ledger'[j].key # commit_ledger'[i].key
    <3>1. CASE i \in 1..n
      <4>1. /\ idempotency[commit_ledger[i].key] = commit_ledger[i].mutations
            /\ \A j \in 1..(i - 1) : commit_ledger[j].key # commit_ledger[i].key
        BY <3>1 DEF IInv, IndexInv
      <4>2. \A j \in 1..(i - 1) : j \in 1..n
        BY <1>6, <3>1
      <4> QED BY <1>6, <2>1, <2>2, <3>1, <4>1, <4>2
    <3>2. CASE i = n + 1
      <4>1. commit_ledger'[i] = e /\ \A j \in 1..(i - 1) : j \in 1..n
        BY <1>6, <3>2
      <4> QED BY <1>1, <1>6, <2>1, <2>2, <4>1
    <3> QED BY <3>1, <3>2, <1>6
  <2> QED BY <1>6, <2>3, <2>4 DEF IndexInv
<1> QED BY <1>4, <1>9, <1>10, <1>11, <1>12, <1>13 DEF IInv

\* An empty store satisfies the invariant.
LEMMA InitIInv == Init => IInv
<1> SUFFICES ASSUME Init PROVE IInv
  OBVIOUS
<1>1. TypeOK
  <2>1. <<>> \in Seq(Entry) /\ 0 \in 0..MaxRevision
    BY StoreAssumption
  <2> QED BY <2>1 DEF Init, TypeOK
<1> QED BY <1>1 DEF IInv, Init, LineageHolds, LedgerInv, RowInv, IndexInv

\* create_run writes the one row with an empty ledger.
LEMMA CreateRunIInv ==
    ASSUME IInv, NEW c \in Clients, create_run(c)
    PROVE  IInv'
<1>1. /\ run = None /\ run' = EmptyRun /\ commit_ledger = <<>>
      /\ UNCHANGED <<revision, commit_ledger, idempotency>>
  BY DEF create_run, IInv, RowInv
<1>2. EmptyRun # None /\ 0 \in 0..MaxRevision
  BY EmptyRunFacts, StoreAssumption
<1>3. TypeOK'
  BY <1>1, <1>2, EmptyRunFacts DEF create_run, IInv, TypeOK
<1>4. LineageHolds' /\ LedgerInv' /\ IndexInv'
  BY <1>1, EmptyRunFacts DEF IInv, LineageHolds, LedgerInv, IndexInv
<1>5. RowInv'
  <2>1. ReplayStates(commit_ledger)
           = [i \in 0..Len(commit_ledger) |->
                 IF i = 0 THEN EmptyRun
                 ELSE BatchResult(ReplayStates(commit_ledger)[i - 1], commit_ledger[i].mutations)]
    BY <1>1, ReplayStatesDef
  <2>2. Len(commit_ledger) = 0
    BY <1>1
  <2> HIDE DEF ReplayStates
  <2> QED BY <1>1, <1>2, <2>1, <2>2 DEF RowInv
<1> QED BY <1>3, <1>4, <1>5 DEF IInv

\* A step that leaves the row alone, as load_run and a replayed commit do.
LEMMA UnchangedIInv ==
    ASSUME IInv, UNCHANGED store, known' \in [Clients -> (0..MaxRevision) \cup {None}]
    PROVE  IInv'
BY DEF IInv, store, TypeOK, LineageHolds, LedgerInv, RowInv, IndexInv

\* What a step does: nothing to the row, creation, or an accepted batch.
LEMMA StepFacts ==
    ASSUME IInv, [Next]_vars
    PROVE  /\ IInv'
           /\ run # None => run' = run \/ Extends(run, run')
<1>1. CASE UNCHANGED vars
  <2>1. UNCHANGED store /\ known' \in [Clients -> (0..MaxRevision) \cup {None}] /\ run' = run
    BY <1>1 DEF vars, store, IInv, TypeOK
  <2> QED BY <2>1, UnchangedIInv
<1>2. ASSUME NEW c \in Clients, create_run(c)
      PROVE  IInv' /\ run = None
  BY <1>2, CreateRunIInv DEF create_run
<1>3. ASSUME NEW c \in Clients, load_run(c)
      PROVE  IInv' /\ run' = run
  <2>1. known' \in [Clients -> (0..MaxRevision) \cup {None}]
    BY <1>3 DEF load_run, IInv, TypeOK
  <2> QED BY <1>3, <2>1, UnchangedIInv DEF load_run, store
<1>4. ASSUME NEW c \in Clients, NEW req \in Requests, commit(c, req)
      PROVE  IInv' /\ (run' = run \/ Extends(run, run'))
  <2>1. CASE CommitFresh(c, req)
    <3>1. revision' \in 0..MaxRevision
      BY <2>1, StoreAssumption DEF CommitFresh, record_commit, checked_next, IInv, TypeOK
    <3>2. known' \in [Clients -> (0..MaxRevision) \cup {None}]
      BY <1>4, <3>1 DEF commit, IInv, TypeOK
    <3> QED BY <2>1, <3>2, CommitFreshIInv
  <2>2. CASE CommitReplayed(req)
    <3>1. UNCHANGED store /\ run' = run /\ revision' = revision
      BY <2>2 DEF CommitReplayed, store
    <3>2. known' \in [Clients -> (0..MaxRevision) \cup {None}]
      BY <1>4, <3>1 DEF commit, IInv, TypeOK
    <3> QED BY <3>1, <3>2, UnchangedIInv
  <2> QED BY <1>4, <2>1, <2>2 DEF commit
<1> QED BY <1>1, <1>2, <1>3, <1>4 DEF Next

\* The invariant is one.
THEOREM Invariance == Spec => []IInv
<1>1. IInv /\ [Next]_vars => IInv'
  BY StepFacts
<1> QED BY <1>1, InitIInv, PTL DEF Spec

\* TypeOK: rows, revisions and views keep their shape and their bounds.
THEOREM TypeCorrect == Spec => []TypeOK
<1>1. IInv => TypeOK
  BY DEF IInv
<1> QED BY <1>1, Invariance, PTL

\* LineageHolds: whatever batches apply_mutation accepts, in whatever order,
\* the facts of the row form a consistent lineage.
THEOREM LineageKept == Spec => []LineageHolds
<1>1. IInv => LineageHolds
  BY DEF IInv
<1> QED BY <1>1, Invariance, PTL

\* LedgerRebuildsRun: replay_commit_ledger accepts every ledger that commit
\* wrote and rebuilds the facts, the revision and the index from it.
THEOREM LedgerReplays == Spec => []LedgerRebuildsRun
<1>1. ASSUME IInv PROVE LedgerRebuildsRun
  <2> SUFFICES ASSUME run # None, revision < MaxRevision
               PROVE  /\ LedgerAccepted(commit_ledger)
                      /\ ReplayStates(commit_ledger)[Len(commit_ledger)] = run
                      /\ Len(commit_ledger) = revision
                      /\ \A k \in Keys : \A ms \in {e.mutations : e \in Requests} :
                            idempotency[k] = ms <=>
                              \E i \in 1..Len(commit_ledger) :
                                /\ commit_ledger[i].key = k
                                /\ commit_ledger[i].mutations = ms
    BY DEF LedgerRebuildsRun
  <2>1. LedgerAccepted(commit_ledger)
    BY <1>1, StoreAssumption
       DEF IInv, TypeOK, LedgerInv, IndexInv, LedgerAccepted, checked_next
  <2>2. ReplayStates(commit_ledger)[Len(commit_ledger)] = run /\ Len(commit_ledger) = revision
    BY <1>1 DEF IInv, RowInv, LedgerInv
  <2>3. ASSUME NEW k \in Keys, NEW q \in Requests
        PROVE  idempotency[k] = q.mutations <=>
                 \E i \in 1..Len(commit_ledger) :
                   commit_ledger[i].key = k /\ commit_ledger[i].mutations = q.mutations
    <3>1. q.mutations # None
      BY StoreAssumption DEF Request
    <3>2. IndexInv
      BY <1>1 DEF IInv
    <3>3. ASSUME idempotency[k] = q.mutations
          PROVE  \E i \in 1..Len(commit_ledger) :
                   commit_ledger[i].key = k /\ commit_ledger[i].mutations = q.mutations
      <4>1. PICK i \in 1..Len(commit_ledger) : commit_ledger[i].key = k
        BY <3>1, <3>2, <3>3 DEF IndexInv
      <4> QED BY <3>2, <3>3, <4>1 DEF IndexInv
    <3> QED BY <3>2, <3>3 DEF IndexInv
  <2> QED BY <2>1, <2>2, <2>3
<1> QED BY <1>1, Invariance, PTL

\* FactsAreFinal: no commit of any client changes or removes a fact.
THEOREM FactsFinal == Spec => FactsAreFinal
<1>1. ASSUME IInv, [Next]_vars PROVE run # None => run' # None /\ FactsKept(run, run')
  BY <1>1, StepFacts, StoreAssumption DEF Extends, FactsKept
<1> QED BY <1>1, Invariance, PTL DEF Spec, FactsAreFinal

\* NoDispatchAfterCancellation: a durable cancellation stops every later
\* dispatch of its task, in whichever batch of whichever client.
THEOREM CancellationStopsDispatch == Spec => NoDispatchAfterCancellation
<1>1. ASSUME IInv, [Next]_vars
      PROVE  run # None =>
               \A a \in Attempts : run.dispatches[a] = None /\ run'.dispatches[a] # None
                  => run.cancellations[run'.admissions[a].task] = None
  BY <1>1, StepFacts DEF Extends, NoLateDispatch
<1> QED BY <1>1, Invariance, PTL DEF Spec, NoDispatchAfterCancellation
=============================================================================
