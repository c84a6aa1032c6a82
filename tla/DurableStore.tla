---------------------------- MODULE DurableStore ----------------------------
(***************************************************************************)
(* The durable store port for one run: create_run, load_run and commit     *)
(* with its compare-and-swap and its idempotency keys, the append-only     *)
(* commit ledger, and several clients that share the store.  Both adapters *)
(* (in memory and redb) implement commit by the same steps on one row, in  *)
(* one exclusive transaction.  The answer of a commit may be lost: the     *)
(* client then knows nothing, and may send the request again.              *)
(***************************************************************************)
EXTENDS DurableFacts

CONSTANTS
    Clients,
    Keys,          \* idempotency keys
    Requests,      \* the commits clients may send: [key, mutations]
    MaxRevision    \* the last revision StoreRevision can represent

Request == [key : Keys, mutations : Seq(DurableMutation)]
Entry == [key : Keys, mutations : Seq(DurableMutation), revision : Nat]

ASSUME StoreAssumption ==
    /\ MaxRevision \in Nat \ {0}
    /\ Requests \subseteq Request
    /\ None \notin RunState
    /\ None \notin Nat
    /\ None \notin Seq(DurableMutation)

VARIABLES
    run,           \* the row of the run: its facts, or None before create_run
    revision,      \* DurableRunState.revision
    commit_ledger,
    idempotency,   \* index from key to the mutations committed under it
    known          \* expected_revision each client would send, None at first

vars == <<run, revision, commit_ledger, idempotency, known>>
store == <<run, revision, commit_ledger, idempotency>>

----------------------------------------------------------------------------

Init ==
    /\ run = None
    /\ revision = 0
    /\ commit_ledger = <<>>
    /\ idempotency = [k \in Keys |-> None]
    /\ known = [c \in Clients |-> None]

create_run(c) ==
    /\ run = None
    /\ run' = EmptyRun
    /\ known' = [known EXCEPT ![c] = 0]
    /\ UNCHANGED <<revision, commit_ledger, idempotency>>

load_run(c) ==
    /\ run # None
    /\ known' = [known EXCEPT ![c] = revision]
    /\ UNCHANGED store

\* Mutant: the index is written, the ledger is not.
record_index_only(req) ==
    /\ revision' = revision + 1
    /\ idempotency' = [idempotency EXCEPT ![req.key] = req.mutations]
    /\ UNCHANGED commit_ledger

record_commit(req) ==
    /\ revision' = revision + 1
    /\ commit_ledger' = Append(commit_ledger,
                               [key       |-> req.key,
                                mutations |-> req.mutations,
                                revision  |-> revision + 1])
    /\ idempotency' = [idempotency EXCEPT ![req.key] = req.mutations]

checked_next(r) == r < MaxRevision

\* A request with a new key, at the client's expected revision.
CommitFresh(c, req) ==
    /\ run # None
    /\ req.mutations # <<>>
    /\ idempotency[req.key] = None
    /\ known[c] = revision
    /\ checked_next(revision)
    /\ BatchAccepted(run, req.mutations)
    /\ run' = BatchResult(run, req.mutations)
    /\ record_commit(req)

\* Mutant: the same commit, filed again.
CommitReplayedAgain(req) ==
    /\ run # None
    /\ req.mutations # <<>>
    /\ idempotency[req.key] = req.mutations
    /\ checked_next(revision)
    /\ record_commit(req)
    /\ UNCHANGED run

\* A request whose key is already bound to the same mutations: whatever the
\* client's expected revision, nothing changes and the head is returned.
CommitReplayed(req) ==
    /\ run # None
    /\ req.mutations # <<>>
    /\ idempotency[req.key] = req.mutations
    /\ UNCHANGED store

\* commit(): every other request is refused with an error and no change.  The
\* client moves to the returned revision if the answer reaches it.
commit(c, req) ==
    /\ known[c] # None
    /\ CommitFresh(c, req) \/ CommitReplayed(req)
    /\ \/ known' = [known EXCEPT ![c] = revision']
       \/ UNCHANGED known

Next ==
    \/ \E c \in Clients : create_run(c)
    \/ \E c \in Clients : load_run(c)
    \/ \E c \in Clients, req \in Requests : commit(c, req)

Spec == Init /\ [][Next]_vars

----------------------------------------------------------------------------
(* replay_commit_ledger *)

\* The facts after each entry of a ledger, from an empty run.
ReplayStates(ledger) ==
    LET after[i \in 0..Len(ledger)] ==
            IF i = 0 THEN EmptyRun ELSE BatchResult(after[i - 1], ledger[i].mutations)
    IN  after

\* A ledger is accepted when revisions count up from 1, keys are unique, every
\* mutation is accepted in its turn, and the revision after the last one still
\* exists (expected_revision.checked_add).
LedgerAccepted(ledger) ==
    /\ \A i \in 1..Len(ledger) :
          /\ ledger[i].mutations # <<>>
          /\ ledger[i].revision = i
          /\ \A j \in 1..(i - 1) : ledger[j].key # ledger[i].key
          /\ BatchAccepted(ReplayStates(ledger)[i - 1], ledger[i].mutations)
          /\ checked_next(ledger[i].revision)

----------------------------------------------------------------------------
(* Properties *)

\* Every variable has the shape of the struct field it stands for, and the
\* revision never passes the largest one StoreRevision has.
TypeOK ==
    /\ run \in RunState \cup {None}
    /\ revision \in 0..MaxRevision
    /\ commit_ledger \in Seq(Entry)
    /\ idempotency \in [Keys -> Seq(DurableMutation) \cup {None}]
    /\ known \in [Clients -> (0..MaxRevision) \cup {None}]

\* The facts of the row always form a consistent lineage: every dispatch has
\* its intent and admission, every outcome its dispatch, every completion a
\* successful attempt, and the indexes agree with the histories.
LineageHolds == run # None => Lineage(run)

\* validate_persisted and reopening never fail on a row the store itself has
\* written: the ledger is accepted by replay_commit_ledger and rebuilds the
\* facts, the revision and the idempotency index.  (At the very last revision
\* replay refuses the ledger, because it computes one revision more.)
LedgerRebuildsRun ==
    run # None /\ revision < MaxRevision =>
        /\ LedgerAccepted(commit_ledger)
        /\ ReplayStates(commit_ledger)[Len(commit_ledger)] = run
        /\ Len(commit_ledger) = revision
        /\ \A k \in Keys : \A ms \in {e.mutations : e \in Requests} :
              idempotency[k] = ms <=>
                \E i \in 1..Len(commit_ledger) : /\ commit_ledger[i].key = k
                                                 /\ commit_ledger[i].mutations = ms

\* Facts are append-only: no commit of any client changes or removes an
\* admission, intent, cancellation, dispatch, outcome or completion.
FactsAreFinal == [][run # None => run' # None /\ FactsKept(run, run')]_vars

\* Once a cancellation of a task is durable, no commit of any client, however
\* stale its view, adds a dispatch for that task.
NoDispatchAfterCancellation ==
    [][run # None =>
         \A a \in Attempts :
            run.dispatches[a] = None /\ run'.dispatches[a] # None
              => run.cancellations[run'.admissions[a].task] = None]_vars
============================================================================
