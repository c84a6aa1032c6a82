--------------------------- MODULE MCDurableStore ---------------------------
(***************************************************************************)
(* One effect task and one plain task, two attempts, two clients.  The     *)
(* requests are the commits of the runtime with the runtime's keys, one    *)
(* commit of two mutations, and one that reuses a key for another fact.    *)
(***************************************************************************)
EXTENDS DurableStore, TLC

CONSTANTS t1, t2, op, a1, a2, i1, p1, c1, c2

MCTasks == {t1, t2}
MCOperations == {op}
MCAttempts == {a1, a2}
MCIdentities == {i1}
MCPins == {p1}
MCClients == {c1, c2}

Effect == [task |-> t1, operation |-> op, pins |-> p1]
Plain == [task |-> t2, operation |-> None, pins |-> p1]
TheIntent == RecordIntent(op, [task |-> t1, semantics |-> "NonIdempotent"])

MCRequests ==
    {[key |-> <<"intent", op>>, mutations |-> <<TheIntent>>]}
      \cup {[key |-> <<"admit", a>>, mutations |-> <<AdmitAttempt(a, adm)>>] :
               a \in MCAttempts, adm \in {Effect, Plain}}
      \cup {[key |-> <<"dispatch", a>>, mutations |-> <<RecordDispatch(op, a)>>] : a \in MCAttempts}
      \cup {[key |-> <<"outcome", a>>, mutations |-> <<RecordOutcome(op, a, x)>>] :
               a \in MCAttempts, x \in KnownOutcome}
      \cup {[key |-> <<"cancel", t1>>,
             mutations |-> <<RecordCancellation(t1, [operation |-> op, attempt |-> None])>>]}
      \cup {[key |-> <<"completion", k, a>>, mutations |-> <<RecordCompletion(k, a)>>] :
               k \in MCTasks, a \in MCAttempts}
      \cup {[key |-> <<"both", a2>>,
             mutations |-> <<RecordDispatch(op, a2), RecordOutcome(op, a2, "Succeeded")>>]}

MCKeys == {r.key : r \in MCRequests}
Symmetry == Permutations(MCClients)
============================================================================
