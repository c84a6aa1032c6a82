--------------------------- MODULE EffectContract ---------------------------
(***************************************************************************)
(* What the runtime promises of external effects, without stores, views,   *)
(* attempts or restarts.  A task may own one operation.  An operation is   *)
(* prepared, then dispatched, then its outcome is known.  The host may be  *)
(* told to run it only while it is dispatched with an unknown outcome; a   *)
(* non-idempotent operation is run at most once; a cancelled task is not   *)
(* dispatched any more; a task completes after its dependencies and, when  *)
(* it owns an operation, after that operation's success.                   *)
(***************************************************************************)
EXTENDS Naturals

CONSTANTS Tasks, Operations, Deps, None

Status == {"NotPrepared", "Prepared", "OutcomeUnknown", "Succeeded", "Failed"}

VARIABLES
    owner,       \* operation -> [task, semantics], or None
    status,      \* operation -> Status
    executions,  \* operation -> how often the host was told to run it
    cancelled,   \* cancelled tasks
    done         \* completed tasks

vars == <<owner, status, executions, cancelled, done>>

Init ==
    /\ owner = [o \in Operations |-> None]
    /\ status = [o \in Operations |-> "NotPrepared"]
    /\ executions = [o \in Operations |-> 0]
    /\ cancelled = {}
    /\ done = {}

Prepare(o, t, semantics) ==
    /\ status[o] = "NotPrepared"
    /\ \A p \in Operations : owner[p] # None => owner[p].task # t
    /\ owner' = [owner EXCEPT ![o] = [task |-> t, semantics |-> semantics]]
    /\ status' = [status EXCEPT ![o] = "Prepared"]
    /\ UNCHANGED <<executions, cancelled, done>>

MayDispatch(o) ==
    /\ \/ status[o] = "Prepared"
       \/ status[o] = "OutcomeUnknown" /\ owner[o].semantics = "Idempotent"
    /\ owner[o].task \notin cancelled

MayRun(o) == owner[o].semantics = "NonIdempotent" => executions[o] = 0

Run(o) == executions' = [executions EXCEPT ![o] = @ + 1]

\* The dispatch becomes durable; the host is told in the same step, or later.
Dispatch(o) ==
    /\ MayDispatch(o)
    /\ status' = [status EXCEPT ![o] = "OutcomeUnknown"]
    /\ (MayRun(o) /\ Run(o)) \/ UNCHANGED executions
    /\ UNCHANGED <<owner, cancelled, done>>

\* The host is told to run an operation whose dispatch is already durable.
Execute(o) ==
    /\ status[o] = "OutcomeUnknown"
    /\ MayRun(o)
    /\ Run(o)
    /\ UNCHANGED <<owner, status, cancelled, done>>

Observe(o, x) ==
    /\ status[o] = "OutcomeUnknown"
    /\ status' = [status EXCEPT ![o] = x]
    /\ UNCHANGED <<owner, executions, cancelled, done>>

Cancel(t) ==
    /\ cancelled' = cancelled \cup {t}
    /\ UNCHANGED <<owner, status, executions, done>>

Complete(t) ==
    /\ t \notin done
    /\ Deps[t] \subseteq done
    /\ \A o \in Operations :
          owner[o] # None /\ owner[o].task = t => status[o] = "Succeeded"
    /\ done' = done \cup {t}
    /\ UNCHANGED <<owner, status, executions, cancelled>>

Next ==
    \/ \E o \in Operations, t \in Tasks, s \in {"Idempotent", "NonIdempotent"} : Prepare(o, t, s)
    \/ \E o \in Operations : Dispatch(o) \/ Execute(o)
    \/ \E o \in Operations, x \in {"Succeeded", "Failed"} : Observe(o, x)
    \/ \E t \in Tasks : Cancel(t) \/ Complete(t)

Spec == Init /\ [][Next]_vars
============================================================================
