----------------------------- MODULE MCRuntime -----------------------------
(***************************************************************************)
(* Two tasks, one of them with the effect op, on one runtime.               *)
(***************************************************************************)
EXTENDS Runtime, TLC

CONSTANTS op, p1, p2, r1

MCTasks == {1, 2}
MCOperations == {op}
MCPins == {p1, p2}
OneRuntime == {r1}

Chain == [t \in MCTasks |-> IF t = 2 THEN {1} ELSE {}]     \* 2 depends on 1

With(semantics, pins) == [effect |-> [operation |-> op, semantics |-> semantics], pins |-> pins]
Plain(pins) == [effect |-> None, pins |-> pins]

\* The plain task first, then the effect: the host may prepare it earlier.
\* Either task may require either capability.
EffectLast ==
    [t \in MCTasks |-> {IF t = 2 THEN With("NonIdempotent", p) ELSE Plain(p) : p \in MCPins}]
IdempotentFirst == [t \in MCTasks |-> IF t = 1 THEN {With("Idempotent", p1)} ELSE {Plain(p1)}]

IdentitiesOf(choices) ==
    {f \in [MCTasks -> UNION {choices[t] : t \in MCTasks}] : \A t \in MCTasks : f[t] \in choices[t]}
EffectLastIds == IdentitiesOf(EffectLast)
IdempotentFirstIds == IdentitiesOf(IdempotentFirst)

PinSymmetry == Permutations(MCPins)

HostPrepares == {<<2, op, "NonIdempotent">>}

MCAttempts == 1..(MaxPerTask * 2)

MCKeys ==
    {<<"workflow-replay-identity">>}
      \cup {<<"intent", x>> : x \in MCOperations}
      \cup ({"admit", "dispatch", "outcome"} \X MCAttempts)
      \cup {<<"cancel", t>> : t \in MCTasks}
      \cup {<<"completion", t, a>> : t \in MCTasks, a \in MCAttempts}
      \cup {<<"workflow-identity", n, i>> : n \in 0..MaxRevision, i \in Identities}
============================================================================
