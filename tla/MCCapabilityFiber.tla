------------------------- MODULE MCCapabilityFiber -------------------------
(* Instances of CapabilityFiber for TLC. *)
EXTENDS CapabilityFiber, TLC

CONSTANTS home

OneScope == (home :> <<home>>)

D(c, dependencies) == [id |-> c, dependencies |-> dependencies]

\* A host provides 1; a fiber builds 2 on it, and another one 3 on 2.  The
\* dependent is created first.
HostDefinitions == (home :> {D(1, {})})
Chain == <<D(3, {2}), D(2, {1})>>
=============================================================================
