------------------------- MODULE MCCapabilityScope -------------------------
(* Instances of CapabilityScope for TLC. *)
EXTENDS CapabilityScope, TLC

CONSTANTS root, inner

RootAndChild == (root :> <<root>>) @@ (inner :> <<inner, root>>)

D(c, dependencies) == [id |-> c, dependencies |-> dependencies]

\* What is built on 3 or not (1), what is built on that (2), and a provider 3
\* that stands alone or closes the circle.
Ring == {D(1, {}), D(1, {3}), D(2, {1}), D(3, {}), D(3, {2})}

RingAndChild == (root :> Ring) @@ (inner :> {D(3, {2})})

PublisherSymmetry == Permutations(Publishers)
=============================================================================
