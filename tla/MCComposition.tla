--------------------------- MODULE MCComposition ---------------------------
(* Instances of Composition for TLC: a composition of two modules, of which *)
(* the first in identifier order depends on the other, and one of none.     *)
EXTENDS Composition

CONSTANTS c1, c2, p1, p2, p3

MCModules == c1 :> {1, 2} @@ c2 :> {}
MCDependsOn == 1 :> {2} @@ 2 :> {}
MCPlugins == 1 :> <<p1, p2>> @@ 2 :> <<p3>>
============================================================================
