--------------------------- MODULE MCAsyncDriver ---------------------------
(* Instances of AsyncDriver for TLC. *)
EXTENDS AsyncDriver, TLC

\* Clients are interchangeable.
ClientSymmetry == Permutations(Clients)
============================================================================
