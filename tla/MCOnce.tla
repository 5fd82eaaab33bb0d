------------------------------ MODULE MCOnce -------------------------------
(* A small instance of Once for TLC: the initialiser of a may call once on *)
(* b, never the reverse.                                                   *)
EXTENDS Once

CONSTANTS a, b

MCControls == {a, b}
MCMayNest == {<<a, b>>}
=============================================================================
