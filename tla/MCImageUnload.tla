---------------------------- MODULE MCImageUnload ----------------------------
(* Two libraries: libA has the game's hooks, a lock and a mutex; a callback of *)
(* libA lies in the code of libB.                                              *)
EXTENDS ImageUnload, TLC
CONSTANTS libA, libB, lock1, mutex1, call1, call2

MCLocksOf == (libA :> {lock1}) @@ (libB :> {})
MCMutexesOf == (libA :> {mutex1}) @@ (libB :> {})
MCCodeOf == (call1 :> libA) @@ (call2 :> libB)
MCDsoOf == (call1 :> libA) @@ (call2 :> libA)
Symmetry == Permutations(Guest)
=============================================================================
