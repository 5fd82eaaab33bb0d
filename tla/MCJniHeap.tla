----------------------------- MODULE MCJniHeap -----------------------------
(* Small instances of JniHeap for TLC. *)
EXTENDS JniHeap, TLC

Symmetry ==
  Permutations(Threads) \cup Permutations(Objects) \cup Permutations(Handles)
=============================================================================
