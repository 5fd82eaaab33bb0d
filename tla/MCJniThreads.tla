--------------------------- MODULE MCJniThreads ----------------------------
(* Small instances of JniThreads for TLC. *)
EXTENDS JniThreads, TLC

Symmetry == Permutations(Threads)
=============================================================================
