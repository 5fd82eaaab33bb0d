---------------------------- MODULE MCAudioFeed ----------------------------
(* Small instances of AudioFeed for TLC. *)
EXTENDS AudioFeed, TLC

Symmetry == Permutations(Threads)
=============================================================================
