---------------------------- MODULE MCSyncTable ----------------------------
(* Small instances of SyncTable for TLC. *)
EXTENDS SyncTable, TLC

Symmetry == Permutations(Threads)
=============================================================================
