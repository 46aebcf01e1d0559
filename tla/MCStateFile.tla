---------------------------- MODULE MCStateFile ----------------------------
(* StateFile for TLC. *)
EXTENDS StateFile, TLC

Symmetry == Permutations(Inodes) \cup Permutations(Threads)
=============================================================================
