---------------------------- MODULE MCStoreLock ----------------------------
(* StoreLock for TLC: every process may signal every other one. *)
EXTENDS StoreLock, TLC

AllPairs == Procs \X Procs
Symmetry == Permutations(Procs)
============================================================================
