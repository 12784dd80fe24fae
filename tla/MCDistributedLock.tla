--------------------------- MODULE MCDistributedLock ---------------------------
(* Instances of DistributedLock for TLC. *)
EXTENDS DistributedLock, TLC

ProcessSymmetry == Permutations(Processes)
================================================================================
