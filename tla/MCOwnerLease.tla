---------------------------- MODULE MCOwnerLease ----------------------------
(* Instances of OwnerLease small enough for TLC.                           *)
EXTENDS OwnerLease, TLC

Symmetry == Permutations(Pids) \cup Permutations(Projects)
=============================================================================
