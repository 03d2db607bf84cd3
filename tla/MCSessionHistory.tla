-------------------------- MODULE MCSessionHistory --------------------------
(* Instances of SessionHistory small enough for TLC.                       *)
EXTENDS SessionHistory, TLC

Symmetry == Permutations(Tags) \cup Permutations(Files) \cup Permutations(Contents)
=============================================================================
