-------------------------- MODULE MCContextJanitor --------------------------
(* Instances of ContextJanitor small enough for TLC.                       *)
EXTENDS ContextJanitor
=============================================================================
