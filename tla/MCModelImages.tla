---------------------------- MODULE MCModelImages ----------------------------
(* ModelImages on a small instance. *)
EXTENDS ModelImages
=============================================================================
