--------------------------- MODULE MCRemoteStream ---------------------------
(* Instances of RemoteStream small enough for TLC.                         *)
EXTENDS RemoteStream
=============================================================================
