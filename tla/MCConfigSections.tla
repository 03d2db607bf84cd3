-------------------------- MODULE MCConfigSections --------------------------
(* Instances of ConfigSections small enough for TLC.                       *)
EXTENDS ConfigSections
=============================================================================
