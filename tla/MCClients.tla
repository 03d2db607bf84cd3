------------------------------ MODULE MCClients -------------------------------
(***************************************************************************)
(* What remote and desktop clients see and ask for, in one run: the event  *)
(* stream of a remote browser; the same beside another browser; the leases *)
(* of the runtimes that Connector processes start; the prompts that the    *)
(* desktop has queued; and who may use the Relay, with two accounts and a  *)
(* restart, with two connections of a Device, with two browsers, or with   *)
(* two Devices.  This module extends the first of each.  In each behaviour *)
(* one of them moves, the one that SuiteInit chooses, and the others stay. *)
(***************************************************************************)
EXTENDS RemoteStream, OwnerLease, PromptQueue, RelayAccess

VARIABLE moves    \* what moves

Crowded == INSTANCE RemoteStream WITH MaxOthers <- 1, MaxFailures <- 0, MaxRefusals <- 0
Replacing == INSTANCE RelayAccess WITH
               Accounts <- {"a"}, MaxSessions <- 1, MaxConnectors <- 2, MaxRestarts <- 0
Listening == INSTANCE RelayAccess WITH
               Accounts <- {"a"}, MaxSessions <- 1, MaxClients <- 2, MaxRestarts <- 0
Paired == INSTANCE RelayAccess WITH MaxCodes <- 2, MaxConnectors <- 0
-----------------------------------------------------------------------------
SuiteInit ==
  /\ moves \in {"stream", "crowd", "lease", "prompts", "restarted", "replacing", "listening", "paired"}
  /\ Init /\ LeaseInit /\ PromptInit /\ AccessInit

SuiteNext ==
  /\ UNCHANGED moves
  /\ IF moves = "stream" THEN Next
     ELSE IF moves = "crowd" THEN Crowded!Next ELSE UNCHANGED vars
  /\ IF moves = "lease" THEN LeaseNext ELSE UNCHANGED leaseVars
  /\ IF moves = "prompts" THEN PromptNext ELSE UNCHANGED promptVars
  /\ IF moves = "restarted" THEN AccessNext
     ELSE IF moves = "replacing" THEN Replacing!AccessNext
     ELSE IF moves = "listening" THEN Listening!AccessNext
     ELSE IF moves = "paired" THEN Paired!AccessNext ELSE UNCHANGED accessVars

SuiteSpec ==
  SuiteInit /\ [][SuiteNext]_<<moves, vars, leaseVars, promptVars, accessVars>>
=============================================================================
