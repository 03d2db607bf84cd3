----------------------------- MODULE MCRemoteLive -----------------------------
(***************************************************************************)
(* What others can rely on in the end, in one run: the browser catches up  *)
(* with the event stream; and the commands of remote clients are answered. *)
(* This module extends both.  In each behaviour one of the two moves, the  *)
(* one that SuiteInit chooses, and the other stays as it is.               *)
(***************************************************************************)
EXTENDS RemoteStream, RemoteCommands

VARIABLE moves    \* what moves
-----------------------------------------------------------------------------
SuiteInit ==
  /\ moves \in {"stream", "commands"}
  /\ Init /\ CommandsInit

SuiteNext ==
  /\ UNCHANGED moves
  /\ IF moves = "stream" THEN Next ELSE UNCHANGED vars
  /\ IF moves = "commands" THEN CommandsNext ELSE UNCHANGED commandsVars

\* The fairness of RemoteStream and of RemoteCommands, for what moves.
StreamFairness ==
  /\ WF_vars(moves = "stream" /\ SendEvent) /\ WF_vars(moves = "stream" /\ RelayThread)
  /\ WF_vars(moves = "stream" /\ Relay) /\ WF_vars(moves = "stream" /\ Browser)

CommandsFairness ==
  /\ \A c \in Clients :
       /\ WF_commandsVars(moves = "commands" /\ ReceiveResponse(c))
       /\ WF_commandsVars(moves = "commands" /\ Reconnect(c))
       /\ WF_commandsVars(moves = "commands" /\ (Forward(c) \/ ForwardFails(c)))
  /\ WF_commandsVars(moves = "commands" /\ (AnswerAgain \/ Execute))
  /\ WF_commandsVars(moves = "commands" /\ Respond)

SuiteSpec ==
  /\ SuiteInit /\ [][SuiteNext]_<<moves, vars, commandsVars>>
  /\ StreamFairness /\ CommandsFairness
=============================================================================
