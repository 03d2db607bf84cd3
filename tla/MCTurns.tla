------------------------------- MODULE MCTurns -------------------------------
(***************************************************************************)
(* Turns in one run: those of the turn host, the rounds of the agent loop, *)
(* the prompts of the terminal, and a turn of the desktop sidecar with its *)
(* event clients.  This module extends all four; in each behaviour one of  *)
(* them moves, the one SuiteInit chooses, and the others stay as they are. *)
(***************************************************************************)
EXTENDS TurnHost, AgentLoop, ReplQueue, Sidecar

VARIABLE moves    \* what moves
-----------------------------------------------------------------------------
SuiteInit ==
  /\ moves \in {"host", "loop", "sidecar", "repl"}
  /\ Init /\ LoopInit /\ SidecarInit /\ ReplInit

SuiteNext ==
  /\ UNCHANGED moves
  /\ IF moves = "host" THEN Next ELSE UNCHANGED vars
  /\ IF moves = "loop" THEN LoopNext ELSE UNCHANGED loopVars
  /\ IF moves = "sidecar" THEN SidecarNext ELSE UNCHANGED sidecarVars
  /\ IF moves = "repl" THEN ReplNext ELSE UNCHANGED replVars

\* The fairness of TurnHost and of AgentLoop, for what moves.
SuiteSpec ==
  /\ SuiteInit /\ [][SuiteNext]_<<moves, vars, loopVars, sidecarVars, replVars>>
  /\ \A t \in Turns : WF_vars(moves = "host" /\ TurnStep(t))
  /\ WF_loopVars(moves = "loop" /\ Loop)
=============================================================================
