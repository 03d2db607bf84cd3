-------------------------------- MODULE MCTeam --------------------------------
(***************************************************************************)
(* Teammates in one run: the messages between lead and teammates, with two *)
(* requests, or with one request and one other message, and the teammates  *)
(* of the sessions that become active, which this module extends; and who  *)
(* works on which task.  In each behaviour one of the four moves, the one  *)
(* that SuiteInit chooses, and the others stay as they are.                *)
(***************************************************************************)
EXTENDS TeamMessages, TeamSessions

\* All teammates are in one session.
WorkersInFirst == [w \in Workers |-> First]
MembersInFirst == [m \in Members |-> First]

VARIABLES
  moves,    \* what moves
  task, taskStatus, taskReason, taskStop, inbox, log, taskThread, taskMember, point, left, reminded, pick,
  assigning, taskLead

taskVars == <<task, taskStatus, taskReason, taskStop, inbox, log, taskThread, taskMember, point, left,
              reminded, pick, assigning, taskLead>>

Letters == INSTANCE TeamMessages WITH MaxMessages <- 1, MaxRequests <- 1
Work == INSTANCE TeamTasks WITH
          status <- taskStatus, reason <- taskReason, stop <- taskStop, registered <- taskThread,
          member <- taskMember, at <- point, logs <- log, told <- reminded, doing <- assigning, lead <- taskLead,
          NumMembers <- 1, NumTasks <- 2, Blockers <- [t \in 1..2 |-> 1..(t - 1)],
          Preferred <- [t \in 1..2 |-> 0], MaxAgentRounds <- 1, MaxPolls <- 1, MaxThreads <- 3,
          MaxSpawns <- 2, MaxStops <- 1
-----------------------------------------------------------------------------
SuiteInit ==
  /\ moves \in {"tasks", "requests", "letters", "rows"}
  /\ Init /\ TeamInit /\ Work!TasksInit

SuiteNext ==
  /\ UNCHANGED moves
  /\ IF moves = "requests" THEN Next
     ELSE IF moves = "letters" THEN Letters!Next ELSE UNCHANGED vars
  /\ IF moves = "rows" THEN TeamNext ELSE UNCHANGED teamVars
  /\ IF moves = "tasks" THEN Work!TasksNext ELSE UNCHANGED taskVars

\* The fairness of TeamTasks, if it moves.
SuiteSpec ==
  /\ SuiteInit /\ [][SuiteNext]_<<moves, vars, teamVars, taskVars>>
  /\ WF_taskVars(moves = "tasks" /\ Work!AssignStep(Work!Lead))
  /\ \A w \in Work!TaskThreads : WF_taskVars(moves = "tasks" /\ Work!ThreadStep(w))
-----------------------------------------------------------------------------
\* The property of the tasks, stated in their module.
OwnersAreTold == Work!OwnersAreTold
=============================================================================
