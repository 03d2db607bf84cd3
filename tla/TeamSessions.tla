---------------------------- MODULE TeamSessions ----------------------------
(***************************************************************************)
(* Teammates and the session that is active: activate_session,             *)
(* _restore_state and the threads of TeammateRuntimeManager                *)
(* (runtime/teammate.py), in one runtime.                                  *)
(*                                                                         *)
(* A turn makes its session the active one.  The members of the other      *)
(* sessions are suspended and their threads told to stop; those of the     *)
(* session that were running, suspended, or out of time with a task left   *)
(* are started again from their logs.  Members are rows of a team file     *)
(* that outlives the process; threads do not.  Every update of the file is *)
(* done under the lock of the manager, and is one step here.               *)
(***************************************************************************)
EXTENDS Integers, FiniteSets

CONSTANTS ProjectSessions, Members,
          MemberSession, \* the session of each member
          MaxThreads,    \* bound: threads started
          MaxRestarts,   \* bound: times the process is stopped and started
          MaxCalls       \* bound: interrupts, refreshes of the thread health, changes of tasks

NoActive == "none"
Threads == 1..MaxThreads
Active == {"starting", "working", "idle"}   \* ACTIVE_STATUSES

VARIABLES
  activeSession, \* _active_session_id
  status,        \* of each member in its team file
  reason,        \* shutdown_reason
  prompted,      \* members whose log has the prompt they were spawned with
  owns,          \* members that own an open task
  stopReason,    \* reason of the stop requested of a member (_stop_events, _stop_reasons)
  registered,    \* TeammateRuntimeManager.threads
  member,        \* whose thread it is
  at,            \* where the thread is
  why,           \* the reason with which the thread is about to end
  lead,          \* where the caller of the manager is, and the members it still has to start
  used           \* how often the bounded calls have been made

fileVars == <<status, reason, prompted, owns>>
threadVars == <<member, at, why>>
teamVars == <<activeSession, fileVars, stopReason, registered, threadVars, lead, used>>

NoStop == "no"
NoThread == 0
Free == [step |-> "none", start |-> {}, thread |-> NoThread]

TeamInit ==
  /\ activeSession = NoActive
  /\ status = [m \in Members |-> "absent"]
  /\ reason = [m \in Members |-> "none"]
  /\ prompted = {} /\ owns = {}
  /\ stopReason = [m \in Members |-> NoStop]
  /\ registered = [m \in Members |-> NoThread]
  /\ member = [w \in Threads |-> "none"]
  /\ at = [w \in Threads |-> "none"]
  /\ why = [w \in Threads |-> "none"]
  /\ lead = Free
  /\ used = [restarts |-> 0, calls |-> 0]

Live == {w \in Threads : at[w] \notin {"none", "dead"}}
CallerStep(s) == lead' = [lead EXCEPT !.step = s]
-----------------------------------------------------------------------------
(* activate_session                                                        *)

\* At the start of a turn of session s; nothing to do when it is active already.
ActivateSession(s) ==
  /\ lead.step = "none" /\ activeSession # s
  /\ activeSession' = s
  /\ CallerStep("suspend")
  /\ UNCHANGED <<fileVars, stopReason, registered, threadVars, used>>

\* plausible bug: only members with a thread of this process are suspended
RunningElsewhere(m) == MemberSession[m] # activeSession /\ status[m] \in Active /\ registered[m] # NoThread

ActiveElsewhere(m) == MemberSession[m] # activeSession /\ status[m] \in Active

SuspendNonSessionMembers ==
  /\ lead.step = "suspend"
  /\ stopReason' = [m \in Members |-> IF ActiveElsewhere(m) THEN "session_not_active" ELSE stopReason[m]]
  /\ status' = [m \in Members |-> IF ActiveElsewhere(m) THEN "suspended" ELSE status[m]]
  /\ reason' = [m \in Members |-> IF ActiveElsewhere(m) THEN "session_not_active" ELSE reason[m]]
  /\ CallerStep("restore")
  /\ UNCHANGED <<activeSession, prompted, owns, registered, threadVars, used>>

Restorable(m) ==
  /\ MemberSession[m] = activeSession
  /\ \/ status[m] \in Active
     \/ status[m] = "suspended" /\ reason[m] = "session_not_active"
     \/ status[m] = "shutdown" /\ reason[m] = "idle_timeout" /\ m \in owns

\* A member whose log has no prompt cannot be resumed.
RestoreState ==
  LET resumed == {m \in Members : Restorable(m) /\ m \in prompted}
      stale == {m \in Members : Restorable(m) /\ m \notin prompted}
  IN /\ lead.step = "restore"
     /\ status' = [m \in Members |-> IF m \in resumed THEN "starting"
                                     ELSE IF m \in stale THEN "shutdown" ELSE status[m]]
     /\ reason' = [m \in Members |-> IF m \in resumed THEN "none"
                                     ELSE IF m \in stale THEN "runtime_restarted" ELSE reason[m]]
     /\ lead' = [Free EXCEPT !.step = IF resumed = {} THEN "none" ELSE "start", !.start = resumed]
     /\ UNCHANGED <<activeSession, prompted, owns, stopReason, registered, threadVars, used>>

\* _start_thread: the request to stop is forgotten, whatever thread it was meant for.
StartThread(m) ==
  LET unused == {w \in Threads : at[w] = "none"}
      w == CHOOSE x \in unused : \A y \in unused : x <= y
  IN /\ lead.step = "start" /\ m \in lead.start /\ unused # {}
     /\ stopReason' = [stopReason EXCEPT ![m] = NoStop]
     /\ member' = [member EXCEPT ![w] = m]
     /\ at' = [at EXCEPT ![w] = "boot"]
     /\ lead' = [step |-> "register", start |-> lead.start \ {m}, thread |-> w]
     /\ UNCHANGED <<activeSession, fileVars, registered, why, used>>

RegisterThread ==
  /\ lead.step = "register"
  /\ registered' = [registered EXCEPT ![member[lead.thread]] = lead.thread]
  /\ lead' = [Free EXCEPT !.step = IF lead.start = {} THEN "none" ELSE "start",
                          !.start = lead.start]
  /\ UNCHANGED <<activeSession, fileVars, stopReason, threadVars, used>>
-----------------------------------------------------------------------------
(* The lead, and what else calls the manager.                              *)

\* spawn: the row of the member, then its log, then its thread.
Spawn(m) ==
  /\ lead.step = "none" /\ MemberSession[m] = activeSession
  /\ status[m] \in {"absent", "idle", "shutdown", "suspended"}
  /\ status' = [status EXCEPT ![m] = "starting"]
  /\ reason' = [reason EXCEPT ![m] = "none"]
  /\ lead' = [Free EXCEPT !.step = "log", !.start = {m}]
  /\ UNCHANGED <<activeSession, prompted, owns, stopReason, registered, threadVars, used>>

ResetLog ==
  /\ lead.step = "log"
  /\ prompted' = prompted \cup lead.start
  /\ CallerStep("start")
  /\ UNCHANGED <<activeSession, status, reason, owns, stopReason, registered, threadVars, used>>

Exited(m) == registered[m] # NoThread /\ at[registered[m]] = "dead" /\ status[m] # "shutdown"

\* _refresh_thread_health, of the members of all sessions
RefreshThreadHealth ==
  /\ status' = [m \in Members |-> IF Exited(m) THEN "shutdown" ELSE status[m]]
  /\ reason' = [m \in Members |-> IF Exited(m) /\ reason[m] = "none" THEN "thread_exited"
                                  ELSE reason[m]]

\* The listing of the members, and an assignment that finds nobody.
ListMembers ==
  /\ lead.step = "none" /\ used.calls < MaxCalls
  /\ used' = [used EXCEPT !.calls = @ + 1]
  /\ RefreshThreadHealth
  /\ UNCHANGED <<activeSession, prompted, owns, stopReason, registered, threadVars, lead>>

\* interrupt_active: it leaves the status alone.
InterruptActive ==
  /\ used.calls < MaxCalls
  /\ used' = [used EXCEPT !.calls = @ + 1]
  /\ RefreshThreadHealth
  /\ stopReason' = [m \in Members |-> IF registered[m] \in Live /\ status'[m] # "shutdown"
                                THEN "lead_interrupt" ELSE stopReason[m]]
  /\ UNCHANGED <<activeSession, prompted, owns, registered, threadVars, lead>>

\* A task of the member is assigned, or completed.
TaskChanges(m) ==
  /\ status[m] # "absent" /\ used.calls < MaxCalls
  /\ used' = [used EXCEPT !.calls = @ + 1]
  /\ owns' = IF m \in owns THEN owns \ {m} ELSE owns \cup {m}
  /\ UNCHANGED <<activeSession, status, reason, prompted, stopReason, registered, threadVars, lead>>
-----------------------------------------------------------------------------
(* _loop, of the thread w                                                  *)

Goes(w, to) == at' = [at EXCEPT ![w] = to]

\* _update_member
Writes(w, s) == status' = [status EXCEPT ![member[w]] = s]

Boot(w) ==
  /\ at[w] = "boot" /\ Goes(w, "check")
  /\ stopReason' = [stopReason EXCEPT ![member[w]] = NoStop]
  /\ Writes(w, "working")
  /\ UNCHANGED <<activeSession, reason, prompted, owns, registered, member, why, lead, used>>

\* Between two looks at the request to stop: the member works, or polls.
GoOn(w) ==
  /\ at[w] = "check" /\ stopReason[member[w]] = NoStop /\ Goes(w, "update")
  /\ UNCHANGED <<activeSession, fileVars, stopReason, registered, member, why, lead, used>>

Update(w) ==
  /\ at[w] = "update" /\ Goes(w, "check")
  /\ \E s \in {"working", "idle"} : Writes(w, s)
  /\ UNCHANGED <<activeSession, reason, prompted, owns, stopReason, registered, member, why, lead, used>>

Leaves(w, because) ==
  /\ Goes(w, "leave")
  /\ why' = [why EXCEPT ![w] = because]
  /\ UNCHANGED <<activeSession, fileVars, registered, member, lead, used>>

\* _shutdown_if_stop_requested, first half: the reason is read.
StopRequested(w) ==
  /\ at[w] = "check" /\ stopReason[member[w]] # NoStop
  /\ Leaves(w, stopReason[member[w]]) /\ UNCHANGED stopReason

\* _handle_control_message
ShutdownRequest(w) ==
  /\ at[w] = "check"
  /\ stopReason' = [stopReason EXCEPT ![member[w]] = "shutdown_request"]
  /\ Leaves(w, "shutdown_request")

\* The idle time is used up and the member owns nothing; or what the loop raises.
IdleTimeout(w) ==
  /\ at[w] = "check" /\ status[member[w]] = "idle" /\ member[w] \notin owns
  /\ Leaves(w, "idle_timeout") /\ UNCHANGED stopReason

RuntimeError(w) ==
  /\ at[w] \in {"check", "update"} /\ stopReason[member[w]] = NoStop
  /\ Leaves(w, "runtime_error") /\ UNCHANGED stopReason

\* The last update of the thread.
Leave(w) ==
  /\ at[w] = "leave" /\ Goes(w, "over")
  /\ Writes(w, IF why[w] = "session_not_active" THEN "suspended" ELSE "shutdown")
  /\ reason' = [reason EXCEPT ![member[w]] = why[w]]
  /\ UNCHANGED <<activeSession, prompted, owns, stopReason, registered, member, why, lead, used>>

Die(w) ==
  /\ at[w] = "over" /\ Goes(w, "dead")
  /\ why' = [why EXCEPT ![w] = "none"]
  /\ UNCHANGED <<activeSession, fileVars, stopReason, registered, member, lead, used>>
-----------------------------------------------------------------------------
\* The process stops, wherever it is, and starts again.
Restart ==
  /\ used.restarts < MaxRestarts
  /\ used' = [used EXCEPT !.restarts = @ + 1]
  /\ activeSession' = NoActive
  /\ stopReason' = [m \in Members |-> NoStop]
  /\ registered' = [m \in Members |-> NoThread]
  /\ at' = [w \in Threads |-> IF at[w] = "none" THEN "none" ELSE "dead"]
  /\ lead' = Free
  /\ why' = [w \in Threads |-> "none"]
  /\ UNCHANGED <<fileVars, member>>

ThreadStep(w) ==
  \/ Boot(w) \/ GoOn(w) \/ Update(w) \/ StopRequested(w) \/ ShutdownRequest(w)
  \/ IdleTimeout(w) \/ RuntimeError(w) \/ Leave(w) \/ Die(w)

TeamNext ==
  \/ \E s \in ProjectSessions : ActivateSession(s)
  \/ SuspendNonSessionMembers \/ RestoreState \/ RegisterThread \/ ResetLog
  \/ \E m \in Members : StartThread(m) \/ Spawn(m) \/ TaskChanges(m)
  \/ ListMembers \/ InterruptActive \/ Restart
  \/ \E w \in Threads : ThreadStep(w)

TeamSpec == TeamInit /\ [][TeamNext]_teamVars
-----------------------------------------------------------------------------
\* A member said to be running is running: once a session is active, and nothing
\* is being restored or spawned, each member that its team file calls starting,
\* working or idle has a thread.  The file may come from a process that was stopped
\* anywhere, two threads of one member may write to it, and a late thread may write
\* after its member was suspended or restored.
ActiveHasThread ==
  activeSession # NoActive /\ lead.step = "none" =>
    \A m \in Members : status[m] \in Active => \E w \in Live : member[w] = m
=============================================================================
