----------------------------- MODULE TeamTasks -----------------------------
(***************************************************************************)
(* Teammates and the tasks they own: TeammateRuntimeManager                *)
(* (runtime/teammate.py) over the task store and the inboxes, in one       *)
(* session.                                                                *)
(*                                                                         *)
(* A teammate is a member of the team file and, while it runs, a thread    *)
(* that works, goes idle, polls and at last times out.  The lead spawns    *)
(* teammates and creates a batch of tasks.  Whoever completes a task, or   *)
(* creates one, assigns what has become claimable; several may do so at    *)
(* once.  A call of the task store is one step here: what its reads and    *)
(* writes do to each other is the subject of TaskBoard.                    *)
(***************************************************************************)
EXTENDS Integers, Sequences, FiniteSets

CONSTANTS NumMembers,    \* teammates, in the order of the team file
          NumTasks,      \* tasks of the batch, in the order of their ids
          Blockers,      \* blockedBy of each task
          Preferred,     \* preferred_owner of each task, or Nobody
          MaxAgentRounds, \* max_agent_rounds
          MaxPolls,      \* idle timeout / poll interval
          MaxThreads,    \* bound: threads begun
          MaxSpawns,     \* bound: calls of spawn
          MaxStops       \* bound: interrupts and shutdown requests

Teammates == 1..NumMembers
Tasks == 1..NumTasks
TaskThreads == 1..MaxThreads
Nobody == 0
Lead == 0
Assigners == {Lead} \cup TaskThreads

ASSUME TasksAssumption ==
  /\ NumMembers \in Nat /\ NumTasks \in Nat
  /\ Blockers \in [Tasks -> SUBSET Tasks] /\ Preferred \in [Tasks -> Teammates \cup {Nobody}]
  /\ MaxAgentRounds \in Nat /\ MaxPolls \in Nat \ {0}
  /\ MaxThreads \in Nat /\ MaxSpawns \in Nat /\ MaxStops \in Nat

VARIABLES
  task,        \* status and owner of each task file
  status,      \* of each member
  reason,      \* shutdown_reason of each member
  stop,        \* reason of a stop that is requested (_stop_events, _stop_reasons)
  inbox,       \* of each member
  logs,        \* tasks that the log of each member tells of
  registered,  \* TeammateRuntimeManager.threads
  member,      \* whose thread it is
  at,          \* where the thread is
  left,        \* rounds or polls left to it
  told,        \* tasks its conversation tells of
  pick,        \* the task it is about to claim
  doing,       \* where each actor is in assign_claimable_tasks or _start_thread
  lead         \* what the user and the lead did

memberVars == <<status, reason, stop, logs, registered>>
threadVars == <<member, at, left, told, pick>>
tasksVars == <<task, inbox, memberVars, threadVars, doing, lead>>

NoStop == "no"
Shutdown == 0   \* the message shutdown_request; the others are the tasks assigned
Ended == {"dead", "failed"}   \* a thread that the provider's failure ended is kept apart
Live == {w \in TaskThreads : at[w] \notin Ended \cup {"none"}}

NoOp == [step |-> "none", tasks |-> {}, free |-> {}, resume |-> {}, for |-> Nobody,
         task |-> 0, thread |-> 0, back |-> "none"]

TasksInit ==
  /\ task = [t \in Tasks |-> [status |-> "absent", owner |-> Nobody]]
  /\ status = [m \in Teammates |-> "none"]
  /\ reason = [m \in Teammates |-> "none"]
  /\ stop = [m \in Teammates |-> NoStop]
  /\ inbox = [m \in Teammates |-> <<>>]
  /\ logs = [m \in Teammates |-> {}]
  /\ registered = [m \in Teammates |-> 0]
  /\ member = [w \in TaskThreads |-> Nobody]
  /\ at = [w \in TaskThreads |-> "none"]
  /\ left = [w \in TaskThreads |-> 0]
  /\ told = [w \in TaskThreads |-> {}]
  /\ pick = [w \in TaskThreads |-> 0]
  /\ doing = [a \in Assigners |-> NoOp]
  /\ lead = [spawns |-> 0, stops |-> 0]
-----------------------------------------------------------------------------
(* The task store.                                                         *)

Least(S) == CHOOSE x \in S : \A y \in S : x <= y

Blocked(t) == \E b \in Blockers[t] : task[b].status # "completed"

Claimable(t) == task[t].status = "pending" /\ task[t].owner = Nobody /\ ~Blocked(t)

\* list_owned_open
Open(m) == {t \in Tasks : task[t].owner = m /\ task[t].status \in {"pending", "in_progress"}}

\* list_claimable_for: what prefers m first, then what prefers nobody.
ClaimableFor(m) ==
  LET mine == {t \in Tasks : Claimable(t) /\ Preferred[t] = m}
  IN IF mine # {} THEN mine ELSE {t \in Tasks : Claimable(t) /\ Preferred[t] = Nobody}

\* claim raises for these, whoever owns the task.
CannotClaim(t) == task[t].status = "completed" \/ Blocked(t)

ClaimFor(t, m) == task' = [task EXCEPT ![t] = [status |-> "in_progress", owner |-> m]]
-----------------------------------------------------------------------------
(* Threads begin and end.                                                  *)

BeginAssigning(a, step) == doing' = [doing EXCEPT ![a] = [NoOp EXCEPT !.step = step]]

\* spawn, up to the start of the thread; an idle member may be spawned again.
Spawn(m) ==
  /\ doing[Lead].step = "none" /\ lead.spawns < MaxSpawns
  /\ status[m] \in {"none", "idle", "shutdown"}
  /\ lead' = [lead EXCEPT !.spawns = @ + 1]
  /\ status' = [status EXCEPT ![m] = "starting"]
  /\ reason' = [reason EXCEPT ![m] = "none"]
  /\ logs' = [logs EXCEPT ![m] = {}]
  /\ doing' = [doing EXCEPT ![Lead] = [NoOp EXCEPT !.step = "start", !.for = m]]
  /\ UNCHANGED <<task, inbox, stop, registered, threadVars>>

\* _start_thread: a resumed thread has the conversation of the log.
StartThread(a) ==
  LET m == doing[a].for
      unused == {w \in TaskThreads : at[w] = "none"}
      w == Least(unused)
  IN /\ doing[a].step = "start" /\ unused # {}
     /\ stop' = [stop EXCEPT ![m] = NoStop]
     /\ member' = [member EXCEPT ![w] = m]
     /\ at' = [at EXCEPT ![w] = "boot"]
     /\ told' = [told EXCEPT ![w] = logs[m]]
     /\ doing' = [doing EXCEPT ![a].step = "register", ![a].thread = w]
     /\ UNCHANGED <<task, inbox, status, reason, logs, registered, left, pick, lead>>

\* The end of _start_thread; an assignment goes on with its next task.
RegisterThread(a) ==
  /\ doing[a].step = "register"
  /\ registered' = [registered EXCEPT ![doing[a].for] = doing[a].thread]
  /\ doing' = [doing EXCEPT ![a].step = doing[a].back, ![a].thread = 0]
  /\ UNCHANGED <<task, inbox, status, reason, stop, logs, threadVars, lead>>

\* The beginning of _loop: the request to stop is reset once more.
Boot(w) ==
  /\ at[w] = "boot"
  /\ at' = [at EXCEPT ![w] = "round"]
  /\ left' = [left EXCEPT ![w] = MaxAgentRounds]
  /\ stop' = [stop EXCEPT ![member[w]] = NoStop]
  /\ status' = [status EXCEPT ![member[w]] = "working"]
  /\ UNCHANGED <<task, inbox, reason, logs, registered, member, told, pick, doing, lead>>

Die(w, why) ==
  /\ at' = [at EXCEPT ![w] = "dead"]
  /\ status' = [status EXCEPT ![member[w]] = "shutdown"]
  /\ reason' = [reason EXCEPT ![member[w]] = why]

\* _shutdown_if_stop_requested, wherever the loop looks: before a round, after the
\* model has answered, while it waits for a poll.
ShutDownIfStopRequested(w) ==
  /\ at[w] = "model" \/ (at[w] \in {"round", "poll"} /\ left[w] > 0)
  /\ stop[member[w]] # NoStop
  /\ Die(w, stop[member[w]])
  /\ UNCHANGED <<task, inbox, stop, logs, registered, member, left, told, pick, doing, lead>>
-----------------------------------------------------------------------------
(* The work loop of a teammate.                                            *)

GoesOn(w) == stop[member[w]] = NoStop

\* The inbox is drained: a shutdown request ends the thread, whatever comes after
\* it is lost.  Otherwise the conversation and the log tell of the messages.
ReadInbox(w, next, rounds) ==
  LET m == member[w]
      ends == {i \in DOMAIN inbox[m] : inbox[m][i] = Shutdown}
      seen == IF ends = {} THEN Len(inbox[m]) ELSE Least(ends) - 1
      tasks == {inbox[m][i] : i \in 1..seen}
  IN /\ inbox' = [inbox EXCEPT ![m] = <<>>]
     /\ told' = [told EXCEPT ![w] = @ \cup tasks]
     /\ logs' = [logs EXCEPT ![m] = @ \cup tasks]
     /\ IF ends = {}
        THEN /\ at' = [at EXCEPT ![w] = next]
             /\ status' = [status EXCEPT ![m] = "working"]
             /\ left' = [left EXCEPT ![w] = rounds]
             /\ UNCHANGED <<stop, reason>>
        ELSE /\ Die(w, "shutdown_request")
             /\ stop' = [stop EXCEPT ![m] = "shutdown_request"]
             /\ UNCHANGED left
     /\ UNCHANGED <<task, registered, member, pick, doing, lead>>

BeginRound(w) == at[w] = "round" /\ left[w] > 0 /\ GoesOn(w) /\ ReadInbox(w, "model", left[w])

\* The rounds are used up, or the model calls no tool, or idle.
Settle(w) ==
  /\ (at[w] = "round" /\ left[w] = 0) \/ (at[w] = "model" /\ GoesOn(w))
  /\ at' = [at EXCEPT ![w] = "poll"]
  /\ left' = [left EXCEPT ![w] = MaxPolls]
  /\ status' = [status EXCEPT ![member[w]] = "idle"]
  /\ UNCHANGED <<task, inbox, reason, stop, logs, registered, member, told, pick, doing, lead>>

\* complete raises when the provider has failed for good. The thread ends, and its member
\* keeps what it owns.
ModelFails(w) ==
  /\ at[w] = "model" /\ GoesOn(w)
  /\ at' = [at EXCEPT ![w] = "failed"]
  /\ status' = [status EXCEPT ![member[w]] = "shutdown"]
  /\ reason' = [reason EXCEPT ![member[w]] = "runtime_error"]
  /\ UNCHANGED <<task, inbox, stop, logs, registered, member, left, told, pick, doing, lead>>

EndRound(w, next) ==
  /\ at[w] = "model" /\ GoesOn(w)
  /\ at' = [at EXCEPT ![w] = next]
  /\ left' = [left EXCEPT ![w] = @ - 1]
  /\ UNCHANGED <<inbox, status, reason, stop, registered, member, pick, lead>>

\* A tool that has nothing to do with tasks, or a call that fails.
OtherTool(w) == EndRound(w, "round") /\ UNCHANGED <<task, logs, told, doing>>

\* claim_task, of a task the model knows from the listing.
ClaimTool(w, t) ==
  /\ EndRound(w, "round")
  /\ task[t].status # "absent" /\ ~CannotClaim(t)
  /\ ClaimFor(t, member[w])
  /\ told' = [told EXCEPT ![w] = @ \cup {t}]
  /\ logs' = [logs EXCEPT ![member[w]] = @ \cup {t}]
  /\ UNCHANGED doing

\* task_update to completed, after which the same thread assigns.
CompleteTool(w, t) ==
  /\ EndRound(w, "assigning")
  /\ t \in told[w] /\ ~Blocked(t)
  /\ task' = [task EXCEPT ![t].status = "completed"]
  /\ BeginAssigning(w, "list")
  /\ UNCHANGED <<logs, told>>

EndAssigning(w) ==
  /\ at[w] = "assigning" /\ doing[w].step = "none"
  /\ at' = [at EXCEPT ![w] = "round"]
  /\ UNCHANGED <<task, inbox, memberVars, member, left, told, pick, doing, lead>>

Polls(w) == left[w] > 0

\* One poll: the inbox, what the member owns, what it may claim.
Poll(w) ==
  LET m == member[w]
  IN /\ at[w] = "poll" /\ GoesOn(w) /\ Polls(w)
     /\ \/ inbox[m] # <<>> /\ ReadInbox(w, "round", MaxAgentRounds)
        \/ /\ inbox[m] = <<>> /\ (Open(m) # {} \/ ClaimableFor(m) = {})
           /\ left' = [left EXCEPT ![w] = @ - 1]
           /\ status' = [status EXCEPT ![m] = "idle"]
           /\ UNCHANGED <<task, inbox, reason, stop, logs, registered, member, at, told,
                          pick, doing, lead>>
        \/ /\ inbox[m] = <<>> /\ Open(m) = {} /\ ClaimableFor(m) # {}
           /\ at' = [at EXCEPT ![w] = "claim"]
           /\ pick' = [pick EXCEPT ![w] = Least(ClaimableFor(m))]
           /\ status' = [status EXCEPT ![m] = "idle"]
           /\ UNCHANGED <<task, inbox, reason, stop, logs, registered, member, left, told,
                          doing, lead>>

\* The claim of a poll; what it raises ends the thread.
AutoClaim(w) ==
  LET m == member[w]
      t == pick[w]
  IN /\ at[w] = "claim"
     /\ pick' = [pick EXCEPT ![w] = 0]
     /\ IF CannotClaim(t)
        THEN /\ Die(w, IF GoesOn(w) THEN "runtime_error" ELSE stop[m])
             /\ UNCHANGED <<task, logs, left, told>>
        ELSE /\ ClaimFor(t, m)
             /\ at' = [at EXCEPT ![w] = "round"]
             /\ left' = [left EXCEPT ![w] = MaxAgentRounds]
             /\ status' = [status EXCEPT ![m] = "working"]
             /\ told' = [told EXCEPT ![w] = @ \cup {t}]
             /\ logs' = [logs EXCEPT ![m] = @ \cup {t}]
             /\ UNCHANGED reason
     /\ UNCHANGED <<inbox, stop, registered, member, doing, lead>>

\* plausible bug: nothing is said about the owned task
NoReminder(w) == {}

\* _owned_task_reminder_message, of the first owned task
Reminder(w) == {Least(Open(member[w]))}

\* After the last poll: a member that owns a task is reminded of it and goes on.
LastPoll(w) ==
  LET m == member[w]
  IN /\ at[w] = "poll" /\ left[w] = 0
     /\ IF Open(m) = {}
        THEN at' = [at EXCEPT ![w] = "expire"] /\ UNCHANGED <<left, told, logs, status>>
        ELSE /\ at' = [at EXCEPT ![w] = "round"]
             /\ left' = [left EXCEPT ![w] = MaxAgentRounds]
             /\ told' = [told EXCEPT ![w] = @ \cup Reminder(w)]
             /\ logs' = [logs EXCEPT ![m] = @ \cup Reminder(w)]
             /\ status' = [status EXCEPT ![m] = "working"]
     /\ UNCHANGED <<task, inbox, reason, stop, registered, member, pick, doing, lead>>

\* The idle timeout, decided in LastPoll.
Expire(w) ==
  /\ at[w] = "expire"
  /\ Die(w, "idle_timeout")
  /\ UNCHANGED <<task, inbox, stop, logs, registered, member, left, told, pick, doing, lead>>
-----------------------------------------------------------------------------
(* assign_claimable_tasks, by the lead or by the thread that completed a   *)
(* task.                                                                   *)

TimedOut(m) == status[m] = "shutdown" /\ reason[m] = "idle_timeout"

\* plausible bug: a member that timed out is not thought of
NeverResumed(m) == FALSE

\* can_resume_idle_timeout; the log of a member always has its prompt.
Resumable(m) == TimedOut(m)

\* _refresh_thread_health: members whose registered thread has ended.
Exited(m) == registered[m] # 0 /\ at[registered[m]] \in Ended /\ status[m] # "shutdown"

RefreshHealth ==
  /\ status' = [m \in Teammates |-> IF Exited(m) THEN "shutdown" ELSE status[m]]
  /\ reason' = [m \in Teammates |-> IF Exited(m) /\ reason[m] = "none" THEN "thread_exited"
                                  ELSE reason[m]]

ListClaimable(a) ==
  LET tasks == {t \in Tasks : Claimable(t)}
  IN /\ doing[a].step = "list"
     /\ doing' = [doing EXCEPT ![a] = IF tasks = {} THEN NoOp
                                ELSE [NoOp EXCEPT !.step = "candidates", !.tasks = tasks]]
     /\ UNCHANGED <<task, inbox, memberVars, threadVars, lead>>

\* Members that, refreshed, are idle or timed out, and own no open task.
ListCandidates(a) ==
  LET timedOut == {m \in Teammates : Resumable(m)' /\ Open(m) = {}}
      idle == {m \in Teammates : status'[m] = "idle" /\ Open(m) = {}}
  IN /\ doing[a].step = "candidates"
     /\ RefreshHealth
     /\ doing' = [doing EXCEPT ![a].step = "next", ![a].free = idle \cup timedOut,
                         ![a].resume = timedOut]
     /\ UNCHANGED <<task, inbox, stop, logs, registered, threadVars, lead>>

\* Who takes task t, of those that have got none yet.
TakersOf(a, t) == IF Preferred[t] = Nobody THEN doing[a].free ELSE doing[a].free \cap {Preferred[t]}

\* The next task that somebody takes is claimed; if the claim raises, that is all.
AssignNext(a) ==
  LET given == {t \in doing[a].tasks : TakersOf(a, t) # {}}
      t == Least(given)
      m == Least(TakersOf(a, t))
  IN /\ doing[a].step = "next"
     /\ IF given = {} \/ CannotClaim(t)
        THEN doing' = [doing EXCEPT ![a] = NoOp] /\ UNCHANGED task
        ELSE /\ ClaimFor(t, m)
             /\ doing' = [doing EXCEPT ![a].step = "tell", ![a].task = t, ![a].for = m,
                                 ![a].tasks = {u \in @ : u > t}, ![a].free = @ \ {m}]
     /\ UNCHANGED <<inbox, memberVars, threadVars, lead>>

\* The message; a member that was shut down is started again.
TellAssigned(a) ==
  LET m == doing[a].for
  IN /\ doing[a].step = "tell"
     /\ inbox' = [inbox EXCEPT ![m] = Append(@, doing[a].task)]
     /\ IF m \in doing[a].resume
        THEN /\ status' = [status EXCEPT ![m] = "starting"]
             /\ reason' = [reason EXCEPT ![m] = "none"]
             /\ doing' = [doing EXCEPT ![a].step = "start", ![a].back = "next", ![a].task = 0]
        ELSE /\ doing' = [doing EXCEPT ![a].step = "next", ![a].task = 0, ![a].for = Nobody]
             /\ UNCHANGED <<status, reason>>
     /\ UNCHANGED <<task, stop, logs, registered, threadVars, lead>>
-----------------------------------------------------------------------------
(* The lead and the user.                                                  *)

\* task_create_batch: nobody assigns or claims while the files are written.
CreateBatch ==
  /\ doing[Lead].step = "none"
  /\ \A t \in Tasks : task[t].status = "absent"
  /\ task' = [t \in Tasks |-> [status |-> "pending", owner |-> Nobody]]
  /\ BeginAssigning(Lead, "list")
  /\ UNCHANGED <<inbox, memberVars, threadVars, lead>>

\* interrupt_active
InterruptActive ==
  LET running == {m \in Teammates : /\ registered[m] # 0 /\ registered[m] \in Live
                                  /\ status[m] # "shutdown"}
  IN /\ lead.stops < MaxStops /\ running # {}
     /\ lead' = [lead EXCEPT !.stops = @ + 1]
     /\ stop' = [m \in Teammates |-> IF m \in running THEN "lead_interrupt" ELSE stop[m]]
     /\ RefreshHealth
     /\ UNCHANGED <<task, inbox, logs, registered, threadVars, doing>>

\* shutdown_request
RequestShutdown(m) ==
  /\ doing[Lead].step = "none" /\ lead.stops < MaxStops /\ status[m] # "none"
  /\ lead' = [lead EXCEPT !.stops = @ + 1]
  /\ inbox' = [inbox EXCEPT ![m] = Append(@, Shutdown)]
  /\ UNCHANGED <<task, memberVars, threadVars, doing>>
-----------------------------------------------------------------------------
AssignStep(a) ==
  \/ ListClaimable(a) \/ ListCandidates(a) \/ AssignNext(a) \/ TellAssigned(a)
  \/ StartThread(a) \/ RegisterThread(a)

ThreadStep(w) ==
  \/ Boot(w) \/ ShutDownIfStopRequested(w) \/ BeginRound(w) \/ Settle(w)
  \/ ModelFails(w) \/ OtherTool(w) \/ Poll(w) \/ AutoClaim(w) \/ LastPoll(w) \/ Expire(w)
  \/ \E t \in Tasks : ClaimTool(w, t) \/ CompleteTool(w, t)
  \/ EndAssigning(w) \/ AssignStep(w)

LeadStep ==
  \/ CreateBatch \/ InterruptActive
  \/ \E m \in Teammates : Spawn(m) \/ RequestShutdown(m)

TasksNext == (\E w \in TaskThreads : ThreadStep(w)) \/ AssignStep(Lead) \/ LeadStep

TasksSpec == TasksInit /\ [][TasksNext]_tasksVars

\* Threads that are not blocked run; what the model and the user do is free.
FairSpec == TasksSpec /\ WF_tasksVars(AssignStep(Lead)) /\ \A w \in TaskThreads : WF_tasksVars(ThreadStep(w))
-----------------------------------------------------------------------------
Steps == {"none", "list", "candidates", "next", "tell", "start", "register"}
Reasons == {"none", "idle_timeout", "runtime_error", "thread_exited", "lead_interrupt", "shutdown_request"}

TasksTypes ==
  /\ task \in [Tasks -> [status : {"absent", "pending", "in_progress", "completed"},
                         owner : Teammates \cup {Nobody}]]
  /\ status \in [Teammates -> {"none", "starting", "working", "idle", "shutdown"}]
  /\ reason \in [Teammates -> Reasons]
  /\ stop \in [Teammates -> {NoStop, "lead_interrupt", "shutdown_request"}]
  /\ \A m \in Teammates : \A i \in DOMAIN inbox[m] : inbox[m][i] \in Tasks \cup {Shutdown}
  /\ logs \in [Teammates -> SUBSET Tasks]
  /\ registered \in [Teammates -> TaskThreads \cup {0}]
  /\ member \in [TaskThreads -> Teammates \cup {Nobody}]
  /\ at \in [TaskThreads -> {"none", "boot", "round", "model", "assigning", "poll", "claim",
                         "expire", "dead", "failed"}]
  /\ left \in [TaskThreads -> Nat]
  /\ told \in [TaskThreads -> SUBSET Tasks]
  /\ pick \in [TaskThreads -> Tasks \cup {0}]
  /\ \A a \in Assigners :
       /\ doing[a].step \in Steps /\ doing[a].tasks \subseteq Tasks /\ doing[a].free \subseteq Teammates
       /\ doing[a].resume \subseteq Teammates /\ doing[a].for \in Teammates \cup {Nobody}
       /\ doing[a].task \in Tasks \cup {0} /\ doing[a].thread \in TaskThreads \cup {0}
  /\ lead \in [spawns : 0..MaxSpawns, stops : 0..MaxStops]

\* Nobody works, starts or assigns.
Quiet == Live = {} /\ \A a \in Assigners : doing[a].step = "none"

\* One task is ready at a time, and it prefers nobody.
OneByOne == \A t \in Tasks : Blockers[t] = 1..(t - 1) /\ Preferred[t] = Nobody

\* Nobody was told to stop, and no thread was ended by the provider's failure.
Undisturbed == lead.stops = 0 /\ \A w \in TaskThreads : at[w] # "failed"

\* No task of such a batch is left behind: when everybody has stopped by itself, none is
\* claimable that a member which timed out, and owns none, might have taken.  Polls,
\* timeouts and assignments overlap; whoever makes a task claimable must either find
\* the member or leave the task to its next poll.  Of tasks that are ready together, or
\* have a preferred owner, one may be left: assign_claimable_tasks may give away a task
\* that was claimed meanwhile, or give one to a member that is timing out, and takes a
\* member whose thread is being started for one that has ended.  Once the provider has
\* failed a thread nothing is promised: what its member owns stays claimed, and the row
\* it leaves, no longer idle and not timed out, may hide another thread of the member.
NoTaskLeftBehind ==
  OneByOne /\ Quiet /\ Undisturbed =>
    \A t \in Tasks, m \in Teammates : ~(Claimable(t) /\ TimedOut(m) /\ Open(m) = {})

\* A member that is alive and owns open tasks learns of one of them, however it came
\* to own them: by an assignment, from its own poll, or from before it was spawned
\* again.
Unaware(m) ==
  /\ Open(m) # {}
  /\ \E w \in Live : member[w] = m
  /\ \A w \in Live : member[w] = m => told[w] \cap Open(m) = {}
  /\ \A a \in Assigners : doing[a].step # "start"   \* there is a thread left to start

OwnersAreTold == \A m \in Teammates : []<>~Unaware(m)
=============================================================================
