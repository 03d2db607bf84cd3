--------------------------- MODULE BackgroundJobs ---------------------------
(***************************************************************************)
(* Commands of the shell and the jobs that run one in the background       *)
(* (tools/process.py, tools/shell.py, tools/background.py,                 *)
(* storage/jobs.py).  A job is a thread that writes to jobs.json and puts  *)
(* a notice in the queue of its runtime; each round of a turn takes what   *)
(* is there.  A turn may have a runtime of its own, which goes with it.    *)
(***************************************************************************)
EXTENDS Integers, Sequences, FiniteSets

CONSTANTS Jobs, Calls,   \* bound: jobs, and calls of the tool bash
          Runtimes       \* the primary runtime and those of other turns

Commands == Jobs \cup Calls

VARIABLES
  process,   \* the process a command runs in
  held,      \* commands with a process of their own left that has their output open
  run,       \* where run_command is
  stop,      \* calls whose turn was interrupted
  outcome,   \* what run_command came to
  file,      \* jobs.json: the status of each job
  read,      \* what the thread of a job, or of its tool, has read of it
  job,       \* where the thread of a job is
  jobOwner,  \* the runtime of a job
  notices,   \* the queue of a runtime
  told       \* history variable: the notices turns were told

shellVars == <<process, held, run, stop, outcome, file, read, job, jobOwner, notices, told>>
commandVars == <<process, held, run, stop, outcome>>
jobVars == <<file, read, job, jobOwner, notices, told>>

JobsInit ==
  /\ process = [c \in Commands |-> "none"] /\ held = {}
  /\ run = [c \in Commands |-> "none"] /\ stop = {}
  /\ outcome = [c \in Commands |-> "none"]
  /\ file = [j \in Jobs |-> "none"] /\ read = [j \in Jobs |-> [j2 \in Jobs |-> "none"]]
  /\ job = [j \in Jobs |-> "none"] /\ jobOwner \in [Jobs -> Runtimes]
  /\ notices = [r \in Runtimes |-> <<>>] /\ told = <<>>
-----------------------------------------------------------------------------
(* run_command.                                                            *)

RunAt(c, at) == run' = [run EXCEPT ![c] = at]

\* The process is started.
Launch(c) ==
  /\ process' = [process EXCEPT ![c] = "running"]
  /\ RunAt(c, "poll")

\* Popen, of a call; a job is started by its thread.
StartCall(c) ==
  /\ c \in Calls /\ run[c] = "none"
  /\ Launch(c)
  /\ UNCHANGED <<held, stop, outcome, jobVars>>

\* The process ends, and may leave one behind that has its output open.
Exit(c) ==
  /\ process[c] = "running"
  /\ process' = [process EXCEPT ![c] = "exited"]
  /\ held' = held \cup {c} \/ held' = held
  /\ UNCHANGED <<run, stop, outcome, jobVars>>

\* The process left behind ends.
Released(c) ==
  /\ c \in held
  /\ held' = held \ {c}
  /\ UNCHANGED <<process, run, stop, outcome, jobVars>>

\* communicate returns when the process has ended and its output is closed.
Complete(c) == process[c] \in {"exited", "killed"} /\ c \notin held

Ends(c, result) == RunAt(c, "over") /\ outcome' = [outcome EXCEPT ![c] = result]

\* A signal reaches the process, not the ones it has started.
Kill(c) ==
  IF process[c] = "running"
  THEN /\ process' = [process EXCEPT ![c] = "killed"]
       /\ held' = held \cup {c} \/ held' = held
  ELSE UNCHANGED <<process, held>>

Communicate(c) ==
  /\ run[c] = "poll" /\ Complete(c)
  /\ Ends(c, "completed")
  /\ UNCHANGED <<process, held, stop, jobVars>>

\* The time of the command is up: it is killed, and its output read to the end.
TimeUp(c) ==
  /\ run[c] = "poll"
  /\ Kill(c)
  /\ RunAt(c, "timed_out")
  /\ UNCHANGED <<stop, outcome, jobVars>>

TimedOut(c) ==
  /\ run[c] = "timed_out" /\ Complete(c)
  /\ Ends(c, "error")
  /\ UNCHANGED <<process, held, stop, jobVars>>

\* should_interrupt, the stop_checker of a call.
InterruptCall(c) ==
  /\ c \in Calls /\ run[c] \notin {"none", "over"}
  /\ stop' = stop \cup {c}
  /\ UNCHANGED <<process, held, run, outcome, jobVars>>

\* The process is asked to end, which it may ignore.
Terminate(c) ==
  /\ run[c] = "poll" /\ c \in stop
  /\ Kill(c) \/ UNCHANGED <<process, held>>
  /\ RunAt(c, "terminated")
  /\ UNCHANGED <<stop, outcome, jobVars>>

\* After a second it is killed.
Insist(c) == Kill(c) /\ RunAt(c, "killed") /\ UNCHANGED outcome

Terminated(c) ==
  /\ run[c] = "terminated"
  /\ \/ Complete(c) /\ Ends(c, "interrupted") /\ UNCHANGED <<process, held>>
     \/ ~Complete(c) /\ Insist(c)
  /\ UNCHANGED <<stop, jobVars>>

\* After another one the call is over: an output that is still open makes it a timeout.
Killed(c) ==
  /\ run[c] = "killed"
  /\ Ends(c, IF Complete(c) THEN "interrupted" ELSE "error")
  /\ UNCHANGED <<process, held, stop, jobVars>>
-----------------------------------------------------------------------------
(* Jobs. jobs.json is read, changed and written without a lock over these. *)

Goes(j, at) == job' = [job EXCEPT ![j] = at]

\* background_run: create reads the file ...
Create(j) ==
  /\ job[j] = "none"
  /\ read' = [read EXCEPT ![j] = file]
  /\ Goes(j, "create")
  /\ UNCHANGED <<file, jobOwner, notices, told, commandVars>>

\* ... and writes it with the job, whose thread is started.
Created(j) ==
  /\ job[j] = "create"
  /\ file' = [read[j] EXCEPT ![j] = "running"]
  /\ Goes(j, "execute")
  /\ Launch(j)
  /\ UNCHANGED <<read, jobOwner, notices, told, held, stop, outcome>>

\* _execute: the command is over; update reads the file ...
Update(j) ==
  /\ job[j] = "execute" /\ run[j] = "over"
  /\ read' = [read EXCEPT ![j] = file]
  /\ Goes(j, "update")
  /\ UNCHANGED <<file, jobOwner, notices, told, commandVars>>

\* ... and writes it.
Updated(j) ==
  /\ job[j] = "update"
  /\ file' = [read[j] EXCEPT ![j] = outcome[j]]
  /\ Goes(j, "notify")
  /\ UNCHANGED <<read, jobOwner, notices, told, commandVars>>

\* A mutant of Notice: the job as jobs.json has it by now.
NoticeOfFile(j) == [job |-> j, status |-> file[j]]

\* The job as update has written it.
Notice(j) == [job |-> j, status |-> outcome[j]]

Notify(j) ==
  /\ job[j] = "notify"
  /\ notices' = [notices EXCEPT ![jobOwner[j]] = Append(@, Notice(j))]
  /\ Goes(j, "over")
  /\ UNCHANGED <<file, read, jobOwner, told, commandVars>>

\* A round of a turn takes the notices of its runtime.
Drain(r) ==
  /\ notices[r] # <<>>
  /\ told' = told \o notices[r]
  /\ notices' = [notices EXCEPT ![r] = <<>>]
  /\ UNCHANGED <<file, read, job, jobOwner, commandVars>>

JobsNext ==
  \/ \E c \in Commands : StartCall(c) \/ Exit(c) \/ Released(c) \/ Communicate(c) \/ TimeUp(c) \/ TimedOut(c)
                           \/ InterruptCall(c) \/ Terminate(c) \/ Terminated(c) \/ Killed(c)
  \/ \E j \in Jobs : Create(j) \/ Created(j) \/ Update(j) \/ Updated(j) \/ Notify(j)
  \/ \E r \in Runtimes : Drain(r)

JobsSpec == JobsInit /\ [][JobsNext]_shellVars
-----------------------------------------------------------------------------
\* Whatever the threads of other jobs do to jobs.json meanwhile, the model is told once of a
\* job that is over, and told what its command came to; jobs.json never has a job as over
\* that is not.
ToldOutcome ==
  \A j \in Jobs :
    LET all == told \o notices[jobOwner[j]]
        about == {i \in DOMAIN all : all[i].job = j}
    IN /\ job[j] # "over" => about = {}
       /\ job[j] = "over" => \E i \in about : about = {i} /\ all[i].status = outcome[j]
       /\ file[j] \in {"completed", "error"} => file[j] = outcome[j]
=============================================================================
