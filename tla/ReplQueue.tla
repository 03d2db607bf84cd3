----------------------------- MODULE ReplQueue -----------------------------
(***************************************************************************)
(* The queue of prompts of the terminal (cli/repl.py, TurnQueueRunner):    *)
(* the user types while a turn runs, and may have a queued prompt put into *)
(* the running turn or interrupt it.                                       *)
(*                                                                         *)
(* Three threads: that of the user interface (ui), the worker that takes   *)
(* tasks from the queue, and the turn of the turn host that the worker     *)
(* waits for (turn). A step is a section under a lock, or an operation on  *)
(* the queue, which has a lock of its own.                                 *)
(***************************************************************************)
EXTENDS Integers, FiniteSets, SequencesExt

CONSTANTS MaxTasks,       \* bound: tasks the user enters
          MaxInterrupts   \* bound: requests to interrupt

VARIABLES
  taskQueue,  \* _queue
  queued,     \* _queued
  active,     \* _active
  requested,  \* _interrupt_requested
  handle,     \* _active_turn_handle: the task whose turn it is, 0 for none
  requests,   \* _loop_injection_requests
  ready,      \* _ready_loop_injections
  ui,         \* what the user interface is in the middle of
  worker,     \* where the worker is, with its task
  hostTurn,   \* the turn in the turn host
  entered,    \* tasks entered so far
  stops,      \* interrupts requested so far
  reached     \* history variable: prompts that reached the model, in that order

replVars == <<taskQueue, queued, active, requested, handle, requests, ready, ui, worker, hostTurn,
              entered, stops, reached>>

Task(id, kind) == [id |-> id, kind |-> kind]

Closing == Task(0, "close")

NoTurn == [id |-> 0, state |-> "none", interrupted |-> FALSE, popped |-> 0]

Nothing == [step |-> "none", arg |-> 0, kind |-> "none"]

ReplInit ==
  /\ taskQueue = <<>> /\ queued = 0 /\ active = FALSE /\ requested = FALSE /\ handle = 0
  /\ requests = 0 /\ ready = <<>> /\ ui = Nothing
  /\ worker = [step |-> "get", task |-> Closing] /\ hostTurn = NoTurn
  /\ entered = 0 /\ stops = 0 /\ reached = <<>>

\* Where prompts are in the queue.
Prompts == {i \in DOMAIN taskQueue : taskQueue[i].kind = "turn"}

\* The counter is never lowered below 0.
Lowered(n) == Max({0, queued - n})
-----------------------------------------------------------------------------
(* The user interface.                                                     *)

\* The counter of _enqueue_task, before the task is put into the queue.
Count(n) == n + 1

\* _enqueue_task, under the lock.
Enter ==
  /\ ui = Nothing /\ entered < MaxTasks
  /\ entered' = entered + 1
  /\ queued' = Count(queued)
  /\ \E kind \in {"turn", "compact"} : ui' = [step |-> "put", arg |-> entered', kind |-> kind]
  /\ UNCHANGED <<taskQueue, active, requested, handle, requests, ready, worker, hostTurn, stops, reached>>

\* _enqueue_task, the queue.
Put ==
  /\ ui.step = "put"
  /\ taskQueue' = Append(taskQueue, Task(ui.arg, ui.kind))
  /\ ui' = Nothing
  /\ UNCHANGED <<queued, active, requested, handle, requests, ready, worker, hostTurn, entered, stops, reached>>

\* request_interrupt, under the lock.
RequestInterrupt ==
  /\ ui = Nothing /\ stops < MaxInterrupts
  /\ active /\ ~requested
  /\ requested' = TRUE
  /\ stops' = stops + 1
  /\ ui' = IF handle = 0 THEN Nothing ELSE [step |-> "interrupt", arg |-> handle, kind |-> "none"]
  /\ UNCHANGED <<taskQueue, queued, active, handle, requests, ready, worker, hostTurn, entered, reached>>

Interruptible(id) == hostTurn.id = id /\ hostTurn.state = "running" /\ ~hostTurn.interrupted

\* TurnHost.interrupt_turn
HostInterrupt(id) == hostTurn' = IF Interruptible(id) THEN [hostTurn EXCEPT !.interrupted = TRUE] ELSE hostTurn

\* request_interrupt, with the handle it has read.
SendInterrupt ==
  /\ ui.step = "interrupt"
  /\ HostInterrupt(ui.arg)
  /\ ui' = IF Interruptible(ui.arg) THEN Nothing ELSE [ui EXCEPT !.step = "refused"]
  /\ UNCHANGED <<taskQueue, queued, active, requested, handle, requests, ready, worker, entered, stops, reached>>

\* request_interrupt, when the turn was over.
InterruptRefused ==
  /\ ui.step = "refused"
  /\ requested' = FALSE
  /\ ui' = Nothing
  /\ UNCHANGED <<taskQueue, queued, active, handle, requests, ready, worker, hostTurn, entered, stops, reached>>

\* request_loop_injection
RequestInjection ==
  /\ ui = Nothing /\ active
  /\ Cardinality(Prompts) > requests
  /\ requests' = requests + 1
  /\ UNCHANGED <<taskQueue, queued, active, requested, handle, ready, ui, worker, hostTurn, entered, stops, reached>>

\* _clear_pending, one task; arg counts them.
ClearOne ==
  /\ ui = Nothing \/ ui.step = "clear"
  /\ taskQueue # <<>> /\ Closing \notin ToSet(taskQueue)
  /\ taskQueue' = Tail(taskQueue)
  /\ ui' = [step |-> "clear", arg |-> ui.arg + 1, kind |-> "none"]
  /\ UNCHANGED <<queued, active, requested, handle, requests, ready, worker, hostTurn, entered, stops, reached>>

\* _clear_pending, under the lock.
Cleared ==
  /\ ui.step = "clear" /\ taskQueue = <<>>
  /\ queued' = Lowered(ui.arg)
  /\ ready' = <<>> /\ requests' = 0
  /\ ui' = [step |-> "close", arg |-> 0, kind |-> "none"]
  /\ UNCHANGED <<taskQueue, active, requested, handle, worker, hostTurn, entered, stops, reached>>

\* close: with what is still to be done, or after _clear_pending.
Close ==
  /\ ui = Nothing \/ ui.step = "close"
  /\ taskQueue' = Append(taskQueue, Closing)
  /\ ui' = [step |-> "closed", arg |-> 0, kind |-> "none"]
  /\ UNCHANGED <<queued, active, requested, handle, requests, ready, worker, hostTurn, entered, stops, reached>>
-----------------------------------------------------------------------------
(* The worker.                                                             *)

Works(step) == worker.step = step

\* _worker_loop, queue.get
Get ==
  /\ Works("get") /\ taskQueue # <<>>
  /\ taskQueue' = Tail(taskQueue)
  /\ worker' = [step |-> IF Head(taskQueue) = Closing THEN "over" ELSE "got", task |-> Head(taskQueue)]
  /\ UNCHANGED <<queued, active, requested, handle, requests, ready, ui, hostTurn, entered, stops, reached>>

\* _worker_loop, under the lock.
Begin ==
  /\ Works("got")
  /\ queued' = Lowered(1)
  /\ active' = TRUE /\ requested' = FALSE /\ handle' = 0
  /\ worker' = [worker EXCEPT !.step = IF worker.task.kind = "turn" THEN "start" ELSE "compact"]
  /\ UNCHANGED <<taskQueue, requests, ready, ui, hostTurn, entered, stops, reached>>

\* run_turn of the turn host, which may refuse it.
HostStart ==
  /\ Works("start")
  /\ \/ /\ hostTurn' = [id |-> worker.task.id, state |-> "running", interrupted |-> FALSE, popped |-> 0]
        /\ reached' = Append(reached, worker.task.id)
        /\ worker' = [worker EXCEPT !.step = "started"]
     \/ worker' = [worker EXCEPT !.step = "finish"] /\ UNCHANGED <<hostTurn, reached>>
  /\ UNCHANGED <<taskQueue, queued, active, requested, handle, requests, ready, ui, entered, stops>>

\* The handle is known to the user interface.
SetHandle ==
  /\ Works("started")
  /\ handle' = worker.task.id
  /\ worker' = [worker EXCEPT !.step = "check"]
  /\ UNCHANGED <<taskQueue, queued, active, requested, requests, ready, ui, hostTurn, entered, stops, reached>>

\* A mutant of CheckInterrupt: only requests made from now on.
NoCheck ==
  /\ Works("check")
  /\ worker' = [worker EXCEPT !.step = "wait"]
  /\ UNCHANGED <<taskQueue, queued, active, requested, handle, requests, ready, ui, hostTurn, entered, stops, reached>>

\* An interrupt requested before the handle was known.
CheckInterrupt ==
  /\ Works("check")
  /\ worker' = [worker EXCEPT !.step = "wait"]
  /\ IF requested THEN HostInterrupt(worker.task.id) ELSE UNCHANGED hostTurn
  /\ UNCHANGED <<taskQueue, queued, active, requested, handle, requests, ready, ui, entered, stops, reached>>

\* The events of the turn are drained, or the compaction is over.
Finished ==
  /\ Works("compact") \/ (Works("wait") /\ hostTurn.state = "done")
  /\ worker' = [worker EXCEPT !.step = "finish"]
  /\ hostTurn' = NoTurn
  /\ UNCHANGED <<taskQueue, queued, active, requested, handle, requests, ready, ui, entered, stops, reached>>

\* The last section of _worker_loop.
Finish ==
  /\ Works("finish")
  /\ active' = FALSE /\ requested' = FALSE /\ handle' = 0 /\ requests' = 0 /\ ready' = <<>>
  /\ worker' = [step |-> "get", task |-> Closing]
  /\ UNCHANGED <<taskQueue, queued, ui, hostTurn, entered, stops, reached>>
-----------------------------------------------------------------------------
(* The turn, which prepares prompts after tools and takes them in the next *)
(* round.                                                                  *)

Running == hostTurn.state = "running"

\* A mutant of NextPrompt: the prompt entered last.
LastPrompt == Max(Prompts)

\* The prompt _pop_next_queued_turn_task takes out of the queue.
NextPrompt == Min(Prompts)

\* prepare_next_loop_injection, the queue.
PopPrompt ==
  /\ Running /\ hostTurn.popped = 0
  /\ requests > 0 /\ Prompts # {}
  /\ taskQueue' = RemoveAt(taskQueue, NextPrompt)
  /\ hostTurn' = [hostTurn EXCEPT !.popped = taskQueue[NextPrompt].id]
  /\ UNCHANGED <<queued, active, requested, handle, requests, ready, ui, worker, entered, stops, reached>>

\* prepare_next_loop_injection, under the lock.
Prepared ==
  /\ hostTurn.popped # 0
  /\ requests' = IF requests > 0 THEN requests - 1 ELSE 0
  /\ queued' = Lowered(1)
  /\ ready' = Append(ready, hostTurn.popped)
  /\ hostTurn' = [hostTurn EXCEPT !.popped = 0]
  /\ UNCHANGED <<taskQueue, active, requested, handle, ui, worker, entered, stops, reached>>

\* take_next_loop_injection; the round is not begun when the turn is interrupted.
TakePrompt ==
  /\ Running /\ ~hostTurn.interrupted /\ hostTurn.popped = 0 /\ ready # <<>>
  /\ reached' = Append(reached, Head(ready))
  /\ ready' = Tail(ready)
  /\ UNCHANGED <<taskQueue, queued, active, requested, handle, requests, ui, worker, hostTurn, entered, stops>>

\* The turn ends.
HostEnd ==
  /\ Running /\ hostTurn.popped = 0
  /\ hostTurn' = [hostTurn EXCEPT !.state = "done"]
  /\ UNCHANGED <<taskQueue, queued, active, requested, handle, requests, ready, ui, worker, entered, stops, reached>>

Ui ==
  \/ Enter \/ Put \/ RequestInterrupt \/ SendInterrupt \/ InterruptRefused \/ RequestInjection
  \/ ClearOne \/ Cleared \/ Close

Worker == Get \/ Begin \/ HostStart \/ SetHandle \/ CheckInterrupt \/ Finished \/ Finish

Turn == PopPrompt \/ Prepared \/ TakePrompt \/ HostEnd

ReplNext == Ui \/ Worker \/ Turn

ReplSpec == ReplInit /\ [][ReplNext]_replVars
-----------------------------------------------------------------------------
\* Prompts reach the model in the order they were entered and none twice, as turns of their
\* own or put into a running turn.
PromptsInOrder == \A i \in 1..(Len(reached) - 1) : reached[i] < reached[i + 1]

\* An interrupt the terminal has accepted reaches the turn, also one requested before the
\* turn was known to it.
InterruptReachesTurn ==
  requested /\ ui = Nothing /\ Works("wait") => hostTurn.interrupted \/ hostTurn.state = "done"
=============================================================================
