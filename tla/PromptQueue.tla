---------------------------- MODULE PromptQueue ----------------------------
(***************************************************************************)
(* The prompts of one session in the desktop client: sent, queued while a  *)
(* turn runs, put into the running turn, started when it is over           *)
(* (desktop/ui/src/App.tsx, lib/conversation-state.ts), and what the       *)
(* sidecar and its turn host do with them (desktop/backend/server.py,      *)
(* app_service/runtime_host.py).                                           *)
(*                                                                         *)
(* The events of a turn go through a queue and a thread of the turn to the *)
(* one stream of the client, so that those of two turns may overtake each  *)
(* other. Requests of the client and their answers take their own time.    *)
(***************************************************************************)
EXTENDS Integers, SequencesExt

CONSTANTS MaxPrompts,        \* bound: prompts of the user
          MaxOtherTurns,     \* bound: turns another client starts in the session
          MaxPromptFailures, \* bound: requests that fail, or are refused for another session
          MaxTurns           \* bound: turns

VARIABLES
  queue,     \* queuedPrompts of the session, with the updates that are scheduled
  queueRef,  \* queuedPromptsRef of the session: as of the last render, or of a later take
  shownTurn, \* the turn of the session in activeProjectTurns
  core,      \* activeTurnId of the conversation state
  starts,    \* prompts on their way to turn.start
  asks,      \* requests to put a prompt into a turn
  stream,    \* events on their way to the client
  turn,      \* the turns of the turn host
  counts,    \* prompts, ids of queue items, turns, other turns and failures so far
  refused,   \* prompts sent without queue and refused: the user is told
  overwritten, \* history variable: prompts that were in queue, and not in queueRef, at a take
  run        \* history variable: prompts that reached the model

promptVars == <<queue, queueRef, overwritten, shownTurn, core, starts, asks, stream, turn, counts, refused, run>>

\* A queued prompt; requested is injectionRequested.
Item(id, prompt) == [id |-> id, prompt |-> prompt, requested |-> FALSE]

Event(type, t, id) == [type |-> type, turn |-> t, id |-> id]

\* activeProjectTurns holds a turn, or the id of a start that is not answered.
None == [turn |-> 0, start |-> 0]
Shown(t) == [turn |-> t, start |-> 0]
Optimistic(id) == [turn |-> 0, start |-> id]

Turns == 1..counts.turns

PromptInit ==
  /\ queue = <<>> /\ queueRef = <<>> /\ overwritten = {} /\ shownTurn = None /\ core = 0 /\ starts = {} /\ asks = {} /\ stream = <<>>
  /\ turn = <<>> /\ refused = {} /\ run = <<>>
  /\ counts = [prompts |-> 0, ids |-> 0, turns |-> 0, others |-> 0, failures |-> 0]

NewStart(id, prompt, queued, step) == [id |-> id, prompt |-> prompt, queued |-> queued, step |-> step, turn |-> 0]
-----------------------------------------------------------------------------
(* The client.                                                             *)

\* handleSendPrompt
SendPrompt ==
  /\ counts.prompts < MaxPrompts
  /\ counts' = [counts EXCEPT !.prompts = @ + 1, !.ids = @ + 1]
  /\ IF shownTurn # None
     THEN /\ queue' = Append(queue, Item(counts'.ids, counts'.prompts))
          /\ UNCHANGED <<shownTurn, starts>>
     ELSE /\ starts' = starts \cup {NewStart(counts'.ids, counts'.prompts, FALSE, "execute")}
          /\ shownTurn' = Optimistic(counts'.ids)
          /\ UNCHANGED queue
  /\ UNCHANGED <<queueRef, overwritten, core, asks, stream, turn, refused, run>>

\* The next render: the ref is that of the queue as updated.
Render ==
  /\ queueRef # queue /\ queueRef' = queue
  /\ UNCHANGED <<queue, overwritten, shownTurn, core, starts, asks, stream, turn, counts, refused, run>>

PromptsIn(q) == {q[i].prompt : i \in DOMAIN q}

\* takeNextQueuedPrompt sets the ref and the queue, of every session, to what it leaves
\* of the ref: what was put into the queue since the last render is gone.
Overwrite(q) ==
  /\ queue' = q /\ queueRef' = q
  /\ overwritten' = overwritten \cup (PromptsIn(queue) \ PromptsIn(queueRef))

\* Another session takes a prompt of its own.
TakenElsewhere ==
  /\ queueRef # queue /\ Overwrite(queueRef)
  /\ UNCHANGED <<shownTurn, core, starts, asks, stream, turn, counts, refused, run>>

\* A mutant of Requeue: the prompt was taken from the queue and is gone.
NotRequeued(prompt, failures) == UNCHANGED <<queue, counts>>

\* enqueueSessionPrompt in startNextQueuedPrompt: at the end, as a new item.
Requeue(prompt, failures) ==
  /\ queue' = Append(queue, Item(counts.ids + 1, prompt))
  /\ counts' = [counts EXCEPT !.ids = @ + 1, !.failures = failures]

Fails == counts.failures < MaxPromptFailures

\* startNextQueuedPrompt, up to startPromptTurn.
LoadSession(s) ==
  /\ s.step = "load"
  /\ starts' = (starts \ {s}) \cup {[s EXCEPT !.step = "execute"]}
  /\ shownTurn' = Optimistic(s.id)
  /\ UNCHANGED <<queue, queueRef, overwritten, core, asks, stream, turn, counts, refused, run>>

\* The session cannot be loaded.
LoadFails(s) ==
  /\ s.step = "load" /\ Fails
  /\ starts' = starts \ {s}
  /\ Requeue(s.prompt, counts.failures + 1)
  /\ UNCHANGED <<queueRef, overwritten, shownTurn, core, asks, stream, turn, refused, run>>

\* turn.start is answered.
Started(s) ==
  /\ s.step = "answer" /\ s.turn # 0
  /\ starts' = starts \ {s}
  /\ shownTurn' = IF shownTurn = Optimistic(s.id) THEN Shown(s.turn) ELSE shownTurn
  /\ UNCHANGED <<queue, queueRef, overwritten, core, asks, stream, turn, counts, refused, run>>

\* turn.start is refused.
NotStarted(s) ==
  /\ s.step = "answer" /\ s.turn = 0
  /\ starts' = starts \ {s}
  /\ IF s.queued
     THEN Requeue(s.prompt, counts.failures) /\ UNCHANGED refused
     ELSE refused' = refused \cup {s.prompt} /\ UNCHANGED <<queue, counts>>
  /\ UNCHANGED <<queueRef, overwritten, shownTurn, core, asks, stream, turn, run>>

\* The item of an id, if it is still in the queue, with another mark.
Mark(id, requested) ==
  queue' = [i \in DOMAIN queue |->
              IF queue[i].id = id THEN [queue[i] EXCEPT !.requested = requested] ELSE queue[i]]

\* handleQueuePromptInjection, for the turn and an item that are shown. (An item that was
\* taken since the last render is shown too; asking for it is left out.)
AskInjection(i) ==
  /\ shownTurn.turn # 0 /\ ~queueRef[i].requested
  /\ Mark(queueRef[i].id, TRUE)
  /\ asks' = asks \cup {[id |-> queueRef[i].id, prompt |-> queueRef[i].prompt, turn |-> shownTurn.turn]}
  /\ UNCHANGED <<queueRef, overwritten, shownTurn, core, starts, stream, turn, counts, refused, run>>

Forget(t) == shownTurn' = IF shownTurn = Shown(t) THEN None ELSE shownTurn

\* The item of an id leaves the queue, if it is still there; ids differ.
TakenOut(id) ==
  \/ \E i \in DOMAIN queue : queue[i].id = id /\ queue' = RemoveAt(queue, i)
  \/ (\A i \in DOMAIN queue : queue[i].id # id) /\ UNCHANGED queue

\* handleSidecarEvent and transitionConversationEvent.
HandleEvent ==
  /\ stream # <<>> /\ stream' = Tail(stream)
  /\ LET e == Head(stream)
         completed == IF core # 0 THEN core ELSE e.turn
     IN \/ /\ e.type = "turn_started"
           /\ shownTurn' = Shown(e.turn) /\ core' = e.turn
           /\ UNCHANGED <<queue, queueRef, overwritten, starts>>
        \/ /\ e.type = "loop_user_message_injected"
           /\ TakenOut(e.id)
           /\ UNCHANGED <<queueRef, overwritten, shownTurn, core, starts>>
        \/ /\ e.type = "ended"
           /\ Forget(e.turn)
           /\ UNCHANGED <<queue, queueRef, overwritten, core, starts>>
        \/ /\ e.type = "turn_result"
           /\ Forget(completed) /\ core' = 0
           /\ IF queueRef = <<>>
              THEN UNCHANGED <<queue, queueRef, overwritten, starts>>
              ELSE /\ Overwrite(Tail(queueRef))
                   /\ starts' = starts \cup {NewStart(Head(queueRef).id, Head(queueRef).prompt, TRUE, "load")}
  /\ UNCHANGED <<asks, turn, counts, refused, run>>
-----------------------------------------------------------------------------
(* The sidecar and the turn host.                                          *)

NewTurn(t) == [state |-> "running", events |-> <<Event("turn_started", t, 0)>>,
               accepted |-> {}, pending |-> <<>>, ready |-> <<>>, drained |-> FALSE]

\* A turn that is not done: run_turn refuses another one for the session.
Busy == \E t \in Turns : turn[t].state # "done"

Accept ==
  /\ ~Busy /\ counts.turns < MaxTurns
  /\ turn' = Append(turn, NewTurn(counts.turns + 1))

\* start_turn
StartTurn(s) ==
  /\ s.step = "execute"
  /\ LET answered(t) == (starts \ {s}) \cup {[s EXCEPT !.step = "answer", !.turn = t]}
     IN \/ /\ Accept
           /\ counts' = [counts EXCEPT !.turns = @ + 1]
           /\ run' = Append(run, s.prompt)
           /\ starts' = answered(counts'.turns)
        \/ /\ Busy
           /\ starts' = answered(0)
           /\ UNCHANGED <<turn, counts, run>>
        \/ /\ ~Busy /\ Fails
           /\ counts' = [counts EXCEPT !.failures = @ + 1]
           /\ starts' = answered(0)
           /\ UNCHANGED <<turn, run>>
  /\ UNCHANGED <<queue, queueRef, overwritten, shownTurn, core, asks, stream, refused>>

\* start_turn for another client.
OtherStarts ==
  /\ counts.others < MaxOtherTurns
  /\ Accept
  /\ counts' = [counts EXCEPT !.turns = @ + 1, !.others = @ + 1]
  /\ UNCHANGED <<queue, queueRef, overwritten, shownTurn, core, starts, asks, stream, refused, run>>

\* queue_loop_injection: an error when the turn is over; an answer may be lost.
QueueInjection(a) ==
  /\ asks' = asks \ {a}
  /\ turn' = IF turn[a.turn].state = "done" \/ a.id \in turn[a.turn].accepted
             THEN turn
             ELSE [turn EXCEPT ![a.turn].accepted = @ \cup {a.id},
                               ![a.turn].pending = Append(@, Item(a.id, a.prompt))]
  /\ \/ turn[a.turn].state # "done" /\ UNCHANGED <<queue, counts>>
     \/ turn[a.turn].state = "done" /\ Mark(a.id, FALSE) /\ UNCHANGED counts
     \/ /\ turn[a.turn].state # "done" /\ Fails
        /\ Mark(a.id, FALSE) /\ counts' = [counts EXCEPT !.failures = @ + 1]
  /\ UNCHANGED <<queueRef, overwritten, shownTurn, core, starts, stream, refused, run>>

\* _prepare_next_loop_user_message, after a tool.
Prepare(t) ==
  /\ turn[t].state = "running" /\ turn[t].ready = <<>> /\ turn[t].pending # <<>>
  /\ turn' = [turn EXCEPT ![t].ready = turn[t].pending, ![t].pending = <<>>]
  /\ UNCHANGED <<queue, queueRef, overwritten, shownTurn, core, starts, asks, stream, counts, refused, run>>

\* _take_next_loop_user_message, in the next round: all of them make one message.
Take(t) ==
  /\ turn[t].state = "running" /\ turn[t].ready # <<>>
  /\ LET ready == turn[t].ready
     IN /\ turn' = [turn EXCEPT ![t].ready = <<>>,
             ![t].events = @ \o [i \in DOMAIN ready |-> Event("loop_user_message_injected", t, ready[i].id)]]
        /\ run' = run \o [i \in DOMAIN ready |-> ready[i].prompt]
  /\ UNCHANGED <<queue, queueRef, overwritten, shownTurn, core, starts, asks, stream, counts, refused>>

\* The agent loop is over; an interruption or an error has an event of its own.
EndTurn(t) ==
  /\ turn[t].state = "running"
  /\ \E events \in {<<>>, <<Event("ended", t, 0)>>} :
       turn' = [turn EXCEPT ![t].state = "ending", ![t].events = @ \o events]
  /\ UNCHANGED <<queue, queueRef, overwritten, shownTurn, core, starts, asks, stream, counts, refused, run>>

\* done_event.set()
Done(t) ==
  /\ turn[t].state = "ending"
  /\ turn' = [turn EXCEPT ![t].state = "done"]
  /\ UNCHANGED <<queue, queueRef, overwritten, shownTurn, core, starts, asks, stream, counts, refused, run>>

\* _drain_turn_events: the events of a turn, and at last its result.
Drain(t) ==
  /\ ~turn[t].drained
  /\ IF turn[t].events # <<>>
     THEN /\ stream' = Append(stream, Head(turn[t].events))
          /\ turn' = [turn EXCEPT ![t].events = Tail(@)]
     ELSE /\ turn[t].state = "done"
          /\ stream' = Append(stream, Event("turn_result", t, 0))
          /\ turn' = [turn EXCEPT ![t].drained = TRUE]
  /\ UNCHANGED <<queue, queueRef, overwritten, shownTurn, core, starts, asks, counts, refused, run>>

Client ==
  \/ SendPrompt \/ HandleEvent \/ Render \/ TakenElsewhere
  \/ \E s \in starts : LoadSession(s) \/ LoadFails(s) \/ Started(s) \/ NotStarted(s)
  \/ \E i \in DOMAIN queueRef : AskInjection(i)

HostStep ==
  \/ OtherStarts
  \/ \E s \in starts : StartTurn(s)
  \/ \E a \in asks : QueueInjection(a)
  \/ \E t \in Turns : Prepare(t) \/ Take(t) \/ EndTurn(t) \/ Done(t) \/ Drain(t)

PromptNext == Client \/ HostStep

PromptSpec == PromptInit /\ [][PromptNext]_promptVars
-----------------------------------------------------------------------------
\* Whatever fails, is refused or overtakes, a prompt is in the queue, on its way, has
\* reached the model, or was refused to the user's face. It is lost in one way only: it was
\* in the queue, and in no queue that had been rendered, when a prompt was taken.
LostOnlyByTake ==
  \A p \in 1..counts.prompts \ overwritten :
    \/ \E i \in DOMAIN queue : queue[i].prompt = p
    \/ \E s \in starts : s.prompt = p
    \/ p \in ToSet(run) \cup refused

=============================================================================
