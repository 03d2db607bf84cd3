------------------------------- MODULE Sidecar -------------------------------
(***************************************************************************)
(* How the events of turns reach the clients of a sidecar                  *)
(* (desktop/backend/server.py): a turn puts events in its queue, its       *)
(* drainer thread copies them to the queues of the clients, a thread for   *)
(* each client sends them.  Between are the handle of the turn             *)
(* (app_service/models.py) and the end of the turn (runtime_host.py).      *)
(* Besides the thread of the turn, a call of interrupt_turn and a provider *)
(* thread the turn has left behind emit events of it, also after its end.  *)
(***************************************************************************)
EXTENDS Integers, Sequences

CONSTANTS SidecarTurns,  \* bound: turns, each of a session of its own
          Clients,       \* bound: connections
          MaxEvents      \* bound: events of a turn

VARIABLES
  turn,       \* a turn: its phase, the number of events emitted so far, its queue, whether it was
              \* interrupted, who emits beside it; own, a history: the events emitted when it was done
  registered, \* _active_turns
  drainer,    \* what the drainer of a turn does
  clients,    \* _clients
  queue,      \* the queue of a client
  sent,       \* what a client was sent
  closed,     \* _closed
  watching    \* history variable: the clients connected since before the turn began

sidecarVars == <<turn, registered, drainer, clients, queue, sent, closed, watching>>
clientVars == <<clients, queue, sent, closed, watching>>

ResultOf(t) == [turn |-> t, n |-> 0]

NoDrainer == [at |-> "none", block |-> FALSE, batch |-> <<>>, to |-> {}]

SidecarInit ==
  /\ turn = [t \in SidecarTurns |-> [phase |-> "none", emitted |-> 0, events |-> <<>>,
                                    interrupted |-> FALSE, beside |-> {}, own |-> 0]]
  /\ registered = {} /\ clients = {} /\ closed = FALSE
  /\ drainer = [t \in SidecarTurns |-> NoDrainer]
  /\ queue = [c \in Clients |-> <<>>] /\ sent = [c \in Clients |-> <<>>]
  /\ watching = [t \in SidecarTurns |-> {}]

Go(t, d) == drainer' = [drainer EXCEPT ![t] = d]

At(t, at) == drainer[t].at = at
-----------------------------------------------------------------------------
(* A turn.                                                                 *)

\* start_turn: the thread of the turn is started ...
BeginTurn(t) ==
  /\ ~closed /\ turn[t].phase = "none"
  /\ turn' = [turn EXCEPT ![t].phase = "running"]
  /\ watching' = [watching EXCEPT ![t] = clients]
  /\ UNCHANGED <<registered, drainer, clients, queue, sent, closed>>

\* ... and then its drainer.
Register(t) ==
  /\ turn[t].phase # "none" /\ At(t, "none")
  /\ registered' = registered \cup {t}
  /\ Go(t, [NoDrainer EXCEPT !.at = "wait"])
  /\ UNCHANGED <<turn, clientVars>>

\* The record of turn t with one more event in the queue (_emit_for_turn).
Emitted(t) ==
  LET n == turn[t].emitted + 1
  IN [turn[t] EXCEPT !.emitted = n, !.events = Append(@, [turn |-> t, n |-> n])]

\* The thread of the turn emits.
Emit(t) ==
  /\ turn[t].phase = "running" /\ turn[t].emitted < MaxEvents
  /\ turn' = [turn EXCEPT ![t] = Emitted(t)]
  /\ UNCHANGED <<registered, drainer, clientVars>>

\* interrupt_turn sees under the lock that the turn is not done; it emits when it has let
\* the lock go.
InterruptAsked(t) ==
  /\ turn[t].phase = "running" /\ ~turn[t].interrupted
  /\ turn' = [turn EXCEPT ![t].interrupted = TRUE, ![t].beside = @ \cup {"interrupt"}]
  /\ UNCHANGED <<registered, drainer, clientVars>>

\* _complete_provider_turn: the turn goes on without the provider thread it waited for,
\* which has the callbacks of the turn.
LeaveBehind(t) ==
  /\ turn[t].phase = "running" /\ turn[t].interrupted
  /\ turn' = [turn EXCEPT ![t].beside = @ \cup {"provider"}]
  /\ UNCHANGED <<registered, drainer, clientVars>>

\* What is beside the turn emits, whether the turn is done or not: the call of
\* interrupt_turn once, the provider thread as often as it likes.
EmitBeside(t) ==
  /\ turn[t].emitted < MaxEvents
  /\ \/ /\ "interrupt" \in turn[t].beside
        /\ turn' = [turn EXCEPT ![t] = [Emitted(t) EXCEPT !.beside = @ \ {"interrupt"}]]
     \/ "provider" \in turn[t].beside /\ turn' = [turn EXCEPT ![t] = Emitted(t)]
  /\ UNCHANGED <<registered, drainer, clientVars>>

\* The result is there when done_event is set.
ResultReady(t) ==
  /\ turn[t].phase = "running"
  /\ turn' = [turn EXCEPT ![t].phase = "done", ![t].own = turn[t].emitted]
  /\ UNCHANGED <<registered, drainer, clientVars>>
-----------------------------------------------------------------------------
(* _drain_turn_events.                                                     *)

IsDone(t) == turn[t].phase = "done"

\* The drainer will wait for an event unless the turn is done by now.
Wait(t) ==
  /\ At(t, "wait")
  /\ Go(t, [drainer[t] EXCEPT !.at = "drain", !.block = ~IsDone(t)])
  /\ UNCHANGED <<turn, registered, clientVars>>

\* What is in the queue becomes a batch; a drainer may also give up waiting.
Taken(t) ==
  /\ turn[t].events # <<>>
  /\ turn' = [turn EXCEPT ![t].events = <<>>]
  /\ Go(t, [drainer[t] EXCEPT !.at = "send", !.batch = turn[t].events])

Drain(t) ==
  /\ At(t, "drain")
  /\ \/ Taken(t)
     \/ /\ turn[t].events = <<>>
        /\ Go(t, [drainer[t] EXCEPT !.at = "check"])
        /\ UNCHANGED turn
  /\ UNCHANGED <<registered, clientVars>>

ToResult(t) == Go(t, [drainer[t] EXCEPT !.at = "send", !.batch = <<ResultOf(t)>>]) /\ UNCHANGED turn

\* A mutant of Trailing: a turn that is done has no more events.
NoTrailing(t) == ToResult(t)

\* Events may have come between the last look at the queue and the end of the turn.
Trailing(t) == Taken(t) \/ (turn[t].events = <<>> /\ ToResult(t))

Check(t) ==
  /\ At(t, "check")
  /\ IF IsDone(t) THEN Trailing(t)
     ELSE Go(t, [drainer[t] EXCEPT !.at = "wait"]) /\ UNCHANGED turn
  /\ UNCHANGED <<registered, clientVars>>

\* broadcast_event: the clients there are now, ...
Broadcast(t) ==
  /\ At(t, "send") /\ drainer[t].batch # <<>>
  /\ Go(t, [drainer[t] EXCEPT !.at = "put", !.to = clients])
  /\ UNCHANGED <<turn, registered, clientVars>>

\* ... one after the other.
PutEvent(t) ==
  /\ At(t, "put")
  /\ \/ \E c \in drainer[t].to :
          /\ queue' = [queue EXCEPT ![c] = Append(@, Head(drainer[t].batch))]
          /\ Go(t, [drainer[t] EXCEPT !.to = @ \ {c}])
     \/ /\ drainer[t].to = {}
        /\ Go(t, [drainer[t] EXCEPT !.at = IF Head(drainer[t].batch) = ResultOf(t) THEN "sent" ELSE "send",
                                    !.batch = Tail(@)])
        /\ UNCHANGED queue
  /\ UNCHANGED <<turn, registered, clients, sent, closed, watching>>

\* The batch is out.
Sent(t) ==
  /\ At(t, "send") /\ drainer[t].batch = <<>>
  /\ Go(t, [drainer[t] EXCEPT !.at = "wait"])
  /\ UNCHANGED <<turn, registered, clientVars>>

Unregister(t) ==
  /\ At(t, "sent")
  /\ registered' = registered \ {t}
  /\ Go(t, [drainer[t] EXCEPT !.at = "ended"])
  /\ UNCHANGED <<turn, clientVars>>
-----------------------------------------------------------------------------
(* _handle_websocket. A client that comes back is a new one.               *)

\* register_client; sidecar_ready goes into the queue like any event and is left out.
Connect(c) ==
  /\ ~closed /\ c \notin clients /\ queue[c] = <<>> /\ sent[c] = <<>>
  /\ \A t \in SidecarTurns : c \notin watching[t]
  /\ clients' = clients \cup {c}
  /\ UNCHANGED <<turn, registered, drainer, queue, sent, closed, watching>>

Send(c) ==
  /\ c \in clients /\ queue[c] # <<>>
  /\ sent' = [sent EXCEPT ![c] = Append(@, Head(queue[c]))]
  /\ queue' = [queue EXCEPT ![c] = Tail(@)]
  /\ UNCHANGED <<turn, registered, drainer, clients, closed, watching>>

\* The connection ends, and with it its thread.
Disconnect(c) ==
  /\ c \in clients
  /\ clients' = clients \ {c}
  /\ watching' = [t \in SidecarTurns |-> watching[t] \ {c}]
  /\ UNCHANGED <<turn, registered, drainer, queue, sent, closed>>

\* close: the clients are let go, whatever is left in their queues.
CloseSidecar ==
  /\ ~closed /\ closed' = TRUE
  /\ clients' = {}
  /\ watching' = [t \in SidecarTurns |-> {}]
  /\ UNCHANGED <<turn, registered, drainer, queue, sent>>

SidecarNext ==
  \/ \E t \in SidecarTurns : BeginTurn(t) \/ Register(t) \/ Emit(t) \/ InterruptAsked(t) \/ LeaveBehind(t)
                               \/ EmitBeside(t) \/ ResultReady(t) \/ Wait(t) \/ Drain(t)
                               \/ Check(t) \/ Broadcast(t) \/ PutEvent(t) \/ Sent(t) \/ Unregister(t)
  \/ \E c \in Clients : Connect(c) \/ Send(c) \/ Disconnect(c)
  \/ CloseSidecar

SidecarSpec == SidecarInit /\ [][SidecarNext]_sidecarVars
-----------------------------------------------------------------------------
\* A client gets the events of a turn in their order, none twice and none left out between
\* two others, whenever it connects, and nothing after the result; one connected from the
\* beginning gets the first, and when the turn is no longer listed as active, the result.
\* Who has the result after other events of the turn has all that were emitted up to the
\* end of the turn. Not more: an event emitted beside the turn after the last look at the
\* queue reaches nobody.
TurnEventsComplete ==
  \A c \in Clients, t \in SidecarTurns :
    LET all == sent[c] \o queue[c]
        of == {i \in DOMAIN all : all[i].turn = t}
        got == {all[i].n : i \in of} \ {0}
        result == \E i \in of : all[i] = ResultOf(t)
    IN /\ \A i, k \in of : i < k => /\ all[i] # ResultOf(t)
                                    /\ all[k] = ResultOf(t) \/ all[i].n < all[k].n
       /\ \E first, next \in 1..turn[t].emitted + 1 :
            /\ got = first..(next - 1)
            /\ c \in watching[t] => first = 1
            /\ result /\ (c \in watching[t] \/ got # {}) => turn[t].own < next
       /\ c \in watching[t] /\ At(t, "ended") => result
=============================================================================
