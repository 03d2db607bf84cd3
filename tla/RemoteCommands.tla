--------------------------- MODULE RemoteCommands ---------------------------
(***************************************************************************)
(* Commands of remote clients (desktop/ui/src/lib/                         *)
(* remote-somnia-connection.ts) to a project, through the relay            *)
(* (remote/relay.py) and the connector of the device                       *)
(* (remote/connector.py), which answers a repeated request from its cache. *)
(*                                                                         *)
(* A client repeats what is pending when it connects again. The relay has  *)
(* a queue of each client and one of the connector, and loses what is in   *)
(* them with the connection. A response goes to every client of the device *)
(* that is connected.                                                      *)
(***************************************************************************)
EXTENDS Integers, FiniteSets, SequencesExt

CONSTANTS Clients,
          Window,       \* deduplication_limit
          MaxRequests,  \* bound: requests of a client
          MaxDrops,     \* bound: connections of clients that are lost
          MaxRestarts   \* bound: connectors that are lost

ASSUME CommandsAssumption == Window \in Nat /\ MaxRequests \in Nat

Requests == Clients \X (1..MaxRequests)

VARIABLES
  pending,   \* requests of a client that have no answer, in the order of its map
  open,      \* clients whose connection is open
  up,        \* requests of a client on their way to the relay
  line,      \* requests on their way to the connector
  responses,      \* responses on their way to a client
  alive,     \* the connector is connected
  cache,     \* deduplicated: requests and their outcomes, the last used at the end
  running,   \* the request that the sidecar executes
  log, since, answer,  \* history variables: see CommandService
  count      \* requests of clients, drops and restarts so far

net == <<pending, open, up, responses, answer>>
connectorVars == <<line, alive, cache, running, log, since>>
commandsVars == <<net, connectorVars, count>>

Service == INSTANCE CommandService WITH Commands <- Requests

Entry(r, ok) == [request |-> r, ok |-> ok]
Response(r, outcome) == [request |-> r, outcome |-> outcome]

Idle == <<>>

CommandsInit ==
  /\ pending = [c \in Clients |-> <<>>] /\ up = pending /\ responses = pending
  /\ open = Clients
  /\ line = <<>> /\ alive = TRUE /\ cache = <<>> /\ running = Idle
  /\ Service!Init
  /\ count = [requests |-> [c \in Clients |-> 0], drops |-> 0, restarts |-> 0]
-----------------------------------------------------------------------------
(* The clients.                                                            *)

\* sendRequest; a client that is not connected refuses.
SendRequest(c) ==
  /\ c \in open /\ count.requests[c] < MaxRequests
  /\ count' = [count EXCEPT !.requests[c] = @ + 1]
  /\ LET r == <<c, count'.requests[c]>>
     IN /\ pending' = [pending EXCEPT ![c] = Append(@, r)]
        /\ up' = [up EXCEPT ![c] = Append(@, r)]
  /\ UNCHANGED <<open, responses, answer, connectorVars>>

\* handleMessage, of a response: one that nothing waits for is left alone.
ReceiveResponse(c) ==
  /\ responses[c] # <<>>
  /\ responses' = [responses EXCEPT ![c] = Tail(@)]
  /\ LET m == Head(responses[c])
     IN IF Contains(pending[c], m.request)
        THEN /\ \E i \in DOMAIN pending[c] :
                  pending[c][i] = m.request /\ pending' = [pending EXCEPT ![c] = RemoveAt(@, i)]
             /\ answer' = [answer EXCEPT ![m.request] = m.outcome]
        ELSE UNCHANGED <<pending, answer>>
  /\ UNCHANGED <<open, up, connectorVars, count>>

\* The connection of a client is lost, or closed by _disconnect_slow_client: what the
\* relay has read is still forwarded.
Drop(c) ==
  /\ c \in open /\ count.drops < MaxDrops
  /\ count' = [count EXCEPT !.drops = @ + 1]
  /\ open' = open \ {c}
  /\ responses' = [responses EXCEPT ![c] = <<>>]
  /\ \E read \in 0..Len(up[c]) : up' = [up EXCEPT ![c] = SubSeq(@, 1, read)]
  /\ UNCHANGED <<pending, answer, connectorVars>>

\* A mutant of Repeated: a request is not sent again.
NotRepeated(c) == <<>>

\* resendPending
Repeated(c) == pending[c]

\* open, after scheduleReconnect.
Reconnect(c) ==
  /\ c \notin open
  /\ open' = open \cup {c}
  /\ up' = [up EXCEPT ![c] = @ \o Repeated(c)]
  /\ UNCHANGED <<pending, responses, answer, connectorVars, count>>
-----------------------------------------------------------------------------
(* The relay.                                                              *)

ToClient(c, m) == responses' = IF c \in open THEN [responses EXCEPT ![c] = Append(@, m)] ELSE responses

\* _forward_to_connector
Forward(c) ==
  /\ up[c] # <<>> /\ alive
  /\ up' = [up EXCEPT ![c] = Tail(@)]
  /\ line' = Append(line, Head(up[c]))
  /\ UNCHANGED <<pending, open, responses, answer, alive, cache, running, log, since, count>>

\* The device is offline, or sending to it fails: the frame may be out all the same.
ForwardFails(c) ==
  /\ up[c] # <<>>
  /\ up' = [up EXCEPT ![c] = Tail(@)]
  /\ \/ line' = line
     \/ alive /\ line' = Append(line, Head(up[c]))
  /\ ToClient(c, Response(Head(up[c]), Service!Refused))
  /\ UNCHANGED <<pending, open, answer, alive, cache, running, log, since, count>>

\* _broadcast_to_clients
ToClients(m) == responses' = [c \in Clients |-> IF c \in open THEN Append(responses[c], m) ELSE responses[c]]
-----------------------------------------------------------------------------
(* The connector.                                                          *)

Cached(r) == {i \in DOMAIN cache : cache[i].request = r}

\* handle_relay_message, of a request that was answered before.
AnswerAgain ==
  /\ line # <<>> /\ running = Idle
  /\ \E i \in Cached(Head(line)) :
       /\ cache' = Append(RemoveAt(cache, i), cache[i])
       /\ ToClients(Response(cache[i].request, Service!Outcome(cache[i].ok)))
       /\ log' = Append(log, Service!Served(cache[i].request, cache[i].ok, FALSE))
  /\ line' = Tail(line)
  /\ UNCHANGED <<pending, open, up, answer, alive, running, since, count>>

\* project.sidecar.execute; what it raises, a timeout too, makes an answer.
Execute ==
  /\ line # <<>> /\ running = Idle /\ Cached(Head(line)) = {}
  /\ \E ok \in BOOLEAN :
       /\ running' = <<Entry(Head(line), ok)>>
       /\ log' = Append(log, Service!Served(Head(line), ok, TRUE))
  /\ line' = Tail(line)
  /\ UNCHANGED <<net, alive, cache, since, count>>

\* A mutant of Remember: only a success is remembered.
RememberSuccess(entry) ==
  LET longer == IF entry.ok THEN Append(cache, entry) ELSE cache
  IN SubSeq(longer, IF Len(longer) > Window THEN 2 ELSE 1, Len(longer))

\* _remember_request
Remember(entry) ==
  LET longer == Append(cache, entry)
  IN SubSeq(longer, IF Len(longer) > Window THEN 2 ELSE 1, Len(longer))

Respond ==
  /\ running # Idle
  /\ running' = Idle
  /\ cache' = Remember(Head(running))
  /\ ToClients(Response(Head(running).request, Service!Outcome(Head(running).ok)))
  /\ UNCHANGED <<pending, open, up, answer, line, alive, log, since, count>>

\* The connector is lost with what it has been sent and has not answered.
ConnectorLost ==
  /\ alive /\ count.restarts < MaxRestarts
  /\ count' = [count EXCEPT !.restarts = @ + 1]
  /\ alive' = FALSE
  /\ line' = <<>> /\ running' = Idle /\ cache' = <<>>
  /\ since' = Len(log)
  /\ UNCHANGED <<net, log>>

ConnectorStarts ==
  /\ ~alive
  /\ alive' = TRUE
  /\ UNCHANGED <<net, line, cache, running, log, since, count>>

CommandsNext ==
  \/ \E c \in Clients : SendRequest(c) \/ ReceiveResponse(c) \/ Drop(c) \/ Reconnect(c) \/ Forward(c) \/ ForwardFails(c)
  \/ AnswerAgain \/ Execute \/ Respond \/ ConnectorLost \/ ConnectorStarts

CommandsSpec == CommandsInit /\ [][CommandsNext]_commandsVars

\* A client that is down connects again, every queue is read and the sidecar answers.
Fairness ==
  /\ \A c \in Clients : WF_commandsVars(ReceiveResponse(c)) /\ WF_commandsVars(Reconnect(c)) /\ WF_commandsVars(Forward(c) \/ ForwardFails(c))
  /\ WF_commandsVars(AnswerAgain \/ Execute) /\ WF_commandsVars(Respond)

FairCommandsSpec == CommandsSpec /\ Fairness
-----------------------------------------------------------------------------
\* A repeated request runs again only when the connector was restarted or Window other
\* requests were served since, and what a client is told is what a run of its request
\* came to: the commands of the clients are those of CommandService.
CommandsServed == Service!Spec

\* While the connector is not lost, every request of a client gets an answer, whatever
\* happens to the connection of the client. (A request that is lost with the connector
\* stays pending: the client is not told and does not repeat it.)
EveryRequestAnswered ==
  \A r \in Requests :
    Contains(pending[r[1]], r) ~> ~Contains(pending[r[1]], r) \/ count.restarts > 0
=============================================================================
