----------------------------- MODULE RelayAccess -----------------------------
(***************************************************************************)
(* Who may use the Relay: pairing codes, Devices and the sessions of       *)
(* browsers (remote/auth.py, remote/auth_store.py), and the sockets of     *)
(* Connectors and browsers, which RelayHub (remote/relay.py) checks again  *)
(* with every message.                                                     *)
(*                                                                         *)
(* The Relay is one event loop: a step is what one of its coroutines does  *)
(* between two awaits. No lock of RelayHub is held across an await, so     *)
(* taking one is no step. Codes, Devices, sessions, sockets and messages   *)
(* are numbered in the order they come.                                    *)
(***************************************************************************)
EXTENDS Integers, Sequences, FiniteSetsExt

CONSTANTS Accounts,
          SessionLimit,   \* max_browser_sessions
          PairingLimit,   \* max_pairings
          \* bounds of the model
          MaxSessions, MaxCodes, MaxConnectors, MaxClients, MaxMessages, MaxRestarts

VARIABLES
  session,    \* _sessions_by_refresh and _sessions_by_access: each session ever issued
  code,       \* _pairings: each code ever made
  device,     \* _devices and the metadata store: the Device of each code
  connection,  \* connections of Connectors, with their coroutines
  client,     \* connections of browsers, with theirs
  online,     \* _connectors: the peer registered for each Device
  listed,     \* _clients: the peers registered for each Device
  revoking,   \* peers that a revocation has yet to close
  tasks,      \* _delivery_tasks
  shown,      \* history variable: what browsers got of Devices
  obeyed,     \* history variable: what Connectors got of browsers
  count       \* messages and restarts so far

accessVars == <<session, code, device, connection, client, online, listed, revoking, tasks, shown, obeyed, count>>
access == <<session, code, device>>
sockets == <<connection, client, online, listed, revoking, tasks, shown, obeyed>>

Sessions == DOMAIN session
Codes == DOMAIN code
Connectors == DOMAIN connection
Clients == DOMAIN client

AccessInit ==
  /\ session = <<>> /\ code = <<>> /\ device = <<>> /\ connection = <<>> /\ client = <<>>
  /\ online = <<>> /\ listed = <<>> /\ revoking = <<>>
  /\ tasks = {} /\ shown = {} /\ obeyed = {}
  /\ count = [messages |-> 0, restarts |-> 0]
-----------------------------------------------------------------------------
(* Sessions of browsers.  A session is valid until its access expires,     *)
(* then stale until it is refreshed or its refresh expires, or lost with   *)
(* the process.                                                            *)

\* Sessions that are still in the maps.
Kept(all) == {s \in DOMAIN all : all[s].state \in {"valid", "stale"}}

\* resolve_access
Valid(s) == session[s].state = "valid"

\* _remove_session
Ended(old, s) == [old EXCEPT ![s].state = "ended"]

\* issue_browser_tokens, of which the oldest session may make room.
Issue(old, account) ==
  LET room == IF Cardinality(Kept(old)) < SessionLimit THEN old ELSE Ended(old, Min(Kept(old)))
  IN Append(room, [account |-> account, state |-> "valid"])

Login(account) ==
  /\ Len(session) < MaxSessions
  /\ session' = Issue(session, account)
  /\ UNCHANGED <<code, device, sockets, count>>

\* rotate_refresh
Rotate(s) ==
  /\ s \in Kept(session) /\ Len(session) < MaxSessions
  /\ session' = Issue(Ended(session, s), session[s].account)
  /\ UNCHANGED <<code, device, sockets, count>>

\* revoke_browser_tokens; open connections of the browser are left alone.
Logout(s) ==
  /\ s \in Kept(session)
  /\ session' = Ended(session, s)
  /\ UNCHANGED <<code, device, sockets, count>>

\* _prune_sessions, when time has passed.
Expire(s) ==
  /\ \/ Valid(s) /\ session' = [session EXCEPT ![s].state = "stale"]
     \/ session[s].state = "stale" /\ session' = Ended(session, s)
  /\ UNCHANGED <<code, device, sockets, count>>
-----------------------------------------------------------------------------
(* Pairing codes and Devices.                                              *)

\* create_pairing, of which the oldest code may make room. The session was valid when the
\* request began, and may be over when its body has been read.
CreatePairing(s) ==
  /\ session[s].state # "lost" /\ Len(code) < MaxCodes
  /\ LET kept == {c \in Codes : code[c].state # "gone"}
         room == IF Cardinality(kept) < PairingLimit THEN code ELSE [code EXCEPT ![Min(kept)].state = "gone"]
     IN code' = Append(room, [account |-> session[s].account, state |-> "open"])
  /\ UNCHANGED <<session, device, sockets, count>>

\* _prune_pairings, when time has passed.
ExpirePairing(c) ==
  /\ code[c].state # "gone"
  /\ code' = [code EXCEPT ![c].state = "gone"]
  /\ UNCHANGED <<session, device, sockets, count>>

\* claim_pairing. The Device is stored before the code is marked; when it cannot be
\* stored, or attempts were too many, nothing changes.
ClaimPairing(c) ==
  /\ code[c].state = "open"
  /\ code' = [code EXCEPT ![c].state = "used"]
  /\ device' = Append(device, [code |-> c, account |-> code[c].account, revoked |-> FALSE])
  /\ online' = Append(online, 0) /\ listed' = Append(listed, {}) /\ revoking' = Append(revoking, {})
  /\ UNCHANGED <<session, connection, client, tasks, shown, obeyed, count>>
-----------------------------------------------------------------------------
(* Connections of Connectors: serve_connector.                             *)

Devices == DOMAIN device

\* A revocation is answered when every peer of the Device has been closed.
RevocationAnswered(d) == device[d].revoked /\ revoking[d] = {}

\* A message carries what was over when it was sent.
NewMessage(d) == [number |-> count.messages + 1, late |-> RevocationAnswered(d),
               ended |-> Sessions \ Kept(session)]

\* The Device is looked up before it is challenged.
ConnectorArrives(d) ==
  /\ Len(connection) < MaxConnectors
  /\ connection' = Append(connection,
       [device |-> d, known |-> ~device[d].revoked, at |-> "challenged", up |-> TRUE, closed |-> FALSE,
        wire |-> <<>>, frame |-> <<>>, rest |-> {}])
  /\ UNCHANGED <<access, client, online, listed, revoking, tasks, shown, obeyed, count>>

\* No proof, a wrong one, or that of a Device that was revoked before it was challenged.
Rejected(k) ==
  /\ connection[k].at = "challenged"
  /\ connection' = [connection EXCEPT ![k].at = "gone", ![k].closed = TRUE]
  /\ UNCHANGED <<access, client, online, listed, revoking, tasks, shown, obeyed, count>>

\* What becomes of peers when connection k is about to be told that it is accepted: sending
\* fails when it is lost or closed by then, and serve_connector ends.
Greeted(peers, k) ==
  [peers EXCEPT ![k].at = IF peers[k].up /\ ~peers[k].closed THEN "serving" ELSE "gone"]

\* The proof is accepted and the peer registered. Closing the one before takes a while,
\* or fails when that one is closed already.
Register(k) ==
  LET d == connection[k].device
      previous == online[d]
  IN /\ connection[k].at = "challenged" /\ connection[k].known
     /\ online' = [online EXCEPT ![d] = k]
     /\ connection' =
          IF previous = 0 THEN Greeted(connection, k)
          ELSE IF connection[previous].closed \/ connection[previous].at = "gone"
          THEN [connection EXCEPT ![k].at = "gone"]
          ELSE [connection EXCEPT ![k].at = "replacing", ![previous].closed = TRUE]
     /\ UNCHANGED <<access, client, listed, revoking, tasks, shown, obeyed, count>>

\* The connection before is closed.
Replaced(k) ==
  /\ connection[k].at = "replacing"
  /\ connection' = Greeted(connection, k)
  /\ UNCHANGED <<access, client, online, listed, revoking, tasks, shown, obeyed, count>>

\* The connection is lost; the Relay reads what has arrived.
ConnectorLost(k) ==
  /\ connection[k].up /\ connection[k].at # "gone"
  /\ connection' = [connection EXCEPT ![k].up = FALSE]
  /\ UNCHANGED <<access, client, online, listed, revoking, tasks, shown, obeyed, count>>

\* The Connector sends an event or a reply.
DeviceSends(k) ==
  /\ connection[k].at = "serving" /\ connection[k].up /\ ~connection[k].closed
  /\ count.messages < MaxMessages
  /\ connection' = [connection EXCEPT ![k].wire = Append(@, NewMessage(connection[k].device))]
  /\ count' = [count EXCEPT !.messages = @ + 1]
  /\ UNCHANGED <<access, client, online, listed, revoking, tasks, shown, obeyed>>

\* A peer that sends for a Device that was revoked meanwhile is closed; any other message
\* goes to the browsers listed now, if a Connector of the Device is registered.
TakeFrame(k) ==
  LET peer == connection[k]
  IN /\ peer.at = "serving" /\ peer.wire # <<>>
     /\ connection' = [connection EXCEPT ![k] =
          IF device[peer.device].revoked THEN [@ EXCEPT !.closed = TRUE, !.at = "closing"]
          ELSE [@ EXCEPT !.at = "sending", !.wire = Tail(peer.wire), !.frame = <<Head(peer.wire)>>,
                         !.rest = IF online[peer.device] = 0 THEN {} ELSE listed[peer.device]]]
     /\ UNCHANGED <<access, client, online, listed, revoking, tasks, shown, obeyed, count>>

\* A mutant of Expired: sessions are checked when the browser connects, and then no more.
NeverExpired(rest) == {}

\* Browsers that have connected with a session that is no longer valid.
Expired(rest) == {c \in rest : ~Valid(client[c].session)}

\* _broadcast_to_clients: a task for each browser, up to one whose session is over. That
\* one is taken from the list and closed, which takes a while.
SpreadFrame(k) ==
  LET d == connection[k].device
      rest == connection[k].rest
      frame == Head(connection[k].frame)
      expired == Expired(rest)
      Deliver(cs) == tasks' = tasks \cup {[client |-> c, message |-> frame] : c \in cs}
  IN /\ connection[k].at = "sending"
     /\ \/ /\ expired = {}
           /\ Deliver(rest)
           /\ connection' = [connection EXCEPT ![k].at = "serving", ![k].rest = {}, ![k].frame = <<>>]
           /\ UNCHANGED <<client, listed>>
        \/ \E c \in expired : \E before \in SUBSET (rest \ expired) :
             /\ Deliver(before)
             /\ connection' = [connection EXCEPT ![k].rest = rest \ (before \cup {c})]
             /\ client' = [client EXCEPT ![c].closed = TRUE]
             /\ listed' = [listed EXCEPT ![d] = @ \ {c}]
     /\ UNCHANGED <<access, online, revoking, shown, obeyed, count>>

\* serve_connector is over: the connection is lost or closed, and nothing of it is left to
\* read. Another peer that has taken its place stays registered.
ConnectorEnds(k) ==
  LET peer == connection[k]
  IN /\ \/ peer.at = "closing"
        \/ peer.at = "serving" /\ (peer.closed \/ (~peer.up /\ peer.wire = <<>>))
     /\ connection' = [connection EXCEPT ![k].at = "gone", ![k].wire = <<>>]
     /\ online' = [online EXCEPT ![peer.device] = IF @ = k THEN 0 ELSE @]
     /\ UNCHANGED <<access, client, listed, revoking, tasks, shown, obeyed, count>>
-----------------------------------------------------------------------------
(* Connections of browsers: serve_client.                                  *)

\* Anybody else is turned away.
ClientArrives(s, d) ==
  /\ Len(client) < MaxClients
  /\ Valid(s) /\ ~device[d].revoked /\ device[d].account = session[s].account
  /\ client' = Append(client, [session |-> s, device |-> d, at |-> "serving", up |-> TRUE, closed |-> FALSE,
                               wire |-> <<>>])
  /\ listed' = [listed EXCEPT ![d] = @ \cup {Len(client) + 1}]
  /\ UNCHANGED <<access, connection, online, revoking, tasks, shown, obeyed, count>>

ClientLost(c) ==
  /\ client[c].up /\ client[c].at # "gone"
  /\ client' = [client EXCEPT ![c].up = FALSE]
  /\ UNCHANGED <<access, connection, online, listed, revoking, tasks, shown, obeyed, count>>

ClientSends(c) ==
  /\ client[c].at = "serving" /\ client[c].up /\ ~client[c].closed
  /\ count.messages < MaxMessages
  /\ client' = [client EXCEPT ![c].wire = Append(@, NewMessage(client[c].device))]
  /\ count' = [count EXCEPT !.messages = @ + 1]
  /\ UNCHANGED <<access, connection, online, listed, revoking, tasks, shown, obeyed>>

\* A browser whose session or Device is gone is closed. Otherwise its message goes to the
\* Connector that is registered now, or is answered with an error; when that cannot be sent,
\* the connection of the browser is over.
TakeCommand(c) ==
  LET peer == client[c]
      k == online[peer.device]
      Taken == client' = [client EXCEPT ![c].wire = Tail(@)]
      Close == client' = [client EXCEPT ![c].closed = TRUE, ![c].at = "closing"]
  IN /\ peer.at = "serving" /\ peer.wire # <<>>
     /\ IF ~Valid(peer.session) \/ device[peer.device].revoked
        THEN Close /\ UNCHANGED obeyed
        ELSE \/ /\ k # 0 /\ connection[k].up /\ ~connection[k].closed /\ connection[k].at # "gone"
                /\ obeyed' = obeyed \cup {[client |-> c, message |-> Head(peer.wire)]}
                /\ Taken
             \/ (Taken \/ Close) /\ UNCHANGED obeyed
     /\ UNCHANGED <<access, connection, online, listed, revoking, tasks, shown, count>>

\* _deliver_to_client: sent, or too slow and closed, or failed and taken from the list.
Delivered(t) ==
  LET c == t.client
      Unlisted == listed' = [listed EXCEPT ![client[c].device] = @ \ {c}]
  IN /\ tasks' = tasks \ {t}
     /\ \/ /\ client[c].up /\ ~client[c].closed /\ client[c].at # "gone"
           /\ shown' = shown \cup {t}
           /\ UNCHANGED <<client, listed>>
        \/ /\ client[c].at # "gone"
           /\ client' = [client EXCEPT ![c].closed = TRUE]
           /\ Unlisted /\ UNCHANGED shown
        \/ /\ ~client[c].up \/ client[c].closed \/ client[c].at = "gone"
           /\ Unlisted /\ UNCHANGED <<client, shown>>
     /\ UNCHANGED <<access, connection, online, revoking, obeyed, count>>

ClientEnds(c) ==
  LET peer == client[c]
  IN /\ \/ peer.at = "closing"
        \/ peer.at = "serving" /\ (peer.closed \/ (~peer.up /\ peer.wire = <<>>))
     /\ client' = [client EXCEPT ![c].at = "gone", ![c].wire = <<>>]
     /\ listed' = [listed EXCEPT ![peer.device] = @ \ {c}]
     /\ UNCHANGED <<access, connection, online, revoking, tasks, shown, obeyed, count>>
-----------------------------------------------------------------------------
(* Revocation and restarts.                                                *)

\* revoke_device of RemoteAuth, then of RelayHub, up to the first peer to close. It may be
\* asked for again.
RevokeDevice(s, d) ==
  /\ Valid(s) /\ device[d].account = session[s].account
  /\ device' = [device EXCEPT ![d].revoked = TRUE]
  /\ revoking' = [revoking EXCEPT ![d] = @ \cup
       {[kind |-> "client", peer |-> c] : c \in listed[d]}
         \cup (IF online[d] = 0 THEN {} ELSE {[kind |-> "connector", peer |-> online[d]]})]
  /\ online' = [online EXCEPT ![d] = 0]
  /\ listed' = [listed EXCEPT ![d] = {}]
  /\ UNCHANGED <<session, code, connection, client, tasks, shown, obeyed, count>>

CloseRevoked(d) ==
  /\ \E p \in revoking[d] :
       /\ revoking' = [revoking EXCEPT ![d] = @ \ {p}]
       /\ IF p.kind = "client"
          THEN client' = [client EXCEPT ![p.peer].closed = TRUE] /\ UNCHANGED connection
          ELSE connection' = [connection EXCEPT ![p.peer].closed = TRUE] /\ UNCHANGED client
  /\ UNCHANGED <<access, online, listed, tasks, shown, obeyed, count>>

\* The Relay stops and starts again with the Devices that are stored.
Restart ==
  /\ count.restarts < MaxRestarts
  /\ count' = [count EXCEPT !.restarts = @ + 1]
  /\ session' = [s \in Sessions |-> [session[s] EXCEPT !.state = "lost"]]
  /\ code' = [c \in Codes |-> [code[c] EXCEPT !.state = "gone"]]
  /\ connection' = [k \in Connectors |-> [connection[k] EXCEPT !.at = "gone", !.up = FALSE]]
  /\ client' = [c \in Clients |-> [client[c] EXCEPT !.at = "gone", !.up = FALSE]]
  /\ online' = [d \in Devices |-> 0] /\ listed' = [d \in Devices |-> {}]
  /\ revoking' = [d \in Devices |-> {}] /\ tasks' = {}
  /\ UNCHANGED <<device, shown, obeyed>>

AccessNext ==
  \/ \E a \in Accounts : Login(a)
  \/ \E s \in Sessions : Rotate(s) \/ Logout(s) \/ Expire(s) \/ CreatePairing(s)
  \/ \E c \in Codes : ExpirePairing(c) \/ ClaimPairing(c)
  \/ \E d \in Devices : ConnectorArrives(d) \/ CloseRevoked(d)
  \/ \E k \in Connectors :
       \/ Rejected(k) \/ Register(k) \/ Replaced(k) \/ ConnectorLost(k) \/ DeviceSends(k)
       \/ TakeFrame(k) \/ SpreadFrame(k) \/ ConnectorEnds(k)
  \/ \E s \in Sessions, d \in Devices : ClientArrives(s, d) \/ RevokeDevice(s, d)
  \/ \E c \in Clients : ClientLost(c) \/ ClientSends(c) \/ TakeCommand(c) \/ ClientEnds(c)
  \/ \E t \in tasks : Delivered(t)
  \/ Restart

AccessSpec == AccessInit /\ [][AccessNext]_accessVars
-----------------------------------------------------------------------------
\* No message passes that was sent when the revocation of its Device was answered or the
\* session was over: neither from a Connector that has authenticated with what was true
\* before its challenge, nor by a broadcast that waits in its middle, nor over a connection
\* that outlives its session. And Devices are heard and commanded by their own account only.
AccessEnds ==
  \A m \in shown \cup obeyed :
    LET peer == client[m.client]
    IN /\ ~m.message.late /\ peer.session \notin m.message.ended
       /\ session[peer.session].account = device[peer.device].account

\* A Connector that is served is the one its Device is online with, unless the Device was
\* revoked: when connections follow and replace one another, the end of an old one does not
\* take a new one from the list.
ServedIsOnline ==
  \A k \in Connectors : connection[k].at = "serving" /\ ~connection[k].closed =>
    online[connection[k].device] = k \/ device[connection[k].device].revoked

AccessHolds == AccessEnds /\ ServedIsOnline
=============================================================================
