---------------------------- MODULE RemoteStream ----------------------------
(***************************************************************************)
(* The event stream of one Project from its Connector through the Relay to *)
(* a browser: RemoteConnector (remote/connector.py), RelayHub              *)
(* (remote/relay.py) and RemoteSomniaConnection                            *)
(* (desktop/ui/src/lib/remote-somnia-connection.ts).                       *)
(*                                                                         *)
(* Each run of the Connector numbers its events from 1 in a new epoch and  *)
(* keeps the last RingLimit of them.  The browser asks to resume after the *)
(* event it has applied, and gets a replay or a snapshot.  The Relay sends *)
(* everything a Connector says to every browser of the device, so the      *)
(* replies to other browsers arrive here too (OtherBrowser asks for them). *)
(* An event is its number; requests other than acknowledgements and        *)
(* resumes are no part of the stream.                                      *)
(***************************************************************************)
EXTENDS Integers, Sequences

CONSTANTS RingLimit,      \* replay_limit
          \* bounds of the model
          MaxEvents,      \* events in an epoch
          MaxEpochs,      \* runs of the Connector
          MaxDisconnects, \* connections the browser loses
          MaxOthers,      \* resumes sent by other browsers
          MaxFailures,    \* snapshots the sidecar fails to give
          MaxRefusals     \* requests a connected Device does not get

ASSUME StreamAssumption ==
  /\ RingLimit \in Nat \ {0}
  /\ {MaxEvents, MaxEpochs, MaxDisconnects, MaxOthers, MaxFailures,
      MaxRefusals} \subseteq Nat

VARIABLES
  connector, \* the Connector's stream and what its two threads have yet to send
  wire,      \* from each run of the Connector to the Relay
  requests,  \* from the browsers to the Connector
  down,      \* from the Relay to the browser
  browser,   \* fields of RemoteSomniaConnection
  view,      \* history: what the browser's listeners have been shown
  counters   \* how often each bounded action was taken

vars == <<connector, wire, requests, down, browser, view, counters>>

Epochs == 1..MaxEpochs   \* 0: no epoch (null)
Numbers == 0..MaxEvents

\* event: number seq; replay: the events after `after` up to seq; snapshot: as of seq.
Message == [kind : {"event", "replay", "snapshot", "snapshot_required"},
            epoch : Epochs, after : Numbers, seq : Numbers]
Request == [kind : {"ack", "resume"}, epoch : 0..MaxEpochs, seq : Numbers]

Init ==
  /\ connector = [up |-> FALSE, epoch |-> 0, next |-> 0, acked |-> 0,
                  event |-> <<>>, reply |-> <<>>]
  /\ wire = [e \in Epochs |-> <<>>]
  /\ requests = <<>> /\ down = <<>>
  /\ browser = [open |-> FALSE, epoch |-> 0, applied |-> 0, acked |-> 0,
                buffer |-> {}, inFlight |-> FALSE]
  /\ view = [epoch |-> 0, seq |-> 0, whole |-> FALSE, synced |-> FALSE, skipped |-> FALSE]
  /\ counters = [disconnects |-> 0, others |-> 0, failures |-> 0, refusals |-> 0]
-----------------------------------------------------------------------------
(* The Connector.  The event thread records an event and sends it; the     *)
(* relay thread handles one request after the other.  A replay is put      *)
(* together under _state_lock and sent without it, a snapshot is both.     *)

Send(m) == wire' = [wire EXCEPT ![m.epoch] = Append(@, m)]

\* run: _begin_stream, then the Relay registers this Connector and closes the
\* one before, of which it may still hold one message it has received.
StartConnector ==
  /\ ~connector.up /\ connector.epoch < MaxEpochs
  /\ connector' = [up |-> TRUE, epoch |-> connector.epoch + 1, next |-> 0, acked |-> 0,
                   event |-> <<>>, reply |-> <<>>]
  /\ \E handling \in BOOLEAN :
       wire' = [e \in Epochs |-> IF handling /\ wire[e] # <<>> THEN <<Head(wire[e])>>
                                 ELSE <<>>]
  /\ UNCHANGED <<requests, down, browser, view, counters>>

\* The connection or the process ends; what was under way may be lost.
StopConnector ==
  /\ connector.up
  /\ connector' = [connector EXCEPT !.up = FALSE, !.event = <<>>, !.reply = <<>>]
  /\ \E n \in 0..Len(wire[connector.epoch]) :
       wire' = [wire EXCEPT ![connector.epoch] = SubSeq(@, 1, n)]
  /\ \E n \in 1..Len(requests) + 1 : requests' = SubSeq(requests, n, Len(requests))
  /\ UNCHANGED <<down, browser, view, counters>>

RecordEvent ==
  /\ connector.up /\ connector.event = <<>> /\ connector.next < MaxEvents
  /\ LET n == connector.next + 1
     IN connector' = [connector EXCEPT !.next = n, !.event =
          <<[kind |-> "event", epoch |-> connector.epoch, after |-> n - 1, seq |-> n]>>]
  /\ UNCHANGED <<wire, requests, down, browser, view, counters>>

SendEvent ==
  /\ connector.event # <<>>
  /\ Send(Head(connector.event))
  /\ connector' = [connector EXCEPT !.event = <<>>]
  /\ UNCHANGED <<requests, down, browser, view, counters>>

SendReply ==
  /\ connector.reply # <<>>
  /\ Send(Head(connector.reply))
  /\ connector' = [connector EXCEPT !.reply = <<>>]
  /\ UNCHANGED <<requests, down, browser, view, counters>>

\* The event before the oldest one in the ring.
Evicted == IF connector.next > RingLimit THEN connector.next - RingLimit ELSE 0

ReplayAvailable(r) ==
  r.epoch = connector.epoch /\ Evicted <= r.seq /\ r.seq <= connector.next

Serving(kind) ==
  /\ connector.up /\ connector.reply = <<>>
  /\ requests # <<>> /\ Head(requests).kind = kind
  /\ requests' = Tail(requests)

HandleStreamAck ==
  /\ Serving("ack")
  /\ LET r == Head(requests)
     IN IF r.epoch = connector.epoch /\ r.seq > connector.acked
        THEN connector' = [connector EXCEPT !.acked =
                             IF r.seq < connector.next THEN r.seq ELSE connector.next]
        ELSE UNCHANGED connector
  /\ UNCHANGED <<wire, down, browser, view, counters>>

Replay ==
  /\ Serving("resume") /\ ReplayAvailable(Head(requests))
  /\ connector' = [connector EXCEPT !.reply =
       <<[kind |-> "replay", epoch |-> connector.epoch, after |-> Head(requests).seq,
          seq |-> connector.next]>>]
  /\ UNCHANGED <<wire, down, browser, view, counters>>

Snapshot(kind) ==
  /\ Serving("resume") /\ ~ReplayAvailable(Head(requests))
  /\ Send([kind |-> kind, epoch |-> connector.epoch, after |-> connector.next,
           seq |-> connector.next])
  /\ UNCHANGED <<connector, down, browser, view>>

GiveSnapshot == Snapshot("snapshot") /\ UNCHANGED counters

SnapshotFails ==
  /\ counters.failures < MaxFailures
  /\ Snapshot("snapshot_required")
  /\ counters' = [counters EXCEPT !.failures = @ + 1]
-----------------------------------------------------------------------------
(* The Relay.                                                              *)

\* _broadcast_to_clients.  That last message of a replaced Connector waits for no
\* network any more, so it precedes what the new one sends once it is let in.
Broadcast(e) ==
  /\ wire[e] # <<>> /\ \A o \in 1..e - 1 : wire[o] = <<>>
  /\ down' = IF browser.open THEN Append(down, Head(wire[e])) ELSE down
  /\ wire' = [wire EXCEPT ![e] = Tail(@)]
  /\ UNCHANGED <<connector, requests, browser, view, counters>>

\* _forward_to_connector: "Device is offline", or "Device connection failed" when
\* another request is being sent to it or sending takes too long.  The browser
\* knows the answer by no request id and ignores it.
Refuse ==
  /\ requests # <<>> /\ requests' = Tail(requests)
  /\ \/ ~connector.up /\ UNCHANGED counters
     \/ /\ connector.up /\ counters.refusals < MaxRefusals
        /\ counters' = [counters EXCEPT !.refusals = @ + 1]
  /\ UNCHANGED <<connector, wire, down, browser, view>>

\* Any other browser of the device, at whatever position.
OtherBrowser(e, n) ==
  /\ counters.others < MaxOthers
  /\ counters' = [counters EXCEPT !.others = @ + 1]
  /\ requests' = Append(requests, [kind |-> "resume", epoch |-> e, seq |-> n])
  /\ UNCHANGED <<connector, wire, down, browser, view>>
-----------------------------------------------------------------------------
(* The browser.  b is the connection with two fields more: out, what it    *)
(* sends while it handles a message, and view.                             *)

SendStreamResume(b) ==
  [b EXCEPT !.inFlight = TRUE,
            !.out = Append(@, [kind |-> "resume", epoch |-> b.epoch, seq |-> b.applied])]

SendStreamAck(b) ==
  IF b.epoch = 0 \/ b.applied <= b.acked THEN b
  ELSE [b EXCEPT !.acked = b.applied,
                 !.out = Append(@, [kind |-> "ack", epoch |-> b.epoch, seq |-> b.applied])]

\* plausible bug: the buffer keeps events of the epoch that is given up
RequestSnapshotKeepingBuffer(b) ==
  SendStreamResume([b EXCEPT !.epoch = 0, !.applied = 0, !.acked = 0])

RequestSnapshotResume(b) ==
  SendStreamResume([b EXCEPT !.epoch = 0, !.applied = 0, !.acked = 0, !.buffer = {}])

\* The last of the buffered numbers that follow n without a gap.
LastContiguous(buffer, n) ==
  CHOOSE k \in n..(n + MaxEvents) :
    /\ \A i \in n + 1..k : \E m \in buffer : m.seq = i
    /\ ~ \E m \in buffer : m.seq = k + 1

\* The listeners see the events of messages, which follow each other up to n.
Show(v, messages, n) ==
  LET first == CHOOSE m \in messages : \A o \in messages : m.seq <= o.seq
      follows == v.epoch = first.epoch /\ v.seq = first.seq - 1
      mixed == \E m \in messages : m.epoch # first.epoch
  IN IF messages = {} THEN v
     ELSE [epoch |-> first.epoch, seq |-> n, synced |-> v.synced,
           whole |-> v.whole /\ follows /\ ~mixed,
           skipped |-> v.skipped \/ mixed \/ ~(follows \/ first.seq = 1)]

HandleSequencedEvent(b, e, n) ==
  IF b.epoch \notin {0, e} THEN RequestSnapshotResume(b)
  ELSE IF n <= b.applied THEN [b EXCEPT !.epoch = e]
  ELSE LET known  == \E m \in b.buffer : m.seq = n
           buffer == b.buffer \cup {m \in {[epoch |-> e, seq |-> n]} : ~known}
           last   == LastContiguous(buffer, b.applied)
           rest   == {m \in buffer : m.seq > last}
           shown  == [b EXCEPT !.epoch = e, !.buffer = rest, !.applied = last,
                               !.view = Show(@, buffer \ rest, last)]
           acked  == IF last > b.applied THEN SendStreamAck(shown) ELSE shown
       IN IF rest # {} /\ ~b.inFlight THEN SendStreamResume(acked) ELSE acked

HandleReplay(b, m) ==
  LET ready == [b EXCEPT !.inFlight = FALSE]
      after[n \in m.after..m.seq] ==
        IF n = m.after THEN [ready EXCEPT !.epoch = m.epoch]
        ELSE HandleSequencedEvent(after[n - 1], m.epoch, n)
  IN IF b.epoch \notin {0, m.epoch} THEN RequestSnapshotResume(ready) ELSE after[m.seq]

\* plausible bug: the acknowledged number of the old epoch is kept
HandleSnapshotKeepingAck(b, m) ==
  IF b.epoch = m.epoch /\ m.seq <= b.applied THEN [b EXCEPT !.inFlight = FALSE]
  ELSE SendStreamAck([b EXCEPT !.inFlight = FALSE, !.epoch = m.epoch, !.buffer = {},
                               !.applied = m.seq,
                               !.view = [@ EXCEPT !.epoch = m.epoch, !.seq = m.seq,
                                                  !.whole = TRUE, !.synced = TRUE]])

\* plausible bug: a snapshot of a new epoch is taken for an old one
HandleSnapshotByNumber(b, m) ==
  IF m.seq <= b.applied THEN [b EXCEPT !.inFlight = FALSE]
  ELSE HandleSnapshotKeepingAck([b EXCEPT !.acked = 0], m)

HandleSnapshot(b, m) ==
  IF b.epoch = m.epoch /\ m.seq <= b.applied THEN [b EXCEPT !.inFlight = FALSE]
  ELSE SendStreamAck([b EXCEPT !.inFlight = FALSE, !.epoch = m.epoch, !.buffer = {},
                               !.acked = IF b.epoch = m.epoch THEN @ ELSE 0,
                               !.applied = m.seq,
                               !.view = [@ EXCEPT !.epoch = m.epoch, !.seq = m.seq,
                                                  !.whole = TRUE, !.synced = TRUE]])

HandleMessage(b, m) ==
  CASE m.kind = "event"    -> HandleSequencedEvent(b, m.epoch, m.seq)
    [] m.kind = "replay"   -> HandleReplay(b, m)
    [] m.kind = "snapshot" -> HandleSnapshot(b, m)
    [] OTHER               -> [b EXCEPT !.inFlight = FALSE]

Current ==
  [open |-> browser.open, epoch |-> browser.epoch, applied |-> browser.applied,
   acked |-> browser.acked, buffer |-> browser.buffer, inFlight |-> browser.inFlight,
   out |-> <<>>, view |-> view]

\* The connection after it handled something, as result; it may also send.
Become(result) ==
  \E b \in {result} :
    /\ browser' = [open |-> b.open, epoch |-> b.epoch, applied |-> b.applied,
                   acked |-> b.acked, buffer |-> b.buffer, inFlight |-> b.inFlight]
    /\ view' = b.view
    /\ requests' = requests \o b.out

Receive ==
  /\ down # <<>>
  /\ down' = Tail(down)
  /\ Become(HandleMessage(Current, Head(down)))
  /\ UNCHANGED <<connector, wire, counters>>

Open ==
  /\ ~browser.open
  /\ Become(SendStreamResume([Current EXCEPT !.open = TRUE]))
  /\ UNCHANGED <<connector, wire, down, counters>>

\* The network, or the Relay that finds the browser too slow.  What it sent last
\* may be lost with the connection; buffer and inFlight are kept.
Disconnect ==
  /\ browser.open /\ counters.disconnects < MaxDisconnects
  /\ counters' = [counters EXCEPT !.disconnects = @ + 1]
  /\ browser' = [browser EXCEPT !.open = FALSE]
  /\ down' = <<>>
  /\ \E n \in 0..Len(requests) : requests' = SubSeq(requests, 1, n)
  /\ UNCHANGED <<connector, wire, view>>

RelayThread == SendReply \/ HandleStreamAck \/ Replay \/ GiveSnapshot

Relay == \E e \in Epochs : Broadcast(e)

Browser == Receive \/ Open

Disturbance ==
  \/ StopConnector \/ RecordEvent \/ SnapshotFails \/ Disconnect
  \/ OtherBrowser(0, 0) \/ \E n \in 0..connector.next : OtherBrowser(connector.epoch, n)

Next ==
  \/ StartConnector \/ SendEvent \/ RelayThread \/ Relay \/ Refuse \/ Browser
  \/ Disturbance

Spec == Init /\ [][Next]_vars

\* Threads and sockets go on and the browser's timer reconnects; nothing forces a
\* start, an event, a refusal, a failure or a disconnection.
FairSpec ==
  /\ Spec
  /\ WF_vars(SendEvent) /\ WF_vars(RelayThread) /\ WF_vars(Relay) /\ WF_vars(Browser)
-----------------------------------------------------------------------------
\* The variables have their types; a buffered event is one the browser waits for.
TypeOK ==
  /\ connector \in [up : BOOLEAN, epoch : 0..MaxEpochs, next : Numbers, acked : Numbers,
                    event : Seq(Message), reply : Seq(Message)]
  /\ wire \in [Epochs -> Seq(Message)]
  /\ requests \in Seq(Request) /\ down \in Seq(Message)
  /\ browser \in [open : BOOLEAN, epoch : 0..MaxEpochs, applied : Numbers, acked : Numbers,
                  buffer : SUBSET [epoch : Epochs, seq : Numbers], inFlight : BOOLEAN]
  /\ \A m \in browser.buffer : m.seq > browser.applied

\* What the listeners see never leaves an event out: each one is the first of its
\* epoch or follows the event or snapshot shown before it, whatever was buffered
\* when the epoch changed.
NothingSkipped == ~view.skipped

\* "Browsers acknowledge the highest contiguous event they have applied": after each
\* message nothing applied is left unacknowledged, also across epochs and snapshots.
AppliedIsAcknowledged == browser.epoch # 0 => browser.acked = browser.applied

\* "A reconnect replays available events and otherwise performs an explicit snapshot
\* resync": however often the browser and the Connector reconnect, once both stay the
\* browser has applied the last event of the current epoch.
CatchesUp ==
  <>[](connector.up /\ connector.next > 0 =>
         browser.epoch = connector.epoch /\ browser.applied = connector.next)

\* Nothing is under way between a connected browser and a running Connector.
Quiet ==
  /\ browser.open /\ connector.up /\ requests = <<>> /\ down = <<>>
  /\ connector.event = <<>> /\ connector.reply = <<>>
  /\ \A e \in Epochs : wire[e] = <<>>

\* "...otherwise performs an explicit snapshot resync": when nothing is under way, what
\* a browser shows that was once in sync is a snapshot and the events after it.
ResyncedWhenQuiet == Quiet /\ view.synced => view.whole
=============================================================================
