----------------------------- MODULE TeamMessages -----------------------------
(* Messages and requests between the lead of a session and its teammates    *)
(* (collaboration/bus, storage/inbox, collaboration/protocols, tools/team). *)
(* An inbox is a file per session and recipient that its reader empties; a  *)
(* request is an entry of a file that is read, changed and written back     *)
(* without a lock over the three.  A teammate that asks for authorization   *)
(* waits for the answer; one that is told to shut down stops.               *)
EXTENDS Naturals, Sequences, SequencesExt, FiniteSets

CONSTANTS Sessions,     \* the sessions, strings
          Workers,      \* the teammates, strings; their names differ
          SessionOf,    \* the session of each
          First,        \* the session that is active first
          MaxMessages,  \* bound on the plain messages sent
          MaxRequests,  \* bound on the requests made
          MaxSwitches   \* bound on the changes of the active session

VARIABLES box,       \* InboxStore: <<recipient, session>> -> messages
          active,    \* _active_session_id of the teammate manager
          switches,
          file,      \* RequestTracker: kind -> (request -> status)
          op,        \* actor -> the call its thread is in
          stop,      \* the teammates whose stop event is set
          stopped,   \* the teammates whose loop has ended
          requests,  \* request -> its kind, from and status decided by the lead
          told,      \* request -> what its teammate was told
          sent, shown, dropped   \* the messages so far, and what became of them

vars == <<box, active, switches, file, op, stop, stopped, requests, told,
          sent, shown, dropped>>

NoSession == "none"
Lead(s) == <<"lead", s>>
Worker(w) == <<w, SessionOf[w]>>
Leads == {Lead(s) : s \in Sessions}
Actors == Leads \cup {Worker(w) : w \in Workers}
Boxes == (Workers \cup {"lead"}) \X (Sessions \cup {NoSession})
Kinds == {"plan", "authorization", "shutdown"}
NoOp == [at |-> "none"]
Idle(a) == op[a] = NoOp /\ a[1] \notin stopped
InCall(a, at) == op[a].at = at /\ a[1] \notin stopped
-----------------------------------------------------------------------------
(* The inboxes.                                                             *)

Message(from, to, session, type, req) ==
  [from |-> from, to |-> <<to, session>>, type |-> type, req |-> req]
Send(m) ==
  /\ sent' = sent \cup {m}
  /\ box' = [box EXCEPT ![m.to] = Append(@, m)]

\* read_and_drain takes the file of the session, and of the file of the
\* messages without a session those of the session asked for.
Drained(a) == box[a]
EmptiedAll(a) == [b \in Boxes |-> IF b[1] = a[1] THEN <<>> ELSE box[b]]  \* a mutant
Emptied(a) == [box EXCEPT ![a] = <<>>]

\* A tool of a teammate finds its session in the team of the active session.
SessionFound(w) == IF SessionOf[w] = active THEN active ELSE NoSession
-----------------------------------------------------------------------------
(* The requests: create, mark and resolve load the file and save it.        *)

Call(kind, req, status) == [at |-> "load", kind |-> kind, req |-> req, status |-> status]
\* Plain messages are told apart by a number, the others by their request.
Chatter == Cardinality({m \in sent : m.type = "message"})
NewRequest == Len(requests) + 1
Known(req, kind) == req \in DOMAIN file[kind]

Create(a, kind, about) ==
  /\ Len(requests) < MaxRequests
  /\ requests' = Append(requests, [kind |-> kind, about |-> about, decided |-> {}])
  /\ told' = Append(told, "nothing")
  /\ op' = [op EXCEPT ![a] = Call(kind, NewRequest, "pending")]

Load(a) ==
  /\ InCall(a, "load")
  /\ op' = [op EXCEPT ![a] = [at |-> "save", copy |-> file[@.kind], kind |-> @.kind,
                              req |-> @.req, status |-> @.status]]
  /\ UNCHANGED <<box, active, switches, file, stop, stopped, requests, told, sent, shown, dropped>>

\* Only what a call creates may be missing in the file it loaded.
Save(a) ==
  /\ InCall(a, "save")
  /\ LET call == op[a]
         written == [r \in DOMAIN call.copy \cup {call.req} |->
                       IF r = call.req THEN call.status ELSE call.copy[r]]
     IN IF call.status = "pending" \/ call.req \in DOMAIN call.copy
        THEN /\ file' = [file EXCEPT ![call.kind] = written]
             /\ requests' = [requests EXCEPT ![call.req].decided = @ \cup ({call.status} \ {"pending"})]
             /\ op' = [op EXCEPT ![a].at = "saved"]
        ELSE /\ op' = [op EXCEPT ![a].at = IF call.kind = "shutdown" THEN "saved" ELSE "unknown"]
             /\ UNCHANGED <<file, requests>>
  /\ UNCHANGED <<box, active, switches, stop, stopped, told, sent, shown, dropped>>
-----------------------------------------------------------------------------
(* The teammates.                                                           *)

\* A round of the loop, and each poll while idle, empties the inbox and takes
\* the messages in turn; those behind a shutdown request are never looked at.
ReadUntil(batch) ==
  LET ends == {i \in DOMAIN batch : batch[i].type = "shutdown_request"}
  IN IF ends = {} THEN Len(batch) ELSE CHOOSE i \in ends : \A j \in ends : i <= j
CheckInbox(w) ==
  /\ Idle(Worker(w)) /\ w \notin stop
  /\ LET batch == Drained(Worker(w))
         n == ReadUntil(batch)
     IN /\ batch # <<>>
        /\ box' = Emptied(Worker(w))
        /\ shown' = shown \cup {<<batch[i], Worker(w)>> : i \in 1..n}
        /\ dropped' = dropped \cup {batch[i] : i \in (n + 1)..Len(batch)}
        /\ IF batch[n].type = "shutdown_request"
           THEN /\ stop' = stop \cup {w}
                /\ op' = [op EXCEPT ![Worker(w)] = Call("shutdown", batch[n].req, "accepted")]
           ELSE UNCHANGED <<stop, op>>
  /\ UNCHANGED <<active, switches, file, stopped, requests, told, sent>>

Ask(w, kind) ==
  /\ Idle(Worker(w))
  /\ Create(Worker(w), kind, w)
  /\ UNCHANGED <<box, active, switches, file, stop, stopped, sent, shown, dropped>>

\* The lead is told of the request once it is in the file.
TellLead(w) ==
  /\ InCall(Worker(w), "saved") /\ op[Worker(w)].kind # "shutdown"
  /\ LET call == op[Worker(w)]
     IN /\ Send(Message(Worker(w), "lead", SessionFound(w), "request", call.req))
        /\ op' = [op EXCEPT ![Worker(w)] = IF call.kind = "plan" THEN NoOp ELSE
                                             [at |-> "wait", req |-> call.req]]
  /\ UNCHANGED <<active, switches, file, stop, stopped, requests, told, shown, dropped>>

\* The file is polled until the request is decided, the deadline passes or the
\* thread is to stop.
StatusOfAny(req) ==                                                    \* a mutant
  IF \E r \in DOMAIN file["authorization"] : file["authorization"][r] # "pending"
  THEN "approved" ELSE "pending"
Status(req) == IF Known(req, "authorization") THEN file["authorization"][req] ELSE "pending"
Resume(w, answer) ==
  /\ told' = [told EXCEPT ![op[Worker(w)].req] = answer]
  /\ op' = [op EXCEPT ![Worker(w)] = NoOp]
  /\ UNCHANGED <<box, active, switches, file, stop, stopped, requests, sent, shown, dropped>>
Poll(w) ==
  /\ InCall(Worker(w), "wait") /\ w \notin stop
  /\ Status(op[Worker(w)].req) # "pending"
  /\ Resume(w, Status(op[Worker(w)].req))
Deadline(w) == InCall(Worker(w), "wait")
Expire(w) ==
  /\ InCall(Worker(w), "wait")
  /\ Deadline(w)
  /\ Resume(w, "timeout")

SendMessage(w, to) ==
  /\ Idle(Worker(w)) /\ Chatter < MaxMessages
  /\ Send(Message(Worker(w), to, SessionFound(w), "message", Chatter + 1))
  /\ UNCHANGED <<active, switches, file, op, stop, stopped, requests, told, shown, dropped>>

\* The stop event is looked at between two steps of the loop, and by the wait.
Stop(w) ==
  /\ w \in stop \ stopped
  /\ \/ op[Worker(w)].at \in {"none", "wait"}
     \/ op[Worker(w)].at = "saved" /\ op[Worker(w)].kind = "shutdown"
  /\ stopped' = stopped \cup {w}
  /\ op' = [op EXCEPT ![Worker(w)] = NoOp]
  /\ UNCHANGED <<box, active, switches, file, stop, requests, told, sent, shown, dropped>>
-----------------------------------------------------------------------------
(* The lead of a session.                                                   *)

\* Begin of a round, read_inbox, and wait_for_inbox when something has come
\* (when its time is up it has changed nothing).
ReadInbox(s) ==
  /\ Idle(Lead(s))
  /\ Drained(Lead(s)) # <<>>
  /\ shown' = shown \cup {<<m, Lead(s)>> : m \in ToSet(Drained(Lead(s)))}
  /\ box' = Emptied(Lead(s))
  /\ UNCHANGED <<active, switches, file, op, stop, stopped, requests, told, sent, dropped>>

\* When the reply has no tool calls the inbox is emptied once more, only to
\* know whether to go on: what was in it is not shown.
EndOfReply(s) ==
  /\ Idle(Lead(s))
  /\ Drained(Lead(s)) # <<>>
  /\ dropped' = dropped \cup ToSet(Drained(Lead(s)))
  /\ box' = Emptied(Lead(s))
  /\ UNCHANGED <<active, switches, file, op, stop, stopped, requests, told, sent, shown>>

Tell(s, w) ==
  /\ Idle(Lead(s)) /\ Chatter < MaxMessages
  /\ Send(Message(Lead(s), w, s, "message", Chatter + 1))
  /\ UNCHANGED <<active, switches, file, op, stop, stopped, requests, told, shown, dropped>>

ShutDown(s, w) ==
  /\ Idle(Lead(s))
  /\ Create(Lead(s), "shutdown", w)
  /\ UNCHANGED <<box, active, switches, file, stop, stopped, sent, shown, dropped>>

\* plan_approval and authorization_approval: a request that is not in the file
\* is refused.  The lead decides a request once: a bound.
Decide(s, r, status) ==
  /\ Idle(Lead(s)) /\ requests[r].decided = {}
  /\ \E e \in shown : e[2] = Lead(s) /\ e[1].type = "request" /\ e[1].req = r
  /\ LET kind == requests[r].kind
     IN /\ Known(r, kind)
        /\ op' = [op EXCEPT ![Lead(s)] = Call(kind, r, status)]
  /\ UNCHANGED <<box, active, switches, file, stop, stopped, requests, told, sent, shown, dropped>>

\* After the file is written: the request or the answer is sent.
TellWorker(s) ==
  /\ InCall(Lead(s), "saved")
  /\ LET call == op[Lead(s)]
     IN Send(Message(Lead(s), requests[call.req].about, s,
                     IF call.kind = "shutdown" THEN "shutdown_request" ELSE "response", call.req))
  /\ op' = [op EXCEPT ![Lead(s)] = NoOp]
  /\ UNCHANGED <<active, switches, file, stop, stopped, requests, told, shown, dropped>>
UnknownRequest(s) ==
  /\ InCall(Lead(s), "unknown")
  /\ op' = [op EXCEPT ![Lead(s)] = NoOp]
  /\ UNCHANGED <<box, active, switches, file, stop, stopped, requests, told, sent, shown, dropped>>

\* activate_session: the teammates of the other sessions are told to stop.
Activate(s) ==
  /\ s # active /\ switches < MaxSwitches
  /\ switches' = switches + 1
  /\ active' = s
  /\ stop' = stop \cup {w \in Workers : SessionOf[w] # s}
  /\ UNCHANGED <<box, file, op, stopped, requests, told, sent, shown, dropped>>
-----------------------------------------------------------------------------
Init ==
  /\ box = [b \in Boxes |-> <<>>]
  /\ active = First
  /\ switches = 0
  /\ file = [k \in Kinds |-> <<>>]
  /\ op = [a \in Actors |-> NoOp]
  /\ stop = {} /\ stopped = {}
  /\ requests = <<>> /\ told = <<>> /\ sent = {}
  /\ shown = {} /\ dropped = {}

Step(a) == Load(a) \/ Save(a)
WorkerStep(w) ==
  \/ CheckInbox(w) \/ TellLead(w) \/ Poll(w) \/ Expire(w) \/ Stop(w)
  \/ \E kind \in {"plan", "authorization"} : Ask(w, kind)
  \/ \E to \in (Workers \cup {"lead"}) \ {w} : SendMessage(w, to)
LeadStep(s) ==
  \/ ReadInbox(s) \/ EndOfReply(s)
  \/ TellWorker(s) \/ UnknownRequest(s) \/ Activate(s)
  \/ \E w \in Workers : SessionOf[w] = s /\ (Tell(s, w) \/ ShutDown(s, w))
  \/ \E r \in DOMAIN requests, status \in {"approved", "rejected"} : Decide(s, r, status)

Next ==
  \/ \E a \in Actors : Step(a)
  \/ \E w \in Workers : WorkerStep(w)
  \/ \E s \in Sessions : LeadStep(s)

Spec == Init /\ [][Next]_vars

\* The thread of a teammate goes on, when it is not for the model to say how; deadlines pass.
GoesOn(w) == Step(Worker(w)) \/ CheckInbox(w) \/ TellLead(w) \/ Expire(w) \/ Stop(w)

-----------------------------------------------------------------------------
(* Properties.                                                              *)

Copies(m) == Cardinality({i \in DOMAIN box[m.to] : box[m.to][i] = m})
Readers(m) == {a \in Actors : <<m, a>> \in shown}

\* Every message is in one place: in the inbox it was sent to, shown to the one
\* it was sent to, or dropped; dropped are only those of a teammate that was
\* told to stop and those the lead's last look at its inbox took.
MessagesAccounted ==
  \A m \in sent :
    /\ Copies(m) + Cardinality(Readers(m)) + Cardinality({m} \cap dropped) = 1
    /\ Readers(m) \subseteq {m.to}
    /\ m \in dropped => m.to[1] = "lead" \/ m.to[1] \in stop

\* What a teammate is told about its request is what the lead decided about
\* that very request, or that the time is up, however the files were
\* overwritten.
AnswerIsOwn ==
  \A r \in DOMAIN told : told[r] \in {"approved", "rejected"} => told[r] \in requests[r].decided

=============================================================================
