----------------------------- MODULE TeamProofs -----------------------------
(* Theorems about teammates: first about the messages between lead and     *)
(* teammates (TeamMessages), then about which of them run when the active  *)
(* session changes (TeamSessions).                                         *)
EXTENDS TeamMessages, TeamSessions, FiniteSetTheorems, SequenceTheorems, WellFoundedInduction, TLAPS

-----------------------------------------------------------------------------
(***************************************************************************)
(* Theorems about TeamMessages, for any sessions, teammates and bounds:    *)
(* every message is in one place, and an answer is that of the request.    *)
(***************************************************************************)

-----------------------------------------------------------------------------
(* The invariant.                                                          *)

\* The team of a session is told by it; no teammate has the name of the lead,
\* which would be its inbox.
TeamAssumption == SessionOf \in [Workers -> Sessions] /\ "lead" \notin Workers

Types == {"message", "request", "response", "shutdown_request"}
Statuses == {"pending", "approved", "rejected", "accepted"}
Letters == [from : Actors, to : Boxes, type : Types, req : Nat]
Rows == [kind : Kinds, about : Workers, decided : SUBSET Statuses]
Answers == {"nothing", "timeout"} \cup Statuses
CallSteps == {"load", "save", "saved", "unknown"}

Loading(o) == o = [at |-> "load", kind |-> o.kind, req |-> o.req, status |-> o.status]
Loaded(o) ==
  /\ o = [at |-> o.at, copy |-> o.copy, kind |-> o.kind, req |-> o.req, status |-> o.status]
  /\ o.at \in CallSteps \ {"load"}
Waiting(o) == o = [at |-> "wait", req |-> o.req]

\* What a file says of a request is what was decided about it.
OfRequests(f) == \A r \in DOMAIN f : r \in DOMAIN requests /\ f[r] \in requests[r].decided \cup {"pending"}

OpInv(o) ==
  \/ o = NoOp
  \/ Waiting(o) /\ o.req \in DOMAIN requests
  \/ /\ Loading(o) \/ (Loaded(o) /\ (o.at = "save" => OfRequests(o.copy)))
     /\ o.kind \in Kinds /\ o.req \in DOMAIN requests /\ o.status \in Statuses

FilesInv ==
  /\ requests \in Seq(Rows) /\ told \in Seq(Answers) /\ DOMAIN told = DOMAIN requests
  /\ DOMAIN file = Kinds /\ \A k \in Kinds : OfRequests(file[k])
  /\ DOMAIN op = Actors /\ \A a \in Actors : OpInv(op[a])

Told == \A r \in DOMAIN told : told[r] \in {"approved", "rejected"} => told[r] \in requests[r].decided

\* Calls that make a request, and calls that decide one.
Pending(o) == o.at \in CallSteps /\ o.status = "pending"
Deciding(o) == o.at \in CallSteps /\ o.status # "pending"
Sent(type, r) == \E m \in sent : m.type = type /\ m.req = r

WorkerCall(o) ==
  /\ Pending(o) => o.kind # "shutdown" /\ ~Sent("request", o.req)
  /\ Deciding(o) => o.kind = "shutdown"
LeadCall(s, o) ==
  /\ Pending(o) => o.kind = "shutdown" /\ ~Sent("shutdown_request", o.req)
  /\ Deciding(o) =>
       /\ o.kind # "shutdown" /\ ~Sent("response", o.req)
       /\ \E m \in sent : m.type = "request" /\ m.req = o.req /\ m.to = Lead(s)
       /\ o.at = "saved" => requests[o.req].decided # {}

CallsInv ==
  /\ \A w \in Workers : WorkerCall(op[Worker(w)])
  /\ \A s \in Sessions : LeadCall(s, op[Lead(s)])
  /\ \A a \in Actors : Pending(op[a]) => op[a].kind = requests[op[a].req].kind
  /\ \A a, b \in Actors : Pending(op[a]) /\ Pending(op[b]) /\ op[a].req = op[b].req => a = b

Plain == {m \in sent : m.type = "message"}

\* A message is told from the others by its type and its request or number.
SentInv ==
  /\ sent \subseteq Letters
  /\ \A m, n \in sent : m.type = n.type /\ m.req = n.req => m = n
  /\ \A m \in sent : m.type # "message" => m.req \in DOMAIN requests
  /\ \A m \in sent : m.type = "request" => requests[m.req].kind # "shutdown"
  /\ \A m \in sent : m.type = "response" => requests[m.req].decided # {}
  /\ IsFiniteSet(Plain) /\ \A m \in Plain : m.req <= Cardinality(Plain)

Boxed(m) == \E i \in DOMAIN box[m.to] : box[m.to][i] = m
BoxInv ==
  /\ box \in [Boxes -> Seq(Letters)]
  /\ \A b \in Boxes : \A i \in DOMAIN box[b] : box[b][i] \in sent /\ box[b][i].to = b
  /\ \A b \in Boxes : \A i, j \in DOMAIN box[b] : box[b][i] = box[b][j] => i = j

PlacesInv ==
  /\ \A m \in sent :
       /\ Boxed(m) \/ <<m, m.to>> \in shown \/ m \in dropped
       /\ Boxed(m) => <<m, m.to>> \notin shown /\ m \notin dropped
       /\ m \in dropped => <<m, m.to>> \notin shown
  /\ \A e \in shown : e \in {<<m, m.to>> : m \in sent} /\ e[2] \in Actors
  /\ \A m \in dropped : m \in sent /\ (m.to[1] = "lead" \/ m.to[1] \in stop)

TeamInv == FilesInv /\ Told /\ CallsInv /\ SentInv /\ BoxInv /\ PlacesInv

-----------------------------------------------------------------------------
(* Sequences and actors.                                                   *)

LEMMA ActorsAreBoxes ==
  TeamAssumption =>
    /\ Actors \subseteq Boxes
    /\ \A w \in Workers : Worker(w) \in Actors /\ Worker(w)[1] = w
    /\ \A s \in Sessions : Lead(s) \in Actors /\ Lead(s)[1] = "lead"
    /\ \A s \in Sessions, w \in Workers : Lead(s) # Worker(w)
    /\ \A v, w \in Workers : Worker(v) = Worker(w) => v = w
    /\ \A r, s \in Sessions : Lead(r) = Lead(s) => r = s
    /\ \A a \in Actors : (\E w \in Workers : a = Worker(w)) \/ (\E s \in Sessions : a = Lead(s))
BY DEF TeamAssumption, Actors, Boxes, Leads, Lead, Worker

LEMMA LeastNumber ==
  ASSUME NEW S \in SUBSET Nat, S # {}
  PROVE  \E x \in S : \A y \in S : x <= y
<1> DEFINE R == OpToRel(<, Nat)
<1>1. IsWellFoundedOn(R, Nat)
  BY NatLessThanWellFounded
<1>2. \A x, y \in Nat : x < y => <<x, y>> \in R
  BY DEF OpToRel
<1> HIDE DEF R
<1>3. PICK x \in S : \A y \in S : ~ (<<y, x>> \in R)
  BY <1>1, WFMin
<1>4. ASSUME NEW y \in S PROVE x <= y
  <2>1. x \in Nat /\ y \in Nat /\ ~(y < x)
    BY <1>2, <1>3
  <2>. QED  BY <2>1
<1>. QED  BY <1>4

-----------------------------------------------------------------------------
(* Messages that are sent, read and dropped.                               *)

LEMMA SentOne ==
  ASSUME SentInv, BoxInv, PlacesInv, NEW m \in Letters, Send(m),
         \A n \in sent : n.type = m.type => n.req # m.req,
         m.type = "message" => m.req = Cardinality(Plain) + 1,
         m.type # "message" => m.req \in DOMAIN requests,
         m.type = "request" => requests[m.req].kind # "shutdown",
         m.type = "response" => requests[m.req].decided # {},
         UNCHANGED <<requests, stop, shown, dropped>>
  PROVE  SentInv' /\ BoxInv' /\ PlacesInv'
<1>1. sent' = sent \cup {m} /\ m \notin sent /\ m.to \in Boxes
  BY DEF Send, Letters
<1>2. SentInv'
  <2>1. /\ sent' \subseteq Letters
        /\ \A x, y \in sent' : x.type = y.type /\ x.req = y.req => x = y
    BY <1>1 DEF SentInv
  <2>2. /\ \A x \in sent' : x.type # "message" => x.req \in DOMAIN requests
        /\ \A x \in sent' : x.type = "request" => requests[x.req].kind # "shutdown"
        /\ \A x \in sent' : x.type = "response" => requests[x.req].decided # {}
    BY <1>1 DEF SentInv
  <2>3. CASE m.type = "message"
    <3>1. Plain' = Plain \cup {m} /\ m \notin Plain
      BY <1>1, <2>3 DEF Plain
    <3>2. IsFiniteSet(Plain') /\ Cardinality(Plain') = Cardinality(Plain) + 1 /\ Cardinality(Plain) \in Nat
      BY <3>1, FS_AddElement, FS_CardinalityType DEF SentInv
    <3>3. \A x \in Plain : x.req \in Nat /\ x.req <= Cardinality(Plain)
      BY DEF SentInv, Plain, Letters
    <3>4. \A x \in Plain' : x.req <= Cardinality(Plain')
      BY <2>3, <3>1, <3>2, <3>3
    <3>. QED  BY <2>1, <2>2, <3>2, <3>4 DEF SentInv
  <2>4. CASE m.type # "message"
    <3>1. Plain' = Plain
      BY <1>1, <2>4 DEF Plain
    <3>. QED  BY <2>1, <2>2, <3>1 DEF SentInv
  <2>. QED  BY <2>3, <2>4
<1>3. /\ box' \in [Boxes -> Seq(Letters)]
      /\ \A b \in Boxes : b # m.to => box'[b] = box[b]
      /\ box'[m.to] = Append(box[m.to], m) /\ box[m.to] \in Seq(Letters)
  BY <1>1 DEF Send, BoxInv
<1>4. /\ DOMAIN box'[m.to] = 1..Len(box[m.to])+1 /\ DOMAIN box[m.to] = 1..Len(box[m.to])
      /\ Len(box[m.to]) \in Nat /\ box'[m.to][Len(box[m.to])+1] = m
      /\ \A i \in DOMAIN box[m.to] : box'[m.to][i] = box[m.to][i]
  BY <1>3
<1>5. BoxInv'
  <2>1. ASSUME NEW b \in Boxes, NEW i \in DOMAIN box'[b] PROVE box'[b][i] \in sent' /\ box'[b][i].to = b
    <3>1. CASE b # m.to
      BY <1>1, <1>3, <3>1 DEF BoxInv
    <3>2. CASE b = m.to /\ i \in DOMAIN box[m.to]
      BY <1>1, <1>4, <3>2 DEF BoxInv
    <3>3. CASE b = m.to /\ i = Len(box[m.to]) + 1
      BY <1>1, <1>4, <3>3
    <3>. QED  BY <1>4, <3>1, <3>2, <3>3
  <2>2. \A i, j \in DOMAIN box'[m.to] : box'[m.to][i] = box'[m.to][j] => i = j
    BY <1>1, <1>3, <1>4 DEF BoxInv
  <2>. QED  BY <1>3, <2>1, <2>2 DEF BoxInv
<1>6. PlacesInv'
  <2>1. ASSUME NEW n \in sent PROVE Boxed(n)' <=> Boxed(n)
    <3>1. n # m /\ n.to \in Boxes
      BY <1>1 DEF SentInv, Letters
    <3>2. CASE n.to # m.to
      BY <1>3, <3>1, <3>2 DEF Boxed
    <3>3. CASE n.to = m.to
      BY <1>4, <3>1, <3>3, SMTT(20) DEF Boxed
    <3>. QED  BY <3>2, <3>3
  <2>2. Boxed(m)' /\ <<m, m.to>> \notin shown' /\ m \notin dropped'
    BY <1>1, <1>4 DEF Boxed, PlacesInv
  <2>. QED  BY <1>1, <2>1, <2>2 DEF PlacesInv
<1>. QED  BY <1>2, <1>5, <1>6

\* One box is emptied; what was in it is shown to its reader, or dropped.
LEMMA BoxRead ==
  ASSUME TeamAssumption, SentInv, BoxInv, PlacesInv, NEW a \in Actors, box' = Emptied(a), sent' = sent,
         NEW S, NEW D, S \cap D = {},
         \A m : m \in S \cup D <=> \E i \in DOMAIN box[a] : box[a][i] = m,
         shown' = shown \cup {<<m, a>> : m \in S},
         dropped' = dropped \cup D,
         stop \subseteq stop', D # {} => a[1] = "lead" \/ a[1] \in stop'
  PROVE  BoxInv' /\ PlacesInv'
<1>1. a \in Boxes /\ box' = [box EXCEPT ![a] = <<>>] /\ box'[a] = <<>> /\ DOMAIN box'[a] = {}
  BY ActorsAreBoxes DEF Emptied, BoxInv
<1>2. \A b \in Boxes : b # a => box'[b] = box[b]
  BY <1>1 DEF BoxInv
<1>3. BoxInv'
  <2>1. box' \in [Boxes -> Seq(Letters)]
    BY <1>1, EmptySeq DEF BoxInv
  <2>. QED  BY <1>1, <1>2, <2>1 DEF BoxInv
<1>4. \A m \in S \cup D : m \in sent /\ m.to = a /\ Boxed(m)
  BY <1>1 DEF BoxInv, Boxed
<1>5. \A m \in sent : Boxed(m)' <=> Boxed(m) /\ m \notin S \cup D
  BY <1>1, <1>2, <1>4 DEF Boxed, SentInv, Letters
<1>6. \A m \in sent : <<m, m.to>> \in shown' <=> <<m, m.to>> \in shown \/ m \in S
  BY <1>4
<1>7. PlacesInv'
  <2>1. ASSUME NEW m \in sent
        PROVE  /\ Boxed(m)' \/ <<m, m.to>> \in shown' \/ m \in dropped'
               /\ Boxed(m)' => <<m, m.to>> \notin shown' /\ m \notin dropped'
               /\ m \in dropped' => <<m, m.to>> \notin shown'
    BY <1>4, <1>5, <1>6 DEF PlacesInv
  <2>2. \A e \in shown' : e \in {<<m, m.to>> : m \in sent} /\ e[2] \in Actors
    BY <1>4 DEF PlacesInv
  <2>3. \A m \in dropped' : m \in sent /\ (m.to[1] = "lead" \/ m.to[1] \in stop')
    BY <1>4 DEF PlacesInv
  <2>. QED  BY <2>1, <2>2, <2>3 DEF PlacesInv
<1>. QED  BY <1>3, <1>7

LEMMA MessagesStay ==
  ASSUME BoxInv, PlacesInv, UNCHANGED <<box, sent, shown, dropped>>, stop \subseteq stop'
  PROVE  BoxInv' /\ PlacesInv'
<1>1. BoxInv'
  BY DEF BoxInv
<1>2. \A m \in sent : Boxed(m)' <=> Boxed(m)
  BY DEF Boxed
<1>3. PlacesInv'
  BY <1>2 DEF PlacesInv
<1>. QED  BY <1>1, <1>3

-----------------------------------------------------------------------------
(* Requests and calls.                                                     *)

\* Requests are added, and decided, and never forgotten.
Grown ==
  /\ requests' \in Seq(Rows) /\ DOMAIN requests \subseteq DOMAIN requests'
  /\ \A r \in DOMAIN requests :
       requests'[r].kind = requests[r].kind /\ requests[r].decided \subseteq requests'[r].decided

LEMMA GrownKeeps ==
  ASSUME Grown
  PROVE  /\ \A f : OfRequests(f) => OfRequests(f)'
         /\ \A o : OpInv(o) => OpInv(o)'
<1>1. ASSUME NEW f, OfRequests(f) PROVE OfRequests(f)'
  BY <1>1 DEF Grown, OfRequests
<1>2. ASSUME NEW o, OpInv(o) PROVE OpInv(o)'
  BY <1>1, <1>2 DEF Grown, OpInv, Loading, Loaded, Waiting
<1>. QED  BY <1>1, <1>2

LEMMA SentStays ==
  ASSUME SentInv, Grown, sent' = sent
  PROVE  SentInv'
<1>1. Plain' = Plain
  BY DEF Plain
<1>. QED  BY <1>1 DEF SentInv, Grown

\* The call of one actor goes on, with the messages of N.
LEMMA CallStep ==
  ASSUME TeamAssumption, FilesInv, CallsInv, Grown, NEW a \in Actors, NEW o, op' = [op EXCEPT ![a] = o],
         told' \in Seq(Answers), DOMAIN told' = DOMAIN requests', DOMAIN file' = Kinds,
         \A k \in Kinds : OfRequests(file[k])',
         OpInv(o)', NEW N, sent' = sent \cup N,
         \A m \in N, b \in Actors \ {a} :
           /\ m.type \in {"request", "shutdown_request"} /\ Pending(op[b]) => m.req # op[b].req
           /\ m.type = "response" /\ b \in Leads /\ Deciding(op[b]) => m.req # op[b].req,
         Pending(o) => /\ o.kind = requests'[o.req].kind
                       /\ \A b \in Actors \ {a} : Pending(op[b]) => op[b].req # o.req,
         \A w \in Workers : a = Worker(w) => WorkerCall(o)',
         \A s \in Sessions : a = Lead(s) => LeadCall(s, o)'
  PROVE  FilesInv' /\ CallsInv'
<1>1. DOMAIN op' = Actors /\ op'[a] = o /\ \A b \in Actors \ {a} : op'[b] = op[b]
  BY DEF FilesInv
<1>2. FilesInv'
  <2>1. ASSUME NEW b \in Actors PROVE OpInv(op[b])'
    <3>1. PICK p : p = op[b]
      OBVIOUS
    <3>2. OpInv(p) /\ OpInv(p)'
      BY <3>1, GrownKeeps DEF FilesInv
    <3>3. PICK q : q = op'[b]
      OBVIOUS
    <3>4. OpInv(q)'
      BY <1>1, <3>1, <3>2, <3>3
    <3>. QED  BY <3>3, <3>4
  <2>. QED  BY <1>1, <2>1 DEF FilesInv, Grown
<1>3. ASSUME NEW w \in Workers PROVE WorkerCall(op[Worker(w)])'
  <2>1. PICK p : p = op[Worker(w)]
    OBVIOUS
  <2>2. WorkerCall(p) /\ Worker(w) \in Actors
    BY <2>1, ActorsAreBoxes DEF CallsInv
  <2>3. CASE Worker(w) = a
    BY <1>1, <2>3
  <2>4. CASE Worker(w) # a
    <3>1. WorkerCall(p)'
      BY <2>1, <2>2, <2>4 DEF WorkerCall, Sent, Pending, Deciding
    <3>. QED  BY <1>1, <2>1, <2>2, <2>4, <3>1
  <2>. QED  BY <2>3, <2>4
<1>4. ASSUME NEW s \in Sessions PROVE LeadCall(s, op[Lead(s)])'
  <2>1. PICK p : p = op[Lead(s)]
    OBVIOUS
  <2>2. LeadCall(s, p) /\ Lead(s) \in Actors /\ Lead(s) \in Leads /\ OpInv(p)
    BY <2>1, ActorsAreBoxes DEF CallsInv, FilesInv, Leads
  <2>3. CASE Lead(s) = a
    BY <1>1, <2>3
  <2>4. CASE Lead(s) # a
    <3>1. Deciding(p) => p.req \in DOMAIN requests
      BY <2>2 DEF OpInv, NoOp, Deciding, CallSteps, Waiting
    <3>2. LeadCall(s, p)'
      BY <2>1, <2>2, <2>4, <3>1 DEF LeadCall, Sent, Pending, Deciding, Grown
    <3>. QED  BY <1>1, <2>1, <2>2, <2>4, <3>2
  <2>. QED  BY <2>3, <2>4
<1>5. \A b \in Actors : Pending(op[b]) => op[b].req \in DOMAIN requests
  BY DEF FilesInv, OpInv, NoOp, Pending, CallSteps, Waiting
<1>6. /\ \A b \in Actors : Pending(op'[b]) => op'[b].kind = requests'[op'[b].req].kind
      /\ \A b, c \in Actors : Pending(op'[b]) /\ Pending(op'[c]) /\ op'[b].req = op'[c].req => b = c
  BY <1>1, <1>5 DEF CallsInv, Grown
<1>. QED  BY <1>2, <1>3, <1>4, <1>6 DEF CallsInv, Pending

LEMMA QuietCallStep ==
  ASSUME TeamAssumption, FilesInv, CallsInv, Grown, NEW a \in Actors, NEW o, op' = [op EXCEPT ![a] = o],
         told' \in Seq(Answers), DOMAIN told' = DOMAIN requests', DOMAIN file' = Kinds,
         \A k \in Kinds : OfRequests(file[k])',
         OpInv(o)', sent' = sent,
         Pending(o) => /\ o.kind = requests'[o.req].kind
                       /\ \A b \in Actors \ {a} : Pending(op[b]) => op[b].req # o.req,
         \A w \in Workers : a = Worker(w) => WorkerCall(o)',
         \A s \in Sessions : a = Lead(s) => LeadCall(s, o)'
  PROVE  FilesInv' /\ CallsInv'
<1>1. PICK N : N = {}
  OBVIOUS
<1>2. sent' = sent \cup N /\ \A m \in N : FALSE
  BY <1>1
<1>. QED  BY <1>2, CallStep

LEMMA RequestsStay ==
  ASSUME FilesInv, requests' = requests
  PROVE  Grown
BY DEF FilesInv, Grown

\* A thread makes a request and calls create.
LEMMA CreateStep ==
  ASSUME TeamAssumption, TeamInv, NEW a \in Actors, NEW kind \in Kinds, NEW about \in Workers,
         Create(a, kind, about), UNCHANGED <<file, sent>>, op[a] = NoOp,
         a \in Leads => kind = "shutdown", a \notin Leads => kind # "shutdown"
  PROVE  FilesInv' /\ CallsInv' /\ Told' /\ SentInv'
<1>1. PICK r : r = Len(requests) + 1
  OBVIOUS
<1>2. PICK row : row = [kind |-> kind, about |-> about, decided |-> {}]
  OBVIOUS
<1>3. /\ row \in Rows /\ requests \in Seq(Rows) /\ requests' = Append(requests, row)
      /\ Len(requests) \in Nat /\ DOMAIN requests = 1..Len(requests) /\ r \in Nat
  BY <1>1, <1>2 DEF Create, Rows, TeamInv, FilesInv
<1>4. /\ DOMAIN requests' = 1..r /\ requests' \in Seq(Rows) /\ requests'[r] = row
      /\ \A i \in DOMAIN requests : requests'[i] = requests[i]
  BY <1>1, <1>3
<1>5. Grown
  BY <1>1, <1>3, <1>4 DEF Grown
<1>6. told' \in Seq(Answers) /\ DOMAIN told' = DOMAIN requests' /\ Told'
  <2>1. \A i \in DOMAIN told : i \in DOMAIN requests
    BY DEF TeamInv, FilesInv
  <2>2. told \in Seq(Answers) /\ told' = Append(told, "nothing") /\ "nothing" \in Answers
    BY DEF TeamInv, FilesInv, Create, Answers
  <2>3. /\ DOMAIN told' = 1..r /\ told'[r] = "nothing"
        /\ \A i \in DOMAIN told : told'[i] = told[i]
    BY <1>1, <1>3, <2>2 DEF TeamInv, FilesInv
  <2>. QED  BY <1>1, <1>3, <1>4, <2>1, <2>2, <2>3 DEF TeamInv, Told
<1>7. PICK o : o = Call(kind, r, "pending")
  OBVIOUS
<1>8. /\ op' = [op EXCEPT ![a] = o] /\ o.at = "load" /\ o.kind = kind /\ o.req = r /\ o.status = "pending"
      /\ Loading(o)
  BY <1>1, <1>7 DEF Create, NewRequest, Call, Loading
<1>9. OpInv(o)'
  BY <1>3, <1>4, <1>8 DEF OpInv, Statuses, Loading
<1>10. \A m \in sent : m.type # "message" => m.req # r
  BY <1>1, <1>3 DEF TeamInv, SentInv
<1>11. /\ \A w \in Workers : a = Worker(w) => WorkerCall(o)'
       /\ \A s \in Sessions : a = Lead(s) => LeadCall(s, o)'
  BY <1>8, <1>10, ActorsAreBoxes DEF WorkerCall, LeadCall, Sent, Pending, Deciding, Leads
<1>12. \A b \in Actors : Pending(op[b]) => op[b].req \in DOMAIN requests
  BY DEF TeamInv, FilesInv, OpInv, NoOp, Pending, CallSteps, Waiting
<1>13. \A k \in Kinds : OfRequests(file[k])'
  BY <1>5, GrownKeeps DEF TeamInv, FilesInv
<1>15. \A b \in Actors \ {a} : Pending(op[b]) => op[b].req # r
  BY <1>1, <1>3, <1>12
<1>16. sent' = sent /\ DOMAIN file' = Kinds
  BY DEF TeamInv, FilesInv
<1>17. Pending(o) => o.kind = requests'[o.req].kind
  BY <1>2, <1>4, <1>8
<1>14. FilesInv' /\ CallsInv'
  BY <1>15, <1>16, <1>17, <1>1, <1>2, <1>3, <1>4, <1>5, <1>6, <1>8, <1>9, <1>11, <1>12, <1>13, QuietCallStep
     DEF TeamInv, FilesInv, Pending, Deciding
<1>. QED  BY <1>5, <1>6, <1>14, SentStays DEF TeamInv

\* What a thread does next, with the requests, files and messages as they are.
LEMMA NextStep ==
  ASSUME TeamAssumption, TeamInv, NEW a \in Actors, NEW o, op' = [op EXCEPT ![a] = o],
         UNCHANGED <<requests, file, sent>>, told' \in Seq(Answers), DOMAIN told' = DOMAIN requests,
         OpInv(o),
         Pending(o) => Pending(op[a]) /\ o.kind = op[a].kind /\ o.req = op[a].req,
         \A w \in Workers : a = Worker(w) => WorkerCall(o),
         \A s \in Sessions : a = Lead(s) => LeadCall(s, o)
  PROVE  FilesInv' /\ CallsInv' /\ SentInv'
<1>1. Grown /\ OpInv(o)'
  BY RequestsStay, GrownKeeps DEF TeamInv
<1>2. \A k \in Kinds : OfRequests(file[k])'
  BY DEF OfRequests, TeamInv, FilesInv
<1>3. /\ \A w \in Workers : a = Worker(w) => WorkerCall(o)'
      /\ \A s \in Sessions : a = Lead(s) => LeadCall(s, o)'
  BY DEF WorkerCall, LeadCall, Sent, Pending, Deciding
<1>4. Pending(o) => /\ o.kind = requests'[o.req].kind
                    /\ \A b \in Actors \ {a} : Pending(op[b]) => op[b].req # o.req
  BY DEF TeamInv, CallsInv
<1>5. sent' = sent /\ DOMAIN file' = Kinds /\ DOMAIN requests' = DOMAIN requests
  BY DEF TeamInv, FilesInv
<1>6. FilesInv' /\ CallsInv'
  BY <1>1, <1>2, <1>3, <1>4, <1>5, QuietCallStep DEF TeamInv
<1>. QED  BY <1>1, <1>6, SentStays DEF TeamInv

LEMMA LoadStep ==
  ASSUME TeamAssumption, TeamInv, NEW a \in Actors, Load(a)
  PROVE  TeamInv'
<1>1. /\ Loading(op[a]) /\ op[a].at = "load"
      /\ op[a].kind \in Kinds /\ op[a].req \in DOMAIN requests /\ op[a].status \in Statuses
  BY DEF Load, InCall, TeamInv, FilesInv, OpInv, NoOp, Loaded, Waiting, CallSteps
<1>2. PICK o : o = [at |-> "save", copy |-> file[op[a].kind], kind |-> op[a].kind,
                    req |-> op[a].req, status |-> op[a].status]
  OBVIOUS
<1>3. op' = [op EXCEPT ![a] = o]
  BY <1>2 DEF Load, TeamInv, FilesInv
<1>4. OpInv(o) /\ o.at = "save" /\ o.kind = op[a].kind /\ o.req = op[a].req /\ o.status = op[a].status
  BY <1>1, <1>2 DEF OpInv, Loaded, CallSteps, TeamInv, FilesInv
<1>5. /\ \A w \in Workers : a = Worker(w) => WorkerCall(o)
      /\ \A s \in Sessions : a = Lead(s) => LeadCall(s, o)
  BY <1>1, <1>4 DEF TeamInv, CallsInv, WorkerCall, LeadCall, Pending, Deciding, CallSteps
<1>6. FilesInv' /\ CallsInv' /\ SentInv'
  BY <1>1, <1>3, <1>4, <1>5, NextStep DEF Load, Pending, CallSteps, TeamInv, FilesInv
<1>. QED  BY <1>6, MessagesStay DEF Load, TeamInv, Told

LEMMA SaveStep ==
  ASSUME TeamAssumption, TeamInv, NEW a \in Actors, Save(a)
  PROVE  TeamInv'
<1>1. /\ Loaded(op[a]) /\ op[a].at = "save" /\ OfRequests(op[a].copy)
      /\ op[a].kind \in Kinds /\ op[a].req \in DOMAIN requests /\ op[a].status \in Statuses
  BY DEF Save, InCall, TeamInv, FilesInv, OpInv, NoOp, Loading, Waiting
<1>2. PICK o : o = [op[a] EXCEPT !.at = "saved"]
  OBVIOUS
<1>3. Loaded(o) /\ o.at = "saved" /\ o.kind = op[a].kind /\ o.req = op[a].req /\ o.status = op[a].status
  BY <1>1, <1>2 DEF Loaded, CallSteps
<1>4. PICK u : u = [op[a] EXCEPT !.at = "unknown"]
  OBVIOUS
<1>5. Loaded(u) /\ u.at = "unknown" /\ u.kind = op[a].kind /\ u.req = op[a].req /\ u.status = op[a].status
  BY <1>1, <1>4 DEF Loaded, CallSteps
<1>6. OpInv(o) /\ OpInv(u)
  BY <1>1, <1>3, <1>5 DEF OpInv
<1>7. /\ \A w \in Workers : a = Worker(w) => WorkerCall(op[a])
      /\ \A s \in Sessions : a = Lead(s) => LeadCall(s, op[a])
      /\ Pending(op[a]) => op[a].kind = requests[op[a].req].kind
  BY DEF TeamInv, CallsInv
<1>8. CASE op[a].status = "pending" \/ op[a].req \in DOMAIN op[a].copy
  <2>1. PICK written : written = [r \in DOMAIN op[a].copy \cup {op[a].req} |->
                                    IF r = op[a].req THEN op[a].status ELSE op[a].copy[r]]
    OBVIOUS
  <2>2. PICK made : made = op[a].status
    OBVIOUS
  <2>3. /\ file' = [file EXCEPT ![op[a].kind] = written]
        /\ requests' = [requests EXCEPT ![op[a].req].decided = @ \cup ({made} \ {"pending"})]
        /\ op' = [op EXCEPT ![a] = o]
    BY <1>2, <1>8, <2>1, <2>2 DEF Save, TeamInv, FilesInv
  <2>4. /\ requests' \in Seq(Rows) /\ DOMAIN requests' = DOMAIN requests
        /\ requests'[op[a].req].decided = requests[op[a].req].decided \cup ({made} \ {"pending"})
        /\ requests'[op[a].req].kind = requests[op[a].req].kind
        /\ \A r \in DOMAIN requests : r # op[a].req => requests'[r] = requests[r]
    <3>1. PICK row : row = [requests[op[a].req] EXCEPT !.decided = @ \cup ({made} \ {"pending"})]
      OBVIOUS
    <3>2. requests[op[a].req] \in Rows /\ row \in Rows /\ row.kind = requests[op[a].req].kind
          /\ row.decided = requests[op[a].req].decided \cup ({made} \ {"pending"})
      <4>1. requests[op[a].req] \in Rows
        BY <1>1 DEF TeamInv, FilesInv
      <4>. QED  BY <1>1, <2>2, <3>1, <4>1 DEF Rows
    <3>3. requests' = [requests EXCEPT ![op[a].req] = row]
      BY <2>3, <3>1
    <3>. QED  BY <1>1, <3>2, <3>3 DEF TeamInv, FilesInv
  <2>5. Grown
    BY <1>1, <2>4 DEF Grown
  <2>6. OfRequests(written)'
    <3>1. PICK copy : copy = op[a].copy
      OBVIOUS
    <3>2. OfRequests(copy)'
      BY <1>1, <2>5, <3>1, GrownKeeps
    <3>3. PICK r : r = op[a].req
      OBVIOUS
    <3>4. written = [x \in DOMAIN copy \cup {r} |-> IF x = r THEN made ELSE copy[x]]
      BY <2>1, <2>2, <3>1, <3>3
    <3>5. r \in DOMAIN requests' /\ made \in requests'[r].decided \cup {"pending"}
      BY <1>1, <2>4, <3>3
    <3>. QED  BY <3>2, <3>4, <3>5 DEF OfRequests
  <2>7. \A k \in Kinds : OfRequests(file[k])'
    <3>1. ASSUME NEW k \in Kinds PROVE OfRequests(file[k])'
      <4>1. PICK f : f = file[k]
        OBVIOUS
      <4>2. OfRequests(f)'
        BY <2>5, <4>1, GrownKeeps DEF TeamInv, FilesInv
      <4>3. PICK g : g = file'[k]
        OBVIOUS
      <4>4. g = f \/ g = written
        BY <2>3, <4>1, <4>3 DEF TeamInv, FilesInv
      <4>5. OfRequests(g)'
        BY <2>6, <4>2, <4>4
      <4>. QED  BY <4>3, <4>5
    <3>. QED  BY <3>1
  <2>8. OpInv(o)'
    BY <1>6, <2>5, GrownKeeps
  <2>9. DOMAIN file' = Kinds /\ sent' = sent /\ told' = told
    BY <2>3 DEF Save, TeamInv, FilesInv
  <2>10. /\ \A w \in Workers : a = Worker(w) => WorkerCall(o)'
         /\ \A s \in Sessions : a = Lead(s) => LeadCall(s, o)'
    <3>1. made # "pending" => requests'[op[a].req].decided # {}
      BY <2>4
    <3>. QED  BY <1>1, <1>3, <1>7, <2>2, <2>9, <3>1
              DEF WorkerCall, LeadCall, Sent, Pending, Deciding, CallSteps
  <2>11. Pending(o) => /\ o.kind = requests'[o.req].kind
                       /\ \A b \in Actors \ {a} : Pending(op[b]) => op[b].req # o.req
    BY <1>1, <1>3, <1>7, <2>4 DEF TeamInv, CallsInv, Pending, CallSteps
  <2>12. FilesInv' /\ CallsInv'
    BY <2>3, <2>4, <2>5, <2>7, <2>8, <2>9, <2>10, <2>11, QuietCallStep DEF TeamInv, FilesInv
  <2>13. Told'
    BY <2>5, <2>9 DEF TeamInv, FilesInv, Told, Grown
  <2>. QED  BY <2>5, <2>9, <2>12, <2>13, SentStays, MessagesStay DEF Save, TeamInv
<1>9. CASE ~(op[a].status = "pending" \/ op[a].req \in DOMAIN op[a].copy)
  <2>1. /\ (op' = [op EXCEPT ![a] = o] /\ op[a].kind = "shutdown") \/ op' = [op EXCEPT ![a] = u]
        /\ UNCHANGED <<file, requests>>
    BY <1>2, <1>4, <1>9 DEF Save, TeamInv, FilesInv
  <2>2. /\ \A w \in Workers : a = Worker(w) => WorkerCall(u)
        /\ \A s \in Sessions : a = Lead(s) => LeadCall(s, u)
    BY <1>1, <1>5, <1>7 DEF WorkerCall, LeadCall, Sent, Pending, Deciding, CallSteps
  <2>3. op[a].kind = "shutdown" =>
           /\ \A w \in Workers : a = Worker(w) => WorkerCall(o)
           /\ \A s \in Sessions : a = Lead(s) => LeadCall(s, o)
    BY <1>1, <1>3, <1>7, <1>9 DEF WorkerCall, LeadCall, Sent, Pending, Deciding, CallSteps
  <2>4. ~Pending(o) /\ ~Pending(u)
    BY <1>3, <1>5, <1>9 DEF Pending
  <2>5. FilesInv' /\ CallsInv' /\ SentInv'
    BY <1>6, <2>1, <2>2, <2>3, <2>4, NextStep DEF Save, TeamInv, FilesInv
  <2>. QED  BY <2>1, <2>5, MessagesStay DEF Save, TeamInv, Told
<1>. QED  BY <1>8, <1>9

\* A thread is done with its call, or waits.
LEMMA FreeStep ==
  ASSUME TeamAssumption, TeamInv, NEW a \in Actors, NEW o, op' = [op EXCEPT ![a] = o],
         o = NoOp \/ (Waiting(o) /\ o.req \in DOMAIN requests), told' \in Seq(Answers),
         UNCHANGED <<requests, file, sent>>, DOMAIN told' = DOMAIN requests
  PROVE  FilesInv' /\ CallsInv' /\ SentInv'
<1>1. ~Pending(o) /\ ~Deciding(o) /\ OpInv(o)
  BY DEF Pending, Deciding, CallSteps, NoOp, Waiting, OpInv
<1>2. /\ \A w \in Workers : WorkerCall(o)
      /\ \A s \in Sessions : LeadCall(s, o)
  BY <1>1 DEF WorkerCall, LeadCall
<1>. QED  BY <1>1, <1>2, NextStep

LEMMA WorkerFree ==
  ASSUME TeamAssumption, TeamInv, NEW w \in Workers, Poll(w) \/ Expire(w) \/ Stop(w)
  PROVE  TeamInv'
<1>1. Worker(w) \in Actors
  BY ActorsAreBoxes
<1>2. /\ op' = [op EXCEPT ![Worker(w)] = NoOp]
      /\ UNCHANGED <<box, requests, file, sent, shown, dropped>> /\ stop' = stop
  BY DEF Poll, Expire, Stop, Resume
<1>3. told' \in Seq(Answers) /\ DOMAIN told' = DOMAIN requests /\ Told'
  <2>1. CASE Stop(w)
    BY <2>1 DEF Stop, TeamInv, FilesInv, Told
  <2>2. CASE Expire(w) \/ Poll(w)
    <3>1. PICK answer : /\ told' = [told EXCEPT ![op[Worker(w)].req] = answer]
                        /\ answer = "timeout" \/ answer = Status(op[Worker(w)].req)
      BY <2>2 DEF Expire, Poll, Resume
    <3>2. op[Worker(w)].req \in DOMAIN requests
      BY <1>1, <2>2 DEF Expire, Poll, InCall, TeamInv, FilesInv, OpInv, NoOp, Loading, Loaded, CallSteps
    <3>3. answer = "timeout" \/ answer \in requests[op[Worker(w)].req].decided \cup {"pending"}
      BY <2>2, <3>1 DEF Status, Known, OfRequests, TeamInv, FilesInv, Kinds
    <3>4. answer \in Answers
      <4>1. requests[op[Worker(w)].req] \in Rows
        BY <3>2 DEF TeamInv, FilesInv
      <4>. QED  BY <3>3, <4>1 DEF Rows, Answers, Statuses
    <3>5. told' \in Seq(Answers) /\ DOMAIN told' = DOMAIN told
      <4>1. told \in Seq(Answers) /\ DOMAIN told = 1..Len(told) /\ op[Worker(w)].req \in 1..Len(told)
        BY <3>2 DEF TeamInv, FilesInv
      <4>. QED  BY <3>1, <3>4, <4>1, ExceptSeq
    <3>6. Told'
      BY <1>2, <3>1, <3>2, <3>3 DEF TeamInv, FilesInv, Told
    <3>. QED  BY <3>5, <3>6 DEF TeamInv, FilesInv
  <2>. QED  BY <2>1, <2>2
<1>4. FilesInv' /\ CallsInv' /\ SentInv'
  BY <1>1, <1>2, <1>3, FreeStep
<1>. QED  BY <1>2, <1>3, <1>4, MessagesStay DEF TeamInv

LEMMA AskStep ==
  ASSUME TeamAssumption, TeamInv, NEW w \in Workers, NEW kind \in {"plan", "authorization"}, Ask(w, kind)
  PROVE  TeamInv'
<1>1. Worker(w) \in Actors /\ Worker(w) \notin Leads /\ kind \in Kinds /\ op[Worker(w)] = NoOp
  BY ActorsAreBoxes DEF Ask, Idle, Leads, Kinds
<1>2. FilesInv' /\ CallsInv' /\ Told' /\ SentInv'
  BY <1>1, CreateStep DEF Ask
<1>. QED  BY <1>2, MessagesStay DEF Ask, TeamInv

LEMMA ShutDownStep ==
  ASSUME TeamAssumption, TeamInv, NEW s \in Sessions, NEW w \in Workers, ShutDown(s, w)
  PROVE  TeamInv'
<1>1. Lead(s) \in Actors /\ Lead(s) \in Leads /\ "shutdown" \in Kinds /\ op[Lead(s)] = NoOp
  BY ActorsAreBoxes DEF ShutDown, Idle, Leads, Kinds
<1>2. FilesInv' /\ CallsInv' /\ Told' /\ SentInv'
  BY <1>1, CreateStep DEF ShutDown
<1>. QED  BY <1>2, MessagesStay DEF ShutDown, TeamInv

\* A plain message.
LEMMA ChatStep ==
  ASSUME TeamAssumption, TeamInv,
         NEW from \in Actors, NEW to \in Workers \cup {"lead"}, NEW s \in Sessions \cup {NoSession},
         Send(Message(from, to, s, "message", Chatter + 1)),
         UNCHANGED <<file, op, stop, requests, told, shown, dropped>>
  PROVE  TeamInv'
<1>1. PICK m : m = Message(from, to, s, "message", Chatter + 1)
  OBVIOUS
<1>2. Chatter = Cardinality(Plain) /\ Chatter \in Nat
  BY FS_CardinalityType DEF Chatter, Plain, TeamInv, SentInv
<1>3. m \in Letters /\ Send(m) /\ m.type = "message" /\ m.req = Cardinality(Plain) + 1
  BY <1>1, <1>2 DEF Message, Letters, Types, Boxes
<1>4. \A n \in sent : n.type = m.type => n.req # m.req
  <2>1. \A n \in Plain : n.req \in Nat /\ n.req <= Cardinality(Plain)
    BY DEF TeamInv, SentInv, Plain, Letters
  <2>. QED  BY <1>2, <1>3, <2>1 DEF Plain
<1>5. SentInv' /\ BoxInv' /\ PlacesInv'
  BY <1>3, <1>4, SentOne DEF TeamInv
<1>6. FilesInv' /\ Told'
  BY DEF TeamInv, FilesInv, Told, OfRequests, OpInv
<1>7. \A r : \A type \in Types \ {"message"} : Sent(type, r)' <=> Sent(type, r)
  BY <1>3 DEF Sent, Send
<1>8. CallsInv'
  <2>1. \A w \in Workers : WorkerCall(op[Worker(w)])'
    BY <1>7 DEF TeamInv, CallsInv, WorkerCall, Pending, Deciding, Types
  <2>2. ASSUME NEW r \in Sessions PROVE LeadCall(r, op[Lead(r)])'
    <3>1. LeadCall(r, op[Lead(r)]) /\ sent \subseteq sent'
      BY DEF TeamInv, CallsInv, Send
    <3>. QED  BY <1>7, <3>1 DEF LeadCall, Pending, Deciding, Types
  <2>. QED  BY <2>1, <2>2 DEF TeamInv, CallsInv, Pending
<1>. QED  BY <1>5, <1>6, <1>8 DEF TeamInv

\* A message of a call that is in the file.
LEMMA CallSent ==
  ASSUME TeamAssumption, TeamInv, NEW a \in Actors, NEW m \in Letters, NEW o, op[a].at = "saved", Send(m),
         m.req = op[a].req, op' = [op EXCEPT ![a] = o],
         \/ o = NoOp
         \/ Waiting(o) /\ o.req = m.req,
         \/ m.type = "request" /\ a \notin Leads /\ Pending(op[a])
         \/ m.type = "shutdown_request" /\ a \in Leads /\ Pending(op[a])
         \/ m.type = "response" /\ a \in Leads /\ Deciding(op[a]),
         UNCHANGED <<file, stop, requests, told, shown, dropped>>
  PROVE  TeamInv'
<1>1. op[a].at \in CallSteps /\ op[a].req \in DOMAIN requests
  BY DEF CallSteps, TeamInv, FilesInv, OpInv, NoOp, Waiting
<1>2. /\ \A w \in Workers : a = Worker(w) => WorkerCall(op[a])
      /\ \A s \in Sessions : a = Lead(s) => LeadCall(s, op[a])
      /\ Pending(op[a]) => op[a].kind = requests[op[a].req].kind
  BY DEF TeamInv, CallsInv
<1>3. (\E w \in Workers : a = Worker(w) /\ a \notin Leads) \/ (\E s \in Sessions : a = Lead(s) /\ a \in Leads)
  BY ActorsAreBoxes DEF Leads
<1>4. /\ ~Sent(m.type, m.req)
      /\ m.type = "request" => requests[m.req].kind # "shutdown"
      /\ m.type = "response" => requests[m.req].decided # {}
  BY <1>1, <1>2, <1>3 DEF WorkerCall, LeadCall
<1>5. SentInv' /\ BoxInv' /\ PlacesInv'
  <2>1. \A n \in sent : n.type = m.type => n.req # m.req
    BY <1>4 DEF Sent
  <2>. QED  BY <1>1, <1>4, <2>1, SentOne DEF TeamInv
<1>6. ~Pending(o) /\ ~Deciding(o) /\ OpInv(o)'
  BY <1>1 DEF Pending, Deciding, CallSteps, NoOp, Waiting, OpInv
<1>7. \A b \in Actors \ {a} :
         /\ m.type \in {"request", "shutdown_request"} /\ Pending(op[b]) => m.req # op[b].req
         /\ m.type = "response" /\ b \in Leads /\ Deciding(op[b]) => m.req # op[b].req
  <2>1. ASSUME NEW b \in Actors \ {a}, m.type = "response", b \in Leads, Deciding(op[b]), m.req = op[b].req
        PROVE  FALSE
    <3>1. PICK s \in Sessions, r \in Sessions : a = Lead(s) /\ b = Lead(r)
      BY <2>1 DEF Leads
    <3>2. /\ \E n \in sent : n.type = "request" /\ n.req = m.req /\ n.to = a
          /\ \E n \in sent : n.type = "request" /\ n.req = m.req /\ n.to = b
      BY <2>1, <3>1 DEF TeamInv, CallsInv, LeadCall
    <3>. QED  BY <2>1, <3>2 DEF TeamInv, SentInv
  <2>. QED  BY <2>1 DEF TeamInv, CallsInv
<1>8. Grown /\ \A k \in Kinds : OfRequests(file[k])'
  BY RequestsStay DEF TeamInv, FilesInv, OfRequests
<1>9. PICK N : N = {m}
  OBVIOUS
<1>10. sent' = sent \cup N /\ \A n \in N : n = m
  BY <1>9 DEF Send
<1>11. /\ \A w \in Workers : WorkerCall(o)'
       /\ \A s \in Sessions : LeadCall(s, o)'
  BY <1>6 DEF WorkerCall, LeadCall, Pending, Deciding
<1>12. told' \in Seq(Answers) /\ DOMAIN told' = DOMAIN requests' /\ DOMAIN file' = Kinds
  BY DEF TeamInv, FilesInv
<1>13. FilesInv' /\ CallsInv'
  <2>1. FilesInv /\ CallsInv
    BY DEF TeamInv
  <2>2. \A n \in N, b \in Actors \ {a} :
         /\ n.type \in {"request", "shutdown_request"} /\ Pending(op[b]) => n.req # op[b].req
         /\ n.type = "response" /\ b \in Leads /\ Deciding(op[b]) => n.req # op[b].req
    BY <1>7, <1>10
  <2>. QED  BY <1>6, <1>8, <1>10, <1>11, <1>12, <2>1, <2>2, CallStep
<1>. QED  BY <1>5, <1>13 DEF TeamInv, Told

LEMMA TellLeadStep ==
  ASSUME TeamAssumption, TeamInv, NEW w \in Workers, TellLead(w)
  PROVE  TeamInv'
<1>1. PICK a : a = Worker(w)
  OBVIOUS
<1>2. a \in Actors /\ a \notin Leads /\ op[a].at = "saved" /\ op[a].kind # "shutdown" /\ op[a].req \in Nat
  BY <1>1, ActorsAreBoxes DEF TellLead, InCall, Leads, TeamInv, FilesInv, OpInv, NoOp, Waiting
<1>3. PICK m : m = Message(Worker(w), "lead", SessionFound(w), "request", op[a].req)
  OBVIOUS
<1>4. m \in Letters /\ m.type = "request" /\ m.req = op[a].req /\ Send(m)
  BY <1>1, <1>2, <1>3 DEF TeamAssumption, TellLead, Message, Letters, Types, Boxes, SessionFound
<1>5. PICK o : o = IF op[a].kind = "plan" THEN NoOp ELSE [at |-> "wait", req |-> op[a].req]
  OBVIOUS
<1>6. op' = [op EXCEPT ![a] = o] /\ (o = NoOp \/ (Waiting(o) /\ o.req = m.req))
  BY <1>1, <1>4, <1>5 DEF TellLead, Waiting
<1>7. Pending(op[a])
  BY <1>1, <1>2 DEF TeamInv, CallsInv, WorkerCall, Pending, Deciding, CallSteps
<1>. QED  BY <1>1, <1>2, <1>4, <1>6, <1>7, CallSent DEF TellLead

LEMMA TellWorkerStep ==
  ASSUME TeamAssumption, TeamInv, NEW s \in Sessions, TellWorker(s)
  PROVE  TeamInv'
<1>1. PICK a : a = Lead(s)
  OBVIOUS
<1>2. a \in Actors /\ a \in Leads /\ op[a].at = "saved" /\ op[a].req \in Nat /\ op[a].req \in DOMAIN requests
  BY <1>1, ActorsAreBoxes DEF TellWorker, InCall, Leads, TeamInv, FilesInv, OpInv, NoOp, Waiting
<1>3. PICK m : m = Message(Lead(s), requests[op[a].req].about, s,
                           IF op[a].kind = "shutdown" THEN "shutdown_request" ELSE "response", op[a].req)
  OBVIOUS
<1>4. requests[op[a].req].about \in Workers
  <2>1. requests[op[a].req] \in Rows
    BY <1>2 DEF TeamInv, FilesInv
  <2>. QED  BY <2>1 DEF Rows
<1>5. /\ m \in Letters /\ m.req = op[a].req /\ Send(m)
      /\ m.type = IF op[a].kind = "shutdown" THEN "shutdown_request" ELSE "response"
  BY <1>1, <1>2, <1>3, <1>4 DEF TellWorker, Message, Letters, Types, Boxes
<1>6. PICK o : o = NoOp
  OBVIOUS
<1>7. op[a].kind = "shutdown" <=> Pending(op[a])
  BY <1>1, <1>2 DEF TeamInv, CallsInv, LeadCall, Pending, Deciding, CallSteps
<1>8. Pending(op[a]) \/ Deciding(op[a])
  BY <1>2 DEF Pending, Deciding, CallSteps
<1>9. op' = [op EXCEPT ![a] = o]
  BY <1>1, <1>6 DEF TellWorker
<1>. QED  BY <1>2, <1>5, <1>6, <1>7, <1>8, <1>9, CallSent DEF TellWorker

LEMMA DecideStep ==
  ASSUME TeamAssumption, TeamInv, NEW s \in Sessions, NEW r \in DOMAIN requests,
         NEW answer \in {"approved", "rejected"},
         Decide(s, r, answer)
  PROVE  TeamInv'
<1>1. PICK a : a = Lead(s)
  OBVIOUS
<1>2. PICK o : o = Call(requests[r].kind, r, answer)
  OBVIOUS
<1>3. op' = [op EXCEPT ![a] = o] /\ Loading(o) /\ o.at = "load" /\ o.kind = requests[r].kind /\ o.req = r
      /\ o.status = answer /\ a \in Actors
  BY <1>1, <1>2, ActorsAreBoxes DEF Decide, Call, Loading
<1>4. requests[r] \in Rows
  BY DEF TeamInv, FilesInv
<1>5. OpInv(o) /\ ~Pending(o)
  BY <1>3, <1>4 DEF OpInv, Rows, Statuses, Pending
<1>6. PICK e \in shown : e[2] = Lead(s) /\ e[1].type = "request" /\ e[1].req = r
  BY DEF Decide
<1>7. PICK m \in sent : e = <<m, m.to>>
  BY <1>6 DEF TeamInv, PlacesInv
<1>8. m.type = "request" /\ m.req = r /\ m.to = Lead(s) /\ requests[r].kind # "shutdown"
  BY <1>6, <1>7 DEF TeamInv, SentInv
<1>9. ~Sent("response", r)
  BY DEF Decide, TeamInv, SentInv, Sent
<1>10. \A q \in Sessions : a = Lead(q) => LeadCall(q, o)
  BY <1>1, <1>3, <1>5, <1>8, <1>9 DEF LeadCall, Deciding
<1>11. \A w \in Workers : a # Worker(w)
  BY <1>1, ActorsAreBoxes
<1>12. FilesInv' /\ CallsInv' /\ SentInv'
  BY <1>3, <1>5, <1>10, <1>11, NextStep DEF Decide, TeamInv, FilesInv
<1>. QED  BY <1>12, MessagesStay DEF Decide, TeamInv, Told

LEMMA QuietStep ==
  ASSUME TeamAssumption, TeamInv, NEW s \in Sessions, UnknownRequest(s) \/ Activate(s)
  PROVE  TeamInv'
<1>1. CASE UnknownRequest(s)
  <2>1. FilesInv' /\ CallsInv' /\ SentInv'
    BY <1>1, ActorsAreBoxes, FreeStep DEF UnknownRequest, TeamInv, FilesInv
  <2>. QED  BY <1>1, <2>1, MessagesStay DEF UnknownRequest, TeamInv, Told
<1>2. CASE Activate(s)
  <2>1. FilesInv' /\ Told' /\ CallsInv' /\ SentInv'
    BY <1>2 DEF Activate, TeamInv, FilesInv, OpInv, OfRequests, Told, CallsInv, WorkerCall, LeadCall, Sent,
                Pending, Deciding, SentInv, Plain
  <2>. QED  BY <1>2, <2>1, MessagesStay DEF Activate, TeamInv
<1>. QED  BY <1>1, <1>2

LEMMA ChatSteps ==
  ASSUME TeamAssumption, TeamInv
  PROVE  /\ \A w \in Workers, to \in Workers \cup {"lead"} : SendMessage(w, to) => TeamInv'
         /\ \A s \in Sessions, w \in Workers : Tell(s, w) => TeamInv'
<1>1. ASSUME NEW w \in Workers, NEW to \in Workers \cup {"lead"}, SendMessage(w, to) PROVE TeamInv'
  BY <1>1, ActorsAreBoxes, ChatStep DEF TeamAssumption, SendMessage, SessionFound
<1>2. ASSUME NEW s \in Sessions, NEW w \in Workers, Tell(s, w) PROVE TeamInv'
  BY <1>2, ActorsAreBoxes, ChatStep DEF Tell
<1>. QED  BY <1>1, <1>2

LEMMA LeadReads ==
  ASSUME TeamAssumption, TeamInv, NEW s \in Sessions, ReadInbox(s) \/ EndOfReply(s)
  PROVE  TeamInv'
<1>1. PICK a : a = Lead(s)
  OBVIOUS
<1>2. a \in Actors /\ a[1] = "lead" /\ box' = Emptied(a)
      /\ UNCHANGED <<file, op, stop, requests, told, sent>>
  BY <1>1, ActorsAreBoxes DEF ReadInbox, EndOfReply
<1>3. PICK all : all = ToSet(box[a])
  OBVIOUS
<1>4. \A m : m \in all <=> \E i \in DOMAIN box[a] : box[a][i] = m
  BY <1>3 DEF ToSet
<1>5. PICK none : none = {}
  OBVIOUS
<1>6. BoxInv' /\ PlacesInv'
  <2>1. CASE ReadInbox(s)
    <3>1. shown' = shown \cup {<<m, a>> : m \in all} /\ dropped' = dropped \cup none
      BY <1>1, <1>3, <1>5, <2>1 DEF ReadInbox, Drained
    <3>2. \A m : m \in all \cup none <=> \E i \in DOMAIN box[a] : box[a][i] = m
      BY <1>4, <1>5
    <3>. QED  BY <1>2, <1>5, <3>1, <3>2, BoxRead DEF TeamInv
  <2>2. CASE EndOfReply(s)
    <3>1. shown' = shown \cup {<<m, a>> : m \in none} /\ dropped' = dropped \cup all
      BY <1>1, <1>3, <1>5, <2>2 DEF EndOfReply, Drained
    <3>2. \A m : m \in none \cup all <=> \E i \in DOMAIN box[a] : box[a][i] = m
      BY <1>4, <1>5
    <3>. QED  BY <1>2, <1>5, <3>1, <3>2, BoxRead DEF TeamInv
  <2>. QED  BY <2>1, <2>2
<1>7. FilesInv' /\ Told' /\ SentInv'
  BY <1>2 DEF TeamInv, FilesInv, OpInv, OfRequests, Told, SentInv, Plain
<1>8. CallsInv'
  BY <1>2 DEF TeamInv, CallsInv, WorkerCall, LeadCall, Sent, Pending, Deciding
<1>. QED  BY <1>6, <1>7, <1>8 DEF TeamInv

LEMMA WorkerReads ==
  ASSUME TeamAssumption, TeamInv, NEW w \in Workers, CheckInbox(w)
  PROVE  TeamInv'
<1>1. PICK a : a = Worker(w)
  OBVIOUS
<1>2. PICK batch : batch = box[a]
  OBVIOUS
<1>3. PICK n : n = ReadUntil(batch)
  OBVIOUS
<1>4. a \in Actors /\ a \in Boxes /\ a[1] = w /\ a \notin Leads /\ box' = Emptied(a) /\ op[a] = NoOp
  BY <1>1, ActorsAreBoxes DEF CheckInbox, Idle, Leads
<1>5. batch \in Seq(Letters) /\ DOMAIN batch = 1..Len(batch) /\ Len(batch) \in Nat /\ batch # <<>>
  BY <1>1, <1>2, <1>4 DEF TeamInv, BoxInv, CheckInbox, Drained
<1>6. n \in 1..Len(batch) /\ \A i, j \in 1..Len(batch) : batch[i] = batch[j] => i = j
  <2>1. Len(batch) \in 1..Len(batch)
    BY <1>5
  <2>2. PICK ends : ends = {i \in DOMAIN batch : batch[i].type = "shutdown_request"}
    OBVIOUS
  <2>3. n = IF ends = {} THEN Len(batch) ELSE CHOOSE i \in ends : \A j \in ends : i <= j
    BY <1>3, <2>2 DEF ReadUntil
  <2>4. ends # {} => \E i \in ends : \A j \in ends : i <= j
    BY <1>5, <2>2, LeastNumber
  <2>5. n \in 1..Len(batch)
    BY <1>5, <2>1, <2>2, <2>3, <2>4
  <2>. QED  BY <1>2, <1>4, <1>5, <2>5 DEF TeamInv, BoxInv
<1>7. PICK S : S = {batch[i] : i \in 1..n}
  OBVIOUS
<1>8. PICK D : D = {batch[i] : i \in n+1..Len(batch)}
  OBVIOUS
<1>9. /\ shown' = shown \cup {<<m, a>> : m \in S} /\ dropped' = dropped \cup D
      /\ UNCHANGED <<file, requests, told, sent>>
  BY <1>1, <1>2, <1>3, <1>7, <1>8 DEF CheckInbox, Drained
<1>10. S \cap D = {} /\ \A m : m \in S \cup D <=> \E i \in DOMAIN box[a] : box[a][i] = m
  BY <1>2, <1>5, <1>6, <1>7, <1>8
<1>11. \/ /\ batch[n].type = "shutdown_request"
          /\ stop' = stop \cup {w} /\ op' = [op EXCEPT ![a] = Call("shutdown", batch[n].req, "accepted")]
       \/ n = Len(batch) /\ stop' = stop /\ op' = op
  <2>1. batch[n].type # "shutdown_request" => n = Len(batch)
    <3>1. PICK ends : ends = {i \in DOMAIN batch : batch[i].type = "shutdown_request"}
      OBVIOUS
    <3>2. n = IF ends = {} THEN Len(batch) ELSE CHOOSE i \in ends : \A j \in ends : i <= j
      BY <1>3, <3>1 DEF ReadUntil
    <3>3. ends # {} => \E i \in ends : \A j \in ends : i <= j
      BY <1>5, <3>1, LeastNumber
    <3>4. ends # {} => n \in ends
      BY <3>2, <3>3
    <3>. QED  BY <3>1, <3>2, <3>4
  <2>. QED  BY <1>1, <1>2, <1>3, <2>1 DEF CheckInbox, Drained
<1>12. stop \subseteq stop' /\ (D # {} => a[1] \in stop')
  BY <1>4, <1>5, <1>8, <1>11
<1>13. BoxInv' /\ PlacesInv'
  BY <1>4, <1>9, <1>10, <1>12, BoxRead DEF TeamInv
<1>14. Told'
  BY <1>9 DEF TeamInv, Told
<1>15. CASE op' = op
  BY <1>9, <1>13, <1>14, <1>15 DEF TeamInv, FilesInv, OpInv, OfRequests, CallsInv, WorkerCall, LeadCall, Sent,
              Pending, Deciding, SentInv, Plain
<1>16. CASE /\ batch[n].type = "shutdown_request"
            /\ op' = [op EXCEPT ![a] = Call("shutdown", batch[n].req, "accepted")]
  <2>1. PICK o : o = Call("shutdown", batch[n].req, "accepted")
    OBVIOUS
  <2>2. Loading(o) /\ o.at = "load" /\ o.kind = "shutdown" /\ o.req = batch[n].req /\ o.status = "accepted"
    BY <2>1 DEF Call, Loading
  <2>3. batch[n] \in sent /\ batch[n].req \in DOMAIN requests
    BY <1>2, <1>4, <1>5, <1>6, <1>16 DEF TeamInv, BoxInv, SentInv
  <2>4. OpInv(o) /\ ~Pending(o)
    BY <2>2, <2>3 DEF OpInv, Kinds, Statuses, Pending
  <2>5. /\ \A v \in Workers : a = Worker(v) => WorkerCall(o)
        /\ \A s \in Sessions : a # Lead(s)
    BY <1>4, <2>2, <2>4 DEF WorkerCall, Leads
  <2>6. FilesInv' /\ CallsInv' /\ SentInv'
    BY <1>4, <1>9, <1>16, <2>1, <2>4, <2>5, NextStep DEF TeamInv, FilesInv
  <2>. QED  BY <1>13, <1>14, <2>6 DEF TeamInv
<1>. QED  BY <1>11, <1>15, <1>16
-----------------------------------------------------------------------------
LEMMA MessagesInit ==
  ASSUME TeamAssumption, Init
  PROVE  TeamInv
<1>1. FilesInv /\ Told
  <2>1. \A a \in Actors : op[a] = NoOp
    BY DEF Init
  <2>2. \A k \in Kinds : file[k] = <<>>
    BY DEF Init
  <2>. QED  BY <2>1, <2>2, EmptySeq DEF Init, FilesInv, OfRequests, OpInv, Told
<1>2. CallsInv
  <2>1. \A a \in Actors : ~Pending(op[a]) /\ ~Deciding(op[a])
    BY DEF Init, NoOp, Pending, Deciding, CallSteps
  <2>. QED  BY <2>1, ActorsAreBoxes DEF CallsInv, WorkerCall, LeadCall
<1>3. SentInv
  <2>1. Plain = {}
    BY DEF Init, Plain
  <2>. QED  BY <2>1, FS_EmptySet DEF Init, SentInv
<1>4. BoxInv
  BY EmptySeq DEF Init, BoxInv
<1>. QED  BY <1>1, <1>2, <1>3, <1>4 DEF Init, PlacesInv, TeamInv

LEMMA MessagesNext ==
  ASSUME TeamAssumption, TeamInv, [Next]_vars
  PROVE  TeamInv'
<1>1. CASE UNCHANGED vars
  <2>1. FilesInv' /\ Told' /\ CallsInv' /\ SentInv'
    BY <1>1, SMTT(20) DEF vars, TeamInv, FilesInv, OpInv, OfRequests, Told, CallsInv, WorkerCall, LeadCall, Sent,
                Pending, Deciding, SentInv, Plain
  <2>. QED  BY <1>1, <2>1, MessagesStay DEF vars, TeamInv
<1>2. CASE \E a \in Actors : Step(a)
  BY <1>2, LoadStep, SaveStep DEF Step
<1>3. CASE \E w \in Workers : WorkerStep(w)
  BY <1>3, WorkerReads, TellLeadStep, WorkerFree, AskStep, ChatSteps DEF WorkerStep
<1>4. CASE \E s \in Sessions : LeadStep(s)
  BY <1>4, LeadReads, TellWorkerStep, QuietStep, ChatSteps, ShutDownStep, DecideStep DEF LeadStep
<1>. QED  BY <1>1, <1>2, <1>3, <1>4 DEF Next

\* Every message is in one place, whatever sessions are switched, requests made and
\* decided, and inboxes emptied in between.
THEOREM Messages ==
  ASSUME TeamAssumption
  PROVE  Spec => []MessagesAccounted
<1>1. TeamInv => MessagesAccounted
  <2> SUFFICES ASSUME TeamInv, NEW m \in sent
               PROVE  /\ Copies(m) + Cardinality(Readers(m)) + Cardinality({m} \cap dropped) = 1
                      /\ Readers(m) \subseteq {m.to}
                      /\ m \in dropped => m.to[1] = "lead" \/ m.to[1] \in stop
    BY DEF MessagesAccounted
  <2>1. Readers(m) = IF <<m, m.to>> \in shown THEN {m.to} ELSE {}
    <3>1. ASSUME NEW a \in Actors PROVE <<m, a>> \in shown <=> <<m, m.to>> \in shown /\ a = m.to
      <4>1. ASSUME <<m, a>> \in shown PROVE a = m.to
        <5>1. PICK x \in sent : <<m, a>> = <<x, x.to>>
          BY <4>1 DEF TeamInv, PlacesInv
        <5>. QED  BY <5>1
      <4>. QED  BY <4>1
    <3>2. <<m, m.to>> \in shown => m.to \in Actors
      <4>1. PICK e : e = <<m, m.to>>
        OBVIOUS
      <4>. QED  BY <4>1 DEF TeamInv, PlacesInv
    <3>. QED  BY <3>1, <3>2 DEF Readers
  <2>2. Cardinality(Readers(m)) = IF <<m, m.to>> \in shown THEN 1 ELSE 0
    BY <2>1, FS_Singleton, FS_EmptySet
  <2>3. Cardinality({m} \cap dropped) = IF m \in dropped THEN 1 ELSE 0
    <3>1. {m} \cap dropped = IF m \in dropped THEN {m} ELSE {}
      OBVIOUS
    <3>. QED  BY <3>1, FS_Singleton, FS_EmptySet
  <2>4. Copies(m) = IF Boxed(m) THEN 1 ELSE 0
    <3>1. PICK places : places = {i \in DOMAIN box[m.to] : box[m.to][i] = m}
      OBVIOUS
    <3>2. places = {} \/ \E i : places = {i}
      <4>1. \A i, j \in places : i = j
        BY <3>1 DEF TeamInv, SentInv, Letters, BoxInv
      <4>. QED  BY <4>1
    <3>3. places = {} <=> ~Boxed(m)
      BY <3>1 DEF Boxed
    <3>. QED  BY <3>1, <3>2, <3>3, FS_Singleton, FS_EmptySet DEF Copies
  <2>. QED  BY <2>1, <2>2, <2>3, <2>4 DEF TeamInv, PlacesInv
<1>2. TeamInv /\ [Next]_vars => TeamInv'
  BY MessagesNext
<1>3. Init => TeamInv
  BY MessagesInit
<1>. QED  BY <1>1, <1>2, <1>3, PTL DEF Spec

\* What a teammate is told was decided about its own request, however the files of
\* requests are overwritten and deadlines pass.
THEOREM OwnAnswers ==
  ASSUME TeamAssumption
  PROVE  Spec => []AnswerIsOwn
<1>1. TeamInv => AnswerIsOwn
  BY DEF TeamInv, Told, AnswerIsOwn
<1>2. TeamInv /\ [Next]_vars => TeamInv'
  BY MessagesNext
<1>3. Init => TeamInv
  BY MessagesInit
<1>. QED  BY <1>1, <1>2, <1>3, PTL DEF Spec

-----------------------------------------------------------------------------
(***************************************************************************)
(* A theorem about TeamSessions, for any sessions, members, threads and    *)
(* restarts: a member that is said to be running is running.               *)
(***************************************************************************)

-----------------------------------------------------------------------------
(* The invariant.                                                          *)

\* A thread that has not written for the last time.
Writing == {w \in Threads : at[w] \in {"boot", "check", "update", "leave"}}
Runs(m) == \E w \in Writing : member[w] = m

\* The members that the caller of the manager has still to look at.
Unrestored(m) ==
  \/ activeSession = NoActive
  \/ lead.step = "suspend"
  \/ lead.step = "restore" /\ MemberSession[m] = activeSession

Shape ==
  /\ DOMAIN status = Members /\ DOMAIN reason = Members
  /\ DOMAIN member = Threads /\ DOMAIN at = Threads
  /\ lead = [step |-> lead.step, start |-> lead.start, thread |-> lead.thread]
  /\ lead.step \in {"none", "suspend", "restore"} => lead.start = {}

\* Who is active has a thread that may still write, is about to get one, or
\* is about to be suspended or restored.
RowsInv ==
  /\ Shape
  /\ \A m \in Members : status[m] \in Active => Runs(m) \/ m \in lead.start \/ Unrestored(m)

-----------------------------------------------------------------------------
LEMMA RowsInit == TeamInit => RowsInv
BY DEF TeamInit, RowsInv, Shape, Free, Unrestored

\* Nothing that makes a member active, and no thread that stops writing.
LEMMA Weaker ==
  ASSUME RowsInv, Shape',
         \A m \in Members : status'[m] \in Active => status[m] \in Active,
         \A w \in Writing : w \in Writing' /\ member'[w] = member[w],
         \A m \in Members : status'[m] \in Active /\ (m \in lead.start \/ Unrestored(m))
                              => m \in lead'.start \/ Unrestored(m)' \/ Runs(m)'
  PROVE  RowsInv'
<1> SUFFICES ASSUME NEW m \in Members, status'[m] \in Active
             PROVE  Runs(m)' \/ m \in lead'.start \/ Unrestored(m)'
  BY DEF RowsInv
<1>1. Runs(m) => Runs(m)'
  BY DEF Runs
<1>. QED  BY <1>1 DEF RowsInv

LEMMA Activated ==
  ASSUME RowsInv, NEW s \in ProjectSessions, ActivateSession(s)
  PROVE  RowsInv'
BY DEF ActivateSession, CallerStep, RowsInv, Shape, Unrestored, fileVars, threadVars

LEMMA Suspended ==
  ASSUME RowsInv, SuspendNonSessionMembers
  PROVE  RowsInv'
<1>1. Shape'
  BY DEF SuspendNonSessionMembers, CallerStep, RowsInv, Shape, threadVars
<1>2. \A m \in Members : status'[m] = IF ActiveElsewhere(m) THEN "suspended" ELSE status[m]
  BY DEF SuspendNonSessionMembers
<1>3. \A m \in Members : status'[m] \in Active => MemberSession[m] = activeSession
  BY <1>2 DEF ActiveElsewhere, Active
<1>4. lead'.step = "restore" /\ activeSession' = activeSession
  BY DEF SuspendNonSessionMembers, CallerStep, RowsInv, Shape
<1>. QED  BY <1>1, <1>3, <1>4 DEF RowsInv, Unrestored

LEMMA Restored ==
  ASSUME RowsInv, RestoreState
  PROVE  RowsInv'
<1>1. PICK resumed : resumed = {m \in Members : Restorable(m) /\ m \in prompted}
  OBVIOUS
<1>2. PICK stale : stale = {m \in Members : Restorable(m) /\ m \notin prompted}
  OBVIOUS
<1>3. /\ status' = [m \in Members |-> IF m \in resumed THEN "starting"
                                      ELSE IF m \in stale THEN "shutdown" ELSE status[m]]
      /\ lead' = [step |-> IF resumed = {} THEN "none" ELSE "start", start |-> resumed, thread |-> NoThread]
      /\ DOMAIN reason' = Members
      /\ UNCHANGED <<activeSession, member, at>> /\ lead.step = "restore"
  BY <1>1, <1>2 DEF RestoreState, Free, threadVars
<1>4. Shape'
  BY <1>3 DEF RowsInv, Shape
<1>5. ASSUME NEW m \in Members, status'[m] \in Active PROVE Runs(m)' \/ m \in lead'.start \/ Unrestored(m)'
  <2>1. CASE m \in resumed
    BY <1>3, <2>1
  <2>2. CASE m \notin resumed
    <3>1. m \notin stale /\ status[m] \in Active
      BY <1>3, <1>5, <2>2 DEF Active
    <3>2. MemberSession[m] # activeSession
      BY <1>1, <1>2, <2>2, <3>1 DEF Restorable
    <3>3. Runs(m) \/ activeSession = NoActive
      BY <1>3, <3>1, <3>2 DEF RowsInv, Shape, Unrestored
    <3>. QED  BY <1>3, <3>3 DEF Runs, Writing, Unrestored
  <2>. QED  BY <2>1, <2>2
<1>. QED  BY <1>4, <1>5 DEF RowsInv

\* The thread of the least number that is not used.
LEMMA LeastThread ==
  ASSUME MaxThreads \in Nat, NEW S \in SUBSET Threads, S # {}
  PROVE  (CHOOSE x \in S : \A y \in S : x <= y) \in S
<1> DEFINE R == OpToRel(<, Nat)
<1>1. IsWellFoundedOn(R, Nat)
  BY NatLessThanWellFounded
<1>2. \A x, y \in Nat : x < y => <<x, y>> \in R
  BY DEF OpToRel
<1> HIDE DEF R
<1>3. S \subseteq Nat
  BY DEF Threads
<1>4. PICK x \in S : \A y \in S : ~ (<<y, x>> \in R)
  BY <1>1, <1>3, WFMin
<1>5. ASSUME NEW y \in S PROVE x <= y
  <2>1. x \in Nat /\ y \in Nat /\ ~(y < x)
    BY <1>2, <1>3, <1>4
  <2>. QED  BY <2>1
<1>. QED  BY <1>5

LEMMA ThreadStarted ==
  ASSUME MaxThreads \in Nat, RowsInv, NEW m \in Members, StartThread(m)
  PROVE  RowsInv'
<1>1. PICK unused : unused = {w \in Threads : at[w] = "none"}
  OBVIOUS
<1>2. PICK w : w = CHOOSE x \in unused : \A y \in unused : x <= y
  OBVIOUS
<1>3. w \in Threads /\ at[w] = "none"
  BY <1>1, <1>2, LeastThread DEF StartThread
<1>4. /\ member' = [member EXCEPT ![w] = m] /\ at' = [at EXCEPT ![w] = "boot"]
      /\ lead' = [step |-> "register", start |-> lead.start \ {m}, thread |-> w]
      /\ lead.step = "start" /\ UNCHANGED <<activeSession, status, reason>>
  BY <1>1, <1>2 DEF StartThread, fileVars
<1>5. Shape'
  BY <1>4 DEF RowsInv, Shape
<1>6. \A x \in Writing : x \in Writing' /\ member'[x] = member[x]
  BY <1>3, <1>4 DEF RowsInv, Shape, Writing
<1>7. Runs(m)'
  BY <1>3, <1>4 DEF RowsInv, Shape, Runs, Writing
<1>. QED  BY <1>4, <1>5, <1>6, <1>7, Weaker DEF Unrestored

LEMMA CallerSteps ==
  ASSUME RowsInv, RegisterThread \/ ResetLog \/ ListMembers \/ InterruptActive \/ Restart
                    \/ \E m \in Members : TaskChanges(m)
  PROVE  RowsInv'
<1>1. Shape'
  <2>1. CASE RegisterThread \/ ResetLog
    BY <2>1 DEF RegisterThread, ResetLog, CallerStep, Free, RowsInv, Shape, fileVars, threadVars
  <2>2. CASE Restart \/ \E m \in Members : TaskChanges(m)
    BY <2>2 DEF Restart, TaskChanges, Free, RowsInv, Shape, fileVars, threadVars
  <2>3. CASE ListMembers \/ InterruptActive
    BY <2>3 DEF ListMembers, InterruptActive, RefreshThreadHealth, RowsInv, Shape, threadVars
  <2>. QED  BY <2>1, <2>2, <2>3
<1>2. \A m \in Members : status'[m] \in Active => status[m] \in Active
  BY DEF RegisterThread, ResetLog, ListMembers, InterruptActive, Restart, TaskChanges, RefreshThreadHealth,
         Active, fileVars
<1>3. CASE Restart
  BY <1>1, <1>3 DEF Restart, RowsInv, Unrestored
<1>4. CASE RegisterThread \/ ResetLog \/ ListMembers \/ InterruptActive \/ \E m \in Members : TaskChanges(m)
  <2>1. UNCHANGED <<member, at, activeSession>>
    BY <1>4 DEF RegisterThread, ResetLog, ListMembers, InterruptActive, TaskChanges, threadVars
  <2>2. lead'.start = lead.start /\ (lead' = lead \/ lead.step \in {"register", "log"})
    BY <1>4 DEF RegisterThread, ResetLog, ListMembers, InterruptActive, TaskChanges, CallerStep, Free, RowsInv, Shape
  <2>. QED  BY <1>1, <1>2, <2>1, <2>2, Weaker DEF Unrestored, Writing
<1>. QED  BY <1>3, <1>4

LEMMA Spawned ==
  ASSUME RowsInv, NEW m \in Members, Spawn(m)
  PROVE  RowsInv'
<1>1. /\ status' = [status EXCEPT ![m] = "starting"] /\ DOMAIN reason' = DOMAIN reason
      /\ lead' = [step |-> "log", start |-> {m}, thread |-> NoThread]
      /\ lead.step = "none" /\ UNCHANGED <<activeSession, member, at>>
  BY DEF Spawn, Free, threadVars
<1>2. Shape'
  BY <1>1 DEF RowsInv, Shape
<1>3. \A x \in Members : status'[x] \in Active => x = m \/ status[x] \in Active
  BY <1>1 DEF RowsInv, Shape
<1>4. lead.start = {}
  BY <1>1 DEF RowsInv, Shape
<1>5. \A x \in Members : status[x] \in Active => Runs(x)' \/ activeSession' = NoActive
  BY <1>1, <1>4 DEF RowsInv, Unrestored, Runs, Writing
<1>. QED  BY <1>1, <1>2, <1>3, <1>5 DEF RowsInv, Unrestored
-----------------------------------------------------------------------------
(* The threads.                                                            *)

\* A thread goes on, and may write that its member works.
LEMMA Writes1 ==
  ASSUME RowsInv, NEW w \in Threads, w \in Writing, UNCHANGED <<activeSession, lead, member>>,
         DOMAIN reason' = Members, NEW to \in {"check", "update", "leave"}, Goes(w, to),
         status' = status \/ \E s \in Active : Writes(w, s)
  PROVE  RowsInv'
<1>1. Shape' /\ w \in Writing'
  BY DEF Goes, Writes, RowsInv, Shape, Writing
<1>2. \A x \in Writing : x \in Writing' /\ member'[x] = member[x]
  BY DEF Goes, RowsInv, Shape, Writing
<1>3. ASSUME NEW m \in Members, status'[m] \in Active PROVE Runs(m)' \/ m \in lead'.start \/ Unrestored(m)'
  <2>1. CASE m = member[w]
    BY <1>1, <2>1 DEF Runs
  <2>2. CASE m # member[w]
    <3>1. status[m] \in Active
      BY <1>3, <2>2 DEF Writes, RowsInv, Shape
    <3>2. Runs(m) => Runs(m)'
      BY <1>2 DEF Runs
    <3>. QED  BY <3>1, <3>2 DEF RowsInv, Unrestored
  <2>. QED  BY <2>1, <2>2
<1>. QED  BY <1>1, <1>3 DEF RowsInv

LEMMA ThreadGoes ==
  ASSUME RowsInv, NEW w \in Threads,
         Boot(w) \/ GoOn(w) \/ Update(w) \/ StopRequested(w) \/ ShutdownRequest(w) \/ IdleTimeout(w)
           \/ RuntimeError(w)
  PROVE  RowsInv'
<1>1. w \in Writing /\ UNCHANGED <<activeSession, lead, member, reason>>
  BY DEF Boot, GoOn, Update, StopRequested, ShutdownRequest, IdleTimeout, RuntimeError, Leaves, Writing, fileVars
<1>2. DOMAIN reason' = Members
  BY <1>1 DEF RowsInv, Shape
<1>3. \E to \in {"check", "update", "leave"} : Goes(w, to)
  BY DEF Boot, GoOn, Update, StopRequested, ShutdownRequest, IdleTimeout, RuntimeError, Leaves
<1>4. status' = status \/ \E s \in Active : Writes(w, s)
  BY DEF Boot, GoOn, Update, StopRequested, ShutdownRequest, IdleTimeout, RuntimeError, Leaves, Active, fileVars
<1>. QED  BY <1>1, <1>2, <1>3, <1>4, Writes1

\* What a thread writes last is that its member does not run.
LEMMA ThreadEnds ==
  ASSUME RowsInv, NEW w \in Threads, Leave(w) \/ Die(w)
  PROVE  RowsInv'
<1>1. Shape' /\ UNCHANGED <<activeSession, lead, member>>
  BY DEF Leave, Die, Goes, Writes, RowsInv, Shape, fileVars
<1>2. \A x \in Writing : x # w => x \in Writing'
  BY DEF Leave, Die, Goes, RowsInv, Shape, Writing
<1>3. \A m \in Members : status'[m] \in Active => status[m] \in Active /\ (w \in Writing => m # member[w])
  BY DEF Leave, Die, Writes, RowsInv, Shape, Writing, Active, fileVars
<1>4. \A m \in Members : status'[m] \in Active /\ Runs(m) => Runs(m)'
  BY <1>1, <1>2, <1>3 DEF Runs
<1>. QED  BY <1>1, <1>3, <1>4 DEF RowsInv, Unrestored
-----------------------------------------------------------------------------
LEMMA RowsNext ==
  ASSUME MaxThreads \in Nat, RowsInv, [TeamNext]_teamVars
  PROVE  RowsInv'
<1>1. CASE UNCHANGED teamVars
  BY <1>1 DEF teamVars, fileVars, threadVars, RowsInv, Shape, Unrestored, Runs, Writing
<1>2. CASE \E w \in Threads : ThreadStep(w)
  BY <1>2, ThreadGoes, ThreadEnds DEF ThreadStep
<1>3. CASE \E m \in Members : StartThread(m) \/ Spawn(m) \/ TaskChanges(m)
  BY <1>3, ThreadStarted, Spawned, CallerSteps
<1>4. CASE SuspendNonSessionMembers \/ RestoreState \/ RegisterThread \/ ResetLog
             \/ ListMembers \/ InterruptActive \/ Restart
  BY <1>4, Suspended, Restored, CallerSteps
<1>5. CASE \E s \in ProjectSessions : ActivateSession(s)
  BY <1>5, Activated
<1>. QED  BY <1>1, <1>2, <1>3, <1>4, <1>5 DEF TeamNext

\* A member that its team file calls running has a thread, wherever the process was
\* stopped before, and whatever late threads of the member write to the file.
THEOREM ActiveMembers ==
  ASSUME MaxThreads \in Nat
  PROVE  TeamSpec => []ActiveHasThread
<1>1. RowsInv => ActiveHasThread
  <2>1. Writing \subseteq Live
    BY DEF Writing, Live
  <2>. QED  BY <2>1 DEF RowsInv, Shape, Unrestored, Runs, ActiveHasThread
<1>2. RowsInv /\ [TeamNext]_teamVars => RowsInv'
  BY RowsNext
<1>3. TeamInit => RowsInv
  BY RowsInit
<1>. QED  BY <1>1, <1>2, <1>3, PTL DEF TeamSpec
=============================================================================
