----------------------------- MODULE ToolProofs -----------------------------
(* Theorems about the tools of a turn: the MCP sessions they run on        *)
(* (McpServers), the images they read (ModelImages), the jobs they start   *)
(* (BackgroundJobs) and the hooks around a call (ToolCalls).               *)
EXTENDS McpServers, ModelImages, BackgroundJobs, ToolCalls, FiniteSetTheorems, SequenceTheorems, TLAPS

-----------------------------------------------------------------------------
(***************************************************************************)
(* A theorem about McpServers, for any servers, clients, sessions and      *)
(* reloads: a session that runs has a client that a close will come to, or *)
(* one of those whose session nobody is left to close.                     *)
(***************************************************************************)

-----------------------------------------------------------------------------
(* The invariant.                                                          *)

Using == {"use", "initialize", "request", "answered", "failed"}

ThreadStates ==
  [at : Using \cup {"idle", "register", "found"}, why : {"none", "register", "refresh", "call"},
   server : Servers \cup {0}, client : Nat, todo : SUBSET (Servers \cup Registries)]

\* A thread that uses a client uses one that exists; a tool of a server that was found
\* comes with the registry that made it; the user interface has servers to register.
ThreadInv(t) ==
  /\ thread[t].at \in Using => thread[t].client \in Clients
  /\ thread[t].at = "found" =>
       thread[t].server \in Servers /\ \E r \in Registries : thread[t].todo = {r}
  /\ t = "ui" => thread[t].todo \subseteq Servers

ClientsInv ==
  /\ reg \in Registries /\ enabled \subseteq Servers
  /\ owner \in Seq(Registries)
  /\ clients \in [Registries -> [Servers -> Nat]]
  /\ \A r \in Registries, s \in Servers : clients[r][s] # 0 => clients[r][s] \in Clients

\* A session that runs is the one its client refers to.
OneReference ==
  /\ open \subseteq {session[c] : c \in Clients}
  /\ \A c, d \in Clients : session[c] # 0 /\ session[c] = session[d] => c = d

\* Sessions are numbered as they are opened, so a new one is nobody's.
SessionsInv ==
  /\ session \in Seq(Nat) /\ Len(session) = Len(owner) /\ opened \in Nat
  /\ \A c \in Clients : session[c] <= opened
  /\ 0 \notin open /\ OneReference

\* What the user interface is doing: its registry is not closed; the servers it still has to
\* register have no client in it, and the one it refreshes has the client in use.
UiInv ==
  /\ IF thread["ui"].at \in Using THEN thread["ui"].why \in {"register", "refresh"} ELSE thread["ui"].why = "none"
  /\ thread["ui"].at # "idle" => reg \notin shut
  /\ thread["ui"].at = "idle" \/ thread["ui"].why = "refresh" => thread["ui"].todo = {}
  /\ thread["ui"].why = "register" => thread["ui"].server \in thread["ui"].todo
  /\ thread["ui"].why = "refresh" =>
       thread["ui"].server \in Servers /\ clients[reg][thread["ui"].server] = thread["ui"].client
  /\ \A s \in thread["ui"].todo : clients[reg][s] = 0

\* The registries to come are neither closed nor filled.
RegistriesInv ==
  /\ shut \subseteq 1..reg
  /\ \A r \in Registries, s \in Servers : r > reg => clients[r][s] = 0

\* A client with a session is one that a close will come to, or stray.
HeldInv == \A c \in Clients : session[c] # 0 => Held(c) \/ Registering(c) \/ c \in stray

McpInv ==
  /\ thread \in [Threads -> ThreadStates] /\ \A t \in Threads : ThreadInv(t)
  /\ ClientsInv /\ SessionsInv

-----------------------------------------------------------------------------
(* The parts of a step.                                                    *)

\* The clients are numbered from 1.
LEMMA ClientNumbers ==
  ASSUME McpInv
  PROVE  Len(owner) \in Nat /\ Clients = 1..Len(owner) /\ DOMAIN session = Clients
  BY DEF McpInv, ClientsInv, SessionsInv, Clients

\* One thread goes on.
LEMMA OneGoes ==
  ASSUME thread \in [Threads -> ThreadStates], NEW t \in Threads, NEW state \in ThreadStates, Go(t, state)
  PROVE  /\ thread' \in [Threads -> ThreadStates] /\ thread'[t] = state
         /\ \A u \in Threads : u # t => thread'[u] = thread[u]
  BY DEF Go

\* Clients that are closed: their sessions end.
LEMMA Closed ==
  ASSUME McpInv, NEW cs \in SUBSET Clients, UNCHANGED <<owner, opened>>,
         open' = open \ {session[c] : c \in cs},
         session' = [c \in Clients |-> IF c \in cs THEN 0 ELSE session[c]]
  PROVE  SessionsInv'
<1>1. Len(owner) \in Nat /\ Clients = 1..Len(owner) /\ session \in [Clients -> Nat] /\ opened \in Nat
  BY ClientNumbers DEF McpInv, SessionsInv
<1>2. session' \in [1..Len(owner) -> Nat]
  BY <1>1
<1>3. session' \in Seq(Nat) /\ Len(session') = Len(owner)
  BY <1>1, <1>2, SeqDef, LenProperties
<1>4. Clients' = Clients /\ \A c \in Clients : session'[c] = IF c \in cs THEN 0 ELSE session[c]
  BY DEF Clients
<1>5. \A c \in Clients : session'[c] <= opened
  BY <1>1, <1>4 DEF McpInv, SessionsInv
<1>6. ASSUME NEW n \in open' PROVE \E c \in Clients : n = session'[c]
  <2>1. n \in open /\ n \notin {session[c] : c \in cs}
    BY <1>6
  <2>2. PICK c \in Clients : n = session[c]
    BY <2>1 DEF McpInv, SessionsInv, OneReference
  <2>3. c \notin cs
    BY <2>1, <2>2
  <2>. QED  BY <1>4, <2>2, <2>3
<1>7. \A c, d \in Clients : session'[c] # 0 /\ session'[c] = session'[d] => c = d
  BY <1>4 DEF McpInv, SessionsInv, OneReference
<1>8. OneReference'
  BY <1>4, <1>6, <1>7 DEF OneReference
<1>. QED  BY <1>1, <1>3, <1>4, <1>5, <1>8 DEF McpInv, SessionsInv

\* A client opens a session.
LEMMA Opened ==
  ASSUME McpInv, NEW c \in Clients, session[c] = 0, UNCHANGED owner,
         opened' = opened + 1, open' = open \cup {opened'}, session' = [session EXCEPT ![c] = opened']
  PROVE  SessionsInv'
<1>1. Len(owner) \in Nat /\ Clients = 1..Len(owner) /\ session \in [Clients -> Nat] /\ opened \in Nat
  BY ClientNumbers DEF McpInv, SessionsInv
<1>2. PICK n \in Nat : n = opened + 1 /\ opened' = n
  BY <1>1
<1>3. session' \in [1..Len(owner) -> Nat]
  BY <1>1, <1>2
<1>4. session' \in Seq(Nat) /\ Len(session') = Len(owner)
  BY <1>1, <1>3, SeqDef, LenProperties
<1>5. Clients' = Clients /\ \A d \in Clients : session'[d] = IF d = c THEN n ELSE session[d]
  BY <1>1, <1>2 DEF Clients
<1>6. \A d \in Clients : session[d] \in Nat /\ session[d] <= opened
  BY <1>1 DEF McpInv, SessionsInv
<1>7. \A d \in Clients : session'[d] <= n /\ (d # c => session'[d] # n)
  BY <1>1, <1>2, <1>5, <1>6
<1>8. open' = open \cup {n} /\ n # 0
  BY <1>1, <1>2
<1>9. ASSUME NEW m \in open' PROVE \E d \in Clients : m = session'[d]
  <2>1. CASE m = n
    BY <1>5, <2>1
  <2>2. CASE m \in open
    <3>1. PICK d \in Clients : m = session[d]
      BY <2>2 DEF McpInv, SessionsInv, OneReference
    <3>2. d # c
      BY <2>2, <3>1 DEF McpInv, SessionsInv
    <3>. QED  BY <1>5, <3>1, <3>2
  <2>. QED  BY <1>8, <2>1, <2>2
<1>10. \A a, b \in Clients : session'[a] # 0 /\ session'[a] = session'[b] => a = b
  BY <1>5, <1>7 DEF McpInv, SessionsInv, OneReference
<1>11. OneReference'
  BY <1>5, <1>9, <1>10 DEF OneReference
<1>. QED  BY <1>2, <1>4, <1>5, <1>7, <1>8, <1>11 DEF McpInv, SessionsInv

\* A client is created, without a session.
LEMMA ClientAdded ==
  ASSUME McpInv, NewClient, UNCHANGED <<open, opened>>
  PROVE  /\ SessionsInv' /\ owner' \in Seq(Registries)
         /\ Clients \subseteq Clients' /\ Len(owner) + 1 \in Clients' /\ Len(owner) + 1 \in Nat
<1>1. Len(owner) \in Nat /\ Clients = 1..Len(owner) /\ session \in Seq(Nat) /\ opened \in Nat
      /\ Len(session) = Len(owner) /\ owner \in Seq(Registries) /\ reg \in Registries
  BY ClientNumbers DEF McpInv, SessionsInv, ClientsInv
<1>2. owner' \in Seq(Registries) /\ Len(owner') = Len(owner) + 1
  BY <1>1, AppendProperties DEF NewClient
<1>3. session' \in Seq(Nat) /\ Len(session') = Len(owner) + 1 /\ session'[Len(owner) + 1] = 0
      /\ \A c \in 1..Len(owner) : session'[c] = session[c]
  BY <1>1, AppendProperties DEF NewClient
<1>4. Clients' = 1..Len(owner) + 1
  BY <1>1, <1>2 DEF Clients
<1>5. \A c \in Clients' : (c \in Clients /\ session'[c] = session[c]) \/ session'[c] = 0
  BY <1>1, <1>3, <1>4
<1>6. \A c \in Clients : c \in Clients' /\ session'[c] = session[c]
  BY <1>1, <1>3, <1>4
<1>7. \A c \in Clients' : session'[c] <= opened
  BY <1>1, <1>5 DEF McpInv, SessionsInv
<1>8. \A n \in open : \E c \in Clients' : n = session'[c]
  BY <1>6 DEF McpInv, SessionsInv, OneReference
<1>9. \A c, d \in Clients' : session'[c] # 0 /\ session'[c] = session'[d] => c = d
  BY <1>5 DEF McpInv, SessionsInv, OneReference
<1>10. OneReference'
  BY <1>8, <1>9 DEF OneReference
<1>11. SessionsInv'
  BY <1>1, <1>2, <1>3, <1>7, <1>10 DEF McpInv, SessionsInv
<1>. QED  BY <1>1, <1>2, <1>4, <1>6, <1>11

\* The client a registry has for a server is replaced.
LEMMA ClientStored ==
  ASSUME NEW f \in [Registries -> [Servers -> Nat]], NEW r \in Registries, NEW s, NEW c \in Nat, NEW g,
         g = [f EXCEPT ![r][s] = c]
  PROVE  /\ g \in [Registries -> [Servers -> Nat]]
         /\ \A q \in Registries, v \in Servers : g[q][v] = IF q = r /\ v = s THEN c ELSE f[q][v]
<1>1. f[r] \in [Servers -> Nat] /\ g = [f EXCEPT ![r] = [f[r] EXCEPT ![s] = c]]
  OBVIOUS
<1>2. PICK h : h = [f[r] EXCEPT ![s] = c]
  OBVIOUS
<1>3. h \in [Servers -> Nat] /\ \A v \in Servers : h[v] = IF v = s THEN c ELSE f[r][v]
  BY <1>1, <1>2
<1>4. g = [f EXCEPT ![r] = h]
  BY <1>1, <1>2
<1>. QED  BY <1>3, <1>4

\* The clients of the registry that are closed.
LEMMA ClosedClients ==
  ASSUME McpInv, NEW cs \in SUBSET Clients, CloseClients(cs), UNCHANGED <<owner, opened>>
  PROVE  SessionsInv'
  BY Closed DEF CloseClients

-----------------------------------------------------------------------------
(* Every step keeps the invariant.                                         *)

LEMMA InitMcp ==
  ASSUME MaxRegistries \in Nat \ {0}, McpInit
  PROVE  McpInv
<1>1. 1 \in Registries
  BY DEF Registries
<1>2. thread \in [Threads -> ThreadStates] /\ \A t \in Threads : ThreadInv(t)
  BY DEF McpInit, Threads, ThreadStates, ThreadInv, Using, NoWork
<1>3. ClientsInv
  BY <1>1, EmptySeq DEF McpInit, ClientsInv, Clients
<1>4. SessionsInv
  BY EmptySeq DEF McpInit, SessionsInv, OneReference, Clients
<1>. QED  BY <1>2, <1>3, <1>4 DEF McpInv

\* Where no client is created and no session opened or closed.
LEMMA OthersKept ==
  ASSUME McpInv, UNCHANGED <<owner, session, open, opened>>
  PROVE  SessionsInv' /\ Clients' = Clients
  BY DEF McpInv, SessionsInv, OneReference, Clients

LEMMA McpStep ==
  ASSUME MaxRegistries \in Nat \ {0}, McpInv, McpNext
  PROVE  McpInv'
<1>0. /\ thread \in [Threads -> ThreadStates] /\ \A t \in Threads : ThreadInv(t)
      /\ reg \in Registries /\ enabled \subseteq Servers /\ owner \in Seq(Registries)
      /\ clients \in [Registries -> [Servers -> Nat]]
      /\ \A r \in Registries, s \in Servers : clients[r][s] # 0 => clients[r][s] \in Clients
      /\ "ui" \in Threads /\ "turn" \in Threads
  BY DEF McpInv, ClientsInv, Threads
<1>1. \A t \in Threads : thread[t] \in ThreadStates /\ thread[t].client \in Nat
  BY <1>0 DEF ThreadStates
<1>13. \A t \in Threads : t = "ui" => thread[t].todo \subseteq Servers
  BY <1>0 DEF ThreadInv
<1>2. \A c \in Clients : c \in Nat
  BY ClientNumbers
\* What remains to be shown of a step in which one thread goes on.
<1>3. ASSUME NEW t \in Threads, NEW state \in ThreadStates, Go(t, state), Clients \subseteq Clients',
             state.at \in Using => state.client \in Clients',
             state.at = "found" => state.server \in Servers /\ \E r \in Registries : state.todo = {r},
             t = "ui" => state.todo \subseteq Servers,
             ClientsInv', SessionsInv'
      PROVE  McpInv'
  <2>1. thread' \in [Threads -> ThreadStates] /\ thread'[t] = state
        /\ \A u \in Threads : u # t => thread'[u] = thread[u]
    BY <1>0, <1>3, OneGoes
  <2>2. ASSUME NEW u \in Threads PROVE ThreadInv(u)'
    <3>1. CASE u = t
      BY <1>3, <2>1, <3>1 DEF ThreadInv
    <3>2. CASE u # t
      <4>1. thread'[u] = thread[u] /\ ThreadInv(u)
        BY <1>0, <2>1, <3>2
      <4>. QED  BY <1>3, <4>1 DEF ThreadInv
    <3>. QED  BY <3>1, <3>2
  <2>. QED  BY <1>3, <2>1, <2>2 DEF McpInv
<1>4. ASSUME UNCHANGED <<enabled, reg, clients>>, owner' \in Seq(Registries), Clients \subseteq Clients'
      PROVE  ClientsInv'
  BY <1>0, <1>4 DEF ClientsInv
<1>5. ASSUME NEW t \in Threads, OpenSession(t)
      PROVE  McpInv'
  <2>1. PICK c : c = thread[t].client
    OBVIOUS
  <2>2. thread[t].at = "use" /\ c \in Clients /\ UNCHANGED <<enabled, reg, clients, owner>>
    BY <1>0, <1>5, <2>1 DEF OpenSession, At, ThreadInv, Using
  <2>3. Clients' = Clients /\ ClientsInv'
    BY <1>0, <1>4, <2>2 DEF Clients
  <2>4. CASE MustOpen(c)
    <3>1. SessionsInv'
      BY <1>5, <2>1, <2>2, <2>4, Opened DEF OpenSession, MustOpen
    <3>2. [thread[t] EXCEPT !.at = "initialize"] \in ThreadStates
      BY <1>1 DEF ThreadStates, Using
    <3>3. Go(t, [thread[t] EXCEPT !.at = "initialize"])
      BY <1>5, <2>1, <2>4 DEF OpenSession
    <3>4. PICK state : state = [thread[t] EXCEPT !.at = "initialize"]
      OBVIOUS
    <3>5. state.at = "initialize" /\ state.client = c /\ state.todo = thread[t].todo /\ state \in ThreadStates /\ Go(t, state)
      BY <1>1, <2>1, <3>2, <3>3, <3>4 DEF ThreadStates
    <3>. QED  BY <1>3, <1>13, <2>2, <2>3, <3>1, <3>5 DEF Using
  <2>5. CASE ~MustOpen(c)
    <3>1. SessionsInv'
      BY <1>5, <2>1, <2>5, OthersKept DEF OpenSession
    <3>2. [thread[t] EXCEPT !.at = "request"] \in ThreadStates
      BY <1>1 DEF ThreadStates, Using
    <3>3. PICK state : state = [thread[t] EXCEPT !.at = "request"]
      OBVIOUS
    <3>4. Go(t, state)
      BY <1>5, <2>1, <2>5, <3>3 DEF OpenSession
    <3>5. state.at = "request" /\ state.client = c /\ state.todo = thread[t].todo /\ state \in ThreadStates
      BY <1>1, <2>1, <3>2, <3>3 DEF ThreadStates
    <3>. QED  BY <1>3, <1>13, <2>2, <2>3, <3>1, <3>4, <3>5 DEF Using
  <2>. QED  BY <2>4, <2>5
<1>6. ASSUME NEW t \in Threads, Initialized(t)
      PROVE  McpInv'
  <2>1. PICK c : c = thread[t].client
    OBVIOUS
  <2>2. thread[t].at = "initialize" /\ c \in Clients /\ UNCHANGED <<enabled, reg, clients, owner, opened>>
    BY <1>0, <1>6, <2>1 DEF Initialized, At, ThreadInv, Using
  <2>3. Clients' = Clients /\ ClientsInv'
    BY <1>0, <1>4, <2>2 DEF Clients
  <2>4. PICK at \in {"request", "failed"} :
          /\ Go(t, [thread[t] EXCEPT !.at = at])
          /\ \/ at = "request" /\ UNCHANGED <<open, session>>
             \/ /\ open' = open \ {session[c]}
                /\ session' = [session EXCEPT ![c] = 0]
    BY <1>6, <2>1 DEF Initialized
  <2>5. SessionsInv'
    <3>1. CASE UNCHANGED <<open, session>>
      BY <2>2, <3>1, OthersKept
    <3>2. CASE open' = open \ {session[c]} /\ session' = [session EXCEPT ![c] = 0]
      <4>1. DOMAIN session = Clients /\ {c} \in SUBSET Clients
        BY <2>2, ClientNumbers
      <4>2. session' = [d \in Clients |-> IF d \in {c} THEN 0 ELSE session[d]]
        <5>1. session = [d \in Clients |-> session[d]]
          BY <4>1 DEF McpInv, SessionsInv
        <5>. QED  BY <3>2, <5>1
      <4>3. open' = open \ {session[d] : d \in {c}}
        BY <3>2
      <4>. QED  BY <2>2, <4>1, <4>2, <4>3, Closed
    <3>. QED  BY <2>4, <3>1, <3>2
  <2>6. PICK state : state = [thread[t] EXCEPT !.at = at]
    OBVIOUS
  <2>7. state \in ThreadStates /\ state.at = at /\ state.client = c /\ state.todo = thread[t].todo
    BY <1>1, <2>1, <2>6 DEF ThreadStates, Using
  <2>. QED  BY <1>3, <1>13, <2>2, <2>3, <2>4, <2>5, <2>6, <2>7 DEF Using
<1>7. ASSUME NEW t \in Threads, Request(t)
      PROVE  McpInv'
  <2>1. thread[t].at = "request" /\ UNCHANGED <<enabled, reg, clients, owner, session, open, opened>>
        /\ thread[t].client \in Clients
    BY <1>0, <1>7 DEF Request, At, ThreadInv, Using
  <2>2. Clients' = Clients /\ ClientsInv' /\ SessionsInv'
    BY <1>0, <1>4, <2>1, OthersKept
  <2>3. PICK at \in {"answered", "failed"} : Go(t, [thread[t] EXCEPT !.at = at])
    BY <1>7 DEF Request
  <2>4. PICK state : state = [thread[t] EXCEPT !.at = at]
    OBVIOUS
  <2>5. state \in ThreadStates /\ state.at = at /\ state.client = thread[t].client /\ state.todo = thread[t].todo
    BY <1>1, <2>4 DEF ThreadStates, Using
  <2>6. Go(t, state) /\ state.at # "found" /\ state.client \in Clients'
        /\ (t = "ui" => state.todo \subseteq Servers)
    BY <1>13, <2>1, <2>2, <2>3, <2>4, <2>5
  <2>. QED  BY <1>3, <2>2, <2>5, <2>6
\* A state of a thread that begins to use a client.
<1>8. ASSUME NEW t \in Threads, NEW why \in {"register", "refresh", "call"}, NEW s \in Servers, NEW c \in Nat,
             Use(t, why, s, c)
      PROVE  \E state \in ThreadStates : Go(t, state) /\ state.at = "use" /\ state.client = c
                                      /\ state.todo = thread[t].todo
  <2>1. PICK state : state = [thread[t] EXCEPT !.at = "use", !.why = why, !.server = s, !.client = c]
    OBVIOUS
  <2>2. state \in ThreadStates /\ state.at = "use" /\ state.client = c /\ state.todo = thread[t].todo
    BY <1>1, <2>1 DEF ThreadStates, Using
  <2>. QED  BY <1>8, <2>1, <2>2 DEF Use
\* A state of a thread that uses no client.
<1>9. ASSUME NEW at \in {"idle", "register"}, NEW todo \in SUBSET Servers
      PROVE  [NoWork EXCEPT !.at = at, !.todo = todo] \in ThreadStates
             /\ [NoWork EXCEPT !.at = at, !.todo = todo].at = at
             /\ [NoWork EXCEPT !.at = at, !.todo = todo].todo = todo
  BY DEF NoWork, ThreadStates
<1>10. NoWork \in ThreadStates /\ NoWork.at = "idle" /\ NoWork.todo \subseteq Servers
  BY DEF NoWork, ThreadStates
<1>11. "idle" \notin Using /\ "register" \notin Using /\ "found" \notin Using /\ "use" # "found"
  BY DEF Using
<1>12. CASE RegisterNext
  <2>1. CASE thread["ui"].todo = {} /\ Go("ui", NoWork) /\ UNCHANGED <<owner, session>>
    <3>1. UNCHANGED <<enabled, reg, clients, owner, session, open, opened>>
      BY <1>12, <2>1 DEF RegisterNext
    <3>2. Clients' = Clients /\ ClientsInv' /\ SessionsInv'
      BY <1>0, <1>4, <3>1, OthersKept
    <3>. QED  BY <1>0, <1>3, <1>10, <1>11, <2>1, <3>2
  <2>2. ASSUME NEW s \in thread["ui"].todo, Use("ui", "register", s, Len(owner) + 1), NewClient
        PROVE  McpInv'
    <3>1. UNCHANGED <<enabled, reg, clients, open, opened>>
      BY <1>12 DEF RegisterNext
    <3>2. SessionsInv' /\ Clients \subseteq Clients' /\ Len(owner) + 1 \in Clients' /\ Len(owner) + 1 \in Nat
          /\ owner' \in Seq(Registries)
      BY <2>2, <3>1, ClientAdded
    <3>3. ClientsInv'
      BY <1>4, <3>1, <3>2
    <3>4. PICK state \in ThreadStates : Go("ui", state) /\ state.at = "use" /\ state.client = Len(owner) + 1
                                         /\ state.todo = thread["ui"].todo
      <4>1. s \in Servers
        BY <1>0, <1>13
      <4>. QED  BY <1>0, <1>8, <2>2, <3>2, <4>1
    <3>. QED  BY <1>0, <1>3, <1>11, <1>13, <3>2, <3>3, <3>4
  <2>. QED  BY <1>12, <2>1, <2>2 DEF RegisterNext
<1>14. CASE Registered
  <2>1. PICK c, s : c = thread["ui"].client /\ s = thread["ui"].server
    OBVIOUS
  <2>2. c \in Clients /\ c \in Nat /\ UNCHANGED <<enabled, reg, owner, session, open, opened>>
    BY <1>0, <1>1, <1>14, <2>1 DEF Registered, ThreadInv, Using
  <2>3. SessionsInv' /\ Clients' = Clients
    BY <2>2, OthersKept
  <2>4. ClientsInv'
    <3>1. CASE UNCHANGED clients
      BY <1>0, <1>4, <2>2, <2>3, <3>1
    <3>2. CASE clients' = [clients EXCEPT ![reg][s] = c]
      <4>1. PICK g : g = clients' /\ g = [clients EXCEPT ![reg][s] = c]
        BY <3>2
      <4>2. /\ g \in [Registries -> [Servers -> Nat]]
            /\ \A q \in Registries, v \in Servers : g[q][v] = IF q = reg /\ v = s THEN c ELSE clients[q][v]
        <5>1. clients \in [Registries -> [Servers -> Nat]] /\ reg \in Registries /\ c \in Nat
          BY <1>0, <2>2
        <5>2. g = [clients EXCEPT ![reg][s] = c]
          BY <4>1
        <5>3. g \in [Registries -> [Servers -> Nat]]
          BY ONLY <5>1, <5>2, ClientStored
        <5>4. \A q \in Registries, v \in Servers : g[q][v] = IF q = reg /\ v = s THEN c ELSE clients[q][v]
          BY ONLY <5>1, <5>2, ClientStored
        <5>. QED  BY <5>3, <5>4
      <4>3. ASSUME NEW r \in Registries, NEW v \in Servers, clients'[r][v] # 0 PROVE clients'[r][v] \in Clients'
        BY <1>0, <2>2, <2>3, <4>1, <4>2, <4>3
      <4>. QED  BY <1>0, <2>2, <2>3, <4>1, <4>2, <4>3 DEF ClientsInv
    <3>. QED  BY <1>14, <2>1, <3>1, <3>2 DEF Registered, Mine
  <2>5. PICK todo : todo = thread["ui"].todo \ {s} /\ Go("ui", [NoWork EXCEPT !.at = "register", !.todo = todo])
    BY <1>14, <2>1 DEF Registered
  <2>6. todo \subseteq Servers
    BY <1>13, <2>5, <1>0
  <2>7. PICK state : state = [NoWork EXCEPT !.at = "register", !.todo = todo]
    OBVIOUS
  <2>8. state \in ThreadStates /\ state.at = "register" /\ state.todo = todo /\ Go("ui", state)
    BY <1>9, <2>5, <2>6, <2>7
  <2>. QED  BY <1>0, <1>3, <1>11, <2>3, <2>4, <2>6, <2>8
<1>15. ASSUME NEW s \in Servers, Refresh(s)
       PROVE  McpInv'
  <2>1. PICK c : c = clients[reg][s]
    OBVIOUS
  <2>2. UNCHANGED <<reg, open, opened>> /\ enabled' \subseteq Servers
    BY <1>0, <1>15 DEF Refresh
  <2>3. CASE c # 0
    <3>1. Use("ui", "refresh", s, c) /\ UNCHANGED <<clients, owner, session>>
      BY <1>15, <2>1, <2>3 DEF Refresh
    <3>2. c \in Clients /\ c \in Nat
      BY <1>0, <1>2, <2>1, <2>3
    <3>3. SessionsInv' /\ Clients' = Clients
      BY <2>2, <3>1, OthersKept
    <3>4. ClientsInv'
      BY <1>0, <2>2, <3>1, <3>3 DEF ClientsInv
    <3>5. PICK state \in ThreadStates : Go("ui", state) /\ state.at = "use" /\ state.client = c
                                         /\ state.todo = thread["ui"].todo
      BY <1>0, <1>8, <3>1, <3>2
    <3>. QED  BY <1>0, <1>3, <1>11, <1>13, <3>2, <3>3, <3>4, <3>5
  <2>4. CASE c = 0
    <3>1. PICK n : n = Len(owner) + 1
      OBVIOUS
    <3>2. Use("ui", "refresh", s, n) /\ NewClient /\ clients' = [clients EXCEPT ![reg][s] = n]
      BY <1>15, <2>1, <2>4, <3>1 DEF Refresh
    <3>3. SessionsInv' /\ Clients \subseteq Clients' /\ n \in Clients' /\ n \in Nat /\ owner' \in Seq(Registries)
      BY <2>2, <3>1, <3>2, ClientAdded
    <3>4. /\ clients' \in [Registries -> [Servers -> Nat]]
          /\ \A r \in Registries, v \in Servers : clients'[r][v] = clients[r][v] \/ clients'[r][v] = n
      BY <1>0, <3>2, <3>3, ClientStored
    <3>5. ClientsInv'
      BY <1>0, <2>2, <3>3, <3>4 DEF ClientsInv
    <3>6. PICK state \in ThreadStates : Go("ui", state) /\ state.at = "use" /\ state.client = n
                                         /\ state.todo = thread["ui"].todo
      BY <1>0, <1>8, <3>2, <3>3
    <3>. QED  BY <1>0, <1>3, <1>11, <1>13, <3>3, <3>5, <3>6
  <2>. QED  BY <2>3, <2>4
<1>16. CASE Refreshed
  <2>1. UNCHANGED <<enabled, reg, clients, owner, session, open, opened>> /\ Go("ui", NoWork)
    BY <1>16 DEF Refreshed
  <2>2. Clients' = Clients /\ ClientsInv' /\ SessionsInv'
    BY <1>0, <1>4, <2>1, OthersKept
  <2>. QED  BY <1>0, <1>3, <1>10, <1>11, <2>1, <2>2
\* What remains to be shown of a step of no thread.
<1>17. ASSUME UNCHANGED <<thread, owner>>, ClientsInv', SessionsInv'
       PROVE  McpInv'
  BY <1>0, <1>17 DEF McpInv, ThreadInv, Clients
<1>18. ASSUME NEW s \in Servers, Disable(s)
       PROVE  McpInv'
  <2>1. PICK cs : cs = {clients[reg][s]} \ {0}
    OBVIOUS
  <2>2. cs \in SUBSET Clients
    BY <1>0, <2>1
  <2>3. CloseClients(cs) /\ UNCHANGED <<reg, owner, opened, thread>> /\ enabled' \subseteq Servers
        /\ clients' = [clients EXCEPT ![reg][s] = 0]
    BY <1>0, <1>18, <2>1 DEF Disable
  <2>4. SessionsInv'
    BY <2>2, <2>3, ClosedClients
  <2>5. /\ clients' \in [Registries -> [Servers -> Nat]]
        /\ \A r \in Registries, v \in Servers : clients'[r][v] = clients[r][v] \/ clients'[r][v] = 0
    BY <1>0, <2>3, ClientStored
  <2>6. ClientsInv'
    BY <1>0, <2>3, <2>5 DEF ClientsInv, Clients
  <2>. QED  BY <1>17, <2>3, <2>4, <2>6
<1>19. ASSUME CloseRegistry, UNCHANGED <<owner, opened>>
       PROVE  SessionsInv'
  <2>1. PICK cs : cs = {clients[reg][s] : s \in Servers} \ {0}
    OBVIOUS
  <2>2. cs \in SUBSET Clients
    BY <1>0, <2>1
  <2>3. CloseClients(cs)
    BY <1>19, <2>1 DEF CloseRegistry
  <2>. QED  BY <1>19, <2>2, <2>3, ClosedClients
<1>20. CASE Reload
  <2>1. UNCHANGED <<clients, owner, opened>> /\ reg' = reg + 1 /\ reg < MaxRegistries /\ enabled' \subseteq Servers
        /\ Go("ui", [NoWork EXCEPT !.at = "register", !.todo = enabled'])
    BY <1>20 DEF Reload
  <2>2. SessionsInv' /\ Clients' = Clients
    BY <1>19, <1>20, <2>1 DEF Reload, Clients
  <2>3. reg' \in Registries
    BY <1>0, <2>1 DEF Registries
  <2>4. ClientsInv'
    BY <1>0, <2>1, <2>2, <2>3 DEF ClientsInv
  <2>5. PICK todo \in SUBSET Servers : todo = enabled'
    BY <2>1
  <2>6. Go("ui", [NoWork EXCEPT !.at = "register", !.todo = todo])
    BY <2>1, <2>5
  <2>. QED  BY <1>0, <1>3, <1>9, <1>11, <2>2, <2>4, <2>6, ZenonT(30)
<1>21. CASE Close
  <2>1. UNCHANGED <<enabled, reg, clients, owner, opened, thread>> /\ CloseRegistry
    BY <1>21 DEF Close
  <2>2. SessionsInv' /\ Clients' = Clients
    BY <1>19, <2>1 DEF Clients
  <2>3. ClientsInv'
    BY <1>0, <2>1, <2>2 DEF ClientsInv
  <2>. QED  BY <1>17, <2>1, <2>2, <2>3
<1>22. ASSUME NEW s \in Servers, FindTool(s)
       PROVE  McpInv'
  <2>1. UNCHANGED <<enabled, reg, clients, owner, session, open, opened>>
    BY <1>22 DEF FindTool
  <2>2. Clients' = Clients /\ ClientsInv' /\ SessionsInv'
    BY <1>0, <1>4, <2>1, OthersKept
  <2>3. PICK state : state = [NoWork EXCEPT !.at = "found", !.server = s, !.todo = {reg}]
    OBVIOUS
  <2>4. state \in ThreadStates /\ state.at = "found" /\ state.server = s /\ state.todo = {reg}
    BY <1>0, <2>3 DEF NoWork, ThreadStates
  <2>5. Go("turn", state)
    BY <1>22, <2>3 DEF FindTool
  <2>. QED  BY <1>0, <1>3, <1>11, <2>2, <2>4, <2>5
<1>23. CASE Handler
  <2>1. UNCHANGED <<enabled, reg, clients, owner, session, open, opened>>
    BY <1>23 DEF Handler
  <2>2. Clients' = Clients /\ ClientsInv' /\ SessionsInv'
    BY <1>0, <1>4, <2>1, OthersKept
  <2>3. thread["turn"].at = "found"
    BY <1>23 DEF Handler, At
  <2>4. PICK r \in Registries, s \in Servers : thread["turn"].todo = {r} /\ thread["turn"].server = s
    BY <1>0, <2>3 DEF ThreadInv
  <2>5. r = CHOOSE q \in thread["turn"].todo : TRUE
    BY <2>4
  <2>6. PICK c : c = clients[r][s]
    OBVIOUS
  <2>7. IF c = 0 THEN Go("turn", NoWork) ELSE Use("turn", "call", s, c)
    BY <1>23, <2>4, <2>5, <2>6 DEF Handler
  <2>8. CASE c = 0
    BY <1>0, <1>3, <1>10, <1>11, <2>2, <2>7, <2>8
  <2>9. CASE c # 0
    <3>1. c \in Clients /\ c \in Nat
      BY <1>0, <1>2, <2>6, <2>9
    <3>2. PICK state \in ThreadStates : Go("turn", state) /\ state.at = "use" /\ state.client = c
      BY <1>0, <1>8, <2>7, <2>9, <3>1
    <3>. QED  BY <1>0, <1>3, <1>11, <2>2, <3>1, <3>2
  <2>. QED  BY <2>8, <2>9
<1>24. CASE Called
  <2>1. UNCHANGED <<enabled, reg, clients, owner, session, open, opened>> /\ Go("turn", NoWork)
    BY <1>24 DEF Called
  <2>2. Clients' = Clients /\ ClientsInv' /\ SessionsInv'
    BY <1>0, <1>4, <2>1, OthersKept
  <2>. QED  BY <1>0, <1>3, <1>10, <1>11, <2>1, <2>2
<1>. QED
  BY <1>5, <1>6, <1>7, <1>12, <1>14, <1>15, <1>16, <1>18, <1>20, <1>21, <1>22, <1>23, <1>24 DEF McpNext

-----------------------------------------------------------------------------
(* Every step keeps what is known of the registries.                       *)

KnownInv == McpInv /\ UiInv /\ RegistriesInv /\ HeldInv

\* The thread of the turn goes on and no client is closed: what is held stays so.
LEMMA TurnGoes ==
  ASSUME KnownInv, thread'["ui"] = thread["ui"], UNCHANGED <<reg, clients, shut, owner, stray>>,
         \A c \in Clients : session'[c] \in {0, session[c]}
  PROVE  UiInv' /\ RegistriesInv' /\ HeldInv'
<1>1. UiInv' /\ RegistriesInv'
  BY DEF KnownInv, UiInv, RegistriesInv
<1>2. ASSUME NEW c \in Clients', session'[c] # 0
      PROVE  Held(c)' \/ Registering(c)' \/ c \in stray'
  <2>1. c \in Clients /\ session[c] # 0
    BY <1>2 DEF Clients
  <2>2. Held(c) \/ Registering(c) \/ c \in stray
    BY <2>1 DEF KnownInv, HeldInv
  <2>. QED  BY <2>2 DEF Held, Registering
<1>. QED  BY <1>1, <1>2 DEF HeldInv

\* What is held stays held when the client of one server is replaced that was none, or that is
\* not asked about.
LEMMA StillHeld ==
  ASSUME ClientsInv, NEW c \in Nat, Held(c), NEW r \in Registries, NEW s, NEW n \in Nat,
         clients' = [clients EXCEPT ![r][s] = n], clients[r][s] # c, shut' = shut
  PROVE  Held(c)'
<1>1. PICK q \in Registries \ shut, v \in Servers : clients[q][v] = c
  BY DEF Held
<1>2. clients'[q][v] = IF q = r /\ v = s THEN n ELSE clients[q][v]
  BY ClientStored DEF ClientsInv
<1>. QED  BY <1>1, <1>2 DEF Held

LEMMA InitKnown ==
  ASSUME MaxRegistries \in Nat \ {0}, McpInit
  PROVE  KnownInv
<1>1. McpInv
  BY InitMcp
<1>2. thread["ui"].at = "register" /\ thread["ui"].why = "none" /\ thread["ui"].todo \subseteq Servers
  BY DEF McpInit, NoWork, Threads
<1>3. 1 \in Registries /\ reg = 1 /\ shut = {} /\ clients = [r \in Registries |-> [s \in Servers |-> 0]]
  BY DEF McpInit, Registries
<1>4. UiInv
  BY <1>2, <1>3 DEF UiInv, Using
<1>5. RegistriesInv /\ HeldInv
  BY <1>3 DEF McpInit, RegistriesInv, HeldInv, Clients
<1>. QED  BY <1>1, <1>4, <1>5 DEF KnownInv

LEMMA KnownStep ==
  ASSUME MaxRegistries \in Nat \ {0}, KnownInv, McpNext
  PROVE  KnownInv'
<1>0. McpInv /\ McpInv' /\ UiInv /\ RegistriesInv /\ HeldInv
  BY McpStep DEF KnownInv
<1>1. /\ thread \in [Threads -> ThreadStates] /\ \A t \in Threads : ThreadInv(t)
      /\ reg \in Registries /\ clients \in [Registries -> [Servers -> Nat]]
      /\ ClientsInv /\ "ui" \in Threads /\ "turn" \in Threads /\ session \in Seq(Nat)
  BY <1>0 DEF McpInv, ClientsInv, SessionsInv, Threads
<1>2. Len(owner) \in Nat /\ Clients = 1..Len(owner) /\ DOMAIN session = Clients /\ 0 \notin Clients
      /\ \A c \in Clients : c \in Nat
  BY <1>0, ClientNumbers
<1>3. SUFFICES UiInv' /\ RegistriesInv' /\ HeldInv'
  BY <1>0 DEF KnownInv
\* One thread goes on.
<1>4. ASSUME NEW t \in Threads, NEW state, Go(t, state)
      PROVE  thread'[t] = state /\ \A u \in Threads : u # t => thread'[u] = thread[u]
  BY <1>1, <1>4 DEF Go
\* A thread goes on with its client.
<1>5. ASSUME NEW t \in Threads, NEW at \in {"initialize", "request", "answered", "failed"},
             thread[t].at \in Using, Go(t, [thread[t] EXCEPT !.at = at])
      PROVE  /\ thread'["ui"].why = thread["ui"].why /\ thread'["ui"].client = thread["ui"].client
             /\ (UNCHANGED <<reg, clients, shut>> => UiInv')
  <2>1. CASE t = "turn"
    <3>1. thread'["ui"] = thread["ui"]
      BY <1>1, <1>4, <1>5, <2>1
    <3>. QED  BY <1>0, <3>1 DEF UiInv
  <2>2. CASE t = "ui"
    <3>1. thread'["ui"] = [thread["ui"] EXCEPT !.at = at] /\ thread["ui"] \in ThreadStates
      BY <1>1, <1>4, <1>5, <2>2
    <3>2. /\ thread'["ui"].at = at /\ thread'["ui"].why = thread["ui"].why
          /\ thread'["ui"].client = thread["ui"].client
          /\ thread'["ui"].server = thread["ui"].server /\ thread'["ui"].todo = thread["ui"].todo
      BY <3>1 DEF ThreadStates
    <3>3. thread["ui"].at # "idle" /\ at \in Using /\ at # "idle" /\ thread["ui"].at \in Using
      BY <1>5, <2>2 DEF Using
    <3>4. ASSUME UNCHANGED <<reg, clients, shut>> PROVE UiInv'
      BY <1>0, <3>2, <3>3, <3>4 DEF UiInv
    <3>. QED  BY <3>2, <3>4
  <2>. QED  BY <2>1, <2>2 DEF Threads
\* What was held stays so, where neither the registries nor the registration change.
<1>6. ASSUME NEW c \in Clients, session[c] # 0, UNCHANGED <<clients, shut>>, stray \subseteq stray',
             thread'["ui"].why = thread["ui"].why, thread'["ui"].client = thread["ui"].client
      PROVE  Held(c)' \/ Registering(c)' \/ c \in stray'
  <2>1. Held(c) \/ Registering(c) \/ c \in stray
    BY <1>0, <1>6 DEF HeldInv
  <2>. QED  BY <1>6, <2>1 DEF Held, Registering
<1>7. ASSUME NEW t \in Threads, OpenSession(t)
      PROVE  UiInv' /\ RegistriesInv' /\ HeldInv'
  <2>1. PICK n : n = thread[t].client
    OBVIOUS
  <2>2. thread[t].at = "use" /\ thread[t].at \in Using /\ n \in Clients
        /\ UNCHANGED <<reg, clients, shut, owner>> /\ stray \subseteq stray'
    BY <1>1, <1>7, <2>1 DEF OpenSession, At, ThreadInv, Using
  <2>3. PICK at \in {"initialize", "request"} : Go(t, [thread[t] EXCEPT !.at = at])
    BY <1>7 DEF OpenSession
  <2>4. UiInv' /\ thread'["ui"].why = thread["ui"].why /\ thread'["ui"].client = thread["ui"].client
    BY <1>5, <2>2, <2>3
  <2>5. RegistriesInv'
    BY <1>0, <2>2 DEF RegistriesInv
  <2>6. ASSUME NEW c \in Clients', session'[c] # 0
        PROVE  Held(c)' \/ Registering(c)' \/ c \in stray'
    <3>1. c \in Clients
      BY <2>2, <2>6 DEF Clients
    <3>2. CASE session[c] # 0
      BY <1>6, <2>2, <2>4, <3>1, <3>2
    <3>3. CASE session[c] = 0
      <4>1. c = n /\ (t = "turn" /\ ~Held(n) => n \in stray')
        <5>1. MustOpen(n)
          BY <1>7, <2>1, <2>6, <3>3 DEF OpenSession
        <5>2. session' = [session EXCEPT ![n] = opened'] /\ (t = "turn" /\ ~Held(n) => n \in stray')
          BY <1>7, <2>1, <5>1 DEF OpenSession
        <5>3. c # n => session'[c] = session[c]
          BY <1>1, <1>2, <3>1, <5>2
        <5>. QED  BY <2>6, <3>3, <5>2, <5>3
      <4>2. Held(n) => Held(n)'
        BY <2>2 DEF Held
      <4>3. CASE t = "turn"
        BY <4>1, <4>2, <4>3
      <4>4. CASE t = "ui"
        <5>1. thread["ui"].why = "register" \/ thread["ui"].why = "refresh"
          BY <1>0, <2>2, <4>4 DEF UiInv
        <5>2. CASE thread["ui"].why = "register"
          BY <2>1, <2>4, <4>1, <4>4, <5>2 DEF Registering
        <5>3. CASE thread["ui"].why = "refresh"
          <6>1. thread["ui"].at # "idle"
            BY <2>2, <4>4
          <6>2. reg \in Registries \ shut /\ thread["ui"].server \in Servers
                /\ clients[reg][thread["ui"].server] = n
            BY <1>0, <1>1, <2>1, <4>4, <5>3, <6>1 DEF UiInv
          <6>. QED  BY <4>1, <4>2, <6>2 DEF Held
        <5>. QED  BY <5>1, <5>2, <5>3
      <4>. QED  BY <4>3, <4>4 DEF Threads
    <3>. QED  BY <3>2, <3>3
  <2>. QED  BY <2>4, <2>5, <2>6 DEF HeldInv
<1>8. ASSUME NEW t \in Threads, Initialized(t) \/ Request(t)
      PROVE  UiInv' /\ RegistriesInv' /\ HeldInv'
  <2>1. thread[t].at \in Using /\ UNCHANGED <<reg, clients, shut, owner, stray>>
    BY <1>8 DEF Initialized, Request, At, Using
  <2>2. PICK at \in {"request", "answered", "failed"} : Go(t, [thread[t] EXCEPT !.at = at])
    BY <1>8 DEF Initialized, Request
  <2>3. UiInv' /\ thread'["ui"].why = thread["ui"].why /\ thread'["ui"].client = thread["ui"].client
    BY <1>5, <2>1, <2>2
  <2>4. \A c \in Clients : session'[c] \in {0, session[c]}
    BY <1>1, <1>2, <1>8 DEF Initialized, Request
  <2>5. ASSUME NEW c \in Clients', session'[c] # 0
        PROVE  Held(c)' \/ Registering(c)' \/ c \in stray'
    <3>1. c \in Clients /\ session[c] # 0
      BY <2>1, <2>4, <2>5 DEF Clients
    <3>. QED  BY <1>6, <2>1, <2>3, <3>1
  <2>6. RegistriesInv'
    BY <1>0, <2>1 DEF RegistriesInv
  <2>. QED  BY <2>3, <2>5, <2>6 DEF HeldInv
\* A client with a session is not being registered while the user interface uses none.
<1>9. ASSUME thread["ui"].at \notin Using, NEW c \in Clients, session[c] # 0
      PROVE  Held(c) \/ c \in stray
  <2>1. thread["ui"].why = "none"
    BY <1>0, <1>9 DEF UiInv
  <2>. QED  BY <1>0, <1>9, <2>1 DEF HeldInv, Registering
<1>10. ASSUME NewClient, NEW c \in Clients', session'[c] # 0
       PROVE  c \in Clients /\ session[c] # 0
  <2>1. Len(session) = Len(owner) /\ owner \in Seq(Registries) /\ reg \in Registries
    BY <1>0 DEF McpInv, SessionsInv, ClientsInv
  <2>2. Len(owner') = Len(owner) + 1 /\ owner' \in Seq(Registries)
    BY <1>10, <2>1, AppendProperties DEF NewClient
  <2>3. Clients' = 1..Len(owner) + 1
    BY <2>2 DEF Clients
  <2>4. session'[Len(owner) + 1] = 0 /\ \A d \in 1..Len(owner) : session'[d] = session[d]
    BY <1>1, <1>2, <1>10, <2>1, AppendProperties DEF NewClient
  <2>. QED  BY <1>2, <1>10, <2>3, <2>4
<1>11. ASSUME NEW why, NEW s, NEW n, Use("ui", why, s, n)
       PROVE  /\ thread'["ui"].at = "use" /\ thread'["ui"].why = why /\ thread'["ui"].server = s
              /\ thread'["ui"].client = n /\ thread'["ui"].todo = thread["ui"].todo
  <2>1. thread'["ui"] = [thread["ui"] EXCEPT !.at = "use", !.why = why, !.server = s, !.client = n]
    BY <1>1, <1>4, <1>11 DEF Use
  <2>. QED  BY <1>1, <2>1 DEF ThreadStates
<1>12. "use" \in Using /\ "use" # "idle" /\ "idle" \notin Using /\ "register" \notin Using
  BY DEF Using
<1>13. NoWork.at = "idle" /\ NoWork.why = "none" /\ NoWork.todo = {}
       /\ \A todo : /\ [NoWork EXCEPT !.at = "register", !.todo = todo].at = "register"
                    /\ [NoWork EXCEPT !.at = "register", !.todo = todo].why = "none"
                    /\ [NoWork EXCEPT !.at = "register", !.todo = todo].todo = todo
  BY DEF NoWork
<1>14. CASE RegisterNext
  <2>1. thread["ui"].at = "register" /\ UNCHANGED <<reg, clients, shut, stray>>
    BY <1>14 DEF RegisterNext, At
  <2>2. reg \notin shut /\ \A s \in thread["ui"].todo : clients[reg][s] = 0
    BY <1>0, <2>1 DEF UiInv
  <2>3. RegistriesInv'
    BY <1>0, <2>1 DEF RegistriesInv
  <2>4. UiInv'
    <3>1. CASE Go("ui", NoWork)
      <4>1. thread'["ui"] = NoWork
        BY <1>1, <1>4, <3>1
      <4>. QED  BY <1>12, <1>13, <4>1 DEF UiInv
    <3>2. ASSUME NEW s \in thread["ui"].todo, Use("ui", "register", s, Len(owner) + 1)
          PROVE  UiInv'
      BY <1>11, <1>12, <2>1, <2>2, <3>2 DEF UiInv
    <3>. QED  BY <1>14, <3>1, <3>2 DEF RegisterNext
  <2>5. ASSUME NEW c \in Clients', session'[c] # 0
        PROVE  Held(c)' \/ Registering(c)' \/ c \in stray'
    <3>1. c \in Clients /\ session[c] # 0
      BY <1>10, <1>14, <2>5 DEF RegisterNext, Clients
    <3>2. Held(c) \/ c \in stray
      BY <1>9, <1>12, <2>1, <3>1
    <3>. QED  BY <2>1, <3>2 DEF Held
  <2>. QED  BY <2>3, <2>4, <2>5 DEF HeldInv
<1>15. CASE Registered
  <2>1. PICK s, n, todo : s = thread["ui"].server /\ n = thread["ui"].client /\ todo = thread["ui"].todo \ {s}
    OBVIOUS
  <2>2. /\ thread["ui"].why = "register" /\ thread["ui"].at \in Using /\ thread["ui"].at # "idle"
        /\ UNCHANGED <<reg, shut, owner, session>> /\ stray \subseteq stray'
    BY <1>15 DEF Registered, Using
  <2>3. s \in thread["ui"].todo /\ s \in Servers /\ clients[reg][s] = 0 /\ reg \in Registries \ shut
        /\ n \in Clients /\ n \in Nat
    BY <1>0, <1>1, <1>2, <2>1, <2>2 DEF UiInv, ThreadInv
  <2>4. thread'["ui"].at = "register" /\ thread'["ui"].why = "none" /\ thread'["ui"].todo = todo
    <3>1. thread'["ui"] = [NoWork EXCEPT !.at = "register", !.todo = todo]
      BY <1>1, <1>4, <1>15, <2>1 DEF Registered
    <3>. QED  BY <1>13, <3>1
  <2>5. PICK stored \in BOOLEAN : IF stored THEN clients' = [clients EXCEPT ![reg][s] = n]
                                  ELSE clients' = clients /\ (session[n] # 0 => n \in stray')
    BY <1>15, <2>1 DEF Registered, Mine
  <2>6. \A q \in Registries, v \in Servers :
          clients'[q][v] = IF stored /\ q = reg /\ v = s THEN n ELSE clients[q][v]
    <3>1. CASE stored
      BY <1>1, <2>3, <2>5, <3>1, ClientStored
    <3>. QED  BY <2>5, <3>1
  <2>7. UiInv'
    <3>1. \A v \in todo : v \in Servers /\ v # s /\ clients[reg][v] = 0
      BY <1>0, <1>1, <2>1 DEF UiInv, ThreadInv
    <3>2. \A v \in todo : clients'[reg'][v] = 0
      BY <2>2, <2>3, <2>6, <3>1
    <3>. QED  BY <1>12, <2>2, <2>3, <2>4, <3>2 DEF UiInv
  <2>8. RegistriesInv'
    <3>1. ASSUME NEW r \in Registries, NEW v \in Servers, r > reg PROVE clients'[r][v] = 0
      <4>1. r # reg /\ clients[r][v] = 0
        BY <1>0, <2>3, <3>1 DEF RegistriesInv, Registries
      <4>. QED  BY <2>6, <4>1
    <3>. QED  BY <1>0, <2>2, <3>1 DEF RegistriesInv
  <2>9. ASSUME NEW c \in Clients', session'[c] # 0
        PROVE  Held(c)' \/ Registering(c)' \/ c \in stray'
    <3>1. c \in Clients /\ session[c] # 0 /\ c # 0
      BY <1>2, <2>2, <2>9 DEF Clients
    <3>2. CASE Registering(c)
      <4>1. c = n
        BY <2>1, <3>2 DEF Registering
      <4>2. CASE stored
        <5>1. clients'[reg][s] = n /\ reg \in Registries \ shut' /\ s \in Servers
          BY <2>2, <2>3, <2>6, <4>2
        <5>. QED  BY <4>1, <5>1 DEF Held
      <4>. QED  BY <2>5, <3>1, <4>1, <4>2
    <3>3. CASE Held(c)
      <4>1. PICK r \in Registries \ shut, v \in Servers : clients[r][v] = c
        BY <3>3 DEF Held
      <4>2. clients'[r][v] = c
        BY <2>3, <2>6, <3>1, <4>1
      <4>. QED  BY <2>2, <4>1, <4>2 DEF Held
    <3>4. CASE c \in stray
      BY <2>2, <3>4
    <3>. QED  BY <1>0, <3>1, <3>2, <3>3, <3>4 DEF HeldInv
  <2>. QED  BY <2>7, <2>8, <2>9 DEF HeldInv
<1>16. ASSUME NEW s \in Servers, Refresh(s)
       PROVE  UiInv' /\ RegistriesInv' /\ HeldInv'
  <2>1. thread["ui"].at = "idle" /\ reg \notin shut /\ UNCHANGED <<reg, shut, stray>>
    BY <1>16 DEF Refresh, At
  <2>2. thread["ui"].todo = {} /\ thread["ui"].at \notin Using
    BY <1>0, <1>12, <2>1 DEF UiInv
  <2>3. PICK n : /\ Use("ui", "refresh", s, n)
                 /\ IF clients[reg][s] # 0 THEN n = clients[reg][s] /\ UNCHANGED <<clients, owner, session>>
                    ELSE n = Len(owner) + 1 /\ NewClient /\ clients' = [clients EXCEPT ![reg][s] = n]
    BY <1>16 DEF Refresh
  <2>4. n \in Nat
    BY <1>1, <1>2, <2>3
  <2>5. \A q \in Registries, v \in Servers : clients'[q][v] = IF q = reg /\ v = s THEN n ELSE clients[q][v]
    <3>1. CASE clients[reg][s] # 0
      BY <2>3, <3>1
    <3>2. CASE clients[reg][s] = 0
      BY <1>1, <2>3, <2>4, <3>2, ClientStored
    <3>. QED  BY <3>1, <3>2
  <2>6. UiInv'
    <3>1. clients'[reg'][s] = n
      BY <1>1, <2>1, <2>5
    <3>. QED  BY <1>11, <1>12, <2>1, <2>2, <2>3, <3>1 DEF UiInv
  <2>7. RegistriesInv'
    <3>1. ASSUME NEW r \in Registries, NEW v \in Servers, r > reg PROVE clients'[r][v] = 0
      <4>1. r # reg /\ clients[r][v] = 0
        BY <1>0, <1>1, <3>1 DEF RegistriesInv, Registries
      <4>. QED  BY <2>5, <4>1
    <3>. QED  BY <1>0, <2>1, <3>1 DEF RegistriesInv
  <2>8. ASSUME NEW c \in Clients', session'[c] # 0
        PROVE  Held(c)' \/ Registering(c)' \/ c \in stray'
    <3>1. c \in Clients /\ session[c] # 0 /\ c # 0
      <4>1. CASE clients[reg][s] # 0
        BY <1>2, <2>3, <2>8, <4>1 DEF Clients
      <4>2. CASE clients[reg][s] = 0
        BY <1>2, <1>10, <2>3, <2>8, <4>2
      <4>. QED  BY <4>1, <4>2
    <3>2. CASE Held(c)
      <4>1. PICK r \in Registries \ shut, v \in Servers : clients[r][v] = c
        BY <3>2 DEF Held
      <4>2. clients'[r][v] = c
        BY <2>3, <2>5, <3>1, <4>1
      <4>. QED  BY <2>1, <4>1, <4>2 DEF Held
    <3>. QED  BY <1>9, <2>1, <2>2, <3>1, <3>2
  <2>. QED  BY <2>6, <2>7, <2>8 DEF HeldInv
<1>17. CASE Refreshed
  <2>1. thread["ui"].why = "refresh" /\ UNCHANGED <<reg, clients, shut, owner, session, stray>> /\ Go("ui", NoWork)
    BY <1>17 DEF Refreshed
  <2>2. thread'["ui"] = NoWork
    BY <1>1, <1>4, <2>1
  <2>3. UiInv' /\ RegistriesInv'
    BY <1>0, <1>12, <1>13, <2>1, <2>2 DEF UiInv, RegistriesInv
  <2>4. ASSUME NEW c \in Clients', session'[c] # 0
        PROVE  Held(c)' \/ Registering(c)' \/ c \in stray'
    <3>1. Held(c) \/ c \in stray
      BY <1>0, <2>1, <2>4 DEF HeldInv, Registering, Clients
    <3>. QED  BY <2>1, <3>1 DEF Held
  <2>. QED  BY <2>3, <2>4 DEF HeldInv
\* A client that has a session when others were closed had it before, and is none of those.
<1>18. ASSUME NEW cs, CloseClients(cs), UNCHANGED owner, NEW c \in Clients', session'[c] # 0
       PROVE  c \in Clients /\ session[c] # 0 /\ c \notin cs
  BY <1>18 DEF CloseClients, Clients
<1>19. ASSUME NEW s \in Servers, Disable(s)
       PROVE  UiInv' /\ RegistriesInv' /\ HeldInv'
  <2>1. /\ thread["ui"].at = "idle" /\ UNCHANGED <<reg, shut, owner, thread, stray>>
        /\ CloseClients({clients[reg][s]} \ {0}) /\ clients' = [clients EXCEPT ![reg][s] = 0]
    BY <1>19 DEF Disable, At
  <2>2. thread["ui"].todo = {} /\ thread["ui"].at \notin Using /\ thread["ui"].why = "none"
    BY <1>0, <1>12, <2>1 DEF UiInv
  <2>3. UiInv'
    BY <1>12, <2>1, <2>2 DEF UiInv
  <2>4. RegistriesInv'
    <3>1. \A q \in Registries, v \in Servers : clients'[q][v] = IF q = reg /\ v = s THEN 0 ELSE clients[q][v]
      BY <1>1, <2>1, ClientStored
    <3>. QED  BY <1>0, <2>1, <3>1 DEF RegistriesInv
  <2>5. ASSUME NEW c \in Clients', session'[c] # 0
        PROVE  Held(c)' \/ Registering(c)' \/ c \in stray'
    <3>1. c \in Clients /\ session[c] # 0 /\ c \notin {clients[reg][s]} \ {0}
      BY <1>18, <2>1, <2>5
    <3>2. c \in Nat /\ clients[reg][s] # c
      BY <1>2, <3>1
    <3>3. Held(c) => Held(c)'
      BY <1>1, <2>1, <3>2, StillHeld
    <3>. QED  BY <1>9, <2>1, <2>2, <3>1, <3>3
  <2>. QED  BY <2>3, <2>4, <2>5 DEF HeldInv
\* A registry is closed.
<1>20. ASSUME thread["ui"].at = "idle", CloseRegistry, UNCHANGED <<clients, owner, stray>>
       PROVE  HeldInv'
  <2>1. CloseClients({clients[reg][s] : s \in Servers} \ {0}) /\ shut' = shut \cup {reg}
    BY <1>20 DEF CloseRegistry
  <2>2. ASSUME NEW c \in Clients', session'[c] # 0
        PROVE  Held(c)' \/ Registering(c)' \/ c \in stray'
    <3>1. c \in Clients /\ session[c] # 0 /\ c \notin {clients[reg][s] : s \in Servers} \ {0}
      BY <1>18, <1>20, <2>1, <2>2
    <3>2. CASE Held(c)
      <4>1. PICK r \in Registries \ shut, v \in Servers : clients[r][v] = c
        BY <3>2 DEF Held
      <4>2. r # reg
        BY <1>2, <3>1, <4>1
      <4>. QED  BY <1>20, <2>1, <4>1, <4>2 DEF Held
    <3>. QED  BY <1>9, <1>12, <1>20, <3>1, <3>2
  <2>. QED  BY <2>2 DEF HeldInv
<1>21. CASE Reload
  <2>1. /\ thread["ui"].at = "idle" /\ CloseRegistry /\ UNCHANGED <<clients, owner, stray>>
        /\ reg' = reg + 1 /\ reg < MaxRegistries /\ enabled' \subseteq Servers
        /\ Go("ui", [NoWork EXCEPT !.at = "register", !.todo = enabled'])
    BY <1>21 DEF Reload, At
  <2>2. HeldInv'
    BY <1>20, <2>1
  <2>3. PICK todo \in SUBSET Servers : todo = enabled'
    BY <2>1
  <2>4. thread'["ui"] = [NoWork EXCEPT !.at = "register", !.todo = todo]
    BY <1>1, <1>4, <2>1, <2>3
  <2>5. thread'["ui"].at = "register" /\ thread'["ui"].why = "none" /\ thread'["ui"].todo = todo
    BY <1>13, <2>4
  <2>6. reg \in Nat /\ reg + 1 \in Registries /\ shut' = shut \cup {reg}
    BY <1>1, <2>1 DEF Registries, CloseRegistry
  <2>7. reg' \notin shut' /\ shut' \subseteq 1..reg'
    BY <1>0, <1>1, <2>1, <2>6 DEF RegistriesInv, Registries
  <2>8. \A s \in Servers : clients'[reg'][s] = 0
    BY <1>0, <2>1, <2>6 DEF RegistriesInv
  <2>9. UiInv'
    BY <1>12, <2>5, <2>7, <2>8 DEF UiInv
  <2>10. RegistriesInv'
    <3>1. ASSUME NEW r \in Registries, NEW s \in Servers, r > reg' PROVE clients'[r][s] = 0
      <4>1. r > reg
        BY <2>1, <2>6, <3>1 DEF Registries
      <4>. QED  BY <1>0, <2>1, <4>1 DEF RegistriesInv
    <3>. QED  BY <2>7, <3>1 DEF RegistriesInv
  <2>. QED  BY <2>2, <2>9, <2>10
<1>22. CASE Close
  <2>1. thread["ui"].at = "idle" /\ CloseRegistry /\ UNCHANGED <<reg, clients, owner, thread, stray>>
    BY <1>22 DEF Close, At
  <2>2. HeldInv'
    BY <1>20, <2>1
  <2>3. UiInv'
    BY <1>0, <1>12, <2>1 DEF UiInv
  <2>4. RegistriesInv'
    BY <1>0, <1>1, <2>1 DEF RegistriesInv, Registries, CloseRegistry
  <2>. QED  BY <2>2, <2>3, <2>4
<1>23. ASSUME (\E s \in Servers : FindTool(s)) \/ Handler \/ Called
       PROVE  UiInv' /\ RegistriesInv' /\ HeldInv'
  <2>1. UNCHANGED <<reg, clients, shut, owner, session, stray>> /\ \E state : Go("turn", state)
    BY <1>23 DEF FindTool, Handler, Called, Use
  <2>2. thread'["ui"] = thread["ui"]
    BY <1>1, <1>4, <2>1
  <2>. QED  BY <2>1, <2>2, TurnGoes
<1>. QED
  BY <1>7, <1>8, <1>14, <1>15, <1>16, <1>17, <1>19, <1>21, <1>22, <1>23 DEF McpNext

\* A session that runs is the one its client refers to, and a close of that client is still to
\* come (MCPClient, MCPRegistry): two threads that use a client first, or one that uses it while
\* another closes it, leave no server process behind.  The exceptions are the clients that stray
\* tells of: one of a registry that a turn's call goes on using when it has been closed or taken
\* out, and one whose registration failed with its session open.
THEOREM Known ==
  ASSUME MaxRegistries \in Nat \ {0}
  PROVE  McpSpec => []SessionsKnown
<1>1. KnownInv /\ UNCHANGED mcpVars => KnownInv'
  BY DEF mcpVars, KnownInv, McpInv, ThreadInv, ClientsInv, SessionsInv, OneReference, Clients,
         UiInv, RegistriesInv, HeldInv, Held, Registering
<1>2. KnownInv => SessionsKnown
  <2>1. ASSUME KnownInv, NEW n \in open
        PROVE  \E c \in Clients : session[c] = n /\ (Held(c) \/ Registering(c) \/ c \in stray)
    <3>1. PICK c \in Clients : session[c] = n
      BY <2>1 DEF KnownInv, McpInv, SessionsInv, OneReference
    <3>2. n # 0
      BY <2>1 DEF KnownInv, McpInv, SessionsInv
    <3>. QED  BY <2>1, <3>1, <3>2 DEF KnownInv, HeldInv
  <2>. QED  BY <2>1 DEF SessionsKnown, KnownInv, McpInv, SessionsInv, OneReference
<1>. QED  BY <1>1, <1>2, InitKnown, KnownStep, PTL DEF McpSpec

-----------------------------------------------------------------------------
(***************************************************************************)
(* A theorem about ModelImages, for any number of prompts, rounds, notices *)
(* and images: the data of an image is sent once, that of a result with    *)
(* the next call.                                                          *)
(***************************************************************************)

-----------------------------------------------------------------------------
(* The invariant.                                                          *)

MessageRecords ==
  [kind : {"prompt", "note", "results", "reply"}, images : SUBSET Nat,
   form : {"none", "input_image", "image_url", "reference"}]

\* An image of arr that has come since the last of the calls in snt.
Fresh(n, arr, snt) == arr[n] = Len(snt)

\* Data is only in messages that have come since the last call, which took all of it; a
\* round of results with a new image is the latest one.
History(msgs, arr, snt) ==
  /\ msgs \in Seq(MessageRecords) /\ arr \in Seq(Nat) /\ snt \in Seq(SUBSET Nat)
  /\ \A n \in DOMAIN arr : arr[n] <= Len(snt)
  /\ \A i \in DOMAIN msgs : \A n \in msgs[i].images :
       n \in DOMAIN arr /\ (HasData(msgs[i]) => Fresh(n, arr, snt))
  /\ \A c \in DOMAIN snt : \A n \in snt[c] : n \in DOMAIN arr /\ c = arr[n] + 1
  /\ \A i \in DOMAIN msgs : msgs[i].kind = "results" => \A n \in msgs[i].images :
       /\ Fresh(n, arr, snt) => HasData(msgs[i]) /\ \A j \in DOMAIN msgs : msgs[j].kind = "results" => j <= i
       /\ ~Fresh(n, arr, snt) => n \in snt[arr[n] + 1]

NothingFresh(arr, snt) == \A n \in DOMAIN arr : ~Fresh(n, arr, snt)

ImagesInv == History(messages, arrived, sent) /\ (phase = "call" => NothingFresh(arrived, sent))

-----------------------------------------------------------------------------
(* Messages that are added.                                                *)

LEMMA MessageTyped ==
  ASSUME NEW kind \in {"prompt", "note", "results", "reply"}, NEW images \in SUBSET Nat,
         NEW form \in {"none", "input_image", "image_url"}
  PROVE  /\ Message(kind, images, form) \in MessageRecords
         /\ Message(kind, images, form).kind = kind /\ Message(kind, images, form).images = images
         /\ images # {} /\ form # "none" => HasData(Message(kind, images, form))
  BY DEF Message, MessageRecords, HasData

\* A message without images.
LEMMA PlainAdded ==
  ASSUME NEW msgs, NEW arr, NEW snt, History(msgs, arr, snt), NEW m \in MessageRecords, m.images = {},
         m.kind = "results" => NothingFresh(arr, snt)
  PROVE  History(Append(msgs, m), arr, snt)
<1>1. msgs \in Seq(MessageRecords) /\ arr \in Seq(Nat) /\ snt \in Seq(SUBSET Nat) /\ Len(msgs) \in Nat
  BY DEF History
<1>2. PICK r : r = Append(msgs, m)
  OBVIOUS
<1>3. /\ r \in Seq(MessageRecords) /\ DOMAIN r = 1..Len(msgs) + 1 /\ DOMAIN msgs = 1..Len(msgs)
      /\ r[Len(msgs) + 1] = m /\ \A k \in 1..Len(msgs) : r[k] = msgs[k]
  BY <1>1, <1>2, AppendProperties
<1>4. \A i \in DOMAIN r : (i \in DOMAIN msgs /\ r[i] = msgs[i]) \/ (r[i] = m /\ i = Len(msgs) + 1)
  BY <1>1, <1>3
<1>5. ASSUME NEW i \in DOMAIN r, NEW n \in r[i].images
      PROVE  i \in DOMAIN msgs /\ r[i] = msgs[i] /\ n \in DOMAIN arr /\ (HasData(r[i]) => Fresh(n, arr, snt))
  BY <1>4, <1>5 DEF History
<1>6. ASSUME NEW i \in DOMAIN r, r[i].kind = "results", NEW n \in r[i].images
      PROVE  /\ Fresh(n, arr, snt) => HasData(r[i]) /\ \A j \in DOMAIN r : r[j].kind = "results" => j <= i
             /\ ~Fresh(n, arr, snt) => n \in snt[arr[n] + 1]
  <2>1. i \in DOMAIN msgs /\ r[i] = msgs[i] /\ n \in DOMAIN arr
    BY <1>5, <1>6
  <2>2. /\ Fresh(n, arr, snt) => HasData(r[i]) /\ \A j \in DOMAIN msgs : msgs[j].kind = "results" => j <= i
        /\ ~Fresh(n, arr, snt) => n \in snt[arr[n] + 1]
    BY <1>6, <2>1 DEF History
  <2>3. Fresh(n, arr, snt) => m.kind # "results"
    BY <2>1 DEF NothingFresh
  <2>4. ASSUME Fresh(n, arr, snt), NEW j \in DOMAIN r, r[j].kind = "results" PROVE j <= i
    BY <1>4, <2>2, <2>3, <2>4
  <2>. QED  BY <2>2, <2>4
<1>7. History(r, arr, snt)
  BY <1>1, <1>3, <1>5, <1>6 DEF History
<1>. QED  BY <1>2, <1>7

\* A message with a new image.
LEMMA ImageAdded ==
  ASSUME NEW msgs, NEW arr, NEW snt, History(msgs, arr, snt), NEW m \in MessageRecords,
         m.images = {Len(arr) + 1}, HasData(m), m.kind = "results" => NothingFresh(arr, snt)
  PROVE  History(Append(msgs, m), Append(arr, Len(snt)), snt)
<1>1. /\ msgs \in Seq(MessageRecords) /\ arr \in Seq(Nat) /\ snt \in Seq(SUBSET Nat)
      /\ Len(msgs) \in Nat /\ Len(arr) \in Nat /\ Len(snt) \in Nat
      /\ \A n \in DOMAIN arr : arr[n] <= Len(snt)
  BY DEF History
<1>2. PICK r, a, new : r = Append(msgs, m) /\ a = Append(arr, Len(snt)) /\ new = Len(arr) + 1
  OBVIOUS
<1>3. /\ r \in Seq(MessageRecords) /\ DOMAIN r = 1..Len(msgs) + 1 /\ DOMAIN msgs = 1..Len(msgs)
      /\ r[Len(msgs) + 1] = m /\ \A k \in 1..Len(msgs) : r[k] = msgs[k]
  BY <1>1, <1>2, AppendProperties
<1>4. /\ a \in Seq(Nat) /\ DOMAIN a = 1..new /\ DOMAIN arr = 1..Len(arr)
      /\ a[new] = Len(snt) /\ \A n \in 1..Len(arr) : a[n] = arr[n]
  BY <1>1, <1>2, AppendProperties
<1>5. /\ \A i \in DOMAIN r : (i \in DOMAIN msgs /\ r[i] = msgs[i]) \/ (r[i] = m /\ i = Len(msgs) + 1)
      /\ \A n \in DOMAIN a : n = new \/ (n \in DOMAIN arr /\ a[n] = arr[n])
      /\ \A n \in DOMAIN arr : n \in DOMAIN a /\ a[n] = arr[n]
      /\ new \in DOMAIN a /\ m.images = {new} /\ new \notin DOMAIN arr
  BY <1>1, <1>2, <1>3, <1>4
<1>6. /\ \A n \in DOMAIN arr : Fresh(n, a, snt) <=> Fresh(n, arr, snt)
      /\ Fresh(new, a, snt)
  BY <1>4, <1>5 DEF Fresh
<1>7. ASSUME NEW n \in DOMAIN a PROVE a[n] <= Len(snt)
  <2>1. CASE n = new
    BY <1>1, <1>4, <2>1
  <2>2. CASE n \in DOMAIN arr /\ a[n] = arr[n]
    BY <1>1, <2>2
  <2>. QED  BY <1>5, <2>1, <2>2
<1>8. ASSUME NEW i \in DOMAIN r, NEW n \in r[i].images
      PROVE  n \in DOMAIN a /\ (HasData(r[i]) => Fresh(n, a, snt))
  <2>1. CASE i \in DOMAIN msgs /\ r[i] = msgs[i]
    <3>1. n \in DOMAIN arr /\ (HasData(r[i]) => Fresh(n, arr, snt))
      BY <1>8, <2>1 DEF History
    <3>. QED  BY <1>5, <1>6, <3>1
  <2>2. CASE r[i] = m
    BY <1>5, <1>6, <1>8, <2>2
  <2>. QED  BY <1>5, <2>1, <2>2
<1>9. ASSUME NEW c \in DOMAIN snt, NEW n \in snt[c] PROVE n \in DOMAIN a /\ c = a[n] + 1
  <2>1. n \in DOMAIN arr /\ c = arr[n] + 1
    BY <1>9 DEF History
  <2>. QED  BY <1>5, <2>1
<1>10. ASSUME NEW i \in DOMAIN r, r[i].kind = "results", NEW n \in r[i].images
       PROVE  /\ Fresh(n, a, snt) => HasData(r[i]) /\ \A j \in DOMAIN r : r[j].kind = "results" => j <= i
              /\ ~Fresh(n, a, snt) => n \in snt[a[n] + 1]
  <2>1. CASE i \in DOMAIN msgs /\ r[i] = msgs[i]
    <3>1. n \in DOMAIN arr
      BY <1>10, <2>1 DEF History
    <3>2. /\ Fresh(n, arr, snt) => HasData(r[i]) /\ \A j \in DOMAIN msgs : msgs[j].kind = "results" => j <= i
          /\ ~Fresh(n, arr, snt) => n \in snt[arr[n] + 1]
      BY <1>10, <2>1 DEF History
    <3>3. Fresh(n, arr, snt) => m.kind # "results"
      BY <3>1 DEF NothingFresh
    <3>4. ASSUME Fresh(n, arr, snt), NEW j \in DOMAIN r, r[j].kind = "results" PROVE j <= i
      BY <1>5, <3>2, <3>3, <3>4
    <3>. QED  BY <1>5, <1>6, <3>1, <3>2, <3>4
  <2>2. CASE r[i] = m /\ i = Len(msgs) + 1
    <3>1. n = new /\ \A j \in DOMAIN r : j <= i
      BY <1>1, <1>3, <1>5, <1>10, <2>2
    <3>. QED  BY <1>6, <2>2, <3>1
  <2>. QED  BY <1>5, <2>1, <2>2
<1>11. History(r, a, snt)
  BY <1>1, <1>3, <1>4, <1>7, <1>8, <1>9, <1>10 DEF History
<1>. QED  BY <1>2, <1>11

-----------------------------------------------------------------------------
(* A call.                                                                 *)

LEMMA LargestNumber ==
  ASSUME NEW S \in SUBSET Nat, NEW m \in S, \A x \in S : x <= m
  PROVE  Max(S) = m
<1>1. \A x \in S : (\A y \in S : x >= y) => x = m
  BY SMT
<1>2. \A y \in S : m >= y
  BY SMT
<1>. QED  BY <1>1, <1>2 DEF Max

\* The latest round of results keeps its images in the payload, and only new data is sent.
LEMMA PayloadParts ==
  ASSUME NEW msgs \in Seq(MessageRecords)
  PROVE  /\ \A n \in ImageParts(Payload(msgs)) : \E i \in DOMAIN msgs : HasData(msgs[i]) /\ n \in msgs[i].images
         /\ \A i \in DOMAIN msgs :
              /\ msgs[i].kind = "results" /\ HasData(msgs[i])
              /\ \A j \in DOMAIN msgs : msgs[j].kind = "results" => j <= i
              => msgs[i].images \subseteq ImageParts(Payload(msgs))
<1>1. DOMAIN msgs = 1..Len(msgs) /\ Len(msgs) \in Nat /\ \A i \in DOMAIN msgs : msgs[i] \in MessageRecords
  OBVIOUS
<1>2. PICK p : p = WithoutStalePrompts(msgs)
  OBVIOUS
<1>3. PICK q : q = WithoutStaleResults(p)
  OBVIOUS
<1>4. /\ DOMAIN p = DOMAIN msgs
      /\ \A i \in DOMAIN msgs : p[i] = msgs[i] \/ (msgs[i].kind = "prompt" /\ p[i] = Reference(msgs[i]))
  BY <1>2 DEF WithoutStalePrompts
<1>5. /\ DOMAIN q = DOMAIN msgs
      /\ \A i \in DOMAIN msgs : q[i] = p[i] \/ q[i] = Reference(p[i])
      /\ \A i \in DOMAIN msgs : i = Latest(p, {"results"}) => q[i] = p[i]
  BY <1>3, <1>4 DEF WithoutStaleResults
<1>6. \A m \in MessageRecords : /\ Reference(m) \in MessageRecords /\ Reference(m).kind = m.kind
                                /\ Reference(m).images = m.images /\ ~HasData(Reference(m))
  BY DEF Reference, HasData, MessageRecords
<1>7. \A i \in DOMAIN msgs : /\ p[i] \in MessageRecords /\ p[i].kind = msgs[i].kind /\ p[i].images = msgs[i].images
                             /\ (HasData(p[i]) => HasData(msgs[i]))
                             /\ (msgs[i].kind = "results" => p[i] = msgs[i])
  BY <1>1, <1>4, <1>6
<1>8. \A i \in DOMAIN msgs : q[i].images = msgs[i].images /\ (HasData(q[i]) => HasData(msgs[i]))
  BY <1>5, <1>6, <1>7
<1>9. ImageParts(q) = UNION {q[i].images : i \in {j \in DOMAIN msgs : HasData(q[j])}}
  BY <1>5 DEF ImageParts
<1>10. \A n \in ImageParts(q) : \E i \in DOMAIN msgs : HasData(msgs[i]) /\ n \in msgs[i].images
  BY <1>8, <1>9
<1>11. ASSUME NEW i \in DOMAIN msgs, msgs[i].kind = "results", HasData(msgs[i]),
              \A j \in DOMAIN msgs : msgs[j].kind = "results" => j <= i
       PROVE  msgs[i].images \subseteq ImageParts(q)
  <2>1. PICK is : is = {j \in DOMAIN p : p[j].kind \in {"results"}}
    OBVIOUS
  <2>2. i \in is /\ is \in SUBSET Nat /\ \A j \in is : j <= i
    BY <1>1, <1>4, <1>7, <1>11, <2>1
  <2>3. Max(is) = i
    BY <2>2, LargestNumber
  <2>4. Latest(p, {"results"}) = i
    BY <2>1, <2>2, <2>3 DEF Latest
  <2>5. q[i] = msgs[i]
    BY <1>5, <1>7, <1>11, <2>4
  <2>. QED  BY <1>9, <1>11, <2>5
<1>12. Payload(msgs) = q
  BY <1>2, <1>3 DEF Payload
<1>. QED  BY <1>10, <1>11, <1>12

\* A call sends the new images of results, and then no data is left in the history.
LEMMA CallMade ==
  ASSUME NEW msgs, NEW arr, NEW snt, History(msgs, arr, snt), NEW parts,
         \A n \in parts : \E i \in DOMAIN msgs : HasData(msgs[i]) /\ n \in msgs[i].images,
         \A i \in DOMAIN msgs :
           /\ msgs[i].kind = "results" /\ HasData(msgs[i])
           /\ \A j \in DOMAIN msgs : msgs[j].kind = "results" => j <= i
           => msgs[i].images \subseteq parts
  PROVE  History(Consumed(msgs), arr, Append(snt, parts)) /\ NothingFresh(arr, Append(snt, parts))
<1>1. /\ msgs \in Seq(MessageRecords) /\ arr \in Seq(Nat) /\ snt \in Seq(SUBSET Nat) /\ Len(snt) \in Nat
      /\ DOMAIN msgs = 1..Len(msgs) /\ Len(msgs) \in Nat
      /\ \A i \in DOMAIN msgs : msgs[i] \in MessageRecords
      /\ \A n \in DOMAIN arr : arr[n] <= Len(snt) /\ arr[n] \in Nat
  BY DEF History
<1>2. PICK r, s, c : r = Consumed(msgs) /\ s = Append(snt, parts) /\ c = Len(snt) + 1
  OBVIOUS
<1>3. \A m \in MessageRecords : /\ Reference(m) \in MessageRecords /\ Reference(m).kind = m.kind
                                /\ Reference(m).images = m.images /\ ~HasData(Reference(m))
  BY DEF Reference, HasData, MessageRecords
<1>4. r = [i \in 1..Len(msgs) |-> Reference(msgs[i])]
  BY <1>1, <1>2 DEF Consumed
<1>5. \A i \in DOMAIN msgs : Reference(msgs[i]) \in MessageRecords
  BY <1>1, <1>3
<1>6. r \in Seq(MessageRecords) /\ DOMAIN r = DOMAIN msgs
      /\ \A i \in DOMAIN msgs : r[i].kind = msgs[i].kind /\ r[i].images = msgs[i].images /\ ~HasData(r[i])
  <2>1. r \in [1..Len(msgs) -> MessageRecords]
    BY <1>1, <1>4, <1>5
  <2>. QED  BY <1>1, <1>3, <1>4, <2>1, SeqDef
<1>7. ASSUME NEW n \in parts PROVE n \in DOMAIN arr /\ Fresh(n, arr, snt) /\ n \in Nat
  <2>1. PICK i \in DOMAIN msgs : HasData(msgs[i]) /\ n \in msgs[i].images
    OBVIOUS
  <2>2. n \in DOMAIN arr /\ Fresh(n, arr, snt)
    BY <2>1 DEF History
  <2>3. msgs[i].images \in SUBSET Nat
    BY <1>1 DEF MessageRecords
  <2>. QED  BY <2>1, <2>2, <2>3
<1>8. parts \in SUBSET Nat
  BY <1>7
<1>9. /\ s \in Seq(SUBSET Nat) /\ Len(s) = c /\ DOMAIN s = 1..c /\ DOMAIN snt = 1..Len(snt)
      /\ s[c] = parts /\ \A d \in 1..Len(snt) : s[d] = snt[d]
  BY <1>1, <1>2, <1>8, AppendProperties
<1>10. \A n \in DOMAIN arr : arr[n] <= c /\ arr[n] # c
  BY <1>1, <1>2
<1>11. NothingFresh(arr, s)
  BY <1>9, <1>10 DEF NothingFresh, Fresh
<1>12. ASSUME NEW d \in DOMAIN s, NEW n \in s[d] PROVE n \in DOMAIN arr /\ d = arr[n] + 1
  <2>1. CASE d = c
    BY <1>2, <1>7, <1>9, <1>12, <2>1 DEF Fresh
  <2>2. CASE d # c
    <3>1. d \in DOMAIN snt /\ s[d] = snt[d]
      BY <1>1, <1>2, <1>9, <2>2
    <3>. QED  BY <1>12, <3>1 DEF History
  <2>. QED  BY <2>1, <2>2
<1>13. ASSUME NEW i \in DOMAIN r, r[i].kind = "results", NEW n \in r[i].images
       PROVE  n \in s[arr[n] + 1]
  <2>1. i \in DOMAIN msgs /\ msgs[i].kind = "results" /\ n \in msgs[i].images
    BY <1>6, <1>13
  <2>2. /\ Fresh(n, arr, snt) => HasData(msgs[i]) /\ \A j \in DOMAIN msgs : msgs[j].kind = "results" => j <= i
        /\ ~Fresh(n, arr, snt) => n \in snt[arr[n] + 1]
        /\ n \in DOMAIN arr
    BY <2>1 DEF History
  <2>3. CASE Fresh(n, arr, snt)
    <3>1. n \in parts
      BY <2>1, <2>2, <2>3
    <3>. QED  BY <1>2, <1>9, <2>3, <3>1 DEF Fresh
  <2>4. CASE ~Fresh(n, arr, snt)
    <3>1. arr[n] + 1 \in 1..Len(snt)
      BY <1>1, <2>2, <2>4 DEF Fresh
    <3>. QED  BY <1>9, <2>2, <2>4, <3>1
  <2>. QED  BY <2>3, <2>4
<1>14. \A i \in DOMAIN r : \A n \in r[i].images : n \in DOMAIN arr /\ ~HasData(r[i])
  BY <1>6 DEF History
<1>15. \A i \in DOMAIN r : \A n \in r[i].images : ~Fresh(n, arr, s)
  BY <1>11, <1>14 DEF NothingFresh
<1>16. History(r, arr, s)
  BY <1>1, <1>6, <1>9, <1>10, <1>12, <1>13, <1>14, <1>15 DEF History
<1>. QED  BY <1>2, <1>11, <1>16

-----------------------------------------------------------------------------
(* Every step keeps the invariant.                                         *)

LEMMA InitImages == ImagesInit => ImagesInv
  BY EmptySeq DEF ImagesInit, ImagesInv, History

\* A prompt of the user.
LEMMA PromptKept ==
  ASSUME History(messages, arrived, sent), Prompt, UNCHANGED sent
  PROVE  History(messages', arrived', sent')
<1>1. CASE messages' = Append(messages, Message("prompt", {}, "none")) /\ UNCHANGED arrived
  <2>1. PICK m : m = Message("prompt", {}, "none")
    OBVIOUS
  <2>2. m \in MessageRecords /\ m.kind = "prompt" /\ m.images = {}
    BY <2>1, MessageTyped
  <2>. QED  BY <1>1, <2>1, <2>2, PlainAdded
<1>2. CASE messages' = Append(messages, Message("prompt", {NextImage}, "input_image")) /\ Arrives
  <2>1. PICK m : m = Message("prompt", {NextImage}, "input_image")
    OBVIOUS
  <2>2. {NextImage} \in SUBSET Nat /\ {NextImage} # {}
    BY DEF NextImage, History
  <2>3. m \in MessageRecords /\ m.kind = "prompt" /\ m.images = {Len(arrived) + 1} /\ HasData(m)
    BY <2>1, <2>2, MessageTyped DEF NextImage
  <2>. QED  BY <1>2, <2>1, <2>3, ImageAdded DEF Arrives
<1>. QED  BY <1>1, <1>2 DEF Prompt

\* A message without images that is not a round of results.
LEMMA NoteKept ==
  ASSUME History(messages, arrived, sent), NEW kind \in {"note", "reply"},
         messages' = Append(messages, Message(kind, {}, "none")), UNCHANGED <<arrived, sent>>
  PROVE  History(messages', arrived', sent')
<1>1. PICK m : m = Message(kind, {}, "none")
  OBVIOUS
<1>2. m \in MessageRecords /\ m.kind = kind /\ m.images = {}
  BY <1>1, MessageTyped
<1>. QED  BY <1>1, <1>2, PlainAdded

LEMMA TwoAdded ==
  ASSUME NEW s \in Seq(MessageRecords), NEW a \in MessageRecords, NEW b \in MessageRecords
  PROVE  s \o <<a, b>> = Append(Append(s, a), b) /\ s \o <<a>> = Append(s, a) /\ s \o <<>> = s
  OBVIOUS

LEMMA ImagesStep ==
  ASSUME ImagesInv, ImagesNext
  PROVE  ImagesInv'
<1>0. History(messages, arrived, sent) /\ messages \in Seq(MessageRecords)
  BY DEF ImagesInv, History
<1>1. CASE RunTurn \/ LoopPrompt
  <2>1. Prompt /\ UNCHANGED sent /\ phase' # "call"
    BY <1>1 DEF RunTurn, LoopPrompt
  <2>. QED  BY <1>0, <2>1, PromptKept DEF ImagesInv
<1>2. CASE Injected
  <2>1. messages' = Append(messages, Message("note", {}, "none")) /\ UNCHANGED <<arrived, sent>> /\ phase' # "call"
    BY <1>2 DEF Injected
  <2>. QED  BY <1>0, <2>1, NoteKept DEF ImagesInv
<1>3. CASE Send
  <2>1. PICK full : full = messages \o Notices
    OBVIOUS
  <2>2. PICK note : note = Message("note", {}, "none")
    OBVIOUS
  <2>3. note \in MessageRecords /\ note.kind = "note" /\ note.images = {}
    BY <2>2, MessageTyped
  <2>4. full = messages \/ full = Append(messages, note)
    BY <1>0, <2>1, <2>2, <2>3, TwoAdded DEF Notices
  <2>5. History(full, arrived, sent) /\ full \in Seq(MessageRecords)
    <3>1. History(full, arrived, sent)
      BY <1>0, <2>3, <2>4, PlainAdded
    <3>. QED  BY <3>1 DEF History
  <2>6. PICK parts : parts = ImageParts(Payload(full))
    OBVIOUS
  <2>7. messages' = Consumed(messages) /\ sent' = Append(sent, parts) /\ UNCHANGED arrived
    BY <1>3, <2>1, <2>6 DEF Send, Cloned
  <2>8. \A i \in DOMAIN messages : i \in DOMAIN full /\ full[i] = messages[i]
    BY <1>0, <2>3, <2>4, AppendProperties
  <2>9. \A i \in DOMAIN full : (i \in DOMAIN messages /\ full[i] = messages[i]) \/ full[i] = note
    BY <1>0, <2>3, <2>4, AppendProperties
  <2>10. \A n \in parts : \E i \in DOMAIN messages : HasData(messages[i]) /\ n \in messages[i].images
    BY <2>3, <2>5, <2>6, <2>9, PayloadParts
  <2>11. ASSUME NEW i \in DOMAIN messages, messages[i].kind = "results", HasData(messages[i]),
                \A j \in DOMAIN messages : messages[j].kind = "results" => j <= i
         PROVE  messages[i].images \subseteq parts
    <3>1. i \in DOMAIN full /\ full[i] = messages[i]
      BY <2>8
    <3>2. \A j \in DOMAIN full : full[j].kind = "results" => j <= i
      BY <2>3, <2>9, <2>11
    <3>3. full[i].images \subseteq ImageParts(Payload(full))
      BY <2>5, <2>11, <3>1, <3>2, PayloadParts
    <3>. QED  BY <2>6, <3>1, <3>3
  <2>. QED  BY <1>0, <2>7, <2>10, <2>11, CallMade DEF ImagesInv
<1>4. CASE NotConverted \/ StopTurn
  <2>1. UNCHANGED <<messages, arrived, sent>> /\ phase' # "call"
    BY <1>4 DEF NotConverted, StopTurn
  <2>. QED  BY <1>0, <2>1 DEF ImagesInv
<1>5. CASE ReplyText \/ ReplyRepaired
  <2>1. messages' = Append(messages, Message("reply", {}, "none")) /\ UNCHANGED <<arrived, sent>> /\ phase' # "call"
    BY <1>5 DEF ReplyText, ReplyRepaired
  <2>. QED  BY <1>0, <2>1, NoteKept DEF ImagesInv
<1>6. CASE ReplyCalls
  <2>1. phase' # "call" /\ UNCHANGED sent /\ NothingFresh(arrived, sent)
    BY <1>6 DEF ReplyCalls, ImagesInv
  <2>2. PICK reply : reply = Message("reply", {}, "none")
    OBVIOUS
  <2>3. reply \in MessageRecords /\ reply.kind = "reply" /\ reply.images = {}
    BY <2>2, MessageTyped
  <2>4. PICK msgs : msgs = Append(messages, reply)
    OBVIOUS
  <2>5. History(msgs, arrived, sent)
    BY <1>0, <2>3, <2>4, PlainAdded
  <2>6. CASE messages' = messages \o <<reply, Message("results", {}, "none")>> /\ UNCHANGED arrived
    <3>1. PICK m : m = Message("results", {}, "none")
      OBVIOUS
    <3>2. m \in MessageRecords /\ m.kind = "results" /\ m.images = {}
      BY <3>1, MessageTyped
    <3>3. messages' = Append(msgs, m)
      BY <1>0, <2>3, <2>4, <2>6, <3>1, <3>2, TwoAdded
    <3>4. History(Append(msgs, m), arrived, sent)
      BY <2>1, <2>5, <3>2, PlainAdded
    <3>. QED  BY <2>1, <2>6, <3>3, <3>4 DEF ImagesInv
  <2>7. ASSUME NEW form \in {"input_image", "image_url"},
               messages' = messages \o <<reply, Message("results", {NextImage}, form)>>, Arrives
        PROVE  ImagesInv'
    <3>1. PICK m : m = Message("results", {NextImage}, form)
      OBVIOUS
    <3>2. {NextImage} \in SUBSET Nat /\ {NextImage} # {}
      BY <1>0 DEF NextImage, History
    <3>3. m \in MessageRecords /\ m.kind = "results" /\ m.images = {Len(arrived) + 1} /\ HasData(m)
      BY <3>1, <3>2, MessageTyped DEF NextImage
    <3>4. messages' = Append(msgs, m)
      BY <1>0, <2>3, <2>4, <2>7, <3>1, <3>3, TwoAdded
    <3>5. History(Append(msgs, m), Append(arrived, Len(sent)), sent)
      BY <2>1, <2>5, <3>3, ImageAdded
    <3>. QED  BY <2>1, <2>7, <3>4, <3>5 DEF ImagesInv, Arrives
  <2>. QED  BY <1>6, <2>2, <2>6, <2>7 DEF ReplyCalls
<1>. QED  BY <1>1, <1>2, <1>3, <1>4, <1>5, <1>6 DEF ImagesNext

\* The data of an image goes out with at most one call, and that of a result with the very
\* next one (build_payload_messages, consume_ephemeral_image_blocks), whatever prompts,
\* notices, interruptions and errors come between.
THEOREM Images == ImagesSpec => []ImagesSentOnce
<1>1. ImagesInv /\ UNCHANGED imagesVars => ImagesInv'
  BY DEF imagesVars, ImagesInv
<1>2. ASSUME ImagesInv PROVE ImagesSentOnce
  <2>1. SUFFICES ASSUME NEW n \in DOMAIN arrived, NEW having, having = {c \in DOMAIN sent : n \in sent[c]}
                 PROVE  /\ Cardinality(having) <= 1
                        /\ n \in OfTools /\ Len(sent) > arrived[n] => having = {arrived[n] + 1}
    BY DEF ImagesSentOnce
  <2>2. History(messages, arrived, sent)
    BY <1>2 DEF ImagesInv
  <2>3. having \subseteq {arrived[n] + 1}
    BY <2>1, <2>2 DEF History
  <2>4. Cardinality(having) <= 1
    <3>1. having = {} \/ having = {arrived[n] + 1}
      BY <2>3
    <3>2. CASE having = {}
      <4>1. Cardinality({}) = 0
        BY FS_EmptySet
      <4>. QED  BY <3>2, <4>1
    <3>3. CASE having = {arrived[n] + 1}
      <4>1. Cardinality({arrived[n] + 1}) = 1
        BY FS_Singleton
      <4>. QED  BY <3>3, <4>1
    <3>. QED  BY <3>1, <3>2, <3>3
  <2>5. ASSUME n \in OfTools, Len(sent) > arrived[n] PROVE arrived[n] + 1 \in having
    <3>1. PICK i \in DOMAIN messages : messages[i].kind = "results" /\ n \in messages[i].images
      BY <2>5 DEF OfTools
    <3>2. arrived[n] \in Nat /\ Len(sent) \in Nat /\ DOMAIN sent = 1..Len(sent)
      BY <2>2 DEF History
    <3>3. ~Fresh(n, arrived, sent) /\ arrived[n] + 1 \in DOMAIN sent
      BY <2>5, <3>2 DEF Fresh
    <3>4. n \in sent[arrived[n] + 1]
      BY <2>2, <3>1, <3>3 DEF History
    <3>. QED  BY <2>1, <3>3, <3>4
  <2>. QED  BY <2>3, <2>4, <2>5
<1>. QED  BY <1>1, <1>2, InitImages, ImagesStep, PTL DEF ImagesSpec

-----------------------------------------------------------------------------
(***************************************************************************)
(* A theorem about BackgroundJobs, for any jobs, calls and runtimes: the   *)
(* model is told once of a job that is over, and told what it came to.     *)
(***************************************************************************)

-----------------------------------------------------------------------------
(* The invariant.                                                          *)

Outcomes == {"none", "completed", "error", "interrupted"}
JobSteps == {"none", "create", "execute", "update", "notify", "over"}
NoticesOfJobs == [job : Jobs, status : Outcomes]

JobTypes ==
  /\ DOMAIN run = Commands /\ outcome \in [Commands -> Outcomes]
  /\ DOMAIN file = Jobs /\ DOMAIN read = Jobs /\ \A j \in Jobs : DOMAIN read[j] = Jobs
  /\ job \in [Jobs -> JobSteps] /\ jobOwner \in [Jobs -> Runtimes]
  /\ notices \in [Runtimes -> Seq(NoticesOfJobs)] /\ told \in Seq(NoticesOfJobs)

\* What a copy of jobs.json says of a job that is over is true, and stays true.
TrueOf(copy, j) == copy[j] \in {"completed", "error"} => copy[j] = outcome[j] /\ job[j] \in {"notify", "over"}

FilesTrue ==
  /\ \A j \in Jobs : job[j] \in {"update", "notify", "over"} => run[j] = "over"
  /\ \A j \in Jobs : TrueOf(file, j)
  /\ \A j, k \in Jobs : TrueOf(read[k], j)

\* Of a sequence of notices: those of a job.
Mentions(s, j) == \E i \in DOMAIN s : s[i].job = j
AtMostOnce(s, j) == \A i, k \in DOMAIN s : s[i].job = j /\ s[k].job = j => i = k
Rightly(s, j) == \A i \in DOMAIN s : s[i].job = j => s[i].status = outcome[j]

\* The notice of a job goes to the queue of its runtime when the job is over, and
\* from there to a turn.
OnceTold(j) ==
  /\ AtMostOnce(told, j) /\ Rightly(told, j)
  /\ AtMostOnce(notices[jobOwner[j]], j) /\ Rightly(notices[jobOwner[j]], j)
  /\ Mentions(told, j) \/ Mentions(notices[jobOwner[j]], j) => job[j] = "over"
  /\ job[j] = "over" => (Mentions(told, j) <=> ~Mentions(notices[jobOwner[j]], j))

NoticesInv ==
  /\ \A r \in Runtimes, j \in Jobs : Mentions(notices[r], j) => r = jobOwner[j]
  /\ \A j \in Jobs : OnceTold(j)

JobsInv == JobTypes /\ FilesTrue /\ NoticesInv

-----------------------------------------------------------------------------
(* Sequences of notices.                                                   *)

\* Two sequences of notices, one after the other.
LEMMA Joined ==
  ASSUME NEW s \in Seq(NoticesOfJobs), NEW u \in Seq(NoticesOfJobs), NEW j,
         ~(Mentions(s, j) /\ Mentions(u, j))
  PROVE  /\ s \o u \in Seq(NoticesOfJobs)
         /\ Mentions(s \o u, j) <=> Mentions(s, j) \/ Mentions(u, j)
         /\ AtMostOnce(s, j) /\ AtMostOnce(u, j) => AtMostOnce(s \o u, j)
         /\ Rightly(s, j) /\ Rightly(u, j) => Rightly(s \o u, j)
<1>1. /\ s \o u \in Seq(NoticesOfJobs) /\ Len(s \o u) = Len(s) + Len(u)
      /\ Len(s) \in Nat /\ Len(u) \in Nat
      /\ DOMAIN s = 1..Len(s) /\ DOMAIN u = 1..Len(u)
      /\ \A i \in 1..Len(s) + Len(u) : (s \o u)[i] = IF i <= Len(s) THEN s[i] ELSE u[i - Len(s)]
  BY ConcatProperties
<1>2. PICK both : both = s \o u
  OBVIOUS
<1>3. DOMAIN both = 1..Len(s) + Len(u)
  BY <1>1, <1>2
<1>4. \A i \in DOMAIN both : \/ i \in DOMAIN s /\ both[i] = s[i]
                             \/ i - Len(s) \in DOMAIN u /\ both[i] = u[i - Len(s)]
  <2> SUFFICES ASSUME NEW i \in DOMAIN both
               PROVE  \/ i \in DOMAIN s /\ both[i] = s[i]
                      \/ i - Len(s) \in DOMAIN u /\ both[i] = u[i - Len(s)]
    OBVIOUS
  <2>1. CASE i <= Len(s)
    BY <1>1, <1>2, <1>3, <2>1
  <2>2. CASE ~(i <= Len(s))
    BY <1>1, <1>2, <1>3, <2>2
  <2>. QED  BY <2>1, <2>2
<1>5. \A i \in DOMAIN s : i \in DOMAIN both /\ both[i] = s[i]
  BY <1>1, <1>2, <1>3
<1>6. \A i \in DOMAIN u : i + Len(s) \in DOMAIN both /\ both[i + Len(s)] = u[i]
  BY <1>1, <1>2, <1>3
<1>7. Mentions(both, j) <=> Mentions(s, j) \/ Mentions(u, j)
  BY <1>4, <1>5, <1>6 DEF Mentions
<1>8. ASSUME AtMostOnce(s, j), AtMostOnce(u, j) PROVE AtMostOnce(both, j)
  <2> SUFFICES ASSUME NEW i \in DOMAIN both, NEW k \in DOMAIN both, both[i].job = j, both[k].job = j
               PROVE  i = k
    BY DEF AtMostOnce
  <2>1. CASE i \in DOMAIN s /\ both[i] = s[i] /\ k \in DOMAIN s /\ both[k] = s[k]
    BY <1>8, <2>1 DEF AtMostOnce
  <2>2. CASE /\ i - Len(s) \in DOMAIN u /\ both[i] = u[i - Len(s)]
             /\ k - Len(s) \in DOMAIN u /\ both[k] = u[k - Len(s)]
    <3>1. i - Len(s) = k - Len(s)
      BY <1>8, <2>2 DEF AtMostOnce
    <3>. QED  BY <3>1, <1>1, <1>3
  <2>. QED  BY <1>4, <2>1, <2>2 DEF Mentions
<1>9. ASSUME Rightly(s, j), Rightly(u, j) PROVE Rightly(both, j)
  BY <1>4, <1>9 DEF Rightly
<1>. QED  BY <1>1, <1>2, <1>7, <1>8, <1>9

\* A notice of one job at the end.
LEMMA Noticed ==
  ASSUME NEW s \in Seq(NoticesOfJobs), NEW n \in NoticesOfJobs
  PROVE  /\ Append(s, n) \in Seq(NoticesOfJobs)
         /\ \A j : Mentions(Append(s, n), j) <=> Mentions(s, j) \/ n.job = j
         /\ \A j : j # n.job /\ AtMostOnce(s, j) => AtMostOnce(Append(s, n), j)
         /\ ~Mentions(s, n.job) => AtMostOnce(Append(s, n), n.job)
         /\ \A j : Rightly(s, j) /\ (n.job = j => n.status = outcome[j]) => Rightly(Append(s, n), j)
<1>1. /\ Append(s, n) \in Seq(NoticesOfJobs) /\ Len(Append(s, n)) = Len(s) + 1 /\ Len(s) \in Nat
      /\ DOMAIN s = 1..Len(s)
      /\ \A k \in 1..Len(s) : Append(s, n)[k] = s[k]
      /\ Append(s, n)[Len(s) + 1] = n
  BY AppendProperties
<1>2. PICK r : r = Append(s, n)
  OBVIOUS
<1>3. DOMAIN r = 1..Len(s) + 1
  BY <1>1, <1>2
<1>4. /\ \A k \in DOMAIN s : k \in DOMAIN r /\ r[k] = s[k]
      /\ Len(s) + 1 \in DOMAIN r /\ r[Len(s) + 1] = n
      /\ \A k \in DOMAIN r : (k \in DOMAIN s /\ r[k] = s[k]) \/ (k = Len(s) + 1 /\ r[k] = n)
  BY <1>1, <1>2, <1>3
<1>5. \A j : Mentions(r, j) <=> Mentions(s, j) \/ n.job = j
  BY <1>4 DEF Mentions
<1>6. \A j : j # n.job /\ AtMostOnce(s, j) => AtMostOnce(r, j)
  BY <1>4 DEF AtMostOnce
<1>7. ~Mentions(s, n.job) => AtMostOnce(r, n.job)
  BY <1>4 DEF AtMostOnce, Mentions
<1>8. \A j : Rightly(s, j) /\ (n.job = j => n.status = outcome[j]) => Rightly(r, j)
  BY <1>4 DEF Rightly
<1>. QED  BY <1>1, <1>2, <1>5, <1>6, <1>7, <1>8

-----------------------------------------------------------------------------
LEMMA JobsStart == JobsInit => JobsInv
<1> SUFFICES ASSUME JobsInit PROVE JobsInv
  OBVIOUS
<1>1. JobTypes
  BY DEF JobsInit, JobTypes, Outcomes, JobSteps
<1>2. FilesTrue
  BY DEF JobsInit, FilesTrue, TrueOf
<1>3. NoticesInv
  BY DEF JobsInit, NoticesInv, OnceTold, Mentions, AtMostOnce, Rightly
<1>. QED  BY <1>1, <1>2, <1>3 DEF JobsInv

\* A command goes on: what a command that is over came to stays.
LEMMA CommandGoes ==
  ASSUME JobsInv, UNCHANGED jobVars,
         DOMAIN run' = Commands, outcome' \in [Commands -> Outcomes],
         \A c \in Commands : run[c] = "over" => run'[c] = "over" /\ outcome'[c] = outcome[c]
  PROVE  JobsInv'
<1>1. \A j \in Jobs : j \in Commands
  BY DEF Commands
<1>2. JobTypes'
  BY DEF JobsInv, JobTypes, jobVars
<1>3. \A j \in Jobs : job[j] \in {"update", "notify", "over"} => run'[j] = "over" /\ outcome'[j] = outcome[j]
  BY <1>1 DEF JobsInv, FilesTrue
<1>4. FilesTrue'
  BY <1>3 DEF JobsInv, FilesTrue, TrueOf, jobVars
<1>5. \A s, j : j \in Jobs /\ job[j] = "over" /\ Rightly(s, j) => Rightly(s, j)'
  BY <1>3 DEF Rightly
<1>6. \A s, j : j \in Jobs /\ ~Mentions(s, j) => Rightly(s, j)'
  BY DEF Rightly, Mentions
<1>7. \A j \in Jobs : Rightly(told, j)' /\ Rightly(notices[jobOwner[j]], j)'
  BY <1>5, <1>6 DEF JobsInv, NoticesInv, OnceTold, jobVars
<1>8. NoticesInv'
  BY <1>7, SMTT(20) DEF JobsInv, NoticesInv, OnceTold, AtMostOnce, Mentions, jobVars
<1>. QED  BY <1>2, <1>4, <1>8 DEF JobsInv

LEMMA CommandSteps ==
  ASSUME JobsInv, NEW c \in Commands,
         \/ StartCall(c) \/ Exit(c) \/ Released(c) \/ Communicate(c) \/ TimeUp(c) \/ TimedOut(c)
         \/ InterruptCall(c) \/ Terminate(c) \/ Terminated(c) \/ Killed(c)
  PROVE  JobsInv'
<1>1. UNCHANGED jobVars
  BY DEF StartCall, Exit, Released, Communicate, TimeUp, TimedOut, InterruptCall, Terminate, Terminated, Killed
<1>2. \/ UNCHANGED <<run, outcome>>
      \/ /\ run[c] # "over"
         /\ \/ UNCHANGED outcome
            \/ \E o \in Outcomes : outcome' = [outcome EXCEPT ![c] = o]
         /\ \E at : run' = [run EXCEPT ![c] = at]
  BY DEF StartCall, Exit, Released, Communicate, TimeUp, TimedOut, InterruptCall, Terminate, Terminated, Killed,
         RunAt, Ends, Launch, Insist, Outcomes
<1>3. DOMAIN run' = Commands /\ outcome' \in [Commands -> Outcomes]
  BY <1>2 DEF JobsInv, JobTypes
<1>4. \A b \in Commands : run[b] = "over" => run'[b] = "over" /\ outcome'[b] = outcome[b]
  BY <1>2 DEF JobsInv, JobTypes
<1>. QED  BY <1>1, <1>3, <1>4, CommandGoes

\* jobs.json is read or written, and a job goes on that is neither over nor about to be.
LEMMA FileGoes ==
  ASSUME JobsInv, NEW j \in Jobs, NEW at \in JobSteps \ {"over"}, job[j] # "over",
         job' = [job EXCEPT ![j] = at], UNCHANGED <<jobOwner, notices, told, outcome>>,
         DOMAIN run' = Commands, \A k \in Jobs : k # j => run'[k] = run[k],
         at \in {"update", "notify"} => run'[j] = "over",
         job[j] = "notify" => at = "notify",
         \A k \in Jobs : TrueOf(file, k)', DOMAIN file' = Jobs,
         \A k \in Jobs : DOMAIN read'[k] = Jobs /\ \A m \in Jobs : TrueOf(read[k], m)', DOMAIN read' = Jobs
  PROVE  JobsInv'
<1>1. job' \in [Jobs -> JobSteps] /\ job'[j] = at /\ \A k \in Jobs : k # j => job'[k] = job[k]
  BY DEF JobsInv, JobTypes
<1>2. JobTypes'
  BY <1>1 DEF JobsInv, JobTypes
<1>3. FilesTrue'
  BY <1>1 DEF JobsInv, FilesTrue
<1>4. \A k \in Jobs : job'[k] = "over" <=> job[k] = "over"
  BY <1>1
<1>5. ASSUME NEW k \in Jobs PROVE OnceTold(k)'
  <2>1. OnceTold(k) /\ jobOwner'[k] = jobOwner[k] /\ notices' = notices /\ told' = told
    BY <1>5 DEF JobsInv, NoticesInv
  <2>. QED  BY <1>4, <1>5, <2>1 DEF OnceTold, Mentions, AtMostOnce, Rightly
<1>6. NoticesInv'
  BY <1>5 DEF JobsInv, NoticesInv, Mentions
<1>. QED  BY <1>2, <1>3, <1>6 DEF JobsInv

\* What a copy says of a job that is over stays true while another one goes on.
LEMMA StaysTrue ==
  ASSUME JobsInv, NEW j \in Jobs, NEW at \in JobSteps, job' = [job EXCEPT ![j] = at], UNCHANGED outcome,
         job[j] \in {"notify", "over"} => at \in {"notify", "over"},
         NEW copy, NEW k \in Jobs, TrueOf(copy, k)
  PROVE  copy[k] \in {"completed", "error"} => copy[k] = outcome'[k] /\ job'[k] \in {"notify", "over"}
BY DEF JobsInv, JobTypes, TrueOf

LEMMA CreateKeeps ==
  ASSUME JobsInv, NEW j \in Jobs, Create(j) \/ Update(j)
  PROVE  JobsInv'
<1>1. PICK at \in {"create", "update"} :
        /\ job' = [job EXCEPT ![j] = at] /\ job[j] \in {"none", "execute"}
        /\ at = "update" => run[j] = "over"
        /\ read' = [read EXCEPT ![j] = file]
        /\ UNCHANGED <<file, jobOwner, notices, told, run, outcome>>
  BY DEF Create, Update, Goes, commandVars
<1>2. DOMAIN read' = Jobs /\ read'[j] = file /\ \A k \in Jobs : k # j => read'[k] = read[k]
  BY <1>1 DEF JobsInv, JobTypes
<1>3. \A k \in Jobs : TrueOf(file, k)'
  BY <1>1, StaysTrue DEF JobSteps, JobsInv, FilesTrue, TrueOf
<1>4. \A k, m \in Jobs : TrueOf(read[k], m)'
  BY <1>1, <1>2, StaysTrue DEF JobSteps, JobsInv, FilesTrue, TrueOf
<1>. QED  BY <1>1, <1>2, <1>3, <1>4, FileGoes DEF JobSteps, JobsInv, JobTypes

LEMMA CreatedKeeps ==
  ASSUME JobsInv, NEW j \in Jobs, Created(j)
  PROVE  JobsInv'
<1>1. /\ job' = [job EXCEPT ![j] = "execute"] /\ job[j] = "create"
      /\ file' = [read[j] EXCEPT ![j] = "running"] /\ run' = [run EXCEPT ![j] = "poll"]
      /\ UNCHANGED <<read, jobOwner, notices, told, outcome>>
  BY DEF Created, Goes, Launch, RunAt
<1>2. DOMAIN file' = Jobs /\ file'[j] = "running" /\ \A k \in Jobs : k # j => file'[k] = read[j][k]
  BY <1>1 DEF JobsInv, JobTypes
<1>3. \A k, m \in Jobs : TrueOf(read[k], m)'
  BY <1>1, StaysTrue DEF JobSteps, JobsInv, FilesTrue, TrueOf
<1>4. \A k \in Jobs : TrueOf(file, k)'
  BY <1>1, <1>2, <1>3 DEF TrueOf
<1>5. DOMAIN run' = Commands /\ \A k \in Jobs : k # j => run'[k] = run[k]
  BY <1>1 DEF JobsInv, JobTypes, Commands
<1>. QED  BY <1>1, <1>2, <1>3, <1>4, <1>5, FileGoes DEF JobSteps, JobsInv, JobTypes

LEMMA UpdatedKeeps ==
  ASSUME JobsInv, NEW j \in Jobs, Updated(j)
  PROVE  JobsInv'
<1>1. /\ job' = [job EXCEPT ![j] = "notify"] /\ job[j] = "update"
      /\ file' = [read[j] EXCEPT ![j] = outcome[j]]
      /\ UNCHANGED <<read, jobOwner, notices, told, run, outcome>>
  BY DEF Updated, Goes, commandVars
<1>2. DOMAIN file' = Jobs /\ file'[j] = outcome[j] /\ \A k \in Jobs : k # j => file'[k] = read[j][k]
  BY <1>1 DEF JobsInv, JobTypes
<1>3. \A k, m \in Jobs : TrueOf(read[k], m)'
  BY <1>1, StaysTrue DEF JobSteps, JobsInv, FilesTrue, TrueOf
<1>4. job'[j] = "notify"
  BY <1>1 DEF JobsInv, JobTypes
<1>5. \A k \in Jobs : TrueOf(file, k)'
  BY <1>1, <1>2, <1>3, <1>4 DEF TrueOf
<1>6. run[j] = "over"
  BY <1>1 DEF JobsInv, FilesTrue
<1>. QED  BY <1>1, <1>2, <1>3, <1>5, <1>6, FileGoes DEF JobSteps, JobsInv, JobTypes

\* A notice goes to the queue of the runtime of its job.
LEMMA NotifyKeeps ==
  ASSUME JobsInv, NEW j \in Jobs, Notify(j)
  PROVE  JobsInv'
<1> DEFINE n == Notice(j)
           mine == jobOwner[j]
           grown == Append(notices[mine], n)
<1>1. /\ job[j] = "notify" /\ job' = [job EXCEPT ![j] = "over"]
      /\ notices' = [notices EXCEPT ![mine] = grown]
      /\ UNCHANGED <<file, read, jobOwner, told, run, outcome>>
  BY DEF Notify, Goes, commandVars
<1>2. mine \in Runtimes /\ notices[mine] \in Seq(NoticesOfJobs) /\ j \in Commands
  BY DEF JobsInv, JobTypes, Commands
<1>3. n \in NoticesOfJobs /\ n.job = j /\ n.status = outcome[j]
  BY <1>2 DEF Notice, NoticesOfJobs, JobsInv, JobTypes
<1>4. /\ grown \in Seq(NoticesOfJobs)
      /\ \A k : Mentions(grown, k) <=> Mentions(notices[mine], k) \/ j = k
      /\ \A k : k # j /\ AtMostOnce(notices[mine], k) => AtMostOnce(grown, k)
      /\ ~Mentions(notices[mine], j) => AtMostOnce(grown, j)
      /\ \A k : Rightly(notices[mine], k) => Rightly(grown, k)
  <2> HIDE DEF n
  <2>. QED  BY <1>2, <1>3, Noticed
<1>5. /\ notices' \in [Runtimes -> Seq(NoticesOfJobs)] /\ notices'[mine] = grown
      /\ \A r \in Runtimes : r # mine => notices'[r] = notices[r]
  BY <1>1, <1>2, <1>4 DEF JobsInv, JobTypes
<1>6. job' \in [Jobs -> JobSteps] /\ job'[j] = "over" /\ \A k \in Jobs : k # j => job'[k] = job[k]
  BY <1>1 DEF JobsInv, JobTypes, JobSteps
<1> HIDE DEF grown, n
<1>7. JobTypes'
  BY <1>1, <1>5, <1>6 DEF JobsInv, JobTypes
<1>8. FilesTrue'
  BY <1>1, <1>6 DEF JobsInv, FilesTrue, TrueOf
<1>9. ~Mentions(told, j) /\ ~Mentions(notices[mine], j)
  BY <1>1 DEF JobsInv, NoticesInv, OnceTold
<1>10. \A r \in Runtimes, k \in Jobs : Mentions(notices'[r], k) => r = jobOwner[k]
  BY <1>2, <1>4, <1>5 DEF JobsInv, NoticesInv
<1>11. ASSUME NEW k \in Jobs
       PROVE  /\ AtMostOnce(told, k) /\ Rightly(told, k)
              /\ AtMostOnce(notices'[jobOwner[k]], k) /\ Rightly(notices'[jobOwner[k]], k)
              /\ Mentions(told, k) \/ Mentions(notices'[jobOwner[k]], k) => job'[k] = "over"
              /\ job'[k] = "over" => (Mentions(told, k) <=> ~Mentions(notices'[jobOwner[k]], k))
  <2>1. jobOwner[k] \in Runtimes
    BY DEF JobsInv, JobTypes
  <2>2. /\ AtMostOnce(told, k) /\ Rightly(told, k)
        /\ AtMostOnce(notices[jobOwner[k]], k) /\ Rightly(notices[jobOwner[k]], k)
        /\ Mentions(told, k) \/ Mentions(notices[jobOwner[k]], k) => job[k] = "over"
        /\ job[k] = "over" => (Mentions(told, k) <=> ~Mentions(notices[jobOwner[k]], k))
    BY DEF JobsInv, NoticesInv, OnceTold
  <2>3. CASE k = j
    BY <2>2, <2>3, <1>4, <1>5, <1>6, <1>9
  <2>4. CASE k # j /\ jobOwner[k] = mine
    BY <2>2, <2>4, <1>4, <1>5, <1>6
  <2>5. CASE jobOwner[k] # mine
    BY <2>1, <2>2, <2>5, <1>5, <1>6
  <2>. QED  BY <2>3, <2>4, <2>5
<1>12. ASSUME NEW k \in Jobs PROVE OnceTold(k)'
  <2>1. told' = told /\ jobOwner' = jobOwner /\ outcome' = outcome
    BY <1>1
  <2>2. AtMostOnce(told, k)' /\ AtMostOnce(notices[jobOwner[k]], k)'
    BY <2>1, <1>11, <1>12 DEF AtMostOnce
  <2>3. Rightly(told, k)' /\ Rightly(notices[jobOwner[k]], k)'
    BY <2>1, <1>11, <1>12 DEF Rightly
  <2>4. /\ (Mentions(told, k) \/ Mentions(notices[jobOwner[k]], k))' => job'[k] = "over"
        /\ job'[k] = "over" => (Mentions(told, k) <=> ~Mentions(notices[jobOwner[k]], k))'
    BY <2>1, <1>11, <1>12 DEF Mentions
  <2>. QED  BY <2>2, <2>3, <2>4 DEF OnceTold
<1>13. NoticesInv'
  BY <1>1, <1>10, <1>12 DEF NoticesInv, Mentions
<1>. QED  BY <1>7, <1>8, <1>13 DEF JobsInv

\* A turn takes the notices of its runtime.
LEMMA DrainKeeps ==
  ASSUME JobsInv, NEW r \in Runtimes, Drain(r)
  PROVE  JobsInv'
<1> DEFINE all == told \o notices[r]
<1>1. /\ told' = all /\ notices' = [notices EXCEPT ![r] = <<>>]
      /\ UNCHANGED <<file, read, job, jobOwner, run, outcome>>
  BY DEF Drain, commandVars
<1>2. told \in Seq(NoticesOfJobs) /\ notices[r] \in Seq(NoticesOfJobs)
  BY DEF JobsInv, JobTypes
<1>3. ASSUME NEW k \in Jobs PROVE ~(Mentions(told, k) /\ Mentions(notices[r], k))
  BY <1>3 DEF JobsInv, NoticesInv, OnceTold
<1>4. /\ notices' \in [Runtimes -> Seq(NoticesOfJobs)] /\ notices'[r] = <<>>
      /\ \A q \in Runtimes : q # r => notices'[q] = notices[q]
  BY <1>1 DEF JobsInv, JobTypes
<1>5. all \in Seq(NoticesOfJobs)
  BY <1>2, ConcatProperties
<1>6. ASSUME NEW k \in Jobs
      PROVE  /\ Mentions(all, k) <=> Mentions(told, k) \/ Mentions(notices[r], k)
             /\ AtMostOnce(told, k) /\ AtMostOnce(notices[r], k) => AtMostOnce(all, k)
             /\ Rightly(told, k) /\ Rightly(notices[r], k) => Rightly(all, k)
  BY <1>2, <1>3, Joined
<1> HIDE DEF all
<1>7. JobTypes'
  BY <1>1, <1>4, <1>5 DEF JobsInv, JobTypes
<1>8. FilesTrue'
  BY <1>1 DEF JobsInv, FilesTrue, TrueOf
<1>9. \A k : ~Mentions(<<>>, k) /\ AtMostOnce(<<>>, k) /\ Rightly(<<>>, k)
  BY DEF Mentions, AtMostOnce, Rightly
<1>10. ASSUME NEW k, ~Mentions(notices[r], k) PROVE AtMostOnce(notices[r], k) /\ Rightly(notices[r], k)
  BY <1>10 DEF Mentions, AtMostOnce, Rightly
<1>11. \A q \in Runtimes, k \in Jobs : Mentions(notices'[q], k) => q = jobOwner[k]
  BY <1>4, <1>9 DEF JobsInv, NoticesInv
<1>12. ASSUME NEW k \in Jobs
       PROVE  /\ AtMostOnce(all, k) /\ Rightly(all, k)
              /\ AtMostOnce(notices'[jobOwner[k]], k) /\ Rightly(notices'[jobOwner[k]], k)
              /\ Mentions(all, k) \/ Mentions(notices'[jobOwner[k]], k) => job[k] = "over"
              /\ job[k] = "over" => (Mentions(all, k) <=> ~Mentions(notices'[jobOwner[k]], k))
  <2>1. jobOwner[k] \in Runtimes
    BY DEF JobsInv, JobTypes
  <2>2. /\ AtMostOnce(told, k) /\ Rightly(told, k)
        /\ AtMostOnce(notices[jobOwner[k]], k) /\ Rightly(notices[jobOwner[k]], k)
        /\ Mentions(told, k) \/ Mentions(notices[jobOwner[k]], k) => job[k] = "over"
        /\ job[k] = "over" => (Mentions(told, k) <=> ~Mentions(notices[jobOwner[k]], k))
    BY DEF JobsInv, NoticesInv, OnceTold
  <2>3. CASE jobOwner[k] = r
    BY <2>2, <2>3, <1>4, <1>6, <1>9
  <2>4. CASE jobOwner[k] # r
    <3>1. ~Mentions(notices[r], k)
      BY <2>4 DEF JobsInv, NoticesInv
    <3>2. notices'[jobOwner[k]] = notices[jobOwner[k]]
      BY <2>1, <2>4, <1>4
    <3>. QED  BY <2>2, <3>1, <3>2, <1>6, <1>10
  <2>. QED  BY <2>3, <2>4
<1>13. ASSUME NEW k \in Jobs PROVE OnceTold(k)'
  <2>1. told' = all /\ jobOwner' = jobOwner /\ job' = job /\ outcome' = outcome
    BY <1>1 DEF all
  <2>2. AtMostOnce(told, k)' /\ AtMostOnce(notices[jobOwner[k]], k)'
    BY <2>1, <1>12, <1>13 DEF AtMostOnce
  <2>3. Rightly(told, k)' /\ Rightly(notices[jobOwner[k]], k)'
    BY <2>1, <1>12, <1>13 DEF Rightly
  <2>4. /\ (Mentions(told, k) \/ Mentions(notices[jobOwner[k]], k))' => job'[k] = "over"
        /\ job'[k] = "over" => (Mentions(told, k) <=> ~Mentions(notices[jobOwner[k]], k))'
    BY <2>1, <1>12, <1>13 DEF Mentions
  <2>. QED  BY <2>2, <2>3, <2>4 DEF OnceTold
<1>14. NoticesInv'
  BY <1>1, <1>11, <1>13 DEF NoticesInv, Mentions
<1>. QED  BY <1>7, <1>8, <1>14 DEF JobsInv

LEMMA JobsGo == JobsInv /\ [JobsNext]_shellVars => JobsInv'
<1> SUFFICES ASSUME JobsInv, [JobsNext]_shellVars PROVE JobsInv'
  OBVIOUS
<1>1. CASE UNCHANGED shellVars
  BY <1>1, CommandGoes DEF shellVars, jobVars, JobsInv, JobTypes
<1>2. CASE JobsNext
  BY <1>2, CommandSteps, CreateKeeps, CreatedKeeps, UpdatedKeeps, NotifyKeeps, DrainKeeps DEF JobsNext
<1>. QED  BY <1>1, <1>2

\* Whatever the threads of other jobs do to jobs.json, which is read, changed and
\* written without a lock, the model is told of each job once and rightly.
THEOREM Outcome == JobsSpec => []ToldOutcome
<1>1. JobsInv => ToldOutcome
  <2> SUFFICES ASSUME JobsInv, NEW j \in Jobs
               PROVE  LET all == told \o notices[jobOwner[j]]
                          about == {i \in DOMAIN all : all[i].job = j}
                      IN /\ job[j] # "over" => about = {}
                         /\ job[j] = "over" => \E i \in about : about = {i} /\ all[i].status = outcome[j]
                         /\ file[j] \in {"completed", "error"} => file[j] = outcome[j]
    BY DEF ToldOutcome
  <2> DEFINE all == told \o notices[jobOwner[j]]
             about == {i \in DOMAIN all : all[i].job = j}
  <2>1. told \in Seq(NoticesOfJobs) /\ notices[jobOwner[j]] \in Seq(NoticesOfJobs)
    BY DEF JobsInv, JobTypes
  <2>2. /\ AtMostOnce(told, j) /\ Rightly(told, j)
        /\ AtMostOnce(notices[jobOwner[j]], j) /\ Rightly(notices[jobOwner[j]], j)
        /\ Mentions(told, j) \/ Mentions(notices[jobOwner[j]], j) => job[j] = "over"
        /\ job[j] = "over" => (Mentions(told, j) <=> ~Mentions(notices[jobOwner[j]], j))
    BY DEF JobsInv, NoticesInv, OnceTold
  <2>3. /\ Mentions(all, j) <=> Mentions(told, j) \/ Mentions(notices[jobOwner[j]], j)
        /\ AtMostOnce(all, j) /\ Rightly(all, j)
    BY <2>1, <2>2, Joined
  <2> HIDE DEF all
  <2>4. job[j] # "over" => about = {}
    BY <2>2, <2>3 DEF Mentions
  <2>5. job[j] = "over" => \E i \in about : about = {i} /\ all[i].status = outcome[j]
    <3> SUFFICES ASSUME job[j] = "over" PROVE \E i \in about : about = {i} /\ all[i].status = outcome[j]
      OBVIOUS
    <3>1. PICK i \in DOMAIN all : all[i].job = j
      BY <2>2, <2>3 DEF Mentions
    <3>2. about = {i}
      BY <3>1, <2>3 DEF AtMostOnce
    <3>. QED  BY <3>1, <3>2, <2>3 DEF Rightly
  <2>6. file[j] \in {"completed", "error"} => file[j] = outcome[j]
    BY DEF JobsInv, FilesTrue, TrueOf
  <2>. QED  BY <2>4, <2>5, <2>6 DEF all
<1>2. JobsInit => JobsInv
  BY JobsStart
<1>3. JobsInv /\ [JobsNext]_shellVars => JobsInv'
  BY JobsGo
<1>. QED  BY <1>1, <1>2, <1>3, PTL DEF JobsSpec

-----------------------------------------------------------------------------
(***************************************************************************)
(* A theorem about ToolCalls, for any threads, hooks, calls and reloads:   *)
(* a call is audited by the hooks it began with.                           *)
(***************************************************************************)
(* The invariant.                                                          *)

Positions == DOMAIN CallHooks
Entries == [hook : Positions, input : Nat]
CallSteps == {"idle", "pre", "handler", "post", "done"}
Results == {"none", "blocked", "denied", "invalid", "ok", "tool_error", "hook_error", "interrupted"}
CallRecords ==
  [step : CallSteps, input : Nat, hooks : SUBSET Positions, todo : SUBSET Positions,
   ran : {"no", "yes", "interrupted"}, result : Results]

CallTypes ==
  /\ manager \subseteq Positions
  /\ call \in [Callers -> CallRecords] /\ log \in [Callers -> Seq(Entries)]

HooksBefore(a) == Matching(call[a].hooks, "PreToolUse")
HooksAfter(a) == Matching(call[a].hooks, "PostToolUse")
AllHooks(a) == HooksBefore(a) \cup HooksAfter(a)

Ordered(s) == \A i, k \in DOMAIN s : i < k => Sooner(s[i].hook, s[k].hook)

\* The hooks after the tool were told of the input it was given.
ToldInput(a) ==
  \A i \in DOMAIN log[a] : log[a][i].hook \notin HooksBefore(a) => log[a][i].input = call[a].input

\* Of the hooks of a call those that are still to run come after all that have run.
CallInv(a) ==
  LET heard == HooksRun(a)
      todo == call[a].todo
  IN /\ CallAt(a, "pre") =>
          /\ Ordered(log[a]) /\ todo \subseteq HooksBefore(a) /\ heard = HooksBefore(a) \ todo
          /\ call[a].ran = "no" /\ \A i \in heard, k \in todo : i < k
     /\ CallAt(a, "handler") => Ordered(log[a]) /\ heard = HooksBefore(a)
     /\ CallAt(a, "post") =>
          /\ Ordered(log[a]) /\ todo \subseteq HooksAfter(a) /\ heard = AllHooks(a) \ todo
          /\ \A i \in heard \cap HooksAfter(a), k \in todo : i < k
          /\ ToldInput(a) /\ call[a].result # "hook_error"
     /\ CallAt(a, "done") /\ call[a].ran # "no" =>
          /\ Ordered(log[a]) /\ HooksBefore(a) \subseteq heard /\ heard \subseteq AllHooks(a)
          /\ \A i \in heard, k \in AllHooks(a) : Sooner(k, i) => k \in heard
          /\ ToldInput(a)
          /\ call[a].result = "hook_error" => log[a] # <<>> /\ Failing(log[a][Len(log[a])].hook)
          /\ call[a].result \in {"ok", "tool_error"} => heard = AllHooks(a)

HooksInv == CallTypes /\ \A a \in Callers : CallInv(a)

-----------------------------------------------------------------------------
(* Hooks and logs.                                                         *)

LEMMA PositionsAreNumbers == Positions \subseteq Nat /\ \A i \in Positions : CallHooks[i] \in Hook
BY HooksAssumption DEF Positions

LEMMA EventsDiffer ==
  ASSUME NEW a, NEW i \in HooksBefore(a), NEW k \in HooksAfter(a)
  PROVE  i # k /\ i \notin HooksAfter(a) /\ k \notin HooksBefore(a) /\ Sooner(i, k) /\ ~Sooner(k, i)
BY DEF HooksBefore, HooksAfter, Matching, Sooner

LEMMA OneEvent ==
  ASSUME NEW a, NEW i, NEW k,
         (i \in HooksBefore(a) /\ k \in HooksBefore(a)) \/ (i \in HooksAfter(a) /\ k \in HooksAfter(a))
  PROVE  Sooner(i, k) <=> i < k
BY DEF HooksBefore, HooksAfter, Matching, Sooner

\* One more hook has run.
LEMMA OneLogged ==
  ASSUME NEW s \in Seq(Entries), NEW e \in Entries
  PROVE  LET u == Append(s, e)
             heard == {s[i].hook : i \in DOMAIN s}
         IN /\ u \in Seq(Entries) /\ u # <<>> /\ u[Len(u)] = e
            /\ {u[i].hook : i \in DOMAIN u} = heard \cup {e.hook}
            /\ Ordered(s) /\ (\A x \in heard : Sooner(x, e.hook)) => Ordered(u)
            /\ \A i \in DOMAIN u : u[i] = e \/ \E k \in DOMAIN s : u[i] = s[k]
<1> DEFINE u == Append(s, e)
           heard == {s[i].hook : i \in DOMAIN s}
<1>1. /\ u \in Seq(Entries) /\ u # <<>> /\ Len(u) = Len(s) + 1 /\ u[Len(s) + 1] = e
      /\ \A i \in 1..Len(s) : u[i] = s[i]
  BY AppendProperties
<1>2. Len(s) \in Nat /\ DOMAIN s = 1..Len(s) /\ DOMAIN u = 1..Len(s) + 1
  BY <1>1
<1> HIDE DEF u
<1>3. \A i \in DOMAIN u : (i \in DOMAIN s /\ u[i] = s[i]) \/ (i = Len(s) + 1 /\ u[i] = e)
  BY <1>1, <1>2
<1>4. \A i \in DOMAIN s : i \in DOMAIN u /\ u[i] = s[i]
  BY <1>1, <1>2
<1>5. Len(s) + 1 \in DOMAIN u
  BY <1>2
<1>6. {u[i].hook : i \in DOMAIN u} = heard \cup {e.hook}
  <2>1. \A x \in {u[i].hook : i \in DOMAIN u} : x \in heard \cup {e.hook}
    BY <1>3
  <2>2. \A x \in heard \cup {e.hook} : x \in {u[i].hook : i \in DOMAIN u}
    BY <1>1, <1>4, <1>5
  <2>. QED  BY <2>1, <2>2
<1>7. ASSUME Ordered(s), \A x \in heard : Sooner(x, e.hook) PROVE Ordered(u)
  <2>1. ASSUME NEW i \in DOMAIN u, NEW k \in DOMAIN u, i < k PROVE Sooner(u[i].hook, u[k].hook)
    <3>1. i \in DOMAIN s /\ u[i] = s[i]
      BY <1>2, <1>3, <2>1
    <3>2. CASE k \in DOMAIN s /\ u[k] = s[k]
      BY <1>7, <2>1, <3>1, <3>2 DEF Ordered
    <3>3. CASE u[k] = e
      BY <1>7, <3>1, <3>3
    <3>. QED  BY <1>3, <3>2, <3>3
  <2>. QED  BY <2>1 DEF Ordered
<1>8. u[Len(u)] = e
  BY <1>1
<1>9. \A i \in DOMAIN u : u[i] = e \/ \E k \in DOMAIN s : u[i] = s[k]
  BY <1>3
<1>. QED  BY <1>1, <1>6, <1>7, <1>8, <1>9 DEF u

\* A call that a step has nothing to do with.
LEMMA OtherCall ==
  ASSUME NEW a, CallInv(a), call'[a] = call[a], log'[a] = log[a]
  PROVE  CallInv(a)'
BY SMTT(20) DEF CallInv, CallAt, HooksRun, HooksBefore, HooksAfter, AllHooks, Ordered, ToldInput, Matching, Sooner, Failing

\* A step of a thread: all there is to show is its own call.
LEMMA CallStep ==
  ASSUME HooksInv, NEW a \in Callers, NEW c \in CallRecords, CallGoes(a, c), manager' = manager,
         NEW s \in Seq(Entries), log' = [log EXCEPT ![a] = s],
         call'[a] = c /\ log'[a] = s => CallInv(a)'
  PROVE  HooksInv'
<1>1. CallTypes' /\ call'[a] = c /\ log'[a] = s
  BY DEF HooksInv, CallTypes, CallGoes
<1>2. \A b \in Callers \ {a} : call'[b] = call[b] /\ log'[b] = log[b]
  BY DEF HooksInv, CallTypes, CallGoes
<1>3. \A b \in Callers : CallInv(b)'
  BY <1>1, <1>2, OtherCall DEF HooksInv
<1>. QED  BY <1>1, <1>3 DEF HooksInv

\* The hooks of a call are those it began with.
LEMMA SameHooks ==
  ASSUME NEW a, call'[a].hooks = call[a].hooks
  PROVE  HooksBefore(a)' = HooksBefore(a) /\ HooksAfter(a)' = HooksAfter(a) /\ AllHooks(a)' = AllHooks(a)
BY DEF HooksBefore, HooksAfter, AllHooks, Matching

LEMMA SameLog ==
  ASSUME NEW a, log'[a] = log[a]
  PROVE  HooksRun(a)' = HooksRun(a) /\ (Ordered(log[a]) => Ordered(log[a])')
BY DEF HooksRun, Ordered, Sooner

-----------------------------------------------------------------------------
(* Steps of a call.                                                        *)

LEMMA AuthorizeKeeps ==
  ASSUME HooksInv, NEW a \in Callers, Authorize(a)
  PROVE  HooksInv'
<1> DEFINE b == Result(NoCall, "blocked")
           p == [NoCall EXCEPT !.step = "pre", !.hooks = manager, !.todo = Matching(manager, "PreToolUse")]
<1>1. NoCall \in CallRecords /\ <<>> \in Seq(Entries) /\ manager \subseteq Positions
  BY DEF NoCall, CallRecords, CallSteps, Results, HooksInv, CallTypes
<1>2. CASE CallGoes(a, b)
  <2>1. b \in CallRecords /\ b.step = "done" /\ b.ran = "no"
    BY <1>1 DEF Result, CallRecords, CallSteps, Results, NoCall
  <2>2. call'[a] = b => CallInv(a)'
    BY <2>1 DEF CallInv, CallAt
  <2> HIDE DEF b
  <2>. QED  BY <1>1, <1>2, <2>1, <2>2, CallStep DEF Authorize
<1>3. CASE CallGoes(a, p)
  <2>1. Matching(manager, "PreToolUse") \subseteq Positions
    BY <1>1 DEF Matching
  <2>2. /\ p \in CallRecords /\ p.step = "pre" /\ p.ran = "no" /\ p.hooks = manager
        /\ p.todo = Matching(manager, "PreToolUse")
    BY <1>1, <2>1 DEF CallRecords, CallSteps, NoCall
  <2> HIDE DEF p
  <2>3. ASSUME call'[a] = p, log'[a] = <<>> PROVE CallInv(a)'
    <3>1. HooksBefore(a)' = call'[a].todo
      BY <2>2, <2>3 DEF HooksBefore
    <3>2. HooksRun(a)' = {} /\ Ordered(log[a])'
      BY <2>3 DEF HooksRun, Ordered
    <3>. QED  BY <2>2, <2>3, <3>1, <3>2 DEF CallInv, CallAt
  <2>. QED  BY <1>1, <1>3, <2>2, <2>3, CallStep DEF Authorize
<1>. QED  BY <1>2, <1>3 DEF Authorize

\* The next hook of a call has run.
LEMMA NextHook ==
  ASSUME HooksInv, NEW a \in Callers, NEW h \in First(call[a].todo), Logged(a, h)
  PROVE  /\ h \in call[a].todo /\ h \in Positions /\ \A k \in call[a].todo : h <= k
         /\ log'[a] \in Seq(Entries) /\ log' = [log EXCEPT ![a] = log'[a]]
         /\ HooksRun(a)' = HooksRun(a) \cup {h}
         /\ Ordered(log[a]) /\ (\A x \in HooksRun(a) : Sooner(x, h)) => Ordered(log[a])'
         /\ log'[a] # <<>> /\ log'[a][Len(log'[a])].hook = h
         /\ \A i \in DOMAIN log'[a] : \/ log'[a][i] = [hook |-> h, input |-> call[a].input]
                                     \/ \E k \in DOMAIN log[a] : log'[a][i] = log[a][k]
<1> DEFINE e == [hook |-> h, input |-> call[a].input]
           u == Append(log[a], e)
<1>1. /\ call[a] \in CallRecords /\ log[a] \in Seq(Entries) /\ DOMAIN log = Callers
  BY DEF HooksInv, CallTypes
<1>2. h \in call[a].todo /\ h \in Positions /\ \A k \in call[a].todo : h <= k
  BY <1>1 DEF First, CallRecords
<1>3. e \in Entries
  BY <1>1, <1>2 DEF Entries, CallRecords
<1>4. log' = [log EXCEPT ![a] = u] /\ log'[a] = u
  BY <1>1 DEF Logged, Told
<1>5. /\ u \in Seq(Entries) /\ u # <<>> /\ u[Len(u)] = e
      /\ {u[i].hook : i \in DOMAIN u} = {log[a][i].hook : i \in DOMAIN log[a]} \cup {e.hook}
      /\ Ordered(log[a]) /\ (\A x \in {log[a][i].hook : i \in DOMAIN log[a]} : Sooner(x, e.hook)) => Ordered(u)
      /\ \A i \in DOMAIN u : u[i] = e \/ \E k \in DOMAIN log[a] : u[i] = log[a][k]
  BY <1>1, <1>3, OneLogged
<1>6. e.hook = h
  OBVIOUS
<1> HIDE DEF u
<1>7. HooksRun(a)' = HooksRun(a) \cup {h}
  BY <1>4, <1>5, <1>6 DEF HooksRun
<1>8. Ordered(log[a]) /\ (\A x \in HooksRun(a) : Sooner(x, h)) => Ordered(log[a])'
  <2>1. Ordered(log[a]) /\ (\A x \in HooksRun(a) : Sooner(x, h)) => Ordered(u)
    BY <1>5, <1>6 DEF HooksRun
  <2>. QED  BY <1>4, <2>1 DEF Ordered, Sooner
<1>9. log'[a] \in Seq(Entries) /\ log' = [log EXCEPT ![a] = log'[a]]
  BY <1>4, <1>5
<1>10. log'[a] # <<>> /\ log'[a][Len(log'[a])].hook = h
  BY <1>4, <1>5, <1>6
<1>11. \A i \in DOMAIN log'[a] : log'[a][i] = e \/ \E k \in DOMAIN log[a] : log'[a][i] = log[a][k]
  BY <1>4, <1>5
<1>. QED  BY <1>2, <1>7, <1>8, <1>9, <1>10, <1>11

LEMMA PreToolUseKeeps ==
  ASSUME HooksInv, NEW a \in Callers, PreToolUse(a)
  PROVE  HooksInv'
<1>1. PICK h \in First(call[a].todo) :
        /\ Logged(a, h)
        /\ \/ CallGoes(a, Passed(a, h))
           \/ CallGoes(a, [Passed(a, h) EXCEPT !.input = @ + 1])
           \/ CallGoes(a, Result(Asked(a), "denied"))
           \/ CallGoes(a, Failed(a, h))
  BY DEF PreToolUse
<1>2. call[a] \in CallRecords /\ CallInv(a) /\ call[a].step = "pre" /\ manager' = manager
  BY DEF HooksInv, CallTypes, PreToolUse, CallAt
<1>3. log'[a] \in Seq(Entries) /\ log' = [log EXCEPT ![a] = log'[a]]
  BY <1>1, NextHook
<1>4. /\ h \in call[a].todo /\ \A k \in call[a].todo : h <= k
      /\ HooksRun(a)' = HooksRun(a) \cup {h}
      /\ Ordered(log[a]) /\ (\A x \in HooksRun(a) : Sooner(x, h)) => Ordered(log[a])'
  BY <1>1, NextHook
<1>5. /\ Ordered(log[a]) /\ call[a].todo \subseteq HooksBefore(a) /\ call[a].todo \subseteq Positions
      /\ HooksRun(a) = HooksBefore(a) \ call[a].todo /\ call[a].ran = "no"
      /\ \A i \in HooksRun(a), k \in call[a].todo : i < k
  BY <1>2 DEF CallInv, CallAt, CallRecords
<1>6. Ordered(log[a])'
  BY <1>4, <1>5, OneEvent
<1>7. ASSUME NEW i \in HooksRun(a) \cup {h}, NEW k \in call[a].todo \ {h} PROVE i < k
  <2>1. h <= k /\ h # k /\ h \in Nat /\ k \in Nat
    BY <1>4, <1>5, PositionsAreNumbers
  <2>. QED  BY <1>5, <2>1
\* The hook lets the call through, as it was or with another input.
<1>8. ASSUME NEW c \in CallRecords, c.step = "pre", c.todo = call[a].todo \ {h}, c.hooks = call[a].hooks,
             c.ran = "no", CallGoes(a, c)
      PROVE  HooksInv'
  <2>1. ASSUME call'[a] = c PROVE CallInv(a)'
    <3>1. HooksBefore(a)' = HooksBefore(a)
      BY <1>8, <2>1, SameHooks
    <3>2. HooksRun(a)' = HooksBefore(a) \ c.todo
      BY <1>4, <1>5, <1>8
    <3>3. \A i \in HooksRun(a)', k \in c.todo : i < k
      BY <1>4, <1>7, <1>8
    <3>. QED  BY <1>5, <1>6, <1>8, <2>1, <3>1, <3>2, <3>3 DEF CallInv, CallAt
  <2>. QED  BY <1>2, <1>3, <1>8, <2>1, CallStep
\* The hook ends it.
<1>9. ASSUME NEW c \in CallRecords, c.step = "done", c.ran = "no", CallGoes(a, c)
      PROVE  HooksInv'
  <2>1. ASSUME call'[a] = c PROVE CallInv(a)'
    BY <1>9, <2>1 DEF CallInv, CallAt
  <2>. QED  BY <1>2, <1>3, <1>9, <2>1, CallStep
<1>10. CASE CallGoes(a, Passed(a, h))
  <2>1. /\ Passed(a, h) \in CallRecords /\ Passed(a, h).step = "pre" /\ Passed(a, h).todo = call[a].todo \ {h}
        /\ Passed(a, h).hooks = call[a].hooks /\ Passed(a, h).ran = "no"
    BY <1>2, <1>5 DEF Passed, CallRecords
  <2>. QED  BY <1>8, <1>10, <2>1
<1>11. CASE CallGoes(a, [Passed(a, h) EXCEPT !.input = @ + 1])
  <2> DEFINE c == [Passed(a, h) EXCEPT !.input = @ + 1]
  <2>1. /\ c \in CallRecords /\ c.step = "pre" /\ c.todo = call[a].todo \ {h}
        /\ c.hooks = call[a].hooks /\ c.ran = "no"
    <3>1. call[a].input + 1 \in Nat /\ call[a].todo \ {h} \in SUBSET Positions
      BY <1>2, <1>5 DEF CallRecords
    <3>2. c = [call[a] EXCEPT !.todo = call[a].todo \ {h}, !.input = call[a].input + 1]
      BY <1>2 DEF Passed, CallRecords
    <3> HIDE DEF c
    <3>. QED  BY <1>2, <1>5, <3>1, <3>2 DEF CallRecords
  <2> HIDE DEF c
  <2>. QED  BY <1>8, <1>11, <2>1 DEF c
<1>12. ASSUME NEW r \in {"denied", "hook_error"}
       PROVE  LET c == Result(Asked(a), r) IN c \in CallRecords /\ c.step = "done" /\ c.ran = "no"
  BY <1>2, <1>5 DEF Result, Asked, CallAt, CallRecords, CallSteps, Results
<1>13. CASE CallGoes(a, Result(Asked(a), "denied"))
  BY <1>9, <1>12, <1>13
<1>14. CASE CallGoes(a, Result(Asked(a), "hook_error"))
  BY <1>9, <1>12, <1>14
<1>. QED  BY <1>1, <1>10, <1>11, <1>13, <1>14 DEF Failed

\* A step that runs no hook.
LEMMA QuietStep ==
  ASSUME HooksInv, NEW a \in Callers, NEW c \in CallRecords, CallGoes(a, c), manager' = manager, log' = log,
         call'[a] = c => CallInv(a)'
  PROVE  HooksInv'
<1>1. log[a] \in Seq(Entries) /\ log' = [log EXCEPT ![a] = log[a]]
  BY DEF HooksInv, CallTypes
<1>. QED  BY <1>1, CallStep

\* Only hooks before the tool have run.
LEMMA NoneAfter ==
  ASSUME NEW a, HooksRun(a) = HooksBefore(a)
  PROVE  /\ ToldInput(a) /\ HooksRun(a) = AllHooks(a) \ HooksAfter(a) /\ HooksRun(a) \cap HooksAfter(a) = {}
         /\ HooksRun(a) \subseteq AllHooks(a)
         /\ \A i \in HooksRun(a), k \in AllHooks(a) : Sooner(k, i) => k \in HooksRun(a)
<1>1. \A i \in DOMAIN log[a] : log[a][i].hook \in HooksBefore(a)
  BY DEF HooksRun
<1>2. ToldInput(a)
  BY <1>1 DEF ToldInput
<1>. QED  BY <1>2, EventsDiffer DEF AllHooks

LEMMA SameInput ==
  ASSUME NEW a, ToldInput(a), call'[a].hooks = call[a].hooks, call'[a].input = call[a].input, log'[a] = log[a]
  PROVE  ToldInput(a)'
BY SameHooks DEF ToldInput

\* The tool is over, and its hooks are those after it.
LEMMA AfterToolKeeps ==
  ASSUME HooksInv, NEW a \in Callers, Ordered(log[a]), HooksRun(a) = HooksBefore(a),
         NEW ran \in {"no", "yes"}, NEW result \in {"invalid", "ok", "tool_error"}, AfterTool(a, ran, result),
         manager' = manager, log' = log
  PROVE  HooksInv'
<1> DEFINE c == [call[a] EXCEPT !.step = "post", !.todo = PostHooks(a), !.ran = ran, !.result = result]
<1>1. call[a] \in CallRecords
  BY DEF HooksInv, CallTypes
<1>2. PostHooks(a) = HooksAfter(a) /\ HooksAfter(a) \subseteq Positions
  BY <1>1 DEF PostHooks, HooksAfter, Matching, CallRecords
<1>3. /\ c \in CallRecords /\ c.step = "post" /\ c.todo = HooksAfter(a) /\ c.result = result
      /\ c.hooks = call[a].hooks /\ c.input = call[a].input
  BY <1>1, <1>2 DEF CallRecords, CallSteps, Results
<1>4. CallGoes(a, c)
  BY DEF AfterTool
<1> HIDE DEF c
<1>5. ASSUME call'[a] = c PROVE CallInv(a)'
  <2>1. HooksBefore(a)' = HooksBefore(a) /\ HooksAfter(a)' = HooksAfter(a) /\ AllHooks(a)' = AllHooks(a)
    BY <1>3, <1>5, SameHooks
  <2>2. HooksRun(a)' = HooksRun(a) /\ Ordered(log[a])'
    BY SameLog
  <2>3. ToldInput(a)'
    BY <1>3, <1>5, NoneAfter, SameInput
  <2>. QED  BY <1>3, <1>5, <2>1, <2>2, <2>3, NoneAfter DEF CallInv, CallAt
<1>. QED  BY <1>3, <1>4, <1>5, QuietStep

LEMMA ValidateKeeps ==
  ASSUME HooksInv, NEW a \in Callers, Validate(a)
  PROVE  HooksInv'
<1>1. /\ call[a] \in CallRecords /\ CallInv(a) /\ call[a].step = "pre" /\ call[a].todo = {}
      /\ manager' = manager /\ log' = log
  BY DEF HooksInv, CallTypes, Validate, CallAt
<1>2. Ordered(log[a]) /\ HooksRun(a) = HooksBefore(a)
  BY <1>1 DEF CallInv, CallAt
<1>3. CASE AfterTool(a, "no", "invalid")
  BY <1>1, <1>2, <1>3, AfterToolKeeps
<1>4. CASE CallGoes(a, [call[a] EXCEPT !.step = "handler"])
  <2> DEFINE c == [call[a] EXCEPT !.step = "handler"]
  <2>1. c \in CallRecords /\ c.step = "handler" /\ c.hooks = call[a].hooks
    BY <1>1 DEF CallRecords, CallSteps
  <2> HIDE DEF c
  <2>2. ASSUME call'[a] = c PROVE CallInv(a)'
    <3>1. HooksBefore(a)' = HooksBefore(a) /\ HooksRun(a)' = HooksRun(a) /\ Ordered(log[a])'
      BY <1>1, <1>2, <2>1, <2>2, SameHooks, SameLog
    <3>. QED  BY <1>2, <2>1, <2>2, <3>1 DEF CallInv, CallAt
  <2>. QED  BY <1>1, <1>4, <2>1, <2>2, QuietStep DEF c
<1>. QED  BY <1>3, <1>4 DEF Validate

LEMMA RunHandlerKeeps ==
  ASSUME HooksInv, NEW a \in Callers, RunHandler(a)
  PROVE  HooksInv'
<1>1. /\ call[a] \in CallRecords /\ CallInv(a) /\ call[a].step = "handler" /\ manager' = manager /\ log' = log
  BY DEF HooksInv, CallTypes, RunHandler, CallAt
<1>2. Ordered(log[a]) /\ HooksRun(a) = HooksBefore(a)
  BY <1>1 DEF CallInv, CallAt
<1>3. CASE AfterTool(a, "yes", "ok") \/ AfterTool(a, "yes", "tool_error")
  BY <1>1, <1>2, <1>3, AfterToolKeeps
<1>4. CASE CallGoes(a, Result([call[a] EXCEPT !.ran = "interrupted"], "interrupted"))
  <2> DEFINE c == Result([call[a] EXCEPT !.ran = "interrupted"], "interrupted")
  <2>1. /\ c \in CallRecords /\ c.step = "done" /\ c.hooks = call[a].hooks /\ c.input = call[a].input
        /\ c.result = "interrupted"
    BY <1>1 DEF Result, CallRecords, CallSteps, Results
  <2> HIDE DEF c
  <2>2. ASSUME call'[a] = c PROVE CallInv(a)'
    <3>1. HooksBefore(a)' = HooksBefore(a) /\ AllHooks(a)' = AllHooks(a)
      BY <2>1, <2>2, SameHooks
    <3>2. HooksRun(a)' = HooksRun(a) /\ Ordered(log[a])' /\ ToldInput(a)'
      BY <1>1, <1>2, <2>1, <2>2, SameLog, NoneAfter, SameInput
    <3>3. \A i \in HooksRun(a)', k \in AllHooks(a)' : Sooner(k, i)' => k \in HooksRun(a)'
      BY <1>2, <3>1, <3>2, NoneAfter DEF Sooner
    <3>. QED  BY <1>2, <2>1, <2>2, <3>1, <3>2, <3>3, NoneAfter DEF CallInv, CallAt
  <2>. QED  BY <1>1, <1>4, <2>1, <2>2, QuietStep DEF c
<1>. QED  BY <1>3, <1>4 DEF RunHandler

LEMMA PostToolUseKeeps ==
  ASSUME HooksInv, NEW a \in Callers, PostToolUse(a)
  PROVE  HooksInv'
<1>1. PICK h \in First(call[a].todo) : Logged(a, h) /\ (CallGoes(a, Passed(a, h)) \/ CallGoes(a, Failed(a, h)))
  BY DEF PostToolUse
<1>2. call[a] \in CallRecords /\ CallInv(a) /\ call[a].step = "post" /\ manager' = manager
  BY DEF HooksInv, CallTypes, PostToolUse, CallAt
<1>3. log'[a] \in Seq(Entries) /\ log' = [log EXCEPT ![a] = log'[a]]
  BY <1>1, NextHook
<1>4. /\ h \in call[a].todo /\ \A k \in call[a].todo : h <= k
      /\ HooksRun(a)' = HooksRun(a) \cup {h}
      /\ Ordered(log[a]) /\ (\A x \in HooksRun(a) : Sooner(x, h)) => Ordered(log[a])'
  BY <1>1, NextHook
<1>5. /\ Ordered(log[a]) /\ call[a].todo \subseteq HooksAfter(a) /\ call[a].todo \subseteq Positions
      /\ HooksRun(a) = AllHooks(a) \ call[a].todo /\ ToldInput(a) /\ call[a].result # "hook_error"
      /\ \A i \in HooksRun(a) \cap HooksAfter(a), k \in call[a].todo : i < k
  BY <1>2 DEF CallInv, CallAt, CallRecords
<1>6. /\ HooksBefore(a) \subseteq HooksRun(a) /\ h \in HooksAfter(a)
      /\ HooksRun(a) \cup {h} \subseteq AllHooks(a)
  BY <1>4, <1>5, EventsDiffer DEF AllHooks
<1>7. \A x \in HooksRun(a) : Sooner(x, h)
  <2>1. \A x \in HooksRun(a) : x \in HooksBefore(a) \/ x \in HooksAfter(a)
    BY <1>5 DEF AllHooks
  <2>2. \A x \in HooksBefore(a) : Sooner(x, h)
    BY <1>6, EventsDiffer
  <2>3. \A x \in HooksRun(a) \cap HooksAfter(a) : Sooner(x, h)
    BY <1>4, <1>5, <1>6, OneEvent
  <2>. QED  BY <2>1, <2>2, <2>3
<1>8. Ordered(log[a])'
  BY <1>4, <1>5, <1>7
<1>9. ASSUME NEW k \in call[a].todo \ {h} PROVE h < k
  <2>1. h <= k /\ h # k /\ h \in Nat /\ k \in Nat
    BY <1>4, <1>5, PositionsAreNumbers
  <2>. QED  BY <2>1
\* The input the hook was told of is that of the call.
<1>10. ASSUME call'[a].hooks = call[a].hooks, call'[a].input = call[a].input PROVE ToldInput(a)'
  <2>1. HooksBefore(a)' = HooksBefore(a)
    BY <1>10, SameHooks
  <2>2. ASSUME NEW i \in DOMAIN log'[a], log'[a][i].hook \notin HooksBefore(a) PROVE log'[a][i].input = call[a].input
    <3>1. log'[a][i] = [hook |-> h, input |-> call[a].input] \/ \E k \in DOMAIN log[a] : log'[a][i] = log[a][k]
      BY <1>1, NextHook
    <3>. QED  BY <1>5, <2>2, <3>1 DEF ToldInput
  <2>. QED  BY <1>10, <2>1, <2>2 DEF ToldInput
\* It has run.
<1>11. CASE CallGoes(a, Passed(a, h))
  <2> DEFINE c == Passed(a, h)
  <2>1. /\ c \in CallRecords /\ c.step = "post" /\ c.todo = call[a].todo \ {h} /\ c.hooks = call[a].hooks
        /\ c.input = call[a].input /\ c.result = call[a].result
    BY <1>2, <1>5 DEF Passed, CallRecords
  <2> HIDE DEF c
  <2>2. ASSUME call'[a] = c PROVE CallInv(a)'
    <3>1. HooksAfter(a)' = HooksAfter(a) /\ AllHooks(a)' = AllHooks(a)
      BY <2>1, <2>2, SameHooks
    <3>2. HooksRun(a)' = AllHooks(a) \ c.todo
      BY <1>4, <1>5, <1>6, <2>1
    <3>3. \A i \in HooksRun(a)' \cap HooksAfter(a), k \in c.todo : i < k
      BY <1>4, <1>5, <1>9, <2>1
    <3>4. c.todo \subseteq HooksAfter(a)
      BY <1>5, <2>1
    <3>. QED  BY <1>5, <1>8, <1>10, <2>1, <2>2, <3>1, <3>2, <3>3, <3>4 DEF CallInv, CallAt
  <2>. QED  BY <1>2, <1>3, <1>11, <2>1, <2>2, CallStep DEF c
\* It fails the call, after all hooks that come sooner.
<1>12. CASE CallHooks[h].onError = "fail" /\ CallGoes(a, Result(Asked(a), "hook_error"))
  <2> DEFINE c == Result(Asked(a), "hook_error")
  <2>1. /\ c \in CallRecords /\ c.step = "done" /\ c.hooks = call[a].hooks /\ c.input = call[a].input
        /\ c.result = "hook_error"
    BY <1>2, <1>5 DEF Result, Asked, CallAt, CallRecords, CallSteps, Results
  <2> HIDE DEF c
  <2>2. ASSUME call'[a] = c PROVE CallInv(a)'
    <3>1. HooksBefore(a)' = HooksBefore(a) /\ AllHooks(a)' = AllHooks(a)
      BY <2>1, <2>2, SameHooks
    <3>2. log'[a] # <<>> /\ Failing(log'[a][Len(log'[a])].hook)
      BY <1>1, <1>12, NextHook DEF Failing
    <3>3. ASSUME NEW i \in HooksRun(a) \cup {h}, NEW k \in call[a].todo \ {h}, Sooner(k, i) PROVE FALSE
      <4>1. k \in HooksAfter(a) /\ i \in AllHooks(a)
        BY <1>5, <1>6
      <4>2. i \notin HooksBefore(a)
        BY <3>3, <4>1, EventsDiffer
      <4>3. i \in HooksAfter(a) /\ k < i
        BY <3>3, <4>1, <4>2, OneEvent DEF AllHooks
      <4>4. i \in Nat /\ k \in Nat
        <5>1. i \in Positions
          BY <1>2, <4>3 DEF HooksAfter, Matching, CallRecords
        <5>. QED  BY <1>5, <5>1, PositionsAreNumbers
      <4>5. i <= k
        <5>1. i = h \/ i < k
          BY <1>5, <4>3
        <5>. QED  BY <1>9, <4>4, <5>1
      <4>. QED  BY <4>3, <4>4, <4>5
    <3>4. \A i \in HooksRun(a)', k \in AllHooks(a) : Sooner(k, i)' => k \in HooksRun(a)'
      BY <1>4, <1>5, <3>3 DEF Sooner
    <3>5. HooksBefore(a) \subseteq HooksRun(a)' /\ HooksRun(a)' \subseteq AllHooks(a)
      BY <1>4, <1>6
    <3>. QED  BY <1>8, <1>10, <2>1, <2>2, <3>1, <3>2, <3>4, <3>5 DEF CallInv, CallAt, Failing
  <2>. QED  BY <1>2, <1>3, <1>12, <2>1, <2>2, CallStep DEF c
<1>. QED  BY <1>1, <1>11, <1>12 DEF Failed

LEMMA ReturnedKeeps ==
  ASSUME HooksInv, NEW a \in Callers, Returned(a)
  PROVE  HooksInv'
<1>1. /\ call[a] \in CallRecords /\ CallInv(a) /\ call[a].step = "post" /\ call[a].todo = {}
      /\ manager' = manager /\ log' = log
  BY DEF HooksInv, CallTypes, Returned, CallAt
<1>2. Ordered(log[a]) /\ HooksRun(a) = AllHooks(a) /\ ToldInput(a) /\ call[a].result # "hook_error"
  BY <1>1 DEF CallInv, CallAt
<1> DEFINE c == [call[a] EXCEPT !.step = "done"]
<1>3. /\ c \in CallRecords /\ c.step = "done" /\ c.hooks = call[a].hooks /\ c.input = call[a].input
      /\ c.result = call[a].result /\ CallGoes(a, c)
  BY <1>1 DEF Returned, CallRecords, CallSteps
<1> HIDE DEF c
<1>4. ASSUME call'[a] = c PROVE CallInv(a)'
  <2>1. HooksBefore(a)' = HooksBefore(a) /\ AllHooks(a)' = AllHooks(a)
    BY <1>3, <1>4, SameHooks
  <2>2. HooksRun(a)' = HooksRun(a) /\ Ordered(log[a])' /\ ToldInput(a)'
    BY <1>1, <1>2, <1>3, <1>4, SameLog, SameInput
  <2>. QED  BY <1>2, <1>3, <1>4, <2>1, <2>2 DEF CallInv, CallAt, AllHooks
<1>. QED  BY <1>1, <1>3, <1>4, QuietStep

LEMMA RecordedKeeps ==
  ASSUME HooksInv, NEW a \in Callers, Recorded(a)
  PROVE  HooksInv'
<1>1. NoCall \in CallRecords /\ NoCall.step = "idle"
  BY DEF NoCall, CallRecords, CallSteps, Results
<1>2. call'[a] = NoCall => CallInv(a)'
  BY <1>1 DEF CallInv, CallAt
<1>. QED  BY <1>1, <1>2, QuietStep DEF Recorded

LEMMA SetHookEnabledKeeps ==
  ASSUME HooksInv, SetHookEnabled
  PROVE  HooksInv'
<1>1. CallTypes'
  BY DEF HooksInv, CallTypes, SetHookEnabled, SymDiff, Positions
<1>2. \A a \in Callers : CallInv(a)'
  BY OtherCall DEF HooksInv, SetHookEnabled
<1>. QED  BY <1>1, <1>2 DEF HooksInv

-----------------------------------------------------------------------------
(* The theorem.                                                            *)

LEMMA HooksStart == HooksInit => HooksInv
<1> SUFFICES ASSUME HooksInit PROVE HooksInv
  OBVIOUS
<1>1. NoCall \in CallRecords /\ NoCall.step = "idle" /\ <<>> \in Seq(Entries)
  BY DEF NoCall, CallRecords, CallSteps, Results
<1>2. CallTypes
  BY <1>1 DEF HooksInit, CallTypes, Positions
<1>3. \A a \in Callers : CallInv(a)
  BY <1>1 DEF HooksInit, CallInv, CallAt
<1>. QED  BY <1>2, <1>3 DEF HooksInv

LEMMA HooksGo == HooksInv /\ [HooksNext]_hooksVars => HooksInv'
<1> SUFFICES ASSUME HooksInv, [HooksNext]_hooksVars PROVE HooksInv'
  OBVIOUS
<1>1. CASE UNCHANGED hooksVars
  <2>1. \A a \in Callers : CallInv(a)'
    BY <1>1, OtherCall DEF HooksInv, hooksVars
  <2>. QED  BY <1>1, <2>1 DEF HooksInv, CallTypes, hooksVars
<1>2. CASE SetHookEnabled
  BY <1>2, SetHookEnabledKeeps
<1>3. ASSUME NEW a \in Callers,
             Authorize(a) \/ PreToolUse(a) \/ Validate(a) \/ RunHandler(a) \/ PostToolUse(a) \/ Returned(a)
               \/ Recorded(a)
      PROVE  HooksInv'
  BY <1>3, AuthorizeKeeps, PreToolUseKeeps, ValidateKeeps, RunHandlerKeeps, PostToolUseKeeps, ReturnedKeeps,
     RecordedKeeps
<1>. QED  BY <1>1, <1>2, <1>3 DEF HooksNext

LEMMA HooksInvMeans == HooksInv => AuditedAsRun
<1> SUFFICES ASSUME HooksInv, NEW a \in Callers
    PROVE LET before == Matching(call[a].hooks, "PreToolUse")
              all == before \cup Matching(call[a].hooks, "PostToolUse")
              heard == log[a]
          IN /\ CallAt(a, "handler") => HooksRun(a) = before
             /\ CallAt(a, "done") /\ call[a].ran # "no" =>
                  /\ before \subseteq HooksRun(a) /\ HooksRun(a) \subseteq all
                  /\ \A i, k \in DOMAIN heard : i < k => Sooner(heard[i].hook, heard[k].hook)
                  /\ \A i \in HooksRun(a), k \in all : Sooner(k, i) => k \in HooksRun(a)
                  /\ \A i \in DOMAIN heard : heard[i].hook \notin before => heard[i].input = call[a].input
                  /\ call[a].result = "hook_error" => heard # <<>> /\ Failing(heard[Len(heard)].hook)
                  /\ call[a].result \in {"ok", "tool_error"} => HooksRun(a) = all
  BY DEF AuditedAsRun
<1>1. CallInv(a)
  BY DEF HooksInv
<1>. QED  BY <1>1 DEF CallInv, HooksBefore, HooksAfter, AllHooks, Ordered, ToldInput

\* A tool runs only after all hooks before it of one configuration, and the hooks after it of
\* the same configuration are told of the call in their order, with the input it was given.
THEOREM Audited == HooksSpec => []AuditedAsRun
<1>1. HooksInit => HooksInv
  BY HooksStart
<1>2. HooksInv /\ [HooksNext]_hooksVars => HooksInv'
  BY HooksGo
<1>3. HooksInv => AuditedAsRun
  BY HooksInvMeans
<1>. QED  BY <1>1, <1>2, <1>3, PTL DEF HooksSpec
=============================================================================
