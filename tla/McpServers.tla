----------------------------- MODULE McpServers -----------------------------
(***************************************************************************)
(* The servers of tools outside the program (mcp/registry.py,              *)
(* mcp/client.py): a registry keeps a client for each server, a client     *)
(* opens its session, with a thread and the process of the server, when it *)
(* is first used.  The thread of a turn calls tools while the user enables,*)
(* disables and refreshes servers or reloads the plugins (agent.py,        *)
(* desktop/backend/server.py).                                             *)
(***************************************************************************)
EXTENDS Integers, Sequences, FiniteSets

CONSTANTS Servers,
          MaxClients,     \* bound: clients created
          MaxSessions,    \* bound: sessions opened
          MaxRegistries   \* bound: registries, one more than reloads

VARIABLES
  enabled,   \* the servers switched on
  reg,       \* the registry of the runtime
  clients,   \* the client a registry has for a server, 0 for none
  tools,     \* the servers with tools in the tool registry
  shut,      \* registries that have been closed
  owner,     \* the registry that created a client
  session,   \* the session a client refers to, 0 for none
  open,      \* sessions with a running thread and server process
  opened,    \* sessions opened so far
  thread,    \* what a thread is doing
  stray      \* clients with a session that nobody is left to close (history)

mcpVars == <<enabled, reg, clients, tools, shut, owner, session, open, opened, thread, stray>>

Threads == {"turn", "ui"}
Registries == 1..MaxRegistries
Clients == DOMAIN owner

NoWork == [at |-> "idle", why |-> "none", server |-> 0, client |-> 0, todo |-> {}]

\* The runtime begins with an empty registry and registers the tools of the servers.
McpInit ==
  /\ enabled \in SUBSET Servers
  /\ reg = 1 /\ clients = [r \in Registries |-> [s \in Servers |-> 0]]
  /\ tools = {} /\ shut = {} /\ owner = <<>> /\ session = <<>> /\ open = {} /\ opened = 0
  /\ stray = {}
  /\ thread = [t \in Threads |->
                 IF t = "ui" THEN [NoWork EXCEPT !.at = "register", !.todo = enabled] ELSE NoWork]

\* The clients that a close will come to: those of a registry that is not closed, and the one
\* that is being registered and not stored yet.
Held(c) == \E r \in Registries \ shut, s \in Servers : clients[r][s] = c
Registering(c) == thread["ui"].why = "register" /\ thread["ui"].client = c

At(t, at) == thread[t].at = at

Go(t, state) == thread' = [thread EXCEPT ![t] = state]

\* Only one thread is in the locked part of a client.
Free(c) == \A t \in Threads : ~(At(t, "initialize") /\ thread[t].client = c)
-----------------------------------------------------------------------------
(* MCPClient.                                                              *)

\* A mutant of MustOpen: every call opens a session.
MustOpenAlways(c) == TRUE

\* initialize: a client with a session is not initialized again.
MustOpen(c) == session[c] = 0

\* The thread, the transport and the process of the server are started under the lock, also
\* for the call of a turn whose client has been taken out of its registry or closed meanwhile.
OpenSession(t) ==
  LET c == thread[t].client
  IN /\ At(t, "use") /\ Free(c)
     /\ IF MustOpen(c)
        THEN /\ opened < MaxSessions /\ opened' = opened + 1
             /\ open' = open \cup {opened'}
             /\ session' = [session EXCEPT ![c] = opened']
             /\ Go(t, [thread[t] EXCEPT !.at = "initialize"])
             /\ stray' = IF t = "turn" /\ ~Held(c) THEN stray \cup {c} ELSE stray
        ELSE /\ Go(t, [thread[t] EXCEPT !.at = "request"])
             /\ UNCHANGED <<open, session, opened, stray>>
     /\ UNCHANGED <<enabled, reg, clients, tools, shut, owner>>

\* The session answers, or not in time: then it is closed.
Initialized(t) ==
  /\ At(t, "initialize")
  /\ LET c == thread[t].client
     IN \/ /\ Go(t, [thread[t] EXCEPT !.at = "request"])
           /\ UNCHANGED <<open, session>>
        \/ /\ Go(t, [thread[t] EXCEPT !.at = "failed"])
           /\ open' = open \ {session[c]}
           /\ session' = [session EXCEPT ![c] = 0]
  /\ UNCHANGED <<enabled, reg, clients, tools, shut, owner, opened, stray>>

\* tools/list or tools/call: the session may have been closed by another thread.
Request(t) ==
  /\ At(t, "request")
  /\ \/ session[thread[t].client] # 0 /\ Go(t, [thread[t] EXCEPT !.at = "answered"])
     \/ Go(t, [thread[t] EXCEPT !.at = "failed"])
  /\ UNCHANGED <<enabled, reg, clients, tools, shut, owner, session, open, opened, stray>>

\* close, of the clients in cs: each one waits for its lock.
CloseClients(cs) ==
  /\ \A c \in cs : Free(c)
  /\ open' = open \ {session[c] : c \in cs}
  /\ session' = [c \in Clients |-> IF c \in cs THEN 0 ELSE session[c]]

Use(t, why, s, c) == Go(t, [thread[t] EXCEPT !.at = "use", !.why = why, !.server = s, !.client = c])

\* MCPClient(server)
NewClient ==
  /\ Cardinality(Clients) < MaxClients
  /\ owner' = Append(owner, reg)
  /\ session' = Append(session, 0)
-----------------------------------------------------------------------------
(* MCPRegistry, in the thread of the user interface.                       *)

\* register_tools, the next server: its client is not stored yet.
RegisterNext ==
  /\ At("ui", "register")
  /\ \/ /\ \E s \in thread["ui"].todo : Use("ui", "register", s, Len(owner) + 1)
        /\ NewClient
     \/ /\ thread["ui"].todo = {}
        /\ Go("ui", NoWork)
        /\ UNCHANGED <<owner, session>>
  /\ UNCHANGED <<enabled, reg, clients, tools, shut, open, opened, stray>>

Mine == [clients EXCEPT ![reg][thread["ui"].server] = thread["ui"].client]

\* register_tools: the client is stored when its tools are known; an error goes to errors, and
\* the client with its session to nobody.
Registered ==
  /\ thread["ui"].why = "register" /\ thread["ui"].at \in {"answered", "failed"}
  /\ LET s == thread["ui"].server
     IN IF At("ui", "answered")
        THEN clients' = Mine /\ tools' = tools \cup {s} /\ UNCHANGED stray
        ELSE /\ stray' = IF session[thread["ui"].client] # 0 THEN stray \cup {thread["ui"].client} ELSE stray
             /\ UNCHANGED <<clients, tools>>
  /\ Go("ui", [NoWork EXCEPT !.at = "register", !.todo = thread["ui"].todo \ {thread["ui"].server}])
  /\ UNCHANGED <<enabled, reg, shut, owner, session, open, opened>>

\* refresh_server_tools, alone or for a server that was just enabled: a client that is
\* missing is created and stored at once.
Refresh(s) ==
  /\ At("ui", "idle") /\ reg \notin shut
  /\ enabled' = enabled \cup {s}
  /\ LET c == clients[reg][s]
     IN IF c # 0
        THEN Use("ui", "refresh", s, c) /\ UNCHANGED <<clients, owner, session>>
        ELSE /\ Use("ui", "refresh", s, Len(owner) + 1)
             /\ NewClient
             /\ clients' = [clients EXCEPT ![reg][s] = Len(owner) + 1]
  /\ UNCHANGED <<reg, tools, shut, open, opened, stray>>

Refreshed ==
  /\ thread["ui"].why = "refresh" /\ thread["ui"].at \in {"answered", "failed"}
  /\ tools' = IF At("ui", "answered") THEN tools \cup {thread["ui"].server} ELSE tools
  /\ Go("ui", NoWork)
  /\ UNCHANGED <<enabled, reg, clients, shut, owner, session, open, opened, stray>>

\* set_server_enabled(False)
Disable(s) ==
  /\ At("ui", "idle") /\ reg \notin shut
  /\ enabled' = enabled \ {s}
  /\ tools' = tools \ {s}
  /\ CloseClients({clients[reg][s]} \ {0})
  /\ clients' = [clients EXCEPT ![reg][s] = 0]
  /\ UNCHANGED <<reg, shut, owner, opened, thread, stray>>

\* close; the clients stay in the registry.
CloseRegistry ==
  /\ CloseClients({clients[reg][s] : s \in Servers} \ {0})
  /\ shut' = shut \cup {reg}

\* reload_plugin_configuration: the old registry is closed, a new one registers the tools of
\* the servers the configuration has now.
Reload ==
  /\ At("ui", "idle") /\ reg \notin shut /\ reg < MaxRegistries
  /\ CloseRegistry
  /\ reg' = reg + 1
  /\ tools' = {}
  /\ enabled' \in SUBSET Servers
  /\ Go("ui", [NoWork EXCEPT !.at = "register", !.todo = enabled'])
  /\ UNCHANGED <<clients, owner, opened, stray>>

\* The runtime is closed, when the worker of the turns has ended.
Close ==
  /\ At("ui", "idle") /\ At("turn", "idle") /\ reg \notin shut
  /\ CloseRegistry
  /\ UNCHANGED <<enabled, reg, clients, tools, owner, opened, thread, stray>>
-----------------------------------------------------------------------------
(* The thread of a turn.                                                   *)

\* The tool is found, with the registry that made it; permission and hooks come between.
FindTool(s) ==
  /\ At("turn", "idle") /\ reg \notin shut /\ s \in tools
  /\ Go("turn", [NoWork EXCEPT !.at = "found", !.server = s, !.todo = {reg}])
  /\ UNCHANGED <<enabled, reg, clients, tools, shut, owner, session, open, opened, stray>>

\* The handler; a server that has no client any more is an error.
Handler ==
  /\ At("turn", "found")
  /\ LET s == thread["turn"].server
         c == clients[CHOOSE r \in thread["turn"].todo : TRUE][s]
     IN IF c = 0 THEN Go("turn", NoWork) ELSE Use("turn", "call", s, c)
  /\ UNCHANGED <<enabled, reg, clients, tools, shut, owner, session, open, opened, stray>>

Called ==
  /\ thread["turn"].at \in {"answered", "failed"}
  /\ Go("turn", NoWork)
  /\ UNCHANGED <<enabled, reg, clients, tools, shut, owner, session, open, opened, stray>>

McpNext ==
  \/ \E t \in Threads : OpenSession(t) \/ Initialized(t) \/ Request(t)
  \/ RegisterNext \/ Registered \/ Refreshed \/ Reload \/ Close
  \/ \E s \in Servers : Refresh(s) \/ Disable(s) \/ FindTool(s)
  \/ Handler \/ Called

McpSpec == McpInit /\ [][McpNext]_mcpVars
-----------------------------------------------------------------------------
\* A session that runs is the one its client refers to, and the next close of that client will
\* come: its registry is not closed and holds it, or is about to.  Two threads that use a client
\* first leave no server process behind, nor does one that uses it while another closes it.  The
\* two ways to leave one are those stray tells of, against Docs/Core/09-MCP.md:157: a turn's call
\* that opens the session of a client taken out of its registry or closed with it, and a
\* registration that fails after the session opened.
SessionsKnown ==
  /\ \A n \in open : \E c \in Clients :
       session[c] = n /\ (Held(c) \/ Registering(c) \/ c \in stray)
  /\ \A c, d \in Clients : session[c] # 0 /\ session[c] = session[d] => c = d
=============================================================================
