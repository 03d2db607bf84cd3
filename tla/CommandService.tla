--------------------------- MODULE CommandService ---------------------------
(***************************************************************************)
(* What the commands of the remote clients are promised: a command whose   *)
(* delivery is repeated runs once and gets the answer of that run, as long *)
(* as fewer than Window other commands were served since, by a connector   *)
(* that has not been restarted. RemoteCommands implements it.              *)
(***************************************************************************)
EXTENDS Integers, Sequences, FiniteSets

CONSTANTS Commands, \* identities of requests
          Window    \* how many commands are remembered

VARIABLES
  log,     \* the services of commands, in their order: run, or answered again
  since,   \* length of log when the connector was last started
  answer   \* the answer a command has got

None == [ok |-> FALSE, told |-> "nothing"]
Refused == [ok |-> FALSE, told |-> "refused"]
Outcome(ok) == [ok |-> ok, told |-> "outcome"]

Served(c, ok, runs) == [command |-> c, ok |-> ok, runs |-> runs]

Init == log = <<>> /\ since = 0 /\ answer = [c \in Commands |-> None]

Services(c) == {i \in DOMAIN log : i > since /\ log[i].command = c}

\* The last service of c is i.
LastService(c, i) == i \in Services(c) /\ \A j \in Services(c) : j <= i

Others(i) == {log[j].command : j \in i+1..Len(log)} \ {log[i].command}

Remembered(c) == \E i \in Services(c) : LastService(c, i) /\ Cardinality(Others(i)) < Window

Run(c) ==
  /\ ~Remembered(c)
  /\ \E ok \in BOOLEAN : log' = Append(log, Served(c, ok, TRUE))
  /\ UNCHANGED <<since, answer>>

Repeat(c) ==
  /\ Remembered(c)
  /\ \E i \in DOMAIN log : LastService(c, i) /\ log' = Append(log, Served(c, log[i].ok, FALSE))
  /\ UNCHANGED <<since, answer>>

Answer(c) ==
  /\ answer[c] = None
  /\ \E i \in DOMAIN log : log[i].command = c /\ answer' = [answer EXCEPT ![c] = Outcome(log[i].ok)]
  /\ UNCHANGED <<log, since>>

\* The device is offline, or its connection fails: nothing is known of the command.
Refuse(c) ==
  /\ answer[c] = None
  /\ answer' = [answer EXCEPT ![c] = Refused]
  /\ UNCHANGED <<log, since>>

Restart ==
  /\ since' = Len(log)
  /\ UNCHANGED <<log, answer>>

Next ==
  \/ Restart
  \/ \E c \in Commands : Run(c) \/ Repeat(c) \/ Answer(c) \/ Refuse(c)

Spec == Init /\ [][Next]_<<log, since, answer>>
=============================================================================
