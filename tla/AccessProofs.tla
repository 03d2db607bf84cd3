---------------------------- MODULE AccessProofs ----------------------------
(* Theorems about who may act: first about the owner of a Project on one   *)
(* computer (OwnerLease), then about access to the Relay (RelayAccess).    *)
EXTENDS OwnerLease, RelayAccess, TLAPS

-----------------------------------------------------------------------------
(***************************************************************************)
(* Runtime ownership when the starts and stops of different processes do   *)
(* not overlap, for any number of processes, Projects, leases, failures    *)
(* and crashes.                                                            *)
(*                                                                         *)
(* The property speaks of runtimes, the code of files.  LeaseInv ties them *)
(* together: whoever runs or manages a runtime holds the written owner     *)
(* file of its Project, from the write of the file to its release, and an  *)
(* owner file that is about to be unlinked names nobody alive.             *)
(***************************************************************************)

Files == [token : Tokens, pid : Pids, written : BOOLEAN]

Call == [pc : PCs, project : Projects \cup {{}}, token : Tokens \cup {0}, tries : 0..1,
         view : SUBSET Connection, again : BOOLEAN]

CallsTyped ==
  /\ call \in [Pids -> Call]
  /\ \A p \in Pids : call[p].pc # "idle" => call[p].project \in Projects /\ call[p].token \in Tokens

Types ==
  /\ CallsTyped
  /\ lease \in [Projects -> Files \cup {NoFile}]
  /\ hosts \subseteq Host /\ connections \subseteq Connection /\ dead \subseteq Pids
  /\ managed \in [Pids -> [Projects -> Tokens \cup {0}]]

Busy(p) == call[p].pc # "idle"

\* Calls of different processes do not overlap, and a process that died is in none.
Exclusive ==
  /\ \A p, q \in Pids : Busy(p) /\ Busy(q) => p = q
  /\ \A p \in dead : ~Busy(p) /\ \A j \in Projects : managed[p][j] = 0

Holds(p, j, token) == lease[j] = [token |-> token, pid |-> p, written |-> TRUE]

Publishing == {"publish", "publish_write"}

\* Where a call has written its owner file and not yet unlinked it.
Owning == Publishing \cup {"launch", "remove", "remove_write", "release", "release_unlink"}

\* What a call knows of the owner file of its Project.
CallFile(p) ==
  /\ Busy(p) => managed[p][call[p].project] = 0
  /\ call[p].pc \in Owning => Holds(p, call[p].project, call[p].token)
  /\ call[p].pc = "write" => File(p) = [token |-> call[p].token, pid |-> p, written |-> FALSE]
  /\ call[p].pc = "unlink" => ~OwnerIsAlive(p)
  /\ call[p].pc \in {"probe", "unlink"} => call[p].tries = 0
  /\ call[p].pc = "create" /\ call[p].tries # 0 => File(p) = NoFile

CallsFile == \A p \in Pids : CallFile(p)

\* Managed runtimes have their owner files.
ManagedHolds ==
  \A p \in Pids, j \in Projects : managed[p][j] # 0 => Holds(p, j, managed[p][j])

\* A runtime is managed, or about to be, by a process that is alive.
HostsManaged ==
  \A h \in hosts :
    /\ h.pid \notin dead
    /\ \/ managed[h.pid][h.project] = h.token
       \/ call[h.pid].pc \in Publishing /\ h = ThisHost(h.pid)

LeaseInv == Types /\ Exclusive /\ CallsFile /\ ManagedHolds /\ HostsManaged
-----------------------------------------------------------------------------
\* The process of a runtime holds the owner file of its Project.
LEMMA HostHolds ==
  ASSUME LeaseInv, NEW h \in hosts
  PROVE  h \in Host /\ Holds(h.pid, h.project, h.token)
  <1>1. h \in Host /\ h.pid \in Pids /\ h.project \in Projects /\ h.token \in Tokens /\ h.token # 0
    BY DEF LeaseInv, Types, Host, Tokens
  <1>2. CASE managed[h.pid][h.project] = h.token
    BY <1>1, <1>2 DEF LeaseInv, ManagedHolds
  <1>3. CASE call[h.pid].pc \in Publishing /\ h = ThisHost(h.pid)
    BY <1>1, <1>3 DEF LeaseInv, CallsFile, CallFile, Owning, ThisHost
  <1> QED
    BY <1>1, <1>2, <1>3 DEF LeaseInv, HostsManaged

\* The invariant gives the property.
LEMMA OneHost == LeaseInv => OneReadyRuntime
  <1> SUFFICES ASSUME LeaseInv, NEW g \in hosts, NEW h \in hosts, g.project = h.project
               PROVE  g = h
    BY DEF OneReadyRuntime
  <1>1. g \in Host /\ h \in Host /\ Holds(g.pid, g.project, g.token) /\ Holds(h.pid, h.project, h.token)
    BY HostHolds
  <1>2. g.pid = h.pid /\ g.token = h.token
    BY <1>1 DEF Holds
  <1> QED
    BY <1>1, <1>2 DEF Host

LEMMA InitLease == LeaseInit => LeaseInv
  BY DEF LeaseInit, LeaseInv, Types, CallsTyped, Exclusive, CallsFile, CallFile, ManagedHolds, HostsManaged, Busy, Idle, Call, PCs,
         Owning, Publishing, Connection
-----------------------------------------------------------------------------
(* The steps.  While one process is in a call no other is, so the files it *)
(* knows of change only by its own steps.                                  *)

USE DEF Owning, Publishing, Holds, Busy, File, At

\* What is known of a process that is in a call.
LEMMA InCall ==
  ASSUME LeaseInv, NEW p \in Pids, Busy(p)
  PROVE  /\ p \notin dead /\ call[p] \in Call /\ call[p].project \in Projects
         /\ call[p].token \in Tokens /\ 0 \notin Tokens
         /\ \A q \in Pids : Busy(q) => q = p
  BY DEF LeaseInv, Types, CallsTyped, Exclusive, Tokens

\* The call of p goes on elsewhere.
LEMMA CallGoesTo ==
  ASSUME LeaseInv, NEW p \in Pids, Busy(p), NEW pc \in PCs, Goto(p, pc)
  PROVE  /\ CallsTyped' /\ call'[p] \in Call /\ call'[p].pc = pc
         /\ call'[p].project = call[p].project /\ call'[p].token = call[p].token
         /\ call'[p].tries = call[p].tries
         /\ \A q \in Pids : Busy(q)' => q = p
  <1>1. call[p] \in Call /\ call \in [Pids -> Call]
    BY DEF LeaseInv, Types, CallsTyped
  <1>2. call' = [call EXCEPT ![p] = [call[p] EXCEPT !.pc = pc]]
    BY DEF Goto
  <1>3. [call[p] EXCEPT !.pc = pc] \in Call
    BY <1>1 DEF Call
  <1>4. call'[p] = [call[p] EXCEPT !.pc = pc] /\ \A q \in Pids : q # p => call'[q] = call[q]
    BY <1>1, <1>2
  <1>5. call' \in [Pids -> Call]
    BY <1>1, <1>2, <1>3
  <1>6. call'[p] \in Call /\ call'[p].pc = pc /\ call'[p].project = call[p].project
        /\ call'[p].token = call[p].token /\ call'[p].tries = call[p].tries
    BY <1>1, <1>3, <1>4 DEF Call
  <1>7. call[p].project \in Projects /\ call[p].token \in Tokens /\ \A q \in Pids : Busy(q) => q = p
    BY InCall
  <1>8. CallsTyped'
    BY <1>4, <1>5, <1>6, <1>7 DEF LeaseInv, Types, CallsTyped
  <1>9. \A q \in Pids : Busy(q)' => q = p
    BY <1>4, <1>7
  <1> QED
    BY <1>6, <1>8, <1>9

\* The call of p is over.
LEMMA CallReturns ==
  ASSUME LeaseInv, NEW p \in Pids, \A q \in Pids : Busy(q) => q = p, Return(p)
  PROVE  CallsTyped' /\ \A q \in Pids : ~Busy(q)'
  <1>1. Idle \in Call /\ Idle.pc = "idle"
    BY DEF Idle, Call, PCs
  <1> QED
    BY <1>1 DEF LeaseInv, Types, CallsTyped, Return

\* The call of p is one of start for a new lease.
LEMMA CallAcquires ==
  ASSUME LeaseInv, NEW p \in Pids, NEW j \in Projects, \A q \in Pids : Busy(q) => q = p, BeginAcquire(p, j)
  PROVE  /\ CallsTyped' /\ call'[p].pc = "create" /\ call'[p].project = j /\ call'[p].tries = 0
         /\ \A q \in Pids : Busy(q)' => q = p
  <1> DEFINE c == [Idle EXCEPT !.pc = "create", !.project = j, !.token = leaseCounts.token]
  <1>0. leaseCounts.token \in Tokens /\ "create" \in PCs
    BY DEF BeginAcquire, PCs
  <1>1. c \in Call /\ c.pc = "create" /\ c.project = j /\ c.tries = 0 /\ c.token \in Tokens
    <2>1. Idle \in Call
      BY DEF Idle, Call, PCs
    <2> QED
      BY <1>0, <2>1 DEF Idle, Call
  <1>2. call' = [call EXCEPT ![p] = c]
    BY DEF BeginAcquire
  <1> HIDE DEF c
  <1> QED
    BY <1>1, <1>2 DEF LeaseInv, Types, CallsTyped

\* The fields of a held owner file.
LEMMA HeldFile ==
  ASSUME NEW p, NEW j, NEW t, Holds(p, j, t)
  PROVE  lease[j].written /\ lease[j].pid = p /\ lease[j].token = t
  OBVIOUS

\* A Project whose owner file is missing, unwritten or of a dead process has no runtime.
LEMMA Ownerless ==
  ASSUME LeaseInv, NEW j \in Projects, ~lease[j].written \/ lease[j].pid \in dead
  PROVE  /\ \A q \in Pids : managed[q][j] = 0
         /\ \A h \in hosts : h.project # j
  <1>1. ASSUME NEW q \in Pids, managed[q][j] # 0 PROVE FALSE
    <2>1. Holds(q, j, managed[q][j])
      BY <1>1 DEF LeaseInv, ManagedHolds
    <2>2. lease[j].written /\ lease[j].pid = q
      BY <2>1, HeldFile
    <2> QED
      BY <1>1, <2>2 DEF LeaseInv, Exclusive
  <1>2. ASSUME NEW h \in hosts, h.project = j PROVE FALSE
    <2>1. Holds(h.pid, j, h.token)
      BY <1>2, HostHolds
    <2>2. lease[j].written /\ lease[j].pid = h.pid
      BY <2>1, HeldFile
    <2> QED
      BY <2>2 DEF LeaseInv, HostsManaged
  <1> QED
    BY <1>1, <1>2

\* A Project whose owner file is held by a process that does not manage it is managed by none.
LEMMA OnlyOwner ==
  ASSUME LeaseInv, NEW p \in Pids, NEW j \in Projects, NEW t, Holds(p, j, t), managed[p][j] = 0
  PROVE  \A q \in Pids : managed[q][j] = 0
  <1> SUFFICES ASSUME NEW q \in Pids, managed[q][j] # 0 PROVE FALSE
    OBVIOUS
  <1>0. Holds(q, j, managed[q][j])
    BY DEF LeaseInv, ManagedHolds
  <1>1. lease[j].pid = q
    BY <1>0, HeldFile
  <1>2. lease[j].pid = p
    OBVIOUS
  <1> QED
    BY <1>1, <1>2

-----------------------------------------------------------------------------
\* What a step of a call may do while runtimes stay as they are.
LEMMA CallStepKeeps ==
  ASSUME LeaseInv, NEW p \in Pids, Busy(p), CallsTyped', \A q \in Pids : Busy(q)' => q = p, CallFile(p)',
         UNCHANGED <<hosts, managed, dead>>, connections' \subseteq Connection,
         lease' \in [Projects -> Files \cup {NoFile}],
         \A j \in Projects : lease'[j] = lease[j] \/ \A q \in Pids : managed[q][j] = 0,
         call[p].pc \in Publishing =>
           call'[p].pc \in Publishing /\ call'[p].project = call[p].project /\ call'[p].token = call[p].token
  PROVE  LeaseInv'
  <1>1. p \notin dead /\ \A q \in Pids : Busy(q) => q = p
    BY InCall
  <1>2. Types'
    BY DEF LeaseInv, Types
  <1>3. Exclusive'
    BY <1>1 DEF LeaseInv, Types, Exclusive
  <1>4. CallsFile'
    BY DEF CallsFile, CallFile
  <1>5. ManagedHolds'
    BY DEF LeaseInv, ManagedHolds
  <1>6. HostsManaged'
    BY <1>1 DEF LeaseInv, Types, HostsManaged, ThisHost, Host
  <1> QED
    BY <1>2, <1>3, <1>4, <1>5, <1>6 DEF LeaseInv

LEMMA CreateKeeps ==
  ASSUME LeaseInv, NEW p \in Pids, Create(p)
  PROVE  LeaseInv'
  <1>1. Busy(p) /\ CallFile(p)
    BY DEF Create, LeaseInv, CallsFile
  <1>2. CASE File(p) = NoFile
    <2> DEFINE file == [token |-> call[p].token, pid |-> p, written |-> FALSE]
    <2>1. file \in Files /\ ~File(p).written
      BY <1>1, <1>2, InCall DEF Files, NoFile
    <2>2. Goto(p, "write") /\ SetFile(p, file) /\ "write" \in PCs
      BY <1>2 DEF Create, PCs
    <2> HIDE DEF file
    <2>3. /\ lease' \in [Projects -> Files \cup {NoFile}] /\ lease'[call[p].project] = file
          /\ \A j \in Projects : j # call[p].project => lease'[j] = lease[j]
      BY <1>1, <2>1, <2>2, InCall DEF LeaseInv, Types, SetFile
    <2>4. CallFile(p)'
      BY <1>1, <2>2, <2>3, CallGoesTo DEF CallFile, Create, file
    <2> QED
      BY <1>1, <2>1, <2>2, <2>3, <2>4, InCall, CallGoesTo, Ownerless, CallStepKeeps
         DEF Create, LeaseInv, Types
  <1>3. CASE File(p) # NoFile
    <2>1. Goto(p, "probe") /\ "probe" \in PCs /\ lease' = lease
      BY <1>3 DEF Create, PCs
    <2>2. CallFile(p)'
      BY <1>1, <1>3, <2>1, CallGoesTo DEF CallFile, Create
    <2> QED
      BY <1>1, <2>1, <2>2, InCall, CallGoesTo, CallStepKeeps DEF Create, LeaseInv, Types
  <1> QED
    BY <1>2, <1>3

LEMMA ProbeKeeps ==
  ASSUME LeaseInv, NEW p \in Pids, Probe(p)
  PROVE  LeaseInv'
  <1>1. Busy(p) /\ CallFile(p)
    BY DEF Probe, LeaseInv, CallsFile
  <1>2. CASE Return(p)
    <2>1. CallFile(p)'
      BY <1>1, <1>2, InCall, CallReturns DEF CallFile
    <2> QED
      BY <1>1, <1>2, <2>1, InCall, CallReturns, CallStepKeeps DEF Probe, LeaseInv, Types
  <1>3. CASE ~OwnerIsAlive(p) /\ Goto(p, "unlink")
    <2>1. CallFile(p)'
      BY <1>1, <1>3, CallGoesTo DEF CallFile, Probe, OwnerIsAlive, PCs
    <2> QED
      BY <1>1, <1>3, <2>1, InCall, CallGoesTo, CallStepKeeps DEF Probe, LeaseInv, Types, PCs
  <1> QED
    BY <1>2, <1>3 DEF Probe

LEMMA UnlinkKeeps ==
  ASSUME LeaseInv, NEW p \in Pids, Unlink(p)
  PROVE  LeaseInv'
  <1>1. Busy(p) /\ CallFile(p)
    BY DEF Unlink, LeaseInv, CallsFile
  <1>2. ~OwnerIsAlive(p) /\ call[p].tries = 0
    BY <1>1 DEF CallFile, Unlink
  <1> DEFINE c == [call[p] EXCEPT !.pc = "create", !.tries = @ + 1]
  <1>0. call[p].tries + 1 \in 0..1 /\ "create" \in PCs /\ ~TriesUsed(call[p].tries + 1)
    BY <1>2 DEF PCs, TriesUsed
  <1>3. c \in Call /\ c.pc = "create" /\ c.project = call[p].project /\ c.token = call[p].token
    BY <1>0, <1>1, InCall DEF Call
  <1>4. call' = [call EXCEPT ![p] = c]
    <2>1. call' = [call EXCEPT ![p].pc = "create", ![p].tries = @ + 1]
      BY <1>0 DEF Unlink
    <2> QED
      BY <2>1 DEF LeaseInv, Types, CallsTyped, Call
  <1> HIDE DEF c
  <1>5. CallsTyped' /\ call'[p] = c /\ \A q \in Pids : Busy(q)' => q = p
    BY <1>1, <1>3, <1>4, InCall DEF LeaseInv, Types, CallsTyped
  <1>6. /\ lease' \in [Projects -> Files \cup {NoFile}] /\ lease'[call[p].project] = NoFile
        /\ \A j \in Projects : j # call[p].project => lease'[j] = lease[j]
    BY <1>1, InCall DEF Unlink, SetFile, LeaseInv, Types
  <1>7. CallFile(p)'
    BY <1>1, <1>3, <1>5, <1>6 DEF CallFile, Unlink
  <1>8. \A q \in Pids : managed[q][call[p].project] = 0
    BY <1>1, <1>2, InCall, Ownerless DEF OwnerIsAlive
  <1> QED
    BY <1>1, <1>5, <1>6, <1>7, <1>8, CallStepKeeps DEF Unlink, LeaseInv, Types

LEMMA WriteKeeps ==
  ASSUME LeaseInv, NEW p \in Pids, Write(p)
  PROVE  LeaseInv'
  <1>1. Busy(p) /\ CallFile(p) /\ Goto(p, "launch") /\ "launch" \in PCs
    BY DEF Write, LeaseInv, CallsFile, PCs
  <1> DEFINE file == [token |-> call[p].token, pid |-> p, written |-> TRUE]
  <1>2. File(p) = [token |-> call[p].token, pid |-> p, written |-> FALSE]
    BY <1>1 DEF CallFile, Write
  <1>3. File(p).token = call[p].token /\ ~File(p).written
    BY <1>2
  <1>4. SetFile(p, file)
    <2>1. SetFile(p, [File(p) EXCEPT !.written = TRUE])
      BY <1>3 DEF Write
    <2>2. ASSUME NEW f \in Files
          PROVE  LET g == [f EXCEPT !.written = TRUE]
                 IN  g \in Files /\ g.token = f.token /\ g.pid = f.pid /\ g.written = TRUE
      BY DEF Files
    <2>3. File(p) \in Files /\ File(p).token = call[p].token /\ File(p).pid = p
      BY <1>1, <1>2, InCall DEF Files
    <2>4. file \in Files /\ file.token = call[p].token /\ file.pid = p /\ file.written = TRUE
      BY <1>1, InCall DEF Files
    <2>5. ASSUME NEW f \in Files, NEW g \in Files, f.token = g.token, f.pid = g.pid, f.written = g.written
          PROVE  f = g
      BY <2>5 DEF Files
    <2>6. [File(p) EXCEPT !.written = TRUE] = file
      <3> DEFINE g == [File(p) EXCEPT !.written = TRUE]
      <3>1. g \in Files /\ g.token = file.token /\ g.pid = file.pid /\ g.written = file.written
        BY <2>2, <2>3, <2>4
      <3> HIDE DEF file, g
      <3>2. file = g
        BY <2>4, <2>5, <3>1
      <3> QED
        BY <3>2 DEF g
    <2> QED
      BY <2>1, <2>6
  <1>5. file \in Files
    BY <1>1, InCall DEF Files
  <1> HIDE DEF file
  <1>6. /\ lease' \in [Projects -> Files \cup {NoFile}] /\ lease'[call[p].project] = file
        /\ \A j \in Projects : j # call[p].project => lease'[j] = lease[j]
    BY <1>1, <1>4, <1>5, InCall DEF SetFile, LeaseInv, Types
  <1>7. CallFile(p)'
    BY <1>1, <1>6, CallGoesTo DEF CallFile, Write, file
  <1>8. \A q \in Pids : managed[q][call[p].project] = 0
    BY <1>1, <1>3, InCall, Ownerless
  <1> QED
    BY <1>1, <1>6, <1>7, <1>8, CallGoesTo, CallStepKeeps DEF Write, LeaseInv, Types

\* The steps of start and of a release that touch neither owner files nor runtimes.
LEMMA QuietKeeps ==
  ASSUME LeaseInv, NEW p \in Pids,
         \/ LaunchFails(p) \/ NotReady(p) \/ RemoveWrite(p) \/ ReleaseRead(p)
  PROVE  LeaseInv'
  <1>1. Busy(p) /\ CallFile(p) /\ call[p].pc \in Owning \ Publishing
    BY DEF LaunchFails, NotReady, RemoveWrite, ReleaseRead, LeaseInv, CallsFile
  <1>2. PICK pc \in {"release", "release_unlink", "released"} : Goto(p, pc)
    BY DEF LaunchFails, NotReady, RemoveWrite, ReleaseRead
  <1>3. UNCHANGED <<lease, hosts, managed, dead>> /\ connections' \subseteq Connection
    <2>1. call[p].view \subseteq Connection
      BY <1>1, InCall DEF Call
    <2> QED
      BY <2>1 DEF LaunchFails, NotReady, RemoveWrite, ReleaseRead, LeaseInv, Types
  <1>4. CallsTyped' /\ CallFile(p)' /\ \A q \in Pids : Busy(q)' => q = p
    BY <1>1, <1>2, <1>3, CallGoesTo, ZenonT(30) DEF CallFile, PCs
  <1> QED
    BY <1>1, <1>3, <1>4, CallStepKeeps DEF LeaseInv, Types

\* The connections file is read.
LEMMA ReadKeeps ==
  ASSUME LeaseInv, NEW p \in Pids, PublishRead(p) \/ RemoveRead(p)
  PROVE  LeaseInv'
  <1>1. Busy(p) /\ CallFile(p) /\ call[p] \in Call /\ \A q \in Pids : Busy(q) => q = p
    BY InCall DEF PublishRead, RemoveRead, LeaseInv, CallsFile
  <1>2. PICK pc \in {"publish_write", "remove_write"} :
          /\ call' = [call EXCEPT ![p].pc = pc, ![p].view = connections]
          /\ call[p].pc \in Publishing <=> pc \in Publishing
          /\ call[p].pc \in Owning
    <2>1. CASE PublishRead(p)
      BY <2>1 DEF PublishRead
    <2>2. CASE RemoveRead(p)
      BY <2>2 DEF RemoveRead
    <2> QED
      BY <2>1, <2>2
  <1> DEFINE c == [call[p] EXCEPT !.pc = pc, !.view = connections]
  <1>3. c \in Call /\ c.pc = pc /\ c.project = call[p].project /\ c.token = call[p].token
    BY <1>1 DEF Call, PCs, LeaseInv, Types
  <1>4. call' = [call EXCEPT ![p] = c]
    BY <1>2
  <1> HIDE DEF c
  <1>5. CallsTyped' /\ call'[p] = c /\ \A q \in Pids : Busy(q)' => q = p
    BY <1>1, <1>2, <1>3, <1>4, ZenonT(30) DEF LeaseInv, Types, CallsTyped
  <1>6. UNCHANGED <<lease, hosts, managed, dead, connections>>
    BY DEF PublishRead, RemoveRead
  <1>7. CallFile(p)'
    BY <1>1, <1>2, <1>3, <1>5, <1>6 DEF CallFile
  <1> QED
    BY <1>1, <1>2, <1>3, <1>5, <1>6, <1>7, CallStepKeeps DEF LeaseInv, Types

LEMMA RemoveFailsKeeps ==
  ASSUME LeaseInv, NEW p \in Pids, RemoveFails(p)
  PROVE  LeaseInv'
  <1>1. Busy(p) /\ Return(p)
    BY DEF RemoveFails
  <1>2. CallFile(p)'
    BY <1>1, InCall, CallReturns DEF CallFile
  <1> QED
    BY <1>1, <1>2, InCall, CallReturns, CallStepKeeps DEF RemoveFails, LeaseInv, Types

LEMMA ReleaseUnlinkKeeps ==
  ASSUME LeaseInv, NEW p \in Pids, ReleaseUnlink(p)
  PROVE  LeaseInv'
  <1>1. Busy(p) /\ CallFile(p) /\ Goto(p, "released") /\ "released" \in PCs
    BY DEF ReleaseUnlink, LeaseInv, CallsFile, PCs
  <1>2. /\ lease' \in [Projects -> Files \cup {NoFile}]
        /\ \A j \in Projects : j # call[p].project => lease'[j] = lease[j]
    BY <1>1, InCall DEF ReleaseUnlink, SetFile, LeaseInv, Types
  <1>3. CallFile(p)'
    BY <1>1, CallGoesTo DEF CallFile, ReleaseUnlink
  <1>4. \A q \in Pids : managed[q][call[p].project] = 0
    BY <1>1, InCall, OnlyOwner DEF CallFile, ReleaseUnlink
  <1> QED
    BY <1>1, <1>2, <1>3, <1>4, CallGoesTo, CallStepKeeps DEF ReleaseUnlink, LeaseInv, Types

LEMMA ReleasedKeeps ==
  ASSUME LeaseInv, NEW p \in Pids, Released(p)
  PROVE  LeaseInv'
  <1>1. Busy(p) /\ CallFile(p) /\ call[p].project \in Projects /\ \A q \in Pids : Busy(q) => q = p
    BY InCall DEF Released, LeaseInv, CallsFile
  <1>2. CASE BeginAcquire(p, call[p].project)
    <2>1. CallFile(p)'
      BY <1>1, <1>2, CallAcquires DEF CallFile, Released
    <2> QED
      BY <1>1, <1>2, <2>1, CallAcquires, CallStepKeeps DEF Released, LeaseInv, Types
  <1>3. CASE Return(p)
    <2>1. CallFile(p)'
      BY <1>1, <1>3, CallReturns DEF CallFile
    <2> QED
      BY <1>1, <1>3, <2>1, CallReturns, CallStepKeeps DEF Released, LeaseInv, Types
  <1> QED
    BY <1>2, <1>3 DEF Released

-----------------------------------------------------------------------------
(* Steps that change runtimes.                                             *)

LEMMA LaunchKeeps ==
  ASSUME LeaseInv, NEW p \in Pids, Launch(p)
  PROVE  LeaseInv'
  <1>1. Busy(p) /\ CallFile(p) /\ p \notin dead /\ Goto(p, "publish") /\ "publish" \in PCs
    BY DEF Launch, LeaseInv, CallsFile, PCs
  <1>2. ThisHost(p) \in Host /\ ThisHost(p)' = ThisHost(p)
    BY <1>1, InCall, CallGoesTo DEF ThisHost, Host
  <1>3. Types'
    BY <1>1, <1>2, CallGoesTo DEF Launch, LeaseInv, Types
  <1>4. Exclusive'
    BY <1>1, CallGoesTo DEF Launch, LeaseInv, Types, Exclusive
  <1>5. CallsFile'
    BY <1>1, CallGoesTo DEF Launch, LeaseInv, CallsFile, CallFile
  <1>6. ManagedHolds'
    BY DEF Launch, LeaseInv, ManagedHolds
  <1>7. HostsManaged'
    <2>1. \A h \in hosts : managed[h.pid][h.project] = h.token
      BY <1>1, InCall DEF Launch, LeaseInv, Types, HostsManaged, Host
    <2>2. hosts' = hosts \cup {ThisHost(p)} /\ ThisHost(p).pid = p
      BY DEF Launch, ThisHost
    <2> QED
      BY <1>1, <1>2, <2>1, <2>2, CallGoesTo DEF Launch, LeaseInv, HostsManaged
  <1> QED
    BY <1>3, <1>4, <1>5, <1>6, <1>7 DEF LeaseInv

LEMMA PublishWriteKeeps ==
  ASSUME LeaseInv, NEW p \in Pids, PublishWrite(p)
  PROVE  LeaseInv'
  <1>1. /\ Busy(p) /\ CallFile(p) /\ p \notin dead /\ Return(p) /\ call[p] \in Call
        /\ call[p].project \in Projects /\ call[p].token \in Tokens /\ 0 \notin Tokens
        /\ \A q \in Pids : Busy(q) => q = p
    BY InCall DEF PublishWrite, LeaseInv, CallsFile
  <1>2. /\ CallsTyped' /\ \A q \in Pids : ~Busy(q)'
    BY <1>1, CallReturns
  <1>3. /\ managed' \in [Pids -> [Projects -> Tokens \cup {0}]]
        /\ managed'[p][call[p].project] = call[p].token
        /\ \A q \in Pids, j \in Projects :
             q # p \/ j # call[p].project => managed'[q][j] = managed[q][j]
    BY <1>1 DEF PublishWrite, LeaseInv, Types
  <1>4. Types'
    <2>1. WithProject(p) \subseteq Connection
      BY <1>1 DEF WithProject, Connection, Call
    <2> QED
      BY <1>2, <1>3, <2>1 DEF PublishWrite, LeaseInv, Types
  <1>5. Exclusive'
    BY <1>1, <1>2, <1>3 DEF PublishWrite, LeaseInv, Types, Exclusive
  <1>6. CallsFile'
    BY <1>2 DEF CallsFile, CallFile
  <1>7. ManagedHolds'
    <2>1. Holds(p, call[p].project, call[p].token)
      BY <1>1 DEF PublishWrite, CallFile
    <2> SUFFICES ASSUME NEW q \in Pids, NEW j \in Projects, managed'[q][j] # 0
                 PROVE  Holds(q, j, managed'[q][j])
      BY DEF PublishWrite, ManagedHolds
    <2>2. CASE q = p /\ j = call[p].project
      BY <1>3, <2>1, <2>2
    <2>3. CASE q # p \/ j # call[p].project
      BY <1>3, <2>3 DEF LeaseInv, ManagedHolds
    <2> QED
      BY <2>2, <2>3
  <1>8. HostsManaged'
    <2> SUFFICES ASSUME NEW h \in hosts
                 PROVE  h.pid \notin dead /\ managed'[h.pid][h.project] = h.token
      BY DEF HostsManaged, PublishWrite
    <2>1. h \in Host /\ h.pid \in Pids /\ h.project \in Projects /\ h.token \in Tokens
      BY DEF LeaseInv, Types, Host
    <2>2. CASE managed[h.pid][h.project] = h.token
      <3>1. managed[p][call[p].project] = 0
        BY <1>1 DEF CallFile
      <3> QED
        BY <1>1, <1>3, <2>1, <2>2, <3>1 DEF LeaseInv, HostsManaged
    <2>3. CASE call[h.pid].pc \in Publishing /\ h = ThisHost(h.pid)
      <3>1. h.pid = p
        BY <1>1, <2>1, <2>3
      <3> QED
        BY <1>1, <1>3, <2>3, <3>1 DEF ThisHost
    <2> QED
      BY <2>2, <2>3 DEF LeaseInv, HostsManaged
  <1> QED
    BY <1>4, <1>5, <1>6, <1>7, <1>8 DEF LeaseInv

LEMMA PublishFailsKeeps ==
  ASSUME LeaseInv, NEW p \in Pids, PublishFails(p)
  PROVE  LeaseInv'
  <1>1. Busy(p) /\ CallFile(p) /\ p \notin dead /\ Goto(p, "release") /\ "release" \in PCs
    BY DEF PublishFails, LeaseInv, CallsFile, PCs
  <1>2. Types'
    BY <1>1, CallGoesTo DEF PublishFails, LeaseInv, Types
  <1>3. Exclusive'
    BY <1>1, CallGoesTo DEF PublishFails, LeaseInv, Types, Exclusive
  <1>4. CallsFile'
    BY <1>1, CallGoesTo DEF PublishFails, LeaseInv, CallsFile, CallFile
  <1>5. ManagedHolds'
    BY DEF PublishFails, LeaseInv, ManagedHolds
  <1>6. HostsManaged'
    BY <1>1, InCall DEF PublishFails, LeaseInv, Types, HostsManaged, Host
  <1> QED
    BY <1>2, <1>3, <1>4, <1>5, <1>6 DEF LeaseInv

\* Runtimes end without a call.
LEMMA RuntimeClosesKeeps ==
  ASSUME LeaseInv, NEW h \in hosts, RuntimeCloses(h)
  PROVE  LeaseInv'
  <1>1. UNCHANGED <<lease, connections, managed, call, dead>> /\ hosts' \subseteq hosts
    BY DEF RuntimeCloses
  <1> QED
    BY <1>1 DEF LeaseInv, Types, CallsTyped, Exclusive, CallsFile, CallFile, OwnerIsAlive, ManagedHolds,
                HostsManaged, ThisHost

LEMMA CrashKeeps ==
  ASSUME LeaseInv, NEW p \in Pids, Crash(p)
  PROVE  LeaseInv'
  <1>1. /\ call' \in [Pids -> Call] /\ ~Busy(p)'
        /\ \A q \in Pids : q # p => call'[q] = call[q]
    <2>1. Idle \in Call /\ Idle.pc = "idle"
      BY DEF Idle, Call, PCs
    <2> QED
      BY <2>1 DEF Crash, Return, LeaseInv, Types, CallsTyped
  <1>2. /\ managed' \in [Pids -> [Projects -> Tokens \cup {0}]]
        /\ \A j \in Projects : managed'[p][j] = 0
        /\ \A q \in Pids, j \in Projects : q # p => managed'[q][j] = managed[q][j]
    BY DEF Crash, LeaseInv, Types
  <1>3. /\ UNCHANGED <<lease, connections>> /\ dead' = dead \cup {p}
        /\ hosts' = {h \in hosts : h.pid # p}
    BY DEF Crash
  <1>4. Types'
    BY <1>1, <1>2, <1>3 DEF LeaseInv, Types, CallsTyped
  <1>5. Exclusive'
    BY <1>1, <1>2, <1>3, SMTT(20) DEF LeaseInv, Types, Exclusive
  <1>6. CallsFile'
    <2> SUFFICES ASSUME NEW q \in Pids, q # p PROVE CallFile(q)'
      BY <1>1 DEF CallsFile, CallFile
    <2>1. CallFile(q) /\ (Busy(q) => call[q].project \in Projects)
      BY DEF LeaseInv, CallsFile, Types, CallsTyped
    <2>2. call'[q] = call[q] /\ (~OwnerIsAlive(q) => ~OwnerIsAlive(q)')
      BY <1>1, <1>3 DEF OwnerIsAlive
    <2>3. Busy(q) => managed'[q][call[q].project] = managed[q][call[q].project]
      BY <1>2, <2>1
    <2> QED
      BY <1>3, <2>1, <2>2, <2>3 DEF CallFile
  <1>7. ManagedHolds'
    BY <1>2, <1>3 DEF LeaseInv, ManagedHolds
  <1>8. HostsManaged'
    BY <1>1, <1>2, <1>3 DEF LeaseInv, Types, HostsManaged, ThisHost, Host
  <1> QED
    BY <1>4, <1>5, <1>6, <1>7, <1>8 DEF LeaseInv

\* A process begins a call only when the others are in none.
LEMMA BeginKeeps ==
  ASSUME LeaseInv, ~Overlap, NEW p \in Pids, NEW j \in Projects, Start(p, j) \/ Stop(p, j)
  PROVE  LeaseInv'
  <1>1. p \notin dead /\ \A q \in Pids : ~Busy(q)
    BY DEF Start, Stop, MayBegin, LeaseInv, Exclusive
  <1>2. CASE managed[p][j] = 0
    <2>1. BeginAcquire(p, j) /\ UNCHANGED <<lease, connections, hosts, managed, dead>>
      BY <1>2 DEF Start, Stop
    <2>2. /\ CallsTyped' /\ call'[p].pc = "create" /\ call'[p].project = j /\ call'[p].tries = 0
          /\ \A q \in Pids : Busy(q)' => q = p
      BY <1>1, <2>1, CallAcquires
    <2>3. CallsFile'
      BY <1>2, <2>1, <2>2 DEF CallsFile, CallFile
    <2> QED
      BY <1>1, <2>1, <2>2, <2>3 DEF LeaseInv, Types, Exclusive, ManagedHolds, HostsManaged, Host
  <1>3. CASE managed[p][j] # 0
    <2>1. PICK again \in BOOLEAN : BeginStop(p, j, again)
      BY <1>3 DEF Start, Stop
    <2> DEFINE c == [Idle EXCEPT !.pc = "remove", !.project = j, !.token = managed[p][j], !.again = again]
    <2>2. managed[p][j] \in Tokens /\ Holds(p, j, managed[p][j]) /\ "remove" \in PCs
      BY <1>3 DEF LeaseInv, Types, ManagedHolds, PCs
    <2>3. c \in Call /\ c.pc = "remove" /\ c.project = j /\ c.token = managed[p][j]
      <3>1. Idle \in Call
        BY DEF Idle, Call, PCs
      <3> QED
        BY <2>1, <2>2, <3>1 DEF Idle, Call
    <2>4. call' = [call EXCEPT ![p] = c]
      BY <2>1 DEF BeginStop
    <2> HIDE DEF c
    <2>5. CallsTyped' /\ call'[p] = c /\ \A q \in Pids : Busy(q)' => q = p
      BY <1>1, <2>2, <2>3, <2>4 DEF LeaseInv, Types, CallsTyped
    <2>6. /\ managed' \in [Pids -> [Projects -> Tokens \cup {0}]] /\ managed'[p][j] = 0
          /\ \A q \in Pids, k \in Projects : q # p \/ k # j => managed'[q][k] = managed[q][k]
      BY <2>1 DEF BeginStop, LeaseInv, Types
    <2>7. UNCHANGED <<lease, connections, dead>> /\ hosts' = hosts \ HostOf(p, j)
      BY <2>1 DEF Start, Stop, BeginStop
    <2>8. Types'
      BY <2>5, <2>6, <2>7 DEF LeaseInv, Types
    <2>9. Exclusive'
      BY <1>1, <2>5, <2>6, <2>7 DEF LeaseInv, Types, Exclusive
    <2>10. CallsFile'
      BY <2>2, <2>3, <2>5, <2>6, <2>7 DEF CallsFile, CallFile
    <2>11. ManagedHolds'
      BY <2>6, <2>7 DEF LeaseInv, ManagedHolds
    <2>12. HostsManaged'
      BY <1>1, <2>6, <2>7 DEF LeaseInv, Types, HostsManaged, HostOf, Host
    <2> QED
      BY <2>8, <2>9, <2>10, <2>11, <2>12 DEF LeaseInv
  <1> QED
    BY <1>2, <1>3
-----------------------------------------------------------------------------
LEMMA NextLease ==
  ASSUME LeaseInv, ~Overlap, [LeaseNext]_leaseVars
  PROVE  LeaseInv'
  <1>1. ASSUME NEW p \in Pids, AcquireStep(p) PROVE LeaseInv'
    BY <1>1, CreateKeeps, ProbeKeeps, UnlinkKeeps, WriteKeeps DEF AcquireStep
  <1>2. ASSUME NEW p \in Pids, StartStep(p) PROVE LeaseInv'
    BY <1>2, LaunchKeeps, QuietKeeps, ReadKeeps, PublishWriteKeeps, PublishFailsKeeps DEF StartStep
  <1>3. ASSUME NEW p \in Pids, StopStep(p) PROVE LeaseInv'
    BY <1>3, ReadKeeps, QuietKeeps, RemoveFailsKeeps, ReleaseUnlinkKeeps, ReleasedKeeps DEF StopStep
  <1>4. CASE UNCHANGED leaseVars
    BY <1>4 DEF leaseVars, LeaseInv, Types, CallsTyped, Exclusive, CallsFile, CallFile, OwnerIsAlive, ManagedHolds,
                HostsManaged, ThisHost
  <1> QED
    BY <1>1, <1>2, <1>3, <1>4, CrashKeeps, BeginKeeps, RuntimeClosesKeeps DEF LeaseNext

\* Of the runtimes that start has not given up waiting for, a Project has one
\* (ProjectRuntimeManager.start, _OwnerLease), for any number of processes, Projects, leases,
\* failures and crashes, unless the starts and stops of two processes overlap (Overlap).
THEOREM OneRuntime ==
  ASSUME ~Overlap
  PROVE  LeaseSpec => []OneReadyRuntime
  <1>1. LeaseInv /\ [LeaseNext]_leaseVars => LeaseInv'
    BY NextLease
  <1> QED
    BY <1>1, InitLease, OneHost, PTL DEF LeaseSpec

\* A start that is refused after it has looked at the owner file found there a process that
\* was alive (_owner_is_alive): a crash leaves nobody locked out.
THEOREM RefusedByLiveOwner ==
  ASSUME ~Overlap
  PROVE  LeaseSpec => RefusedOnlyByLiveOwner
  <1>1. LeaseInv /\ [LeaseNext]_leaseVars => LeaseInv'
    BY NextLease
  <1>2. ASSUME LeaseInv, [LeaseNext]_leaseVars
        PROVE  [\A p \in Pids \ dead' :
                  call[p].pc \in {"probe", "unlink"} /\ call'[p].pc = "idle" =>
                    lease[call[p].project].written /\ lease[call[p].project].pid \notin dead]_leaseVars
    <2> SUFFICES ASSUME LeaseNext, NEW p \in Pids \ dead', call[p].pc \in {"probe", "unlink"}, call'[p].pc = "idle"
                 PROVE  OwnerIsAlive(p)
      BY <1>2 DEF OwnerIsAlive
    <2>1. /\ Busy(p) /\ CallFile(p) /\ call[p] \in Call /\ call \in [Pids -> Call]
          /\ \A q \in Pids : Busy(q) => q = p
      BY <1>2, InCall DEF LeaseInv, CallsFile, Types, CallsTyped
    <2>2. CASE Probe(p)
      <3>1. ASSUME ~OwnerIsAlive(p) PROVE FALSE
        <4>1. Goto(p, "unlink") /\ "unlink" \in PCs
          BY <2>2, <3>1 DEF Probe, PCs
        <4> QED
          BY <2>1, <4>1, <1>2, CallGoesTo
      <3> QED
        BY <3>1
    <2>3. CASE Unlink(p)
      <3>1. call[p].tries = 0 /\ ~TriesUsed(call[p].tries + 1)
        BY <2>1, <2>3 DEF CallFile, Unlink, TriesUsed
      <3> QED
        BY <2>1, <2>3, <3>1 DEF Unlink, Call
    <2>4. call'[p] # call[p] /\ p \notin dead'
      BY <2>1
    <2>5. ASSUME NEW q \in Pids, q # p PROVE ~AcquireStep(q) /\ ~StartStep(q) /\ ~StopStep(q)
      BY <2>1, <2>5 DEF AcquireStep, Create, Probe, Unlink, Write, StartStep, Launch, LaunchFails, NotReady, PublishRead,
                        PublishWrite, PublishFails, StopStep, RemoveRead, RemoveWrite, RemoveFails,
                        ReleaseRead, ReleaseUnlink, Released
    <2>6. ASSUME NEW q \in Pids, Crash(q) PROVE FALSE
      BY <2>1, <2>4, <2>6 DEF Crash, Return
    <2>7. ASSUME NEW q \in Pids, NEW j \in Projects, Start(q, j) \/ Stop(q, j) PROVE FALSE
      BY <2>1, <2>7, <1>2 DEF Start, Stop, MayBegin, LeaseInv, Exclusive
    <2>8. ~Create(p) /\ ~Write(p) /\ ~StartStep(p) /\ ~StopStep(p)
      BY <2>1 DEF Create, Write, StartStep, Launch, LaunchFails, NotReady, PublishRead, PublishWrite, PublishFails,
                  StopStep, RemoveRead, RemoveWrite, RemoveFails, ReleaseRead, ReleaseUnlink, Released
    <2>9. ASSUME NEW h \in hosts, RuntimeCloses(h) PROVE FALSE
      BY <2>4, <2>9 DEF RuntimeCloses
    <2> QED
      BY <2>2, <2>3, <2>5, <2>6, <2>7, <2>8, <2>9 DEF LeaseNext, AcquireStep
  <1> QED
    BY <1>1, <1>2, InitLease, PTL DEF LeaseSpec, RefusedOnlyByLiveOwner

-----------------------------------------------------------------------------
(***************************************************************************)
(* Access to the Relay, for any number of accounts, sessions, codes,       *)
(* Devices, connections, messages and restarts, and any limits.            *)
(*                                                                         *)
(* A message that is on its way can only come to late as long as nothing   *)
(* that it was too late for can be true again: Sound says what is known of *)
(* a message in flight, Passed of one that was let through.                *)
(***************************************************************************)

SessionRecord == [account : Accounts, state : {"valid", "stale", "ended", "lost"}]

CodeRecord == [account : Accounts, state : {"open", "used", "gone"}]

DeviceRecord == [code : Nat, account : Accounts, revoked : BOOLEAN]

Texts == [number : Int, late : BOOLEAN, ended : SUBSET Nat]

Wires == Seq(Texts)

Numbers == SUBSET Nat

Stages == {"challenged", "replacing", "serving", "sending", "closing", "gone"}

ConnectorRecord ==
  [device : Nat, known : BOOLEAN, at : Stages, up : BOOLEAN, closed : BOOLEAN, wire : Wires, frame : Wires,
   rest : Numbers]

ClientRecord ==
  [session : Nat, device : Nat, at : Stages, up : BOOLEAN, closed : BOOLEAN, wire : Wires]

RelayTypes ==
  /\ session \in Seq(SessionRecord) /\ code \in Seq(CodeRecord) /\ device \in Seq(DeviceRecord)
  /\ connection \in Seq(ConnectorRecord) /\ client \in Seq(ClientRecord)
  /\ online \in Seq(Nat) /\ Len(online) = Len(device)
  /\ listed \in Seq(Numbers) /\ Len(listed) = Len(device)
  /\ count \in [messages : Int, restarts : Int]

\* Messages of Device d that say of nothing that it was over while it is not.
Sound(d) ==
  {m \in Texts : /\ m.late => device[d].revoked
                 /\ \A s \in m.ended : s \in Sessions /\ session[s].state \notin {"valid", "stale"}}

\* Of these, the ones that are not too late.
Timely(d) == {m \in Sound(d) : ~m.late}

\* What a Connector has sent and a coroutine of the Relay holds for its browsers.
ConnectorSound(peer) ==
  /\ peer.device \in Devices
  /\ peer.wire \in Seq(Sound(peer.device)) /\ peer.frame \in Seq(Timely(peer.device))
  /\ peer.at = "sending" => peer.frame # <<>>
  /\ peer.rest \subseteq Clients

\* A browser is with a session and a Device of one account.
ClientSound(peer) ==
  /\ peer.session \in Sessions /\ peer.device \in Devices
  /\ session[peer.session].account = device[peer.device].account
  /\ peer.wire \in Seq(Sound(peer.device))

Passed(m) ==
  /\ m.client \in Clients
  /\ ~m.message.late /\ client[m.client].session \notin m.message.ended

AccessInv ==
  /\ \A k \in Connectors : ConnectorSound(connection[k])
  /\ \A c \in Clients : ClientSound(client[c])
  /\ \A d \in Devices : listed[d] \subseteq Clients
  /\ \A m \in tasks \cup shown \cup obeyed : Passed(m)

\* A connection that was registered and that nobody has closed.
Serves(peer) == peer.at \in {"replacing", "serving", "sending"} /\ ~peer.closed

OnlineInv ==
  \A k \in Connectors : Serves(connection[k]) =>
    online[connection[k].device] = k \/ device[connection[k].device].revoked

RelayInv == RelayTypes /\ AccessInv /\ OnlineInv
-----------------------------------------------------------------------------
LEMMA SeqFacts ==
  ASSUME NEW S, NEW seq \in Seq(S)
  PROVE  Len(seq) \in Nat /\ DOMAIN seq = 1..Len(seq) /\ \A i \in DOMAIN seq : seq[i] \in S
  OBVIOUS

\* One element of a sequence, or none, is another.
LEMMA OneChanged ==
  ASSUME NEW S, NEW seq \in Seq(S), NEW i, NEW e, i \in DOMAIN seq => e \in S
  PROVE  LET new == [seq EXCEPT ![i] = e]
         IN  /\ new \in Seq(S) /\ Len(new) = Len(seq) /\ DOMAIN new = DOMAIN seq
             /\ i \in DOMAIN seq => new[i] = e
             /\ \A j \in DOMAIN seq : j # i => new[j] = seq[j]
  <1>1. CASE i \in DOMAIN seq
    BY <1>1
  <1>2. CASE i \notin DOMAIN seq
    <2>1. [seq EXCEPT ![i] = e] = seq
      BY <1>2
    <2> QED
      BY <1>2, <2>1
  <1> QED
    BY <1>1, <1>2

LEMMA OneMore ==
  ASSUME NEW S, NEW seq \in Seq(S), NEW e \in S
  PROVE  LET new == Append(seq, e)
         IN  /\ new \in Seq(S) /\ Len(new) = Len(seq) + 1 /\ DOMAIN new = DOMAIN seq \cup {Len(seq) + 1}
             /\ new[Len(seq) + 1] = e /\ Len(seq) + 1 \notin DOMAIN seq
             /\ \A j \in DOMAIN seq : new[j] = seq[j]
  OBVIOUS

LEMMA OneLess ==
  ASSUME NEW S, NEW seq \in Seq(S), seq # <<>>
  PROVE  Head(seq) \in S /\ Tail(seq) \in Seq(S)
  OBVIOUS

\* Every element of a sequence is another.
LEMMA AllChanged ==
  ASSUME NEW S, NEW seq \in Seq(S), NEW f, DOMAIN f = DOMAIN seq, \A i \in DOMAIN seq : f[i] \in S,
         f = [i \in DOMAIN f |-> f[i]]
  PROVE  f \in Seq(S) /\ Len(f) = Len(seq)
  OBVIOUS
-----------------------------------------------------------------------------
(* What was over stays over.                                               *)

\* Sessions come, and those that are over are not valid again.
SessionsLater(old, new) ==
  /\ new \in Seq(SessionRecord) /\ DOMAIN old \subseteq DOMAIN new
  /\ \A s \in DOMAIN old :
       /\ new[s].account = old[s].account
       /\ old[s].state \notin {"valid", "stale"} => new[s].state \notin {"valid", "stale"}

DevicesLater(old, new) ==
  /\ new \in Seq(DeviceRecord) /\ DOMAIN old \subseteq DOMAIN new
  /\ \A d \in DOMAIN old :
       new[d].account = old[d].account /\ (old[d].revoked => new[d].revoked)

ClientsLater(old, new) ==
  /\ DOMAIN old \subseteq DOMAIN new
  /\ \A c \in DOMAIN old : new[c].session = old[c].session

LEMMA SessionUpdate ==
  ASSUME NEW old \in Seq(SessionRecord), NEW s, NEW state \in {"valid", "stale", "ended", "lost"},
         s \in DOMAIN old /\ state \in {"valid", "stale"} => old[s].state \in {"valid", "stale"}
  PROVE  LET new == [old EXCEPT ![s].state = state]
         IN  SessionsLater(old, new) /\ Len(new) = Len(old)
  <1> DEFINE record == [old[s] EXCEPT !.state = state]
             new == [old EXCEPT ![s] = record]
  <1>1. s \in DOMAIN old => record \in SessionRecord /\ record.account = old[s].account /\ record.state = state
    <2>1. ASSUME NEW one \in SessionRecord
          PROVE  LET other == [one EXCEPT !.state = state]
                 IN  other \in SessionRecord /\ other.account = one.account /\ other.state = state
      BY DEF SessionRecord
    <2>2. s \in DOMAIN old => old[s] \in SessionRecord
      BY SeqFacts
    <2> QED
      BY <2>1, <2>2
  <1> HIDE DEF record
  <1>2. /\ new \in Seq(SessionRecord) /\ Len(new) = Len(old) /\ DOMAIN new = DOMAIN old
        /\ s \in DOMAIN old => new[s] = record
        /\ \A j \in DOMAIN old : j # s => new[j] = old[j]
    BY <1>1, OneChanged
  <1> HIDE DEF new
  <1>3. SessionsLater(old, new) /\ Len(new) = Len(old)
    BY <1>1, <1>2 DEF SessionsLater
  <1> QED
    BY <1>3 DEF new, record

LEMMA EndedLater ==
  ASSUME NEW old \in Seq(SessionRecord), NEW s
  PROVE  SessionsLater(old, Ended(old, s))
  BY SessionUpdate DEF Ended

\* A new session, of which the account need not be known before.
LEMMA IssueLater ==
  ASSUME NEW old \in Seq(SessionRecord), NEW account \in Accounts
  PROVE  SessionsLater(old, Issue(old, account))
  <1> DEFINE room == IF Cardinality(Kept(old)) < SessionLimit THEN old ELSE Ended(old, Min(Kept(old)))
             new == [account |-> account, state |-> "valid"]
  <1>1. SessionsLater(old, room)
    <2>1. SessionsLater(old, old)
      BY DEF SessionsLater
    <2> QED
      BY <2>1, EndedLater
  <1>2. new \in SessionRecord
    BY DEF SessionRecord
  <1>3. Issue(old, account) = Append(room, new)
    BY DEF Issue
  <1> HIDE DEF room, new
  <1>4. room \in Seq(SessionRecord)
    BY <1>1 DEF SessionsLater
  <1>5. /\ Append(room, new) \in Seq(SessionRecord) /\ DOMAIN room \subseteq DOMAIN Append(room, new)
        /\ \A j \in DOMAIN room : Append(room, new)[j] = room[j]
    BY <1>2, <1>4, OneMore
  <1> QED
    BY <1>1, <1>3, <1>5 DEF SessionsLater

LEMMA SessionsLaterTwice ==
  ASSUME NEW old, NEW mid, NEW new, SessionsLater(old, mid), SessionsLater(mid, new)
  PROVE  SessionsLater(old, new)
  BY DEF SessionsLater

\* What is known of messages stays known.
LEMMA SoundLater ==
  ASSUME SessionsLater(session, session'), DevicesLater(device, device')
  PROVE  /\ Sessions \subseteq Sessions' /\ Devices \subseteq Devices'
         /\ \A d \in Devices : /\ Sound(d) \subseteq Sound(d)' /\ Seq(Sound(d)) \subseteq Seq(Sound(d)')
                              /\ Timely(d) \subseteq Timely(d)' /\ Seq(Timely(d)) \subseteq Seq(Timely(d)')
  <1>1. Sessions \subseteq Sessions' /\ Devices \subseteq Devices'
    BY DEF SessionsLater, DevicesLater, Sessions, Devices
  <1>2. ASSUME NEW d \in Devices PROVE Sound(d) \subseteq Sound(d)' /\ Timely(d) \subseteq Timely(d)'
    BY <1>2 DEF SessionsLater, DevicesLater, Sessions, Devices, Sound, Timely
  <1>3. \A S, T : S \subseteq T => Seq(S) \subseteq Seq(T)
    OBVIOUS
  <1> QED
    BY <1>1, <1>2, <1>3

LEMMA PeersLater ==
  ASSUME SessionsLater(session, session'), DevicesLater(device, device'), ClientsLater(client, client'),
         DOMAIN connection \subseteq DOMAIN connection'
  PROVE  /\ Clients \subseteq Clients' /\ Connectors \subseteq Connectors'
         /\ \A peer : ConnectorSound(peer) => ConnectorSound(peer)'
         /\ \A peer : ClientSound(peer) => ClientSound(peer)'
         /\ \A m : Passed(m) => Passed(m)'
  <1>1. Clients \subseteq Clients' /\ Connectors \subseteq Connectors'
    BY DEF ClientsLater, Clients, Connectors
  <1>2. ASSUME NEW peer, ConnectorSound(peer) PROVE ConnectorSound(peer)'
    BY <1>1, <1>2, SoundLater DEF ConnectorSound
  <1>3. ASSUME NEW peer, ClientSound(peer) PROVE ClientSound(peer)'
    BY <1>3, SoundLater DEF ClientSound, SessionsLater, DevicesLater, Sessions, Devices
  <1>4. ASSUME NEW m, Passed(m) PROVE Passed(m)'
    BY <1>1, <1>4 DEF Passed, ClientsLater, Clients
  <1> QED
    BY <1>1, <1>2, <1>3, <1>4
-----------------------------------------------------------------------------
(* Sessions, codes and Devices.                                            *)

\* A step that leaves connections alone: a Device that is no longer online was revoked.
LEMMA AccessStep ==
  ASSUME RelayInv, SessionsLater(session, session'), DevicesLater(device, device'), code' \in Seq(CodeRecord),
         UNCHANGED <<connection, client, tasks, shown, obeyed>>,
         count' \in [messages : Int, restarts : Int],
         online' \in Seq(Nat), Len(online') = Len(device'),
         listed' \in Seq(Numbers), Len(listed') = Len(device'),
         \A d \in Devices : online'[d] = online[d] \/ device'[d].revoked,
         \A d \in Devices' : listed'[d] \subseteq Clients
  PROVE  RelayInv'
  <1>1. RelayTypes'
    BY DEF RelayInv, RelayTypes, SessionsLater, DevicesLater
  <1>2. ClientsLater(client, client')
    BY DEF ClientsLater
  <1>3. AccessInv'
    BY <1>2, PeersLater DEF RelayInv, AccessInv, Clients, Connectors
  <1>4. OnlineInv'
    <2> SUFFICES ASSUME NEW k \in Connectors, Serves(connection[k])
                 PROVE  online'[connection[k].device] = k \/ device'[connection[k].device].revoked
      BY DEF OnlineInv, Connectors
    <2>1. connection[k].device \in Devices
      BY DEF RelayInv, AccessInv, ConnectorSound
    <2>2. online[connection[k].device] = k \/ device[connection[k].device].revoked
      BY DEF RelayInv, OnlineInv
    <2> QED
      BY <2>1, <2>2 DEF DevicesLater, Devices
  <1> QED
    BY <1>1, <1>3, <1>4 DEF RelayInv

LEMMA AccountOf ==
  ASSUME RelayInv, NEW s \in Sessions
  PROVE  session[s].account \in Accounts
  <1>1. session[s] \in SessionRecord
    BY SeqFacts DEF RelayInv, RelayTypes, Sessions
  <1> QED
    BY <1>1 DEF SessionRecord

LEMMA DevicesSame == RelayInv => DevicesLater(device, device)
  BY DEF RelayInv, RelayTypes, DevicesLater

LEMMA SessionsSame == RelayInv => SessionsLater(session, session)
  BY DEF RelayInv, RelayTypes, SessionsLater

LEMMA SessionStep ==
  ASSUME RelayInv, SessionsLater(session, session'), UNCHANGED <<code, device, sockets, count>>
  PROVE  RelayInv'
  <1>1. UNCHANGED <<connection, client, online, listed, tasks, shown, obeyed>>
    BY DEF sockets
  <1>2. DevicesLater(device, device')
    BY DevicesSame
  <1>3. /\ online' \in Seq(Nat) /\ Len(online') = Len(device')
        /\ listed' \in Seq(Numbers) /\ Len(listed') = Len(device')
        /\ code' \in Seq(CodeRecord) /\ count' \in [messages : Int, restarts : Int]
    BY <1>1 DEF RelayInv, RelayTypes
  <1>4. \A d \in Devices' : listed'[d] \subseteq Clients
    BY <1>1 DEF RelayInv, AccessInv, Devices
  <1> QED
    BY <1>1, <1>2, <1>3, <1>4, AccessStep

LEMMA LoginKeeps ==
  ASSUME RelayInv, NEW account \in Accounts, Login(account)
  PROVE  RelayInv'
  <1>1. SessionsLater(session, session')
    BY IssueLater DEF Login, RelayInv, RelayTypes
  <1> QED
    BY <1>1, SessionStep DEF Login

LEMMA SessionKeeps ==
  ASSUME RelayInv, NEW s \in Sessions, Rotate(s) \/ Logout(s) \/ Expire(s)
  PROVE  RelayInv'
  <1>1. session \in Seq(SessionRecord)
    BY DEF RelayInv, RelayTypes
  <1>2. SessionsLater(session, session')
    <2>1. CASE Logout(s)
      BY <1>1, <2>1, EndedLater DEF Logout
    <2>2. CASE Rotate(s)
      <3>1. SessionsLater(session, Ended(session, s)) /\ session[s].account \in Accounts
        BY <1>1, EndedLater, AccountOf
      <3>2. SessionsLater(Ended(session, s), session')
        BY <2>2, <3>1, IssueLater DEF Rotate, SessionsLater
      <3> QED
        BY <3>1, <3>2, SessionsLaterTwice
    <2>3. CASE Expire(s)
      <3>1. CASE session' = Ended(session, s)
        BY <1>1, <3>1, EndedLater
      <3>2. CASE Valid(s) /\ session' = [session EXCEPT ![s].state = "stale"]
        BY <1>1, <3>2, SessionUpdate DEF Valid
      <3> QED
        BY <2>3, <3>1, <3>2 DEF Expire
    <2> QED
      BY <2>1, <2>2, <2>3
  <1>3. UNCHANGED <<code, device, sockets, count>>
    BY DEF Rotate, Logout, Expire
  <1> QED
    BY <1>2, <1>3, SessionStep

LEMMA CodeUpdate ==
  ASSUME NEW old \in Seq(CodeRecord), NEW c, NEW state \in {"open", "used", "gone"}
  PROVE  [old EXCEPT ![c].state = state] \in Seq(CodeRecord)
  <1> DEFINE record == [old[c] EXCEPT !.state = state]
  <1>1. c \in DOMAIN old => record \in CodeRecord
    <2>1. ASSUME NEW one \in CodeRecord PROVE [one EXCEPT !.state = state] \in CodeRecord
      BY DEF CodeRecord
    <2> QED
      BY <2>1, SeqFacts
  <1> HIDE DEF record
  <1>2. [old EXCEPT ![c] = record] \in Seq(CodeRecord)
    BY <1>1, OneChanged
  <1> QED
    BY <1>2 DEF record

LEMMA CodeKeeps ==
  ASSUME RelayInv,
         (\E s \in Sessions : CreatePairing(s)) \/ \E c \in Codes : ExpirePairing(c)
  PROVE  RelayInv'
  <1>1. session \in Seq(SessionRecord) /\ code \in Seq(CodeRecord)
    BY DEF RelayInv, RelayTypes
  <1>2. code' \in Seq(CodeRecord)
    <2>1. ASSUME NEW c \in Codes, ExpirePairing(c) PROVE code' \in Seq(CodeRecord)
      BY <1>1, <2>1, CodeUpdate DEF ExpirePairing
    <2>2. ASSUME NEW s \in Sessions, CreatePairing(s) PROVE code' \in Seq(CodeRecord)
      <3> DEFINE new == [account |-> session[s].account, state |-> "open"]
      <3>1. \E room \in Seq(CodeRecord) : code' = Append(room, new)
        <4>1. \A c : [code EXCEPT ![c].state = "gone"] \in Seq(CodeRecord)
          BY <1>1, CodeUpdate
        <4> QED
          BY <1>1, <2>2, <4>1 DEF CreatePairing
      <3>2. new \in CodeRecord
        BY <2>2, AccountOf DEF CodeRecord
      <3> HIDE DEF new
      <3> QED
        BY <3>1, <3>2, OneMore
    <2> QED
      BY <2>1, <2>2
  <1>3. UNCHANGED <<session, device, connection, client, online, listed, tasks, shown, obeyed, count>>
    BY DEF CreatePairing, ExpirePairing, sockets
  <1>4. /\ online' \in Seq(Nat) /\ Len(online') = Len(device')
        /\ listed' \in Seq(Numbers) /\ Len(listed') = Len(device')
        /\ count' \in [messages : Int, restarts : Int]
    BY <1>3 DEF RelayInv, RelayTypes
  <1>5. \A d \in Devices' : listed'[d] \subseteq Clients
    BY <1>3 DEF RelayInv, AccessInv, Devices
  <1> QED
    BY <1>2, <1>3, <1>4, <1>5, AccessStep, SessionsSame, DevicesSame

LEMMA ClaimPairingKeeps ==
  ASSUME RelayInv, NEW c \in Codes, ClaimPairing(c)
  PROVE  RelayInv'
  <1>1. /\ code \in Seq(CodeRecord) /\ device \in Seq(DeviceRecord)
        /\ online \in Seq(Nat) /\ Len(online) = Len(device)
        /\ listed \in Seq(Numbers) /\ Len(listed) = Len(device)
    BY DEF RelayInv, RelayTypes
  <1>2. code[c] \in CodeRecord /\ c \in Nat
    BY <1>1, SeqFacts DEF Codes
  <1> DEFINE new == [code |-> c, account |-> code[c].account, revoked |-> FALSE]
  <1>3. new \in DeviceRecord
    BY <1>2 DEF CodeRecord, DeviceRecord
  <1>4. /\ device' = Append(device, new) /\ online' = Append(online, 0) /\ listed' = Append(listed, {})
        /\ UNCHANGED <<session, connection, client, tasks, shown, obeyed, count>>
    BY DEF ClaimPairing
  <1>5. code' \in Seq(CodeRecord)
    BY <1>1, CodeUpdate DEF ClaimPairing
  <1>6. {} \in Numbers /\ 0 \in Nat
    BY DEF Numbers
  <1> HIDE DEF new
  <1>7. /\ device' \in Seq(DeviceRecord) /\ Len(device') = Len(device) + 1
        /\ DOMAIN device \subseteq DOMAIN device' /\ \A d \in DOMAIN device : device'[d] = device[d]
    BY <1>1, <1>3, <1>4, OneMore
  <1>8. DevicesLater(device, device')
    BY <1>7 DEF DevicesLater
  <1>9. /\ online' \in Seq(Nat) /\ Len(online') = Len(device') /\ \A d \in Devices : online'[d] = online[d]
    BY <1>1, <1>4, <1>6, <1>7 DEF Devices
  <1>10. /\ listed' \in Seq(Numbers) /\ Len(listed') = Len(device')
         /\ \A d \in Devices' : (d \in Devices /\ listed'[d] = listed[d]) \/ listed'[d] = {}
    BY <1>1, <1>4, <1>6, <1>7 DEF Devices
  <1>11. \A d \in Devices' : listed'[d] \subseteq Clients
    BY <1>10 DEF RelayInv, AccessInv
  <1>12. count' \in [messages : Int, restarts : Int]
    BY <1>4 DEF RelayInv, RelayTypes
  <1>13. SessionsLater(session, session')
    BY <1>4, SessionsSame
  <1> QED
    BY <1>4, <1>5, <1>8, <1>9, <1>10, <1>11, <1>12, <1>13, AccessStep

\* Its Connector is no longer the one the Device is online with, and is served to the end.
LEMMA RevokeDeviceKeeps ==
  ASSUME RelayInv, NEW s \in Sessions, NEW d \in Devices, RevokeDevice(s, d)
  PROVE  RelayInv'
  <1>1. /\ device \in Seq(DeviceRecord) /\ online \in Seq(Nat) /\ Len(online) = Len(device)
        /\ listed \in Seq(Numbers) /\ Len(listed) = Len(device)
    BY DEF RelayInv, RelayTypes
  <1>2. device[d] \in DeviceRecord /\ d \in DOMAIN device
    BY <1>1, SeqFacts DEF Devices
  <1> DEFINE old == device[d]
             new == [old EXCEPT !.revoked = TRUE]
  <1>3. /\ device' = [device EXCEPT ![d] = new] /\ online' = [online EXCEPT ![d] = 0]
        /\ listed' = [listed EXCEPT ![d] = {}]
        /\ UNCHANGED <<session, code, connection, client, tasks, shown, obeyed, count>>
    BY DEF RevokeDevice
  <1>4. old \in DeviceRecord
    BY <1>2
  <1> HIDE DEF old
  <1>5. new \in DeviceRecord /\ new.account = old.account /\ new.revoked
    BY <1>4 DEF DeviceRecord
  <1> HIDE DEF new
  <1>6. /\ device' \in Seq(DeviceRecord) /\ Len(device') = Len(device) /\ device'[d] = new
        /\ DOMAIN device = DOMAIN device' /\ \A e \in DOMAIN device : e # d => device'[e] = device[e]
    BY <1>1, <1>2, <1>3, <1>5, OneChanged
  <1>7. DevicesLater(device, device')
    BY <1>5, <1>6 DEF DevicesLater, old
  <1>8. {} \in Numbers /\ 0 \in Nat
    BY DEF Numbers
  <1>9. /\ online' \in Seq(Nat) /\ Len(online') = Len(device')
        /\ \A e \in Devices : online'[e] = online[e] \/ device'[e].revoked
    BY <1>1, <1>3, <1>5, <1>6, <1>8 DEF Devices
  <1>10. /\ listed' \in Seq(Numbers) /\ Len(listed') = Len(device')
         /\ \A e \in Devices' : (e \in Devices /\ listed'[e] = listed[e]) \/ listed'[e] = {}
    BY <1>1, <1>3, <1>6, <1>8 DEF Devices
  <1>11. \A e \in Devices' : listed'[e] \subseteq Clients
    BY <1>10 DEF RelayInv, AccessInv
  <1>12. count' \in [messages : Int, restarts : Int] /\ code' \in Seq(CodeRecord)
    BY <1>3 DEF RelayInv, RelayTypes
  <1>13. SessionsLater(session, session')
    BY <1>3, SessionsSame
  <1> QED
    BY <1>3, <1>7, <1>9, <1>10, <1>11, <1>12, <1>13, AccessStep
-----------------------------------------------------------------------------
(* Connections of Connectors.                                              *)

\* A step that leaves sessions, codes and Devices alone.
LEMMA SocketStep ==
  ASSUME RelayInv, UNCHANGED access, ClientsLater(client, client'), DOMAIN connection \subseteq DOMAIN connection',
         connection' \in Seq(ConnectorRecord), client' \in Seq(ClientRecord),
         online' \in Seq(Nat), Len(online') = Len(online),
         listed' \in Seq(Numbers), Len(listed') = Len(listed),
         count' \in [messages : Int, restarts : Int],
         \A k \in Connectors' : ConnectorSound(connection'[k]),
         \A c \in Clients' : ClientSound(client'[c]),
         \A d \in Devices : listed'[d] \subseteq Clients',
         \A m \in tasks' \cup shown' \cup obeyed' : Passed(m),
         OnlineInv'
  PROVE  RelayInv'
  <1>1. UNCHANGED <<session, code, device>>
    BY DEF access
  <1>2. RelayTypes'
    BY <1>1 DEF RelayInv, RelayTypes
  <1>3. SessionsLater(session, session') /\ DevicesLater(device, device')
    BY <1>1, SessionsSame, DevicesSame
  <1>4. AccessInv'
    BY <1>1, <1>3, PeersLater DEF AccessInv, Devices
  <1> QED
    BY <1>2, <1>4 DEF RelayInv

\* What holds of everything that a step leaves alone.
LEMMA SocketFacts ==
  ASSUME RelayInv
  PROVE  /\ connection \in Seq(ConnectorRecord) /\ client \in Seq(ClientRecord)
         /\ online \in Seq(Nat) /\ listed \in Seq(Numbers) /\ count \in [messages : Int, restarts : Int]
         /\ \A k \in Connectors : ConnectorSound(connection[k]) /\ connection[k] \in ConnectorRecord
         /\ \A c \in Clients : ClientSound(client[c]) /\ client[c] \in ClientRecord
         /\ \A d \in Devices : listed[d] \subseteq Clients
         /\ \A m \in tasks \cup shown \cup obeyed : Passed(m)
         /\ ClientsLater(client, client)
  <1>1. connection \in Seq(ConnectorRecord) /\ client \in Seq(ClientRecord)
    BY DEF RelayInv, RelayTypes
  <1>2. /\ \A k \in Connectors : connection[k] \in ConnectorRecord
        /\ \A c \in Clients : client[c] \in ClientRecord
    BY <1>1, SeqFacts DEF Connectors, Clients
  <1> QED
    BY <1>1, <1>2 DEF RelayInv, RelayTypes, AccessInv, ClientsLater

\* One Connector changes: the others are sound and online as before.
LEMMA OneConnector ==
  ASSUME RelayInv, NEW k \in Connectors, NEW peer \in ConnectorRecord, ConnectorSound(peer),
         connection' = [connection EXCEPT ![k] = peer]
  PROVE  /\ connection' \in Seq(ConnectorRecord) /\ Connectors' = Connectors /\ connection'[k] = peer
         /\ \A j \in Connectors : j # k => connection'[j] = connection[j]
         /\ \A j \in Connectors' : ConnectorSound(connection'[j])
  <1>1. connection \in Seq(ConnectorRecord) /\ \A j \in Connectors : ConnectorSound(connection[j])
    BY SocketFacts
  <1>2. /\ connection' \in Seq(ConnectorRecord) /\ DOMAIN connection' = DOMAIN connection /\ connection'[k] = peer
        /\ \A j \in DOMAIN connection : j # k => connection'[j] = connection[j]
    BY <1>1, OneChanged DEF Connectors
  <1> QED
    BY <1>1, <1>2 DEF Connectors

LEMMA ConnectorStep ==
  ASSUME RelayInv, NEW k \in Connectors, NEW peer \in ConnectorRecord, ConnectorSound(peer),
         peer.device = connection[k].device, Serves(peer) => Serves(connection[k]),
         connection' = [connection EXCEPT ![k] = peer],
         UNCHANGED <<access, client, online, listed, tasks, shown, obeyed>>,
         count' \in [messages : Int, restarts : Int]
  PROVE  RelayInv'
  <1>1. UNCHANGED device
    BY DEF access
  <1>2. /\ connection' \in Seq(ConnectorRecord) /\ Connectors' = Connectors /\ connection'[k] = peer
        /\ \A j \in Connectors : j # k => connection'[j] = connection[j]
        /\ \A j \in Connectors' : ConnectorSound(connection'[j])
    BY OneConnector
  <1>3. OnlineInv'
    BY <1>1, <1>2 DEF RelayInv, OnlineInv
  <1> QED
    BY <1>2, <1>3, SocketFacts, SocketStep DEF Connectors, Clients

\* Fields change that say nothing of what has been sent.
LEMMA MoveKeeps ==
  ASSUME RelayInv, NEW k \in Connectors, NEW at \in Stages, NEW up \in BOOLEAN, NEW closed \in BOOLEAN,
         at = "sending" => connection[k].at = "sending",
         Serves([connection[k] EXCEPT !.at = at, !.up = up, !.closed = closed]) => Serves(connection[k]),
         connection' = [connection EXCEPT ![k] = [connection[k] EXCEPT !.at = at, !.up = up, !.closed = closed]],
         UNCHANGED <<access, client, online, listed, tasks, shown, obeyed, count>>
  PROVE  RelayInv'
  <1> DEFINE old == connection[k]
             new == [old EXCEPT !.at = at, !.up = up, !.closed = closed]
  <1>1. old \in ConnectorRecord /\ ConnectorSound(old) /\ count' \in [messages : Int, restarts : Int]
    BY SocketFacts
  <1>2. connection' = [connection EXCEPT ![k] = new] /\ (at = "sending" => old.at = "sending")
        /\ (Serves(new) => Serves(old))
    OBVIOUS
  <1>3. old = connection[k]
    OBVIOUS
  <1> HIDE DEF old
  <1>4. /\ new \in ConnectorRecord /\ new.device = old.device /\ new.wire = old.wire /\ new.frame = old.frame
        /\ new.rest = old.rest /\ new.at = at
    BY <1>1 DEF ConnectorRecord
  <1> HIDE DEF new
  <1>5. ConnectorSound(new)
    BY <1>1, <1>2, <1>4 DEF ConnectorSound
  <1> QED
    BY <1>1, <1>2, <1>3, <1>4, <1>5, ConnectorStep

LEMMA RejectedKeeps ==
  ASSUME RelayInv, NEW k \in Connectors, Rejected(k)
  PROVE  RelayInv'
  <1> DEFINE old == connection[k]
             new == [old EXCEPT !.at = "gone", !.up = old.up, !.closed = TRUE]
  <1>1. old \in ConnectorRecord
    BY SocketFacts
  <1>2. connection' = [connection EXCEPT ![k] = [[old EXCEPT !.at = "gone"] EXCEPT !.closed = TRUE]]
    BY DEF Rejected, Connectors
  <1>3. ASSUME NEW one \in ConnectorRecord
        PROVE  /\ [[one EXCEPT !.at = "gone"] EXCEPT !.closed = TRUE]
                    = [one EXCEPT !.at = "gone", !.up = one.up, !.closed = TRUE]
               /\ [one EXCEPT !.at = "gone", !.up = one.up, !.closed = TRUE].at = "gone"
               /\ one.up \in BOOLEAN
    BY <1>3 DEF ConnectorRecord
  <1>4. connection' = [connection EXCEPT ![k] = new] /\ ~Serves(new) /\ old.up \in BOOLEAN
    BY <1>1, <1>2, <1>3 DEF Serves
  <1>5. UNCHANGED <<access, client, online, listed, tasks, shown, obeyed, count>>
    BY DEF Rejected
  <1>6. "gone" \in Stages /\ TRUE \in BOOLEAN
    BY DEF Stages
  <1> QED
    BY <1>4, <1>5, <1>6, MoveKeeps

LEMMA ConnectorLostKeeps ==
  ASSUME RelayInv, NEW k \in Connectors, ConnectorLost(k)
  PROVE  RelayInv'
  <1> DEFINE old == connection[k]
             new == [old EXCEPT !.at = old.at, !.up = FALSE, !.closed = old.closed]
  <1>1. old \in ConnectorRecord
    BY SocketFacts
  <1>2. connection' = [connection EXCEPT ![k] = [old EXCEPT !.up = FALSE]]
    BY DEF ConnectorLost
  <1>3. ASSUME NEW one \in ConnectorRecord
        PROVE  /\ [one EXCEPT !.up = FALSE] = [one EXCEPT !.at = one.at, !.up = FALSE, !.closed = one.closed]
               /\ [one EXCEPT !.at = one.at, !.up = FALSE, !.closed = one.closed].at = one.at
               /\ [one EXCEPT !.at = one.at, !.up = FALSE, !.closed = one.closed].closed = one.closed
               /\ one.at \in Stages /\ one.closed \in BOOLEAN
    BY <1>3 DEF ConnectorRecord
  <1>4. /\ connection' = [connection EXCEPT ![k] = new] /\ Serves(new) = Serves(old)
        /\ old.at \in Stages /\ old.closed \in BOOLEAN
    BY <1>1, <1>2, <1>3 DEF Serves
  <1>5. UNCHANGED <<access, client, online, listed, tasks, shown, obeyed, count>>
    BY DEF ConnectorLost
  <1> QED
    BY <1>4, <1>5, MoveKeeps

LEMMA ReplacedKeeps ==
  ASSUME RelayInv, NEW k \in Connectors, Replaced(k)
  PROVE  RelayInv'
  <1> DEFINE old == connection[k]
  <1>1. old \in ConnectorRecord
    BY SocketFacts
  <1>2. PICK at \in {"serving", "gone"} : connection' = [connection EXCEPT ![k] = [old EXCEPT !.at = at]]
    BY DEF Replaced, Greeted
  <1>3. ASSUME NEW one \in ConnectorRecord
        PROVE  /\ [one EXCEPT !.at = at] = [one EXCEPT !.at = at, !.up = one.up, !.closed = one.closed]
               /\ [one EXCEPT !.at = at, !.up = one.up, !.closed = one.closed].closed = one.closed
               /\ one.up \in BOOLEAN /\ one.closed \in BOOLEAN
    BY <1>3 DEF ConnectorRecord
  <1> DEFINE new == [old EXCEPT !.at = at, !.up = old.up, !.closed = old.closed]
  <1>4. /\ connection' = [connection EXCEPT ![k] = new] /\ new.closed = old.closed
        /\ old.up \in BOOLEAN /\ old.closed \in BOOLEAN
    BY <1>1, <1>2, <1>3
  <1>5. old.at = "replacing" /\ UNCHANGED <<access, client, online, listed, tasks, shown, obeyed, count>>
    BY DEF Replaced
  <1>6. Serves(new) => Serves(old)
    BY <1>4, <1>5 DEF Serves
  <1>7. at \in Stages /\ at # "sending"
    BY DEF Stages
  <1> QED
    BY <1>4, <1>5, <1>6, <1>7, MoveKeeps

\* A message says nothing of what may come.
LEMMA MessageSound ==
  ASSUME RelayInv, NEW d \in Devices
  PROVE  NewMessage(d) \in Sound(d) /\ [count EXCEPT !.messages = @ + 1] \in [messages : Int, restarts : Int]
  <1>1. session \in Seq(SessionRecord) /\ device \in Seq(DeviceRecord) /\ count \in [messages : Int, restarts : Int]
    BY DEF RelayInv, RelayTypes
  <1>2. device[d] \in DeviceRecord /\ \A s \in Sessions : s \in Nat /\ session[s] \in SessionRecord
    BY <1>1, SeqFacts DEF Devices, Sessions
  <1> DEFINE number == count.messages + 1
             late == RevocationAnswered(d)
             ended == Sessions \ Kept(session)
  <1>3. number \in Int /\ [count EXCEPT !.messages = @ + 1] \in [messages : Int, restarts : Int]
    BY <1>1
  <1>4. late \in BOOLEAN /\ (late => device[d].revoked)
    BY <1>2 DEF RevocationAnswered, DeviceRecord
  <1>5. ended \in SUBSET Nat /\ \A s \in ended : s \in Sessions /\ session[s].state \notin {"valid", "stale"}
    BY <1>2 DEF Kept, Sessions
  <1>6. NewMessage(d) = [number |-> number, late |-> late, ended |-> ended]
    BY DEF NewMessage
  <1> HIDE DEF number, late, ended
  <1> QED
    BY <1>3, <1>4, <1>5, <1>6 DEF Sound, Texts

LEMMA DeviceSendsKeeps ==
  ASSUME RelayInv, NEW k \in Connectors, DeviceSends(k)
  PROVE  RelayInv'
  <1> DEFINE old == connection[k]
             more == NewMessage(old.device)
             wire == Append(old.wire, more)
             new == [old EXCEPT !.wire = wire]
  <1>1. old \in ConnectorRecord /\ ConnectorSound(old)
    BY SocketFacts
  <1>2. more \in Sound(old.device) /\ old.wire \in Seq(Sound(old.device))
    BY <1>1, MessageSound DEF ConnectorSound
  <1>3. connection' = [connection EXCEPT ![k] = new]
    BY DEF DeviceSends
  <1>4. count' \in [messages : Int, restarts : Int]
    BY <1>1, MessageSound DEF DeviceSends, ConnectorSound
  <1>5. UNCHANGED <<access, client, online, listed, tasks, shown, obeyed>>
    BY DEF DeviceSends
  <1> HIDE DEF more
  <1>6. wire \in Seq(Sound(old.device))
    BY <1>2
  <1>7. wire \in Wires
    BY <1>6 DEF Sound, Wires
  <1>8. old = connection[k]
    OBVIOUS
  <1> HIDE DEF wire, old
  <1>9. /\ new \in ConnectorRecord /\ new.device = old.device /\ new.wire = wire /\ new.frame = old.frame
        /\ new.rest = old.rest /\ new.at = old.at /\ new.closed = old.closed
    BY <1>1, <1>7 DEF ConnectorRecord
  <1> HIDE DEF new
  <1>10. ConnectorSound(new) /\ Serves(new) = Serves(old)
    BY <1>1, <1>6, <1>9 DEF ConnectorSound, Serves
  <1> QED
    BY <1>3, <1>4, <1>5, <1>8, <1>9, <1>10, ConnectorStep

\* What is taken from the wire of a Device that was not revoked is not too late.
LEMMA TakeFrameKeeps ==
  ASSUME RelayInv, NEW k \in Connectors, TakeFrame(k)
  PROVE  RelayInv'
  <1> DEFINE old == connection[k]
  <1>1. old \in ConnectorRecord /\ ConnectorSound(old) /\ count' \in [messages : Int, restarts : Int]
    BY SocketFacts DEF TakeFrame
  <1>2. UNCHANGED <<access, client, online, listed, tasks, shown, obeyed, count>> /\ old.wire # <<>>
        /\ old.at = "serving"
    BY DEF TakeFrame
  <1>3. CASE device[old.device].revoked
    <2> DEFINE new == [old EXCEPT !.at = "closing", !.up = old.up, !.closed = TRUE]
    <2>1. connection' = [connection EXCEPT ![k] = [[old EXCEPT !.closed = TRUE] EXCEPT !.at = "closing"]]
      BY <1>3 DEF TakeFrame
    <2>2. ASSUME NEW one \in ConnectorRecord
          PROVE  /\ [[one EXCEPT !.closed = TRUE] EXCEPT !.at = "closing"]
                      = [one EXCEPT !.at = "closing", !.up = one.up, !.closed = TRUE]
                 /\ [one EXCEPT !.at = "closing", !.up = one.up, !.closed = TRUE].at = "closing"
                 /\ one.up \in BOOLEAN
      BY <2>2 DEF ConnectorRecord
    <2>3. connection' = [connection EXCEPT ![k] = new] /\ ~Serves(new) /\ old.up \in BOOLEAN
      BY <1>1, <2>1, <2>2 DEF Serves
    <2>4. "closing" \in Stages /\ TRUE \in BOOLEAN
      BY DEF Stages
    <2> QED
      BY <1>2, <2>3, <2>4, MoveKeeps
  <1>4. CASE ~device[old.device].revoked
    <2> DEFINE wire == Tail(old.wire)
               frame == <<Head(old.wire)>>
               rest == IF online[old.device] = 0 THEN {} ELSE listed[old.device]
               new == [old EXCEPT !.at = "sending", !.wire = wire, !.frame = frame, !.rest = rest]
    <2>1. connection' = [connection EXCEPT ![k] = new]
      BY <1>4 DEF TakeFrame
    <2>2. /\ old.device \in Devices /\ old.wire \in Seq(Sound(old.device))
      BY <1>1 DEF ConnectorSound
    <2>3. wire \in Seq(Sound(old.device)) /\ Head(old.wire) \in Sound(old.device)
      BY <1>2, <2>2, OneLess
    <2>4. frame \in Seq(Timely(old.device)) /\ frame # <<>>
      <3>1. Head(old.wire) \in Timely(old.device)
        BY <1>4, <2>3 DEF Sound, Timely
      <3> QED
        BY <3>1
    <2>5. wire \in Wires /\ frame \in Wires
      BY <2>3, <2>4 DEF Sound, Timely, Wires
    <2>6. rest \in Numbers /\ rest \subseteq Clients
      <3>1. \A c \in Clients : c \in Nat
        BY SocketFacts, SeqFacts DEF Clients
      <3>2. rest \subseteq Clients
        BY <2>2, SocketFacts
      <3> QED
        BY <3>1, <3>2 DEF Numbers
    <2>7. Serves(new) => Serves(connection[k])
      BY <1>1, <1>2 DEF Serves, ConnectorRecord
    <2>8. old = connection[k]
      OBVIOUS
    <2> HIDE DEF old, wire, frame, rest
    <2>9. /\ new \in ConnectorRecord /\ new.device = old.device /\ new.wire = wire /\ new.frame = frame
          /\ new.rest = rest
      BY <1>1, <2>5, <2>6 DEF ConnectorRecord, Stages
    <2> HIDE DEF new
    <2>10. ConnectorSound(new)
      BY <2>2, <2>3, <2>4, <2>6, <2>9 DEF ConnectorSound
    <2> QED
      BY <1>1, <1>2, <2>1, <2>7, <2>8, <2>9, <2>10, ConnectorStep
  <1> QED
    BY <1>3, <1>4

\* Connections go on or are closed, with what they have sent.
Moves(old, new) ==
  /\ new \in Seq(ConnectorRecord) /\ DOMAIN new = DOMAIN old
  /\ \A j \in DOMAIN old :
       /\ new[j].device = old[j].device /\ new[j].wire = old[j].wire /\ new[j].frame = old[j].frame
       /\ new[j].rest = old[j].rest /\ (new[j].at = "sending" => old[j].at = "sending")

LEMMA MoveOne ==
  ASSUME NEW old \in Seq(ConnectorRecord), NEW k, NEW at \in Stages \ {"sending"}
  PROVE  LET new == [old EXCEPT ![k].at = at]
         IN  /\ Moves(old, new)
             /\ k \in DOMAIN old => new[k].at = at /\ new[k].closed = old[k].closed
             /\ \A j \in DOMAIN old : j # k => new[j] = old[j]
  <1> DEFINE peer == [old[k] EXCEPT !.at = at]
             new == [old EXCEPT ![k] = peer]
  <1>1. ASSUME NEW one \in ConnectorRecord
        PROVE  LET other == [one EXCEPT !.at = at]
               IN  /\ other \in ConnectorRecord /\ other.device = one.device /\ other.wire = one.wire
                   /\ other.frame = one.frame /\ other.rest = one.rest /\ other.closed = one.closed /\ other.at = at
    BY <1>1 DEF ConnectorRecord
  <1>2. k \in DOMAIN old =>
          /\ peer \in ConnectorRecord /\ peer.device = old[k].device /\ peer.wire = old[k].wire
          /\ peer.frame = old[k].frame /\ peer.rest = old[k].rest /\ peer.closed = old[k].closed /\ peer.at = at
    <2>1. k \in DOMAIN old => old[k] \in ConnectorRecord
      BY SeqFacts
    <2> QED
      BY <1>1, <2>1
  <1> HIDE DEF peer
  <1>3. /\ new \in Seq(ConnectorRecord) /\ DOMAIN new = DOMAIN old
        /\ k \in DOMAIN old => new[k] = peer
        /\ \A j \in DOMAIN old : j # k => new[j] = old[j]
    BY <1>2, OneChanged
  <1> HIDE DEF new
  <1>4. /\ Moves(old, new)
        /\ k \in DOMAIN old => new[k].at = at /\ new[k].closed = old[k].closed
        /\ \A j \in DOMAIN old : j # k => new[j] = old[j]
    BY <1>2, <1>3 DEF Moves
  <1> QED
    BY <1>4 DEF new, peer

LEMMA CloseOne ==
  ASSUME NEW old \in Seq(ConnectorRecord), NEW k
  PROVE  LET new == [old EXCEPT ![k].closed = TRUE]
         IN  /\ Moves(old, new)
             /\ k \in DOMAIN old => new[k].closed
             /\ \A j \in DOMAIN old : j # k => new[j] = old[j]
  <1> DEFINE peer == [old[k] EXCEPT !.closed = TRUE]
             new == [old EXCEPT ![k] = peer]
  <1>1. ASSUME NEW one \in ConnectorRecord
        PROVE  LET other == [one EXCEPT !.closed = TRUE]
               IN  /\ other \in ConnectorRecord /\ other.device = one.device /\ other.wire = one.wire
                   /\ other.frame = one.frame /\ other.rest = one.rest /\ other.closed /\ other.at = one.at
    BY <1>1 DEF ConnectorRecord
  <1>2. k \in DOMAIN old =>
          /\ peer \in ConnectorRecord /\ peer.device = old[k].device /\ peer.wire = old[k].wire
          /\ peer.frame = old[k].frame /\ peer.rest = old[k].rest /\ peer.closed /\ peer.at = old[k].at
    <2>1. k \in DOMAIN old => old[k] \in ConnectorRecord
      BY SeqFacts
    <2> QED
      BY <1>1, <2>1
  <1> HIDE DEF peer
  <1>3. /\ new \in Seq(ConnectorRecord) /\ DOMAIN new = DOMAIN old
        /\ k \in DOMAIN old => new[k] = peer
        /\ \A j \in DOMAIN old : j # k => new[j] = old[j]
    BY <1>2, OneChanged
  <1> HIDE DEF new
  <1>4. /\ Moves(old, new)
        /\ k \in DOMAIN old => new[k].closed
        /\ \A j \in DOMAIN old : j # k => new[j] = old[j]
    BY <1>2, <1>3 DEF Moves
  <1> QED
    BY <1>4 DEF new, peer

LEMMA MovesTwice ==
  ASSUME NEW old, NEW mid, NEW new, Moves(old, mid), Moves(mid, new)
  PROVE  Moves(old, new)
  BY DEF Moves

\* Connections move, and the one that is registered may be another.
LEMMA MovesStep ==
  ASSUME RelayInv, Moves(connection, connection'), OnlineInv',
         online' \in Seq(Nat), Len(online') = Len(online),
         UNCHANGED <<access, client, listed, tasks, shown, obeyed, count>>
  PROVE  RelayInv'
  <1>1. \A k \in Connectors' : ConnectorSound(connection'[k])
    BY SocketFacts DEF Moves, ConnectorSound, Connectors
  <1> QED
    BY <1>1, SocketFacts, SocketStep DEF Moves, Connectors, Clients

\* The registered connection that makes room is closed, unless it is over.
LEMMA RegisterKeeps ==
  ASSUME RelayInv, NEW k \in Connectors, Register(k)
  PROVE  RelayInv'
  <1> DEFINE d == connection[k].device
             previous == online[d]
  <1>1. connection \in Seq(ConnectorRecord) /\ online \in Seq(Nat) /\ k \in Nat /\ d \in DOMAIN online
    <2>1. connection \in Seq(ConnectorRecord) /\ online \in Seq(Nat) /\ d \in Devices
      BY SocketFacts DEF ConnectorSound
    <2>2. device \in Seq(DeviceRecord) /\ Len(online) = Len(device)
      BY DEF RelayInv, RelayTypes
    <2>3. DOMAIN online = DOMAIN device /\ k \in Nat
      BY <2>1, <2>2, SeqFacts DEF Connectors
    <2> QED
      BY <2>1, <2>3 DEF Devices
  <1>2. /\ connection[k].at = "challenged" /\ online' = [online EXCEPT ![d] = k]
        /\ UNCHANGED <<access, client, listed, revoking, tasks, shown, obeyed, count>>
    BY DEF Register
  <1>3. /\ online' \in Seq(Nat) /\ Len(online') = Len(online) /\ online'[d] = k
        /\ \A e \in DOMAIN online : e # d => online'[e] = online[e]
    BY <1>1, <1>2, OneChanged
  <1>4. /\ Moves(connection, connection')
        /\ \A j \in Connectors : j # k /\ Serves(connection'[j]) => Serves(connection[j]) /\ j # previous
    <2>1. ASSUME NEW at \in Stages \ {"sending"}, connection' = [connection EXCEPT ![k].at = at]
          PROVE  /\ Moves(connection, connection')
                 /\ \A j \in Connectors : j # k => connection'[j] = connection[j]
      BY <1>1, <2>1, MoveOne DEF Connectors
    <2>2. CASE previous = 0
      <3>1. PICK at \in {"serving", "gone"} : connection' = [connection EXCEPT ![k].at = at]
        BY <2>2 DEF Register, Greeted
      <3>2. at \in Stages \ {"sending"}
        BY DEF Stages
      <3>3. \A j \in Connectors : j # 0
        BY <1>1, SeqFacts DEF Connectors
      <3> QED
        BY <2>1, <2>2, <3>1, <3>2, <3>3
    <2>3. CASE previous # 0 /\ (connection[previous].closed \/ connection[previous].at = "gone")
      <3>1. connection' = [connection EXCEPT ![k].at = "gone"]
        BY <2>3 DEF Register
      <3>2. "gone" \in Stages \ {"sending"}
        BY DEF Stages
      <3>3. ~Serves(connection[previous])
        BY <2>3 DEF Serves
      <3> QED
        BY <2>1, <3>1, <3>2, <3>3
    <2>4. CASE previous # 0 /\ ~(connection[previous].closed \/ connection[previous].at = "gone")
      <3> DEFINE mid == [connection EXCEPT ![k].at = "replacing"]
      <3>1. connection' = [mid EXCEPT ![previous].closed = TRUE]
        BY <2>4 DEF Register
      <3>2. "replacing" \in Stages \ {"sending"}
        BY DEF Stages
      <3>3. Moves(connection, mid) /\ \A j \in Connectors : j # k => mid[j] = connection[j]
        BY <1>1, <3>2, MoveOne DEF Connectors
      <3> HIDE DEF mid
      <3>4. /\ Moves(mid, connection')
            /\ previous \in Connectors => connection'[previous].closed
            /\ \A j \in Connectors : j # previous => connection'[j] = mid[j]
        <4>1. mid \in Seq(ConnectorRecord) /\ DOMAIN mid = Connectors
          BY <3>3 DEF Moves, Connectors
        <4> HIDE DEF previous
        <4> QED
          BY <3>1, <4>1, CloseOne
      <3>5. Moves(connection, connection')
        BY <3>3, <3>4, MovesTwice
      <3> QED
        BY <3>3, <3>4, <3>5 DEF Serves
    <2> QED
      BY <2>2, <2>3, <2>4
  <1>5. OnlineInv'
    <2>1. UNCHANGED device
      BY <1>2 DEF access
    <2> SUFFICES ASSUME NEW j \in Connectors, Serves(connection'[j])
                 PROVE  online'[connection'[j].device] = j \/ device[connection'[j].device].revoked
      BY <1>4, <2>1 DEF OnlineInv, Connectors, Moves
    <2>2. connection'[j].device = connection[j].device
      BY <1>4 DEF Moves, Connectors
    <2>3. connection[j].device \in DOMAIN online
      <3>1. device \in Seq(DeviceRecord) /\ online \in Seq(Nat) /\ Len(online) = Len(device)
        BY DEF RelayInv, RelayTypes
      <3>2. connection[j].device \in DOMAIN device /\ DOMAIN device = DOMAIN online
        BY <3>1, SeqFacts, SocketFacts DEF ConnectorSound, Devices
      <3> QED
        BY <3>2
    <2>4. CASE j = k
      BY <1>3, <2>2, <2>4
    <2>5. CASE j # k
      <3>1. Serves(connection[j]) /\ j # previous
        BY <1>4, <2>5
      <3>2. online[connection[j].device] = j \/ device[connection[j].device].revoked
        BY <3>1 DEF RelayInv, OnlineInv
      <3> QED
        BY <1>3, <2>2, <2>3, <3>1, <3>2
    <2> QED
      BY <2>4, <2>5
  <1> QED
    BY <1>2, <1>3, <1>4, <1>5, MovesStep

LEMMA ConnectorArrivesKeeps ==
  ASSUME RelayInv, NEW d \in Devices, ConnectorArrives(d)
  PROVE  RelayInv'
  <1> DEFINE new == [device |-> d, known |-> ~device[d].revoked, at |-> "challenged", up |-> TRUE,
                     closed |-> FALSE, wire |-> <<>>, frame |-> <<>>, rest |-> {}]
  <1>1. connection' = Append(connection, new) /\ UNCHANGED <<access, client, online, listed, tasks, shown, obeyed, count>>
    BY DEF ConnectorArrives
  <1>2. connection \in Seq(ConnectorRecord)
    BY SocketFacts
  <1>3. new \in ConnectorRecord
    <2>1. d \in Nat /\ device[d] \in DeviceRecord
      BY SeqFacts DEF Devices, RelayInv, RelayTypes
    <2>2. (~device[d].revoked) \in BOOLEAN
      OBVIOUS
    <2>3. <<>> \in Wires /\ {} \in Numbers
      BY DEF Wires, Numbers
    <2> QED
      BY <2>1, <2>2, <2>3 DEF ConnectorRecord, Stages
  <1>4. ConnectorSound(new) /\ ~Serves(new)
    BY DEF ConnectorSound, Serves
  <1> HIDE DEF new
  <1>5. /\ connection' \in Seq(ConnectorRecord) /\ DOMAIN connection \subseteq DOMAIN connection'
        /\ \A k \in DOMAIN connection' : \/ k \in DOMAIN connection /\ connection'[k] = connection[k]
                                       \/ connection'[k] = new
    BY <1>1, <1>2, <1>3, OneMore
  <1>6. \A k \in Connectors' : ConnectorSound(connection'[k])
    BY <1>4, <1>5, SocketFacts DEF Connectors
  <1>7. OnlineInv'
    <2>1. UNCHANGED <<device, online>>
      BY <1>1 DEF access
    <2> QED
      BY <1>4, <1>5, <2>1 DEF RelayInv, OnlineInv, Connectors
  <1> QED
    BY <1>1, <1>5, <1>6, <1>7, SocketFacts, SocketStep DEF Clients

\* The connection that is over is taken from the list if it is the one there.
LEMMA ConnectorEndsKeeps ==
  ASSUME RelayInv, NEW k \in Connectors, ConnectorEnds(k)
  PROVE  RelayInv'
  <1> DEFINE old == connection[k]
             new == [[old EXCEPT !.at = "gone"] EXCEPT !.wire = <<>>]
             first == IF online[old.device] = k THEN 0 ELSE online[old.device]
  <1>1. old \in ConnectorRecord /\ ConnectorSound(old)
    BY SocketFacts
  <1>2. /\ connection' = [connection EXCEPT ![k] = new] /\ online' = [online EXCEPT ![old.device] = first]
        /\ UNCHANGED <<access, client, listed, tasks, shown, obeyed, count>>
    BY DEF ConnectorEnds, Connectors
  <1>3. /\ new \in ConnectorRecord /\ new.device = old.device /\ new.wire = <<>> /\ new.frame = old.frame
        /\ new.rest = old.rest /\ new.at = "gone"
    <2>1. <<>> \in Wires /\ "gone" \in Stages
      BY DEF Wires, Stages
    <2>2. ASSUME NEW one \in ConnectorRecord
          PROVE  LET other == [[one EXCEPT !.at = "gone"] EXCEPT !.wire = <<>>]
                 IN  /\ other \in ConnectorRecord /\ other.device = one.device /\ other.wire = <<>>
                     /\ other.frame = one.frame /\ other.rest = one.rest /\ other.at = "gone"
      BY <2>1, <2>2 DEF ConnectorRecord
    <2> QED
      BY <1>1, <2>2
  <1> HIDE DEF new
  <1>4. ConnectorSound(new) /\ ~Serves(new)
    BY <1>1, <1>3 DEF ConnectorSound, Serves
  <1>5. /\ connection' \in Seq(ConnectorRecord) /\ Connectors' = Connectors /\ connection'[k] = new
        /\ \A j \in Connectors : j # k => connection'[j] = connection[j]
        /\ \A j \in Connectors' : ConnectorSound(connection'[j])
    BY <1>2, <1>3, <1>4, OneConnector
  <1>6. /\ online' \in Seq(Nat) /\ Len(online') = Len(online)
        /\ \A d \in DOMAIN online : online'[d] = online[d] \/ online[d] = k
    <2>1. online \in Seq(Nat)
      BY SocketFacts
    <2>2. old.device \in DOMAIN online => first \in Nat /\ (first = online[old.device] \/ online[old.device] = k)
      BY <2>1, SeqFacts
    <2> DEFINE d == old.device
    <2>3. online' = [online EXCEPT ![d] = first] /\ (d \in DOMAIN online => first \in Nat)
      BY <1>2, <2>2
    <2> HIDE DEF first, d
    <2>4. /\ online' \in Seq(Nat) /\ Len(online') = Len(online)
          /\ \A e \in DOMAIN online : e # d => online'[e] = online[e]
          /\ d \in DOMAIN online => online'[d] = first
      BY <2>1, <2>3, OneChanged
    <2> QED
      BY <2>2, <2>4 DEF d
  <1>7. OnlineInv'
    <2> SUFFICES ASSUME NEW j \in Connectors, Serves(connection'[j])
                 PROVE  online'[connection'[j].device] = j \/ device[connection'[j].device].revoked
      BY <1>2, <1>5 DEF OnlineInv, access
    <2>1. j # k /\ connection'[j] = connection[j]
      BY <1>4, <1>5
    <2>2. online[connection[j].device] = j \/ device[connection[j].device].revoked
      BY <2>1 DEF RelayInv, OnlineInv
    <2>3. connection[j].device \in DOMAIN online
      <3>1. device \in Seq(DeviceRecord) /\ online \in Seq(Nat) /\ Len(online) = Len(device)
        BY DEF RelayInv, RelayTypes
      <3>2. connection[j].device \in DOMAIN device /\ DOMAIN device = DOMAIN online
        BY <3>1, SeqFacts, SocketFacts DEF ConnectorSound, Devices
      <3> QED
        BY <3>2
    <2> QED
      BY <1>6, <2>1, <2>2, <2>3
  <1> QED
    BY <1>2, <1>5, <1>6, <1>7, SocketFacts, SocketStep DEF Connectors, Clients
-----------------------------------------------------------------------------
(* Connections of browsers.                                                *)

\* One browser, or none, changes.
LEMMA OneClient ==
  ASSUME RelayInv, NEW c, NEW peer,
         c \in Clients => /\ peer \in ClientRecord /\ ClientSound(peer)
                          /\ peer.session = client[c].session,
         client' = [client EXCEPT ![c] = peer]
  PROVE  /\ client' \in Seq(ClientRecord) /\ Clients' = Clients /\ ClientsLater(client, client')
         /\ \A e \in Clients' : ClientSound(client'[e])
  <1>1. client \in Seq(ClientRecord) /\ \A e \in Clients : ClientSound(client[e])
    BY SocketFacts
  <1>2. /\ client' \in Seq(ClientRecord) /\ DOMAIN client' = DOMAIN client
        /\ c \in DOMAIN client => client'[c] = peer
        /\ \A e \in DOMAIN client : e # c => client'[e] = client[e]
    BY <1>1, OneChanged DEF Clients
  <1> QED
    BY <1>1, <1>2 DEF Clients, ClientsLater

\* A step of a browser: what passes is sound.
LEMMA ClientStep ==
  ASSUME RelayInv, UNCHANGED <<access, connection, online>>,
         client' \in Seq(ClientRecord), ClientsLater(client, client'), \A e \in Clients' : ClientSound(client'[e]),
         listed' \in Seq(Numbers), Len(listed') = Len(listed), \A d \in Devices : listed'[d] \subseteq Clients',
         \A m \in tasks' \cup shown' \cup obeyed' : Passed(m),
         count' \in [messages : Int, restarts : Int]
  PROVE  RelayInv'
  <1>1. OnlineInv'
    BY DEF RelayInv, OnlineInv, Connectors, access
  <1> QED
    BY <1>1, SocketFacts, SocketStep DEF Connectors

\* A browser is taken from a list.
LEMMA Unlisted ==
  ASSUME RelayInv, NEW d, NEW c, listed' = [listed EXCEPT ![d] = listed[d] \ {c}]
  PROVE  listed' \in Seq(Numbers) /\ Len(listed') = Len(listed) /\ \A e \in Devices : listed'[e] \subseteq Clients
  <1>1. listed \in Seq(Numbers) /\ \A e \in Devices : listed[e] \subseteq Clients
    BY SocketFacts
  <1>2. DOMAIN listed = Devices
    <2>1. device \in Seq(DeviceRecord) /\ Len(listed) = Len(device)
      BY DEF RelayInv, RelayTypes
    <2> QED
      BY <1>1, <2>1, SeqFacts DEF Devices
  <1> DEFINE less == listed[d] \ {c}
  <1>3. d \in DOMAIN listed => less \in Numbers /\ less \subseteq Clients
    BY <1>1, <1>2, SeqFacts DEF Numbers
  <1> HIDE DEF less
  <1>4. listed' = [listed EXCEPT ![d] = less]
    BY DEF less
  <1>5. /\ listed' \in Seq(Numbers) /\ Len(listed') = Len(listed)
        /\ d \in DOMAIN listed => listed'[d] = less
        /\ \A e \in DOMAIN listed : e # d => listed'[e] = listed[e]
    BY <1>1, <1>3, <1>4, OneChanged
  <1> QED
    BY <1>1, <1>2, <1>3, <1>5

LEMMA ClosedClient ==
  ASSUME RelayInv, NEW c, client' = [client EXCEPT ![c].closed = TRUE]
  PROVE  /\ client' \in Seq(ClientRecord) /\ Clients' = Clients /\ ClientsLater(client, client')
         /\ \A e \in Clients' : ClientSound(client'[e])
  <1> DEFINE new == [client[c] EXCEPT !.closed = TRUE]
  <1>1. ASSUME NEW one \in ClientRecord
        PROVE  LET other == [one EXCEPT !.closed = TRUE]
               IN  /\ other \in ClientRecord /\ other.session = one.session /\ other.device = one.device
                   /\ other.wire = one.wire
    BY <1>1 DEF ClientRecord
  <1>2. c \in Clients => /\ new \in ClientRecord /\ new.session = client[c].session
                         /\ new.device = client[c].device /\ new.wire = client[c].wire
    BY <1>1, SocketFacts
  <1> HIDE DEF new
  <1>3. c \in Clients => ClientSound(new)
    BY <1>2, SocketFacts DEF ClientSound
  <1>4. client' = [client EXCEPT ![c] = new]
    BY DEF new
  <1> QED
    BY <1>2, <1>3, <1>4, OneClient

LEMMA ClientArrivesKeeps ==
  ASSUME RelayInv, NEW s \in Sessions, NEW d \in Devices, ClientArrives(s, d)
  PROVE  RelayInv'
  <1> DEFINE new == [session |-> s, device |-> d, at |-> "serving", up |-> TRUE, closed |-> FALSE, wire |-> <<>>]
             last == Len(client) + 1
             more == listed[d] \cup {last}
  <1>1. /\ client' = Append(client, new) /\ listed' = [listed EXCEPT ![d] = more]
        /\ UNCHANGED <<access, connection, online, tasks, shown, obeyed, count>>
    BY DEF ClientArrives
  <1>2. /\ client \in Seq(ClientRecord) /\ listed \in Seq(Numbers) /\ \A e \in Clients : ClientSound(client[e])
        /\ \A e \in Devices : listed[e] \subseteq Clients
    BY SocketFacts
  <1>3. /\ device \in Seq(DeviceRecord) /\ session \in Seq(SessionRecord) /\ Len(listed) = Len(device)
    BY DEF RelayInv, RelayTypes
  <1>4. s \in Nat /\ d \in Nat /\ DOMAIN listed = Devices /\ last \in Nat
    BY <1>2, <1>3, SeqFacts DEF Sessions, Devices
  <1>5. new \in ClientRecord
    <2>1. <<>> \in Wires /\ "serving" \in Stages
      BY DEF Wires, Stages
    <2> QED
      BY <1>4, <2>1 DEF ClientRecord
  <1>6. ClientSound(new)
    BY DEF ClientSound, ClientArrives
  <1>7. more \in Numbers
    BY <1>2, <1>4, SeqFacts DEF Numbers
  <1> HIDE DEF new, more
  <1>8. /\ client' \in Seq(ClientRecord) /\ DOMAIN client' = DOMAIN client \cup {last}
        /\ \A e \in DOMAIN client : client'[e] = client[e]
        /\ \A e \in DOMAIN client' : (e \in DOMAIN client /\ client'[e] = client[e]) \/ client'[e] = new
    BY <1>1, <1>2, <1>5, OneMore
  <1>9. ClientsLater(client, client') /\ \A e \in Clients' : ClientSound(client'[e])
    BY <1>2, <1>6, <1>8 DEF ClientsLater, Clients
  <1>10. /\ listed' \in Seq(Numbers) /\ Len(listed') = Len(listed) /\ listed'[d] = more
         /\ \A e \in DOMAIN listed : e # d => listed'[e] = listed[e]
    BY <1>1, <1>2, <1>4, <1>7, OneChanged
  <1>11. \A e \in Devices : listed'[e] \subseteq Clients'
    BY <1>2, <1>4, <1>8, <1>10 DEF Clients, more
  <1> QED
    BY <1>1, <1>8, <1>9, <1>10, <1>11, SocketFacts, ClientStep

LEMMA ClientLostKeeps ==
  ASSUME RelayInv, NEW c \in Clients, ClientLost(c)
  PROVE  RelayInv'
  <1> DEFINE new == [client[c] EXCEPT !.up = FALSE]
  <1>1. client[c] \in ClientRecord /\ ClientSound(client[c])
    BY SocketFacts
  <1>2. client' = [client EXCEPT ![c] = new] /\ UNCHANGED <<access, connection, online, listed, tasks, shown, obeyed, count>>
    BY DEF ClientLost
  <1>3. ASSUME NEW one \in ClientRecord
        PROVE  LET other == [one EXCEPT !.up = FALSE]
               IN  /\ other \in ClientRecord /\ other.session = one.session /\ other.device = one.device
                   /\ other.wire = one.wire
    BY <1>3 DEF ClientRecord
  <1>4. /\ new \in ClientRecord /\ new.session = client[c].session
        /\ new.device = client[c].device /\ new.wire = client[c].wire
    BY <1>1, <1>3
  <1> HIDE DEF new
  <1>5. ClientSound(new)
    BY <1>1, <1>4 DEF ClientSound
  <1>6. /\ client' \in Seq(ClientRecord) /\ Clients' = Clients /\ ClientsLater(client, client')
        /\ \A e \in Clients' : ClientSound(client'[e])
    BY <1>2, <1>4, <1>5, OneClient
  <1> QED
    BY <1>2, <1>6, SocketFacts, ClientStep

LEMMA ClientSendsKeeps ==
  ASSUME RelayInv, NEW c \in Clients, ClientSends(c)
  PROVE  RelayInv'
  <1> DEFINE old == client[c]
             more == NewMessage(old.device)
             wire == Append(old.wire, more)
             new == [old EXCEPT !.wire = wire]
  <1>1. old \in ClientRecord /\ ClientSound(old)
    BY SocketFacts
  <1>2. more \in Sound(old.device) /\ old.wire \in Seq(Sound(old.device))
    BY <1>1, MessageSound DEF ClientSound
  <1>3. /\ client' = [client EXCEPT ![c] = new] /\ old = client[c]
        /\ UNCHANGED <<access, connection, online, listed, tasks, shown, obeyed>>
    BY DEF ClientSends
  <1>4. count' \in [messages : Int, restarts : Int]
    BY <1>1, MessageSound DEF ClientSends, ClientSound
  <1> HIDE DEF more
  <1>5. wire \in Seq(Sound(old.device))
    BY <1>2
  <1>6. wire \in Wires
    BY <1>5 DEF Sound, Wires
  <1> HIDE DEF wire, old
  <1>7. /\ new \in ClientRecord /\ new.session = old.session /\ new.device = old.device /\ new.wire = wire
    BY <1>1, <1>6 DEF ClientRecord
  <1> HIDE DEF new
  <1>8. ClientSound(new)
    BY <1>1, <1>5, <1>7 DEF ClientSound
  <1>9. /\ client' \in Seq(ClientRecord) /\ Clients' = Clients /\ ClientsLater(client, client')
        /\ \A e \in Clients' : ClientSound(client'[e])
    BY <1>3, <1>7, <1>8, OneClient
  <1> QED
    BY <1>3, <1>4, <1>9, SocketFacts, ClientStep

\* What is obeyed was sent while the session and the Device were there.
LEMMA TakeCommandKeeps ==
  ASSUME RelayInv, NEW c \in Clients, TakeCommand(c)
  PROVE  RelayInv'
  <1> DEFINE old == client[c]
             first == Head(old.wire)
             wire == Tail(old.wire)
             taken == [old EXCEPT !.wire = wire]
             close == [[old EXCEPT !.closed = TRUE] EXCEPT !.at = "closing"]
  <1>1. old \in ClientRecord /\ ClientSound(old) /\ old.wire # <<>>
    BY SocketFacts DEF TakeCommand
  <1>2. UNCHANGED <<access, connection, online, listed, tasks, shown, count>>
    BY DEF TakeCommand
  <1>3. first \in Sound(old.device) /\ wire \in Seq(Sound(old.device))
    BY <1>1, OneLess DEF ClientSound
  <1>4. client' = [client EXCEPT ![c] = taken] \/ client' = [client EXCEPT ![c] = close]
    BY DEF TakeCommand, Clients
  <1>5. \/ obeyed' = obeyed
        \/ /\ obeyed' = obeyed \cup {[client |-> c, message |-> first]}
           /\ Valid(old.session) /\ ~device[old.device].revoked
    BY DEF TakeCommand
  <1>6. \A m \in obeyed' : Passed(m)
    <2>1. Valid(old.session) /\ ~device[old.device].revoked => Passed([client |-> c, message |-> first])
      BY <1>3 DEF Passed, Sound, Valid
    <2> QED
      BY <1>5, <2>1, SocketFacts
  <1>7. wire \in Wires /\ "closing" \in Stages
    BY <1>3 DEF Sound, Wires, Stages
  <1>8. old = client[c]
    OBVIOUS
  <1> HIDE DEF wire, old
  <1>9. /\ taken \in ClientRecord /\ taken.session = old.session /\ taken.device = old.device /\ taken.wire = wire
    BY <1>1, <1>7 DEF ClientRecord
  <1>10. /\ close \in ClientRecord /\ close.session = old.session /\ close.device = old.device
         /\ close.wire = old.wire
    BY <1>1, <1>7 DEF ClientRecord
  <1> HIDE DEF taken, close
  <1>11. ClientSound(taken) /\ ClientSound(close)
    BY <1>1, <1>3, <1>9, <1>10 DEF ClientSound
  <1>12. /\ client' \in Seq(ClientRecord) /\ Clients' = Clients /\ ClientsLater(client, client')
         /\ \A e \in Clients' : ClientSound(client'[e])
    BY <1>4, <1>8, <1>9, <1>10, <1>11, OneClient
  <1> QED
    BY <1>2, <1>6, <1>12, SocketFacts, ClientStep

LEMMA DeliveredKeeps ==
  ASSUME RelayInv, NEW t \in tasks, Delivered(t)
  PROVE  RelayInv'
  <1> DEFINE c == t.client
             d == client[c].device
  <1>1. UNCHANGED <<access, connection, online, obeyed, count>> /\ tasks' = tasks \ {t}
        /\ (shown' = shown \/ shown' = shown \cup {t})
    BY DEF Delivered
  <1>2. client' = client \/ client' = [client EXCEPT ![c].closed = TRUE]
    BY DEF Delivered
  <1>3. listed' = listed \/ listed' = [listed EXCEPT ![d] = listed[d] \ {c}]
    BY DEF Delivered
  <1> HIDE DEF c, d
  <1>4. /\ client' \in Seq(ClientRecord) /\ Clients' = Clients /\ ClientsLater(client, client')
        /\ \A e \in Clients' : ClientSound(client'[e])
    <2>1. CASE client' = client
      BY <2>1, SocketFacts DEF Clients
    <2> QED
      BY <1>2, <2>1, ClosedClient
  <1>5. listed' \in Seq(Numbers) /\ Len(listed') = Len(listed) /\ \A e \in Devices : listed'[e] \subseteq Clients
    <2>1. CASE listed' = listed
      BY <2>1, SocketFacts
    <2> QED
      BY <1>3, <2>1, Unlisted
  <1>6. \A m \in tasks' \cup shown' \cup obeyed' : Passed(m)
    BY <1>1, SocketFacts
  <1> QED
    BY <1>1, <1>4, <1>5, <1>6, SocketFacts, ClientStep

LEMMA ClientEndsKeeps ==
  ASSUME RelayInv, NEW c \in Clients, ClientEnds(c)
  PROVE  RelayInv'
  <1> DEFINE old == client[c]
             d == old.device
             new == [[old EXCEPT !.at = "gone"] EXCEPT !.wire = <<>>]
  <1>1. old \in ClientRecord /\ ClientSound(old)
    BY SocketFacts
  <1>2. /\ client' = [client EXCEPT ![c] = new] /\ listed' = [listed EXCEPT ![d] = listed[d] \ {c}]
        /\ UNCHANGED <<access, connection, online, tasks, shown, obeyed, count>>
    BY DEF ClientEnds, Clients
  <1>3. /\ new \in ClientRecord /\ new.session = old.session /\ new.device = old.device /\ new.wire = <<>>
    <2>1. <<>> \in Wires /\ "gone" \in Stages
      BY DEF Wires, Stages
    <2>2. ASSUME NEW one \in ClientRecord
          PROVE  LET other == [[one EXCEPT !.at = "gone"] EXCEPT !.wire = <<>>]
                 IN  /\ other \in ClientRecord /\ other.session = one.session /\ other.device = one.device
                     /\ other.wire = <<>>
      BY <2>1, <2>2 DEF ClientRecord
    <2> QED
      BY <1>1, <2>2
  <1> HIDE DEF new, d
  <1>4. ClientSound(new)
    BY <1>1, <1>3 DEF ClientSound
  <1>5. /\ client' \in Seq(ClientRecord) /\ Clients' = Clients /\ ClientsLater(client, client')
        /\ \A e \in Clients' : ClientSound(client'[e])
    BY <1>2, <1>3, <1>4, OneClient
  <1>6. listed' \in Seq(Numbers) /\ Len(listed') = Len(listed) /\ \A e \in Devices : listed'[e] \subseteq Clients
    BY <1>2, Unlisted
  <1> QED
    BY <1>2, <1>5, <1>6, SocketFacts, ClientStep

\* A task is made for browsers only whose session is valid when the message is in hand.
LEMMA BroadcastKeeps ==
  ASSUME RelayInv, NEW k \in Connectors, SpreadFrame(k)
  PROVE  RelayInv'
  <1> DEFINE old == connection[k]
             d == old.device
             frame == Head(old.frame)
             expired == Expired(old.rest)
  <1>1. old \in ConnectorRecord /\ ConnectorSound(old) /\ old.at = "sending" /\ old = connection[k]
    BY SocketFacts DEF SpreadFrame
  <1>2. UNCHANGED <<access, online, shown, obeyed, count>>
    BY DEF SpreadFrame
  <1>3. frame \in Timely(d) /\ old.rest \subseteq Clients
    BY <1>1, OneLess DEF ConnectorSound
  <1>4. \A e \in old.rest \ expired : Passed([client |-> e, message |-> frame])
    BY <1>3 DEF Passed, Timely, Sound, Expired, Valid
  <1>5. PICK cs \in SUBSET (old.rest \ expired) :
          tasks' = tasks \cup {[client |-> e, message |-> frame] : e \in cs}
    <2>1. CASE expired = {} /\ tasks' = tasks \cup {[client |-> e, message |-> frame] : e \in old.rest}
      BY <2>1
    <2>2. CASE \E before \in SUBSET (old.rest \ expired) :
                 tasks' = tasks \cup {[client |-> e, message |-> frame] : e \in before}
      BY <2>2
    <2> QED
      BY <2>1, <2>2 DEF SpreadFrame
  <1>6. \A m \in tasks' \cup shown' \cup obeyed' : Passed(m)
    BY <1>2, <1>4, <1>5, SocketFacts
  <1>7. /\ client' \in Seq(ClientRecord) /\ Clients' = Clients /\ ClientsLater(client, client')
        /\ \A e \in Clients' : ClientSound(client'[e])
        /\ listed' \in Seq(Numbers) /\ Len(listed') = Len(listed) /\ \A e \in Devices : listed'[e] \subseteq Clients
    <2>1. CASE client' = client /\ listed' = listed
      BY <2>1, SocketFacts DEF Clients
    <2>2. CASE \E c : client' = [client EXCEPT ![c].closed = TRUE] /\ listed' = [listed EXCEPT ![d] = listed[d] \ {c}]
      <3>1. PICK c : client' = [client EXCEPT ![c].closed = TRUE] /\ listed' = [listed EXCEPT ![d] = listed[d] \ {c}]
        BY <2>2
      <3>2. /\ client' \in Seq(ClientRecord) /\ Clients' = Clients /\ ClientsLater(client, client')
            /\ \A e \in Clients' : ClientSound(client'[e])
        BY <3>1, ClosedClient
      <3> HIDE DEF d
      <3>3. listed' \in Seq(Numbers) /\ Len(listed') = Len(listed) /\ \A e \in Devices : listed'[e] \subseteq Clients
        BY <3>1, Unlisted
      <3> QED
        BY <3>2, <3>3
    <2>3. \/ client' = client /\ listed' = listed
          \/ \E c : client' = [client EXCEPT ![c].closed = TRUE] /\ listed' = [listed EXCEPT ![d] = listed[d] \ {c}]
      BY DEF SpreadFrame
    <2> QED
      BY <2>1, <2>2, <2>3
  <1>8. PICK at \in {"serving", "sending"}, frames \in {<<>>, old.frame}, rest \in SUBSET old.rest :
          /\ connection' = [connection EXCEPT ![k] =
                             [[[old EXCEPT !.at = at] EXCEPT !.rest = rest] EXCEPT !.frame = frames]]
          /\ at = "sending" => frames # <<>>
    <2>0. ASSUME NEW one \in ConnectorRecord, NEW rest, one.at = "sending"
          PROVE  [one EXCEPT !.rest = rest]
                   = [[[one EXCEPT !.at = "sending"] EXCEPT !.rest = rest] EXCEPT !.frame = one.frame]
      BY <2>0 DEF ConnectorRecord
    <2>1. CASE connection' = [connection EXCEPT ![k].at = "serving", ![k].rest = {}, ![k].frame = <<>>]
      <3>1. connection' = [connection EXCEPT ![k] =
                            [[[old EXCEPT !.at = "serving"] EXCEPT !.rest = {}] EXCEPT !.frame = <<>>]]
        BY <2>1 DEF Connectors
      <3>2. "serving" # "sending" /\ {} \in SUBSET old.rest
        OBVIOUS
      <3> HIDE DEF old
      <3> QED
        BY <3>1, <3>2
    <2>2. ASSUME NEW rest \in SUBSET old.rest, connection' = [connection EXCEPT ![k].rest = rest]
          PROVE  connection' = [connection EXCEPT ![k] =
                   [[[old EXCEPT !.at = "sending"] EXCEPT !.rest = rest] EXCEPT !.frame = old.frame]]
      BY <1>1, <2>0, <2>2
    <2>3. old.frame # <<>>
      BY <1>1 DEF ConnectorSound
    <2>4. \/ connection' = [connection EXCEPT ![k].at = "serving", ![k].rest = {}, ![k].frame = <<>>]
          \/ \E rest \in SUBSET old.rest : connection' = [connection EXCEPT ![k].rest = rest]
      BY DEF SpreadFrame
    <2>5. CASE \E rest \in SUBSET old.rest : connection' = [connection EXCEPT ![k].rest = rest]
      BY <2>2, <2>3, <2>5
    <2> QED
      BY <2>1, <2>4, <2>5
  <1> DEFINE new == [[[old EXCEPT !.at = at] EXCEPT !.rest = rest] EXCEPT !.frame = frames]
  <1>9. /\ rest \in Numbers /\ at \in Stages /\ frames \in Wires /\ frames \in Seq(Timely(d))
    <2>1. old.rest \in Numbers /\ old.frame \in Wires /\ old.frame \in Seq(Timely(d))
      BY <1>1 DEF ConnectorRecord, ConnectorSound
    <2>2. <<>> \in Wires /\ <<>> \in Seq(Timely(d))
      BY DEF Wires
    <2>3. rest \in Numbers
      BY <2>1 DEF Numbers
    <2>4. at \in Stages
      BY DEF Stages
    <2>5. frames = <<>> \/ frames = old.frame
      BY <1>8
    <2> HIDE DEF old, d
    <2> QED
      BY <2>1, <2>2, <2>3, <2>4, <2>5
  <1>10. connection' = [connection EXCEPT ![k] = new]
    BY <1>8
  <1>11. /\ new \in ConnectorRecord /\ new.device = old.device /\ new.wire = old.wire /\ new.frame = frames
         /\ new.rest = rest /\ new.at = at /\ new.closed = old.closed
    <2>1. ASSUME NEW one \in ConnectorRecord
          PROVE  LET other == [[[one EXCEPT !.at = at] EXCEPT !.rest = rest] EXCEPT !.frame = frames]
                 IN  /\ other \in ConnectorRecord /\ other.device = one.device /\ other.wire = one.wire
                     /\ other.frame = frames /\ other.rest = rest /\ other.at = at /\ other.closed = one.closed
      BY <1>9, <2>1 DEF ConnectorRecord
    <2> QED
      BY <1>1, <2>1
  <1> HIDE DEF new, old
  <1>12. ConnectorSound(new)
    BY <1>1, <1>3, <1>8, <1>9, <1>11 DEF ConnectorSound
  <1>13. Serves(new) => Serves(old)
    BY <1>1, <1>11 DEF Serves
  <1>14. /\ connection' \in Seq(ConnectorRecord) /\ Connectors' = Connectors /\ connection'[k] = new
         /\ \A j \in Connectors : j # k => connection'[j] = connection[j]
         /\ \A j \in Connectors' : ConnectorSound(connection'[j])
    BY <1>10, <1>11, <1>12, OneConnector
  <1>15. OnlineInv'
    BY <1>1, <1>2, <1>11, <1>13, <1>14 DEF RelayInv, OnlineInv, access
  <1> QED
    BY <1>2, <1>6, <1>7, <1>14, <1>15, SocketFacts, SocketStep DEF Connectors
-----------------------------------------------------------------------------
(* Revocation and restarts.                                                *)

LEMMA CloseRevokedKeeps ==
  ASSUME RelayInv, NEW d \in Devices, CloseRevoked(d)
  PROVE  RelayInv'
  <1>1. UNCHANGED <<access, online, listed, tasks, shown, obeyed, count>>
    BY DEF CloseRevoked
  <1>2. CASE \E e : client' = [client EXCEPT ![e].closed = TRUE] /\ connection' = connection
    <2>1. PICK e : client' = [client EXCEPT ![e].closed = TRUE] /\ connection' = connection
      BY <1>2
    <2>2. /\ client' \in Seq(ClientRecord) /\ Clients' = Clients /\ ClientsLater(client, client')
          /\ \A c \in Clients' : ClientSound(client'[c])
      BY <2>1, ClosedClient
    <2> QED
      BY <1>1, <2>1, <2>2, SocketFacts, ClientStep
  <1>3. CASE \E k : connection' = [connection EXCEPT ![k].closed = TRUE] /\ client' = client
    <2>1. PICK k : connection' = [connection EXCEPT ![k].closed = TRUE] /\ client' = client
      BY <1>3
    <2>2. /\ Moves(connection, connection')
          /\ k \in Connectors => connection'[k].closed
          /\ \A j \in Connectors : j # k => connection'[j] = connection[j]
      BY <2>1, CloseOne, SocketFacts DEF Connectors
    <2>3. OnlineInv'
      BY <1>1, <2>2 DEF RelayInv, OnlineInv, Moves, Connectors, Serves, access
    <2> QED
      BY <1>1, <2>1, <2>2, <2>3, MovesStep, SocketFacts
  <1>4. \/ \E e : client' = [client EXCEPT ![e].closed = TRUE] /\ connection' = connection
        \/ \E k : connection' = [connection EXCEPT ![k].closed = TRUE] /\ client' = client
    BY DEF CloseRevoked
  <1> QED
    BY <1>2, <1>3, <1>4

\* Sessions are lost and connections gone; what passed before has passed.
LEMMA RestartKeeps ==
  ASSUME RelayInv, Restart
  PROVE  RelayInv'
  <1>1. /\ session \in Seq(SessionRecord) /\ code \in Seq(CodeRecord) /\ device \in Seq(DeviceRecord)
        /\ Len(online) = Len(device) /\ Len(listed) = Len(device)
        /\ connection \in Seq(ConnectorRecord) /\ client \in Seq(ClientRecord)
        /\ online \in Seq(Nat) /\ listed \in Seq(Numbers) /\ count \in [messages : Int, restarts : Int]
    BY DEF RelayInv, RelayTypes
  <1>2. /\ session' = [s \in Sessions |-> [session[s] EXCEPT !.state = "lost"]]
        /\ code' = [c \in Codes |-> [code[c] EXCEPT !.state = "gone"]]
        /\ connection' = [k \in Connectors |-> [connection[k] EXCEPT !.at = "gone", !.up = FALSE]]
        /\ client' = [c \in Clients |-> [client[c] EXCEPT !.at = "gone", !.up = FALSE]]
        /\ online' = [d \in Devices |-> 0] /\ listed' = [d \in Devices |-> {}]
        /\ tasks' = {} /\ UNCHANGED <<device, shown, obeyed>>
        /\ count' = [count EXCEPT !.restarts = @ + 1]
    BY DEF Restart
  <1>3. SessionsLater(session, session')
    <2>1. ASSUME NEW one \in SessionRecord
          PROVE  LET new == [one EXCEPT !.state = "lost"]
                 IN  new \in SessionRecord /\ new.account = one.account /\ new.state = "lost"
      BY <2>1 DEF SessionRecord
    <2>2. \A s \in DOMAIN session : session[s] \in SessionRecord
      BY <1>1, SeqFacts
    <2>3. /\ DOMAIN session' = DOMAIN session /\ session' = [s \in DOMAIN session' |-> session'[s]]
          /\ \A s \in DOMAIN session : /\ session'[s] \in SessionRecord /\ session'[s].account = session[s].account
                                      /\ session'[s].state = "lost"
      BY <1>2, <2>1, <2>2 DEF Sessions
    <2>4. session' \in Seq(SessionRecord)
      BY <1>1, <2>3, AllChanged
    <2> QED
      BY <2>3, <2>4 DEF SessionsLater
  <1>4. code' \in Seq(CodeRecord)
    <2>1. ASSUME NEW one \in CodeRecord PROVE [one EXCEPT !.state = "gone"] \in CodeRecord
      BY <2>1 DEF CodeRecord
    <2>2. \A c \in DOMAIN code : code[c] \in CodeRecord
      BY <1>1, SeqFacts
    <2>3. /\ DOMAIN code' = DOMAIN code /\ code' = [c \in DOMAIN code' |-> code'[c]]
          /\ \A c \in DOMAIN code : code'[c] \in CodeRecord
      BY <1>2, <2>1, <2>2 DEF Codes
    <2> QED
      BY <1>1, <2>3, AllChanged
  <1>5. /\ connection' \in Seq(ConnectorRecord) /\ DOMAIN connection' = DOMAIN connection
        /\ \A k \in DOMAIN connection :
             /\ connection'[k].device = connection[k].device /\ connection'[k].wire = connection[k].wire
             /\ connection'[k].frame = connection[k].frame /\ connection'[k].rest = connection[k].rest
             /\ connection'[k].at = "gone"
    <2>1. ASSUME NEW one \in ConnectorRecord
          PROVE  LET new == [one EXCEPT !.at = "gone", !.up = FALSE]
                 IN  /\ new \in ConnectorRecord /\ new.device = one.device /\ new.wire = one.wire
                     /\ new.frame = one.frame /\ new.rest = one.rest /\ new.at = "gone"
      BY <2>1 DEF ConnectorRecord, Stages
    <2>2. \A k \in DOMAIN connection : connection[k] \in ConnectorRecord
      BY <1>1, SeqFacts
    <2>3. /\ DOMAIN connection' = DOMAIN connection /\ connection' = [k \in DOMAIN connection' |-> connection'[k]]
          /\ \A k \in DOMAIN connection :
               /\ connection'[k] \in ConnectorRecord
               /\ connection'[k].device = connection[k].device /\ connection'[k].wire = connection[k].wire
               /\ connection'[k].frame = connection[k].frame /\ connection'[k].rest = connection[k].rest
               /\ connection'[k].at = "gone"
      BY <1>2, <2>1, <2>2 DEF Connectors
    <2> QED
      BY <1>1, <2>3, AllChanged
  <1>6. /\ client' \in Seq(ClientRecord) /\ DOMAIN client' = DOMAIN client
        /\ \A c \in DOMAIN client : /\ client'[c].session = client[c].session /\ client'[c].device = client[c].device
                                   /\ client'[c].wire = client[c].wire
    <2>1. ASSUME NEW one \in ClientRecord
          PROVE  LET new == [one EXCEPT !.at = "gone", !.up = FALSE]
                 IN  /\ new \in ClientRecord /\ new.session = one.session /\ new.device = one.device
                     /\ new.wire = one.wire
      BY <2>1 DEF ClientRecord, Stages
    <2>2. \A c \in DOMAIN client : client[c] \in ClientRecord
      BY <1>1, SeqFacts
    <2>3. /\ DOMAIN client' = DOMAIN client /\ client' = [c \in DOMAIN client' |-> client'[c]]
          /\ \A c \in DOMAIN client :
               /\ client'[c] \in ClientRecord /\ client'[c].session = client[c].session
               /\ client'[c].device = client[c].device /\ client'[c].wire = client[c].wire
      BY <1>2, <2>1, <2>2 DEF Clients
    <2> QED
      BY <1>1, <2>3, AllChanged
  <1>7. /\ online' \in Seq(Nat) /\ Len(online') = Len(device')
        /\ listed' \in Seq(Numbers) /\ Len(listed') = Len(device') /\ \A d \in Devices' : listed'[d] \subseteq Clients'
    <2>1. DOMAIN online = Devices /\ DOMAIN listed = Devices
      BY <1>1, SeqFacts DEF Devices
    <2>2. {} \in Numbers /\ 0 \in Nat
      BY DEF Numbers
    <2>3. online' \in Seq(Nat) /\ Len(online') = Len(online)
      <3>1. /\ DOMAIN online' = DOMAIN online /\ online' = [d \in DOMAIN online' |-> online'[d]]
            /\ \A d \in DOMAIN online : online'[d] \in Nat
        BY <1>2, <2>1, <2>2
      <3> QED
        BY <1>1, <3>1, AllChanged
    <2>4. listed' \in Seq(Numbers) /\ Len(listed') = Len(listed)
      <3>1. /\ DOMAIN listed' = DOMAIN listed /\ listed' = [d \in DOMAIN listed' |-> listed'[d]]
            /\ \A d \in DOMAIN listed : listed'[d] \in Numbers
        BY <1>2, <2>1, <2>2
      <3> QED
        BY <1>1, <3>1, AllChanged
    <2> QED
      BY <1>1, <1>2, <2>3, <2>4 DEF Devices
  <1>8. count' \in [messages : Int, restarts : Int]
    <2>1. count' = [count EXCEPT !.restarts = @ + 1] /\ count \in [messages : Int, restarts : Int]
      BY <1>1, <1>2
    <2> QED
      BY <2>1
  <1>9. RelayTypes'
    BY <1>1, <1>2, <1>3, <1>4, <1>5, <1>6, <1>7, <1>8 DEF RelayTypes, SessionsLater
  <1>10. /\ DevicesLater(device, device') /\ ClientsLater(client, client')
         /\ \A k \in Connectors' : ConnectorSound(connection'[k])
         /\ \A c \in Clients' : ClientSound(client'[c])
    <2>1. \A k \in Connectors' : ConnectorSound(connection'[k])
      BY <1>5, SocketFacts DEF ConnectorSound, Connectors
    <2>2. \A c \in Clients' : ClientSound(client'[c])
      BY <1>6, SocketFacts DEF ClientSound, Clients
    <2> QED
      BY <1>2, <1>6, <2>1, <2>2, DevicesSame DEF ClientsLater
  <1>11. AccessInv'
    BY <1>2, <1>3, <1>5, <1>7, <1>10, PeersLater, SocketFacts DEF AccessInv
  <1>12. OnlineInv'
    BY <1>5 DEF OnlineInv, Connectors, Serves
  <1> QED
    BY <1>9, <1>11, <1>12 DEF RelayInv
-----------------------------------------------------------------------------
LEMMA RelayInit == AccessInit => RelayInv
  <1> SUFFICES ASSUME AccessInit PROVE RelayInv
    OBVIOUS
  <1>1. RelayTypes
    BY DEF AccessInit, RelayTypes
  <1>2. AccessInv
    BY DEF AccessInit, AccessInv, Connectors, Clients, Devices
  <1>3. OnlineInv
    BY DEF AccessInit, OnlineInv, Connectors
  <1> QED
    BY <1>1, <1>2, <1>3 DEF RelayInv

LEMMA RelayNext == RelayInv /\ [AccessNext]_accessVars => RelayInv'
  <1> SUFFICES ASSUME RelayInv, [AccessNext]_accessVars PROVE RelayInv'
    OBVIOUS
  <1>1. CASE UNCHANGED accessVars
    BY <1>1, SessionStep, SessionsSame DEF accessVars, sockets
  <1>2. CASE AccessNext
    <2>1. CASE \E a \in Accounts : Login(a)
      BY <2>1, LoginKeeps
    <2>2. CASE \E s \in Sessions : Rotate(s) \/ Logout(s) \/ Expire(s) \/ CreatePairing(s)
      BY <2>2, SessionKeeps, CodeKeeps
    <2>3. CASE \E c \in Codes : ExpirePairing(c) \/ ClaimPairing(c)
      BY <2>3, CodeKeeps, ClaimPairingKeeps
    <2>4. CASE \E d \in Devices : ConnectorArrives(d) \/ CloseRevoked(d)
      BY <2>4, ConnectorArrivesKeeps, CloseRevokedKeeps
    <2>5. CASE \E k \in Connectors :
                 \/ Rejected(k) \/ Register(k) \/ Replaced(k) \/ ConnectorLost(k) \/ DeviceSends(k)
                 \/ TakeFrame(k) \/ SpreadFrame(k) \/ ConnectorEnds(k)
      BY <2>5, RejectedKeeps, RegisterKeeps, ReplacedKeeps, ConnectorLostKeeps, DeviceSendsKeeps, TakeFrameKeeps,
         BroadcastKeeps, ConnectorEndsKeeps
    <2>6. CASE \E s \in Sessions, d \in Devices : ClientArrives(s, d) \/ RevokeDevice(s, d)
      BY <2>6, ClientArrivesKeeps, RevokeDeviceKeeps
    <2>7. CASE \E c \in Clients : ClientLost(c) \/ ClientSends(c) \/ TakeCommand(c) \/ ClientEnds(c)
      BY <2>7, ClientLostKeeps, ClientSendsKeeps, TakeCommandKeeps, ClientEndsKeeps
    <2>8. CASE \E t \in tasks : Delivered(t)
      BY <2>8, DeliveredKeeps
    <2>9. CASE Restart
      BY <2>9, RestartKeeps
    <2> QED
      BY <1>2, <2>1, <2>2, <2>3, <2>4, <2>5, <2>6, <2>7, <2>8, <2>9 DEF AccessNext
  <1> QED
    BY <1>1, <1>2

LEMMA RelayInvariant == AccessSpec => []RelayInv
  BY RelayInit, RelayNext, PTL DEF AccessSpec

\* No message passes a revocation that was answered, or a session that was over, when it
\* was sent; Devices are heard and commanded by their own account only; and a Connector that
\* is served is the one its Device is online with, unless the Device was revoked. This is for
\* every order in which sockets are replaced, closed and read (serve_connector,
\* serve_client, revoke_device and _broadcast_to_clients of relay.py), and across restarts.
THEOREM Access == AccessSpec => []AccessHolds
  <1>1. RelayInv => AccessEnds
    BY DEF RelayInv, AccessInv, AccessEnds, Passed, ClientSound
  <1>2. RelayInv => ServedIsOnline
    BY DEF RelayInv, OnlineInv, ServedIsOnline, Serves
  <1> QED
    BY <1>1, <1>2, RelayInvariant, PTL DEF AccessHolds
=============================================================================
