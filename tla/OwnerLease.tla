----------------------------- MODULE OwnerLease -----------------------------
(***************************************************************************)
(* The Runtime owner of each registered Project: ProjectRuntimeManager and *)
(* _OwnerLease (remote/runtime_manager.py) in several Connector processes  *)
(* of one device, which share the owner files and runtime-connections.json.*)
(*                                                                         *)
(* An owner file is created with O_EXCL and written afterwards; whoever    *)
(* finds one whose process is dead, or whose text it cannot read, unlinks  *)
(* it and tries again.  get_lock is a lock of one process, so the          *)
(* connections file is read and written back with nothing in between.      *)
(* A process is named by its pid; a pid is not used again.                 *)
(***************************************************************************)
EXTENDS Integers, FiniteSets

CONSTANTS Pids,        \* Connector processes
          Projects,    \* registered Projects
          Overlap,     \* may two processes start or stop runtimes at the same time?
          MaxTokens,   \* bound: leases asked for
          MaxLeaseFailures  \* bound: runtimes that fail to start, writes that fail

VARIABLES
  lease,       \* the .owner file of each project
  connections, \* runtime-connections.json: project, owner token
  hosts,       \* runtimes that are up
  unready,     \* runtimes that are up and that start() has given up waiting for
  managed,     \* _managed of each process: the lease token, or 0
  call,        \* what each process is in the middle of
  dead,        \* processes that died
  leaseCounts     \* next token, failures

leaseVars == <<lease, connections, hosts, unready, managed, call, dead, leaseCounts>>

Tokens == 1..MaxTokens
NoFile == [token |-> 0, pid |-> {}, written |-> FALSE]
Connection == [project : Projects, token : Tokens]
Host == [project : Projects, token : Tokens, pid : Pids]

\* view: the connections read and not written back yet; again: start() found a
\* runtime that had closed and stops it first.
Idle == [pc |-> "idle", project |-> {}, token |-> 0, tries |-> 0, view |-> {},
         again |-> FALSE]

LeaseInit ==
  /\ lease = [j \in Projects |-> NoFile]
  /\ connections = {} /\ hosts = {} /\ unready = {} /\ dead = {}
  /\ managed = [p \in Pids |-> [j \in Projects |-> 0]]
  /\ call = [p \in Pids |-> Idle]
  /\ leaseCounts = [token |-> 1, failures |-> 0]
-----------------------------------------------------------------------------
At(p, pc) == p \notin dead /\ call[p].pc = pc

Goto(p, pc) == call' = [call EXCEPT ![p].pc = pc]

Return(p) == call' = [call EXCEPT ![p] = Idle]

\* Processes are one at a time between the first and the last step of a call.
MayBegin(p) ==
  /\ At(p, "idle")
  /\ Overlap \/ \A q \in Pids \ {p} : q \in dead \/ call[q].pc = "idle"

\* _OwnerLease(): a new token.
BeginAcquire(p, j) ==
  /\ leaseCounts.token \in Tokens
  /\ leaseCounts' = [leaseCounts EXCEPT !.token = @ + 1]
  /\ call' = [call EXCEPT ![p] = [Idle EXCEPT !.pc = "create", !.project = j,
                                              !.token = leaseCounts.token]]

HostOf(p, j) == {h \in hosts : h.pid = p /\ h.project = j /\ h.token = managed[p][j]}

BeginStop(p, j, again) ==
  /\ hosts' = hosts \ HostOf(p, j)
  /\ managed' = [managed EXCEPT ![p][j] = 0]
  /\ call' = [call EXCEPT ![p] = [Idle EXCEPT !.pc = "remove", !.project = j,
                                              !.token = managed[p][j], !.again = again]]

\* start: nothing to do when the managed runtime is up.
Start(p, j) ==
  /\ MayBegin(p) /\ HostOf(p, j) = {}
  /\ IF managed[p][j] = 0
     THEN BeginAcquire(p, j) /\ UNCHANGED <<hosts, managed>>
     ELSE BeginStop(p, j, TRUE) /\ UNCHANGED leaseCounts
  /\ UNCHANGED <<lease, connections, unready, dead>>

Stop(p, j) ==
  /\ MayBegin(p) /\ managed[p][j] # 0
  /\ BeginStop(p, j, FALSE)
  /\ UNCHANGED <<lease, connections, unready, dead, leaseCounts>>
-----------------------------------------------------------------------------
(* _OwnerLease.acquire.                                                    *)

File(p) == lease[call[p].project]
SetFile(p, file) == lease' = [lease EXCEPT ![call[p].project] = file]

Create(p) ==
  /\ At(p, "create")
  /\ IF File(p) = NoFile
     THEN SetFile(p, [token |-> call[p].token, pid |-> p, written |-> FALSE])
          /\ Goto(p, "write")
     ELSE Goto(p, "probe") /\ UNCHANGED lease
  /\ UNCHANGED <<connections, hosts, managed, unready, dead, leaseCounts>>

\* plausible bug: only the process's own leases count as alive
OwnerIsSelf(p) == File(p).written /\ File(p).pid = p

\* _owner_is_alive: a file that is missing or has no text yet counts as dead.
OwnerIsAlive(p) == File(p).written /\ File(p).pid \notin dead

Probe(p) ==
  /\ At(p, "probe")
  /\ IF OwnerIsAlive(p) THEN Return(p) ELSE Goto(p, "unlink")
  /\ UNCHANGED <<lease, connections, hosts, managed, unready, dead, leaseCounts>>

SingleTry(tries) == tries >= 1   \* plausible bug: no second attempt

TriesUsed(tries) == tries >= 2

\* Unlinks whatever file has that name by now, and tries a second time.
Unlink(p) ==
  /\ At(p, "unlink")
  /\ SetFile(p, NoFile)
  /\ IF TriesUsed(call[p].tries + 1) THEN Return(p)
     ELSE call' = [call EXCEPT ![p].pc = "create", ![p].tries = @ + 1]
  /\ UNCHANGED <<connections, hosts, managed, unready, dead, leaseCounts>>

\* The text goes to the file this process created, which may be unlinked by now.
Write(p) ==
  /\ At(p, "write")
  /\ IF File(p).token = call[p].token THEN SetFile(p, [File(p) EXCEPT !.written = TRUE])
     ELSE UNCHANGED lease
  /\ Goto(p, "launch")
  /\ UNCHANGED <<connections, hosts, managed, unready, dead, leaseCounts>>
-----------------------------------------------------------------------------
(* The rest of start.                                                      *)

ThisHost(p) == [project |-> call[p].project, token |-> call[p].token, pid |-> p]

Launch(p) ==
  /\ At(p, "launch")
  /\ hosts' = hosts \cup {ThisHost(p)}
  /\ Goto(p, "publish")
  /\ UNCHANGED <<lease, connections, managed, unready, dead, leaseCounts>>

CountFailure ==
  /\ leaseCounts.failures < MaxLeaseFailures
  /\ leaseCounts' = [leaseCounts EXCEPT !.failures = @ + 1]

\* The runtime is not made, or does not start.
LaunchFails(p) ==
  /\ At(p, "launch") /\ CountFailure
  /\ Goto(p, "release")
  /\ UNCHANGED <<lease, connections, hosts, managed, unready, dead>>

\* "Managed Runtime did not become ready": nobody stops the runtime whose thread was
\* started, and its lease is released.
NotReady(p) ==
  /\ At(p, "launch") /\ CountFailure
  /\ unready' = unready \cup {ThisHost(p)}
  /\ Goto(p, "release")
  /\ UNCHANGED <<lease, connections, hosts, managed, dead>>

Own(p) == {c \in call[p].view : c.project = call[p].project /\ c.token = call[p].token}

WithProject(p) ==
  {c \in call[p].view : c.project # call[p].project}
    \cup {[project |-> call[p].project, token |-> call[p].token]}

PublishRead(p) ==
  /\ At(p, "publish")
  /\ call' = [call EXCEPT ![p].pc = "publish_write", ![p].view = connections]
  /\ UNCHANGED <<lease, connections, hosts, managed, unready, dead, leaseCounts>>

PublishWrite(p) ==
  /\ At(p, "publish_write")
  /\ connections' = WithProject(p)
  /\ managed' = [managed EXCEPT ![p][call[p].project] = call[p].token]
  /\ Return(p)
  /\ UNCHANGED <<lease, hosts, unready, dead, leaseCounts>>

PublishFails(p) ==
  /\ At(p, "publish_write") /\ CountFailure
  /\ hosts' = hosts \ {ThisHost(p)}
  /\ Goto(p, "release")
  /\ UNCHANGED <<lease, connections, managed, unready, dead>>
-----------------------------------------------------------------------------
(* _remove_connection and _OwnerLease.release.                             *)

RemoveRead(p) ==
  /\ At(p, "remove")
  /\ call' = [call EXCEPT ![p].pc = "remove_write", ![p].view = connections]
  /\ UNCHANGED <<lease, connections, hosts, managed, unready, dead, leaseCounts>>

RemoveWrite(p) ==
  /\ At(p, "remove_write")
  /\ connections' = IF Own(p) = {} THEN connections ELSE call[p].view \ Own(p)
  /\ Goto(p, "release")
  /\ UNCHANGED <<lease, hosts, managed, unready, dead, leaseCounts>>

\* The exception leaves stop() before the lease is released.
RemoveFails(p) ==
  /\ At(p, "remove_write") /\ Own(p) # {} /\ CountFailure
  /\ Return(p)
  /\ UNCHANGED <<lease, connections, hosts, managed, unready, dead>>

ReleaseRead(p) ==
  /\ At(p, "release")
  /\ Goto(p, IF File(p).written /\ File(p).token = call[p].token
             THEN "release_unlink" ELSE "released")
  /\ UNCHANGED <<lease, connections, hosts, managed, unready, dead, leaseCounts>>

ReleaseUnlink(p) ==
  /\ At(p, "release_unlink")
  /\ SetFile(p, NoFile)
  /\ Goto(p, "released")
  /\ UNCHANGED <<connections, hosts, managed, unready, dead, leaseCounts>>

Released(p) ==
  /\ At(p, "released")
  /\ IF call[p].again THEN BeginAcquire(p, call[p].project)
     ELSE Return(p) /\ UNCHANGED leaseCounts
  /\ UNCHANGED <<lease, connections, hosts, managed, unready, dead>>
-----------------------------------------------------------------------------
(* The environment.                                                        *)

\* A runtime closes by itself; its process goes on.
RuntimeCloses(h) ==
  /\ h \in hosts /\ managed[h.pid][h.project] = h.token
  /\ hosts' = hosts \ {h}
  /\ UNCHANGED <<lease, connections, managed, call, unready, dead, leaseCounts>>

\* The process dies at any point; its files stay.
Crash(p) ==
  /\ p \notin dead
  /\ dead' = dead \cup {p}
  /\ hosts' = {h \in hosts : h.pid # p} /\ unready' = {h \in unready : h.pid # p}
  /\ managed' = [managed EXCEPT ![p] = [j \in Projects |-> 0]]
  /\ Return(p)
  /\ UNCHANGED <<lease, connections, leaseCounts>>

AcquireStep(p) == Create(p) \/ Probe(p) \/ Unlink(p) \/ Write(p)

StartStep(p) ==
  Launch(p) \/ LaunchFails(p) \/ NotReady(p) \/ PublishRead(p) \/ PublishWrite(p) \/ PublishFails(p)

StopStep(p) ==
  \/ RemoveRead(p) \/ RemoveWrite(p) \/ RemoveFails(p)
  \/ ReleaseRead(p) \/ ReleaseUnlink(p) \/ Released(p)

LeaseNext ==
  \/ \E p \in Pids : \/ AcquireStep(p) \/ StartStep(p) \/ StopStep(p) \/ Crash(p)
                     \/ \E j \in Projects : Start(p, j) \/ Stop(p, j)
  \/ \E h \in hosts : RuntimeCloses(h)

LeaseSpec == LeaseInit /\ [][LeaseNext]_leaseVars
-----------------------------------------------------------------------------
PCs == {"idle", "create", "probe", "unlink", "write", "launch", "publish",
        "publish_write", "remove", "remove_write", "release", "release_unlink",
        "released"}

\* The variables have their types; no token is on a lease before it is made.
LeaseTypeOK ==
  /\ \A j \in Projects : lease[j] = NoFile \/
       lease[j] \in [token : 1..(leaseCounts.token - 1), pid : Pids, written : BOOLEAN]
  /\ connections \subseteq Connection /\ hosts \cup unready \subseteq Host /\ dead \subseteq Pids
  /\ managed \in [Pids -> [Projects -> 0..MaxTokens]]
  /\ \A p \in Pids :
       /\ call[p].pc \in PCs /\ call[p].tries \in 0..1 /\ call[p].again \in BOOLEAN
       /\ call[p].pc # "idle" => call[p].project \in Projects /\ call[p].token \in Tokens
       /\ call[p].view \subseteq Connection
  /\ leaseCounts \in [token : 1..(MaxTokens + 1), failures : 0..MaxLeaseFailures]

\* "Own at most one live Runtime host for each registered Project", over all the
\* processes of the device.  It fails if two of them overlap in start, and of a runtime
\* that did not become ready.
AtMostOneRuntime ==
  \A g, h \in hosts \cup unready : g.project = h.project => g = h

\* Of the runtimes that start has not given up waiting for, a Project has one, over all
\* the processes of the device, wherever they crash and whatever fails.
OneReadyRuntime ==
  \A g, h \in hosts : g.project = h.project => g = h

\* start is refused only while the owner file names a process that is alive: what a
\* dead process left behind never blocks its project.
RefusedOnlyByLiveOwner ==
  [][\A p \in Pids \ dead' :
       call[p].pc \in {"probe", "unlink"} /\ call'[p].pc = "idle" =>
         lease[call[p].project].written /\ lease[call[p].project].pid \notin dead]_leaseVars
=============================================================================
