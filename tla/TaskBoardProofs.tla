-------------------------- MODULE TaskBoardProofs --------------------------
(***************************************************************************)
(* What the task store guarantees for any number of actors and tasks, and  *)
(* what its teammates do for any number of members, tasks, threads, rounds *)
(* and polls: none of them leaves a task of a chain behind.                *)
(*                                                                         *)
(* Of TaskBoard, BoardInv is the inductive invariant. OpsOK says what an   *)
(* actor in the middle of a call knows: the blockers it has looked at were *)
(* completed once (Checked), the dependencies it is about to write are the *)
(* accepted ones (Faithful), and a batch that is not accepted yet has ids  *)
(* of its own and refers to accepted tasks only (Fresh). Of TeamTasks,     *)
(* TasksInv is the inductive invariant; ServedInv says who will still take *)
(* a claimable task, EarlyInv what only holds before the first task is     *)
(* completed, while the lead assigns alone.                                *)
(***************************************************************************)
EXTENDS TaskBoard, TeamTasks, TLAPS, WellFoundedInduction

Writing(a) == op[a].kind \in {"claim", "update"}

TypeInv ==
  /\ nextId \in 1..(MaxTask + 1)
  /\ DOMAIN files \subseteq 1..(nextId - 1)
  /\ \A t \in DOMAIN files : files[t] \in Task
  /\ op \in [Actors -> Op]
  /\ everCompleted \subseteq Ids

OpIdsOK ==
  \A a \in Actors :
    /\ op[a].todo \subseteq 1..(nextId - 1)
    /\ op[a].kind = "none" => op[a].todo = {} /\ op[a].left = {}

Started ==
  \A t \in DOMAIN files :
    /\ files[t].status # "pending" => files[t].blockedBy \subseteq everCompleted
    /\ files[t].status = "completed" => t \in everCompleted

Checked ==
  \A a \in Actors : \A t \in op[a].todo :
    /\ Writing(a) /\ op[a].tasks[t].status # "pending" =>
         op[a].tasks[t].blockedBy \subseteq everCompleted \cup op[a].left
    /\ op[a].kind = "create" => op[a].tasks[t].status = "pending"

AcceptedOK ==
  /\ accepted = [t \in DOMAIN accepted |-> accepted[t]]
  /\ DOMAIN accepted \subseteq 1..(nextId - 1)
  /\ \A t \in DOMAIN accepted : accepted[t] \subseteq DOMAIN accepted
  /\ Acyclic(accepted)

FilesFaithful ==
  \A t \in DOMAIN files : t \in DOMAIN accepted /\ files[t].blockedBy = accepted[t]

Faithful(a) ==
  \A t \in op[a].todo : t \in DOMAIN accepted /\ op[a].tasks[t].blockedBy = accepted[t]

Batch(a) == [t \in op[a].todo |-> op[a].tasks[t].blockedBy]

Fresh(a) ==
  /\ op[a].kind = "create"
  /\ op[a].todo \cap DOMAIN accepted = {}
  /\ \A t \in op[a].todo :
       op[a].tasks[t].blockedBy \subseteq op[a].todo \cup op[a].left \cup DOMAIN accepted
  /\ Acyclic(Batch(a))

OpsFaithful ==
  /\ \A a \in Actors : Faithful(a) \/ Fresh(a)
  /\ \A a, b \in Actors : a # b /\ op[a].kind = "create" /\ op[b].kind = "create" =>
       op[a].todo \cap op[b].todo = {}

BoardInv ==
  /\ TypeInv /\ OpIdsOK /\ Started /\ Checked
  /\ AcceptedOK /\ FilesFaithful /\ OpsFaithful

-----------------------------------------------------------------------------
LEMMA IdleFields ==
  /\ Idle \in Op /\ Idle.kind = "none" /\ Idle.todo = {} /\ Idle.left = {}
BY BoardAssumption DEF Idle, Op, NewTask, Task, Status

\* A step of a call changes nobody else's call, and Return makes its own idle.
LEMMA ReturnFields ==
  ASSUME op \in [Actors -> Op], NEW a \in Actors, Return(a)
  PROVE  /\ op' \in [Actors -> Op]
         /\ op'[a] = Idle
         /\ \A b \in Actors : b # a => op'[b] = op[b]
BY IdleFields DEF Return

\* The new tasks of a batch may refer to each other, without a cycle, and to
\* tasks of a closed acyclic graph: the extended graph is closed and acyclic.
LEMMA ExtendAcyclic ==
  ASSUME NEW G, NEW B, NEW H, Acyclic(G), Acyclic(B),
         H = [u \in DOMAIN G \cup DOMAIN B |-> IF u \in DOMAIN G THEN G[u] ELSE B[u]],
         \A t \in DOMAIN G : G[t] \subseteq DOMAIN G,
         DOMAIN B \cap DOMAIN G = {}
  PROVE  Acyclic(H)
<1>1. SUFFICES ASSUME NEW S \in SUBSET DOMAIN H, S # {}
               PROVE  \E t \in S : H[t] \cap S = {}
  BY DEF Acyclic
<1>2. DOMAIN H = DOMAIN G \cup DOMAIN B
  OBVIOUS
<1>3. CASE S \cap DOMAIN G # {}
  <2>1. PICK t \in S \cap DOMAIN G : G[t] \cap (S \cap DOMAIN G) = {}
    BY <1>3 DEF Acyclic
  <2>2. H[t] = G[t] /\ G[t] \subseteq DOMAIN G
    BY <2>1, <1>2
  <2> QED
    BY <2>1, <2>2
<1>4. CASE S \cap DOMAIN G = {}
  <2>1. S \in SUBSET DOMAIN B
    BY <1>4, <1>2
  <2>2. PICK t \in S : B[t] \cap S = {}
    BY <2>1, <1>1 DEF Acyclic
  <2>3. H[t] = B[t]
    BY <2>2, <1>4, <1>2
  <2> QED
    BY <2>2, <2>3
<1> QED
  BY <1>3, <1>4

\* A subgraph of an acyclic graph is acyclic.
LEMMA SubAcyclic ==
  ASSUME NEW G, NEW H, Acyclic(G), DOMAIN H \subseteq DOMAIN G,
         \A t \in DOMAIN H : H[t] = G[t]
  PROVE  Acyclic(H)
BY DEF Acyclic
-----------------------------------------------------------------------------
LEMMA BoardInit == Init => BoardInv
<1> SUFFICES ASSUME Init PROVE BoardInv
  OBVIOUS
<1> USE IdleFields, BoardAssumption DEF Init
<1>1. TypeInv /\ OpIdsOK /\ Started
  BY DEF TypeInv, OpIdsOK, Started, Ids
<1>2. Checked
  BY DEF Checked
<1>3. AcceptedOK /\ FilesFaithful
  BY DEF AcceptedOK, FilesFaithful, Acyclic
<1>4. OpsFaithful
  BY DEF OpsFaithful, Faithful
<1> QED
  BY <1>1, <1>2, <1>3, <1>4 DEF BoardInv

\* What Begin makes of an operation.
LEMMA BeginFields ==
  ASSUME op \in [Actors -> Op], NEW a \in Actors,
         NEW kind \in {"claim", "update", "create"}, NEW deps \in SUBSET Ids,
         NEW tasks, DOMAIN tasks \subseteq Ids,
         \A t \in DOMAIN tasks : tasks[t] \in Task,
         Begin(a, kind, deps, tasks)
  PROVE  /\ op' \in [Actors -> Op]
         /\ op'[a].kind = kind /\ op'[a].left = deps /\ op'[a].todo = DOMAIN tasks
         /\ \A t \in DOMAIN tasks : op'[a].tasks[t] = tasks[t]
         /\ \A b \in Actors : b # a => op'[b] = op[b]
<1> DEFINE new == [kind |-> kind, left |-> deps, todo |-> DOMAIN tasks,
                   tasks |-> [t \in Ids |-> IF t \in DOMAIN tasks THEN tasks[t]
                                            ELSE NewTask({})]]
<1>1. NewTask({}) \in Task
  BY DEF NewTask, Task, Status
<1>2. new \in Op
  BY <1>1 DEF Op
<1>3. op' = [op EXCEPT ![a] = new]
  BY DEF Begin
<1> QED
  BY <1>2, <1>3
-----------------------------------------------------------------------------
\* claim and update start the same way: a copy of the task with its own
\* dependencies, to be checked unless it will be pending.
LEMMA BeginWrite ==
  ASSUME BoardInv, NEW a \in Actors, op[a].kind = "none",
         NEW t \in DOMAIN files, NEW kind \in {"claim", "update"},
         NEW copy \in Task, copy.blockedBy = files[t].blockedBy,
         NEW deps \in SUBSET Ids, copy.status # "pending" => deps = copy.blockedBy,
         Begin(a, kind, deps, [u \in {t} |-> copy]),
         UNCHANGED <<files, nextId, everCompleted, accepted>>
  PROVE  BoardInv'
<1> USE DEF BoardInv
<1>1. t \in 1..(nextId - 1) /\ t \in Ids
  BY BoardAssumption DEF TypeInv, Ids
<1> DEFINE tasks == [u \in {t} |-> copy]
<1>2. /\ op' \in [Actors -> Op]
      /\ op'[a].kind = kind /\ op'[a].left = deps /\ op'[a].todo = {t}
      /\ op'[a].tasks[t] = copy
      /\ \A b \in Actors : b # a => op'[b] = op[b]
  <2>1. DOMAIN tasks = {t} /\ \A u \in DOMAIN tasks : tasks[u] \in Task
    OBVIOUS
  <2>2. Begin(a, kind, deps, tasks) /\ op \in [Actors -> Op] /\ kind \in {"claim", "update", "create"}
    BY DEF TypeInv
  <2> HIDE DEF tasks
  <2>3. /\ op' \in [Actors -> Op]
        /\ op'[a].kind = kind /\ op'[a].left = deps /\ op'[a].todo = DOMAIN tasks
        /\ \A u \in DOMAIN tasks : op'[a].tasks[u] = tasks[u]
        /\ \A b \in Actors : b # a => op'[b] = op[b]
    <3> HIDE DEF BoardInv
    <3>. QED  BY <2>1, <2>2, <1>1, BeginFields
  <2>4. tasks[t] = copy
    BY DEF tasks
  <2> QED
    BY <2>1, <2>3, <2>4
<1>3. TypeInv' /\ OpIdsOK'
  BY <1>1, <1>2 DEF TypeInv, OpIdsOK
<1>4. Started' /\ AcceptedOK' /\ FilesFaithful'
  BY DEF Started, AcceptedOK, FilesFaithful
<1>5. Checked'
  BY <1>2 DEF Checked, Writing
<1>6. OpsFaithful'
  <2>1. Faithful(a)'
    BY <1>2 DEF Faithful, FilesFaithful
  <2>2. ASSUME NEW b \in Actors, b # a PROVE (Faithful(b) \/ Fresh(b))'
    BY <1>2, <2>2 DEF OpsFaithful, Faithful, Fresh, Batch
  <2> QED
    BY <2>1, <2>2, <1>2 DEF OpsFaithful
<1> QED
  BY <1>3, <1>4, <1>5, <1>6

LEMMA ClaimKeeps ==
  ASSUME BoardInv, NEW a \in Actors, NEW t \in Ids, NEW owner \in Actors,
         Claim(a, t, owner)
  PROVE  BoardInv'
<1> DEFINE copy == [files[t] EXCEPT !.owner = owner, !.status = "in_progress"]
<1>1. copy \in Task /\ copy.blockedBy = files[t].blockedBy /\ files[t].blockedBy \in SUBSET Ids
  BY DEF Claim, BoardInv, TypeInv, Task, Status
<1> QED
  BY <1>1, BeginWrite DEF Claim

LEMMA UpdateKeeps ==
  ASSUME BoardInv, NEW a \in Actors, NEW t \in Ids, NEW new \in Status,
         Update(a, t, new)
  PROVE  BoardInv'
<1> DEFINE copy == [files[t] EXCEPT !.status = new]
           deps == IF new = "pending" THEN {} ELSE files[t].blockedBy
<1>1. /\ copy \in Task /\ copy.blockedBy = files[t].blockedBy /\ copy.status = new
      /\ deps \in SUBSET Ids
  BY DEF Update, BoardInv, TypeInv, Task, Status
<1> QED
  BY <1>1, BeginWrite DEF Update

LEMMA DeleteKeeps ==
  ASSUME BoardInv, NEW a \in Actors, NEW t \in Ids, Delete(a, t)
  PROVE  BoardInv'
<1> USE DEF BoardInv, Delete
<1>1. TypeInv' /\ OpIdsOK' /\ Started' /\ Checked' /\ AcceptedOK' /\ FilesFaithful'
  BY DEF TypeInv, OpIdsOK, Started, Checked, Writing, AcceptedOK, FilesFaithful
<1>2. OpsFaithful'
  BY DEF OpsFaithful, Faithful, Fresh, Batch
<1> QED
  BY <1>1, <1>2

LEMMA CrashKeeps ==
  ASSUME BoardInv, Crash
  PROVE  BoardInv'
<1> USE IdleFields DEF BoardInv, Crash
<1>1. TypeInv' /\ OpIdsOK' /\ Started' /\ AcceptedOK' /\ FilesFaithful'
  BY DEF TypeInv, OpIdsOK, Started, AcceptedOK, FilesFaithful
<1>2. Checked' /\ OpsFaithful'
  BY DEF Checked, Writing, OpsFaithful, Faithful
<1> QED
  BY <1>1, <1>2

LEMMA CreateManyKeeps ==
  ASSUME BoardInv, NEW a \in Actors, NEW n \in 1..MaxBatch, CreateMany(a, n)
  PROVE  BoardInv'
<1> USE BoardAssumption DEF BoardInv
<1> DEFINE new == nextId..(nextId + n - 1)
<1>0. nextId \in Nat /\ n \in Nat /\ nextId >= 1 /\ n >= 1
  BY DEF TypeInv
<1>1. /\ nextId' = nextId + n /\ nextId' \in 1..(MaxTask + 1)
      /\ new \subseteq Ids /\ new \subseteq 1..(nextId' - 1)
      /\ new \cap 1..(nextId - 1) = {}
      /\ 1..(nextId - 1) \subseteq 1..(nextId' - 1)
  BY <1>0 DEF CreateMany, NextIds, Ids
<1>2. UNCHANGED <<files, everCompleted, accepted>> /\ op[a].kind = "none"
  BY DEF CreateMany
<1>3. PICK batch \in [new -> SUBSET Ids] :
        IF Acyclic(batch)
        THEN Begin(a, "create", {d \in Ids \ new : \E t \in new : d \in batch[t]},
                   [t \in new |-> NewTask(batch[t])])
        ELSE UNCHANGED op
  BY DEF CreateMany
<1> HIDE DEF new
<1>4. Started' /\ AcceptedOK' /\ FilesFaithful' /\ DOMAIN files' \subseteq 1..(nextId' - 1)
  BY <1>1, <1>2 DEF Started, AcceptedOK, FilesFaithful, TypeInv
<1>5. CASE UNCHANGED op
  <2>1. TypeInv' /\ OpIdsOK'
    BY <1>1, <1>2, <1>4, <1>5 DEF TypeInv, OpIdsOK
  <2>2. Checked' /\ OpsFaithful'
    BY <1>2, <1>5 DEF Checked, Writing, OpsFaithful, Faithful, Fresh, Batch
  <2> QED
    BY <2>1, <2>2, <1>4
<1>6. CASE Acyclic(batch) /\ op' # op
  <2> DEFINE deps == {d \in Ids \ new : \E t \in new : d \in batch[t]}
             tasks == [t \in new |-> NewTask(batch[t])]
  <2>1. /\ deps \in SUBSET Ids /\ DOMAIN tasks = new
        /\ \A t \in DOMAIN tasks : tasks[t] \in Task
        /\ \A t \in new : tasks[t].blockedBy = batch[t] /\ tasks[t].status = "pending"
        /\ \A t \in new : batch[t] \subseteq new \cup deps
    <3>1. deps \in SUBSET Ids /\ \A t \in new : batch[t] \subseteq new \cup deps
      <4>1. \A t \in new : batch[t] \in SUBSET Ids
        BY <1>3
      <4> QED
        BY <4>1
    <3>2. \A blockers \in SUBSET Ids :
            /\ NewTask(blockers) \in Task /\ NewTask(blockers).blockedBy = blockers
            /\ NewTask(blockers).status = "pending"
      BY DEF NewTask, Task, Status
    <3> QED
      BY <3>1, <3>2
  <2>2. Begin(a, "create", deps, tasks) /\ op \in [Actors -> Op]
    BY <1>3, <1>6 DEF TypeInv
  <2> HIDE DEF deps, tasks
  <2>3. /\ op' \in [Actors -> Op]
        /\ op'[a].kind = "create" /\ op'[a].left = deps /\ op'[a].todo = new
        /\ \A t \in new : op'[a].tasks[t] = tasks[t]
        /\ \A b \in Actors : b # a => op'[b] = op[b]
    <3>1. DOMAIN tasks \subseteq Ids /\ "create" \in {"claim", "update", "create"}
      BY <1>1, <2>1
    <3>2. /\ op' \in [Actors -> Op]
          /\ op'[a].kind = "create" /\ op'[a].left = deps /\ op'[a].todo = DOMAIN tasks
          /\ \A t \in DOMAIN tasks : op'[a].tasks[t] = tasks[t]
          /\ \A b \in Actors : b # a => op'[b] = op[b]
      BY <3>1, <2>1, <2>2, BeginFields
    <3> QED
      BY <3>2, <2>1
  <2>4. TypeInv' /\ OpIdsOK'
    BY <1>1, <1>2, <1>4, <2>3 DEF TypeInv, OpIdsOK
  <2>5. Checked'
    BY <1>2, <2>1, <2>3 DEF Checked, Writing
  <2>6. Fresh(a)'
    <3>1. new \cap DOMAIN accepted = {}
      BY <1>1 DEF AcceptedOK
    <3>2. Batch(a)' = batch
      BY <2>1, <2>3 DEF Batch
    <3> QED
      BY <3>1, <3>2, <1>2, <1>6, <2>1, <2>3 DEF Fresh
  <2>7. ASSUME NEW b \in Actors, b # a
        PROVE (Faithful(b) \/ Fresh(b))' /\ op'[b].todo \cap new = {}
    BY <1>1, <1>2, <2>3, <2>7 DEF OpsFaithful, Faithful, Fresh, Batch, OpIdsOK
  <2>8. OpsFaithful'
    BY <2>3, <2>6, <2>7 DEF OpsFaithful
  <2> QED
    BY <2>4, <2>5, <2>8, <1>4
<1> QED
  BY <1>3, <1>5, <1>6
-----------------------------------------------------------------------------
\* A blocker that passes for claim or update is completed on disk, so completed once.
LEMMA LookAtBlockerKeeps ==
  ASSUME BoardInv, NEW a \in Actors, LookAtBlocker(a)
  PROVE  BoardInv'
<1> USE DEF BoardInv
<1>1. UNCHANGED <<files, nextId, everCompleted, accepted>> /\ op \in [Actors -> Op]
  BY DEF LookAtBlocker, TypeInv
<1>2. PICK t \in Ids :
        /\ IsFirst(t, op[a].left)
        /\ IF Passes(a, t) THEN op' = [op EXCEPT ![a].left = @ \ {t}] ELSE Return(a)
  BY DEF LookAtBlocker
<1>3. Started' /\ AcceptedOK' /\ FilesFaithful'
  BY <1>1 DEF Started, AcceptedOK, FilesFaithful
<1>4. CASE Return(a)
  <2>1. /\ op' \in [Actors -> Op] /\ op'[a] = Idle
        /\ \A b \in Actors : b # a => op'[b] = op[b]
    BY <1>1, <1>4, ReturnFields
  <2>2. TypeInv' /\ OpIdsOK'
    BY <1>1, <2>1, IdleFields DEF TypeInv, OpIdsOK
  <2>3. Checked'
    BY <1>1, <2>1, IdleFields DEF Checked, Writing
  <2>4. OpsFaithful'
    BY <1>1, <2>1, IdleFields DEF OpsFaithful, Faithful, Fresh, Batch
  <2> QED
    BY <1>3, <2>2, <2>3, <2>4
<1>5. CASE Passes(a, t) /\ op' = [op EXCEPT ![a].left = @ \ {t}]
  <2>1. op[a] \in Op /\ t \in op[a].left /\ op[a].kind # "none"
    BY <1>1, <1>2 DEF IsFirst, OpIdsOK
  <2>2. /\ op' \in [Actors -> Op]
        /\ op'[a].kind = op[a].kind /\ op'[a].left = op[a].left \ {t}
        /\ op'[a].todo = op[a].todo /\ op'[a].tasks = op[a].tasks
        /\ \A b \in Actors : b # a => op'[b] = op[b]
    BY <1>1, <1>5, <2>1 DEF Op
  <2>3. TypeInv' /\ OpIdsOK'
    BY <1>1, <2>1, <2>2 DEF TypeInv, OpIdsOK
  <2>4. Writing(a) => t \in everCompleted
    BY <1>5 DEF Passes, Writing, Unfinished, Started
  <2>5. Checked'
    BY <1>1, <2>2, <2>4 DEF Checked, Writing
  <2>6. op[a].kind = "create" => t \in DOMAIN accepted
    BY <1>5 DEF Passes, Known, FilesFaithful
  <2>7. (Faithful(a) \/ Fresh(a))'
    <3>1. CASE Faithful(a)
      BY <3>1, <1>1, <2>2 DEF Faithful
    <3>2. CASE Fresh(a)
      <4>1. Batch(a)' = Batch(a)
        BY <2>2 DEF Batch
      <4> QED
        BY <3>2, <4>1, <1>1, <2>2, <2>6 DEF Fresh
    <3> QED
      BY <3>1, <3>2 DEF OpsFaithful
  <2>8. ASSUME NEW b \in Actors, b # a PROVE (Faithful(b) \/ Fresh(b))'
    BY <1>1, <2>2, <2>8 DEF OpsFaithful, Faithful, Fresh, Batch
  <2>9. OpsFaithful'
    BY <2>2, <2>7, <2>8 DEF OpsFaithful
  <2> QED
    BY <1>3, <2>3, <2>5, <2>9
<1> QED
  BY <1>2, <1>4, <1>5

\* The file written by a claim or update was checked; the first file of a batch
\* makes the whole batch accepted.
LEMMA SaveTaskKeeps ==
  ASSUME BoardInv, NEW a \in Actors, SaveTask(a)
  PROVE  BoardInv'
<1> USE DEF BoardInv
<1>1. /\ op \in [Actors -> Op] /\ op[a] \in Op /\ nextId' = nextId
      /\ op[a].kind # "none" /\ op[a].left = {}
      /\ accepted' = [u \in DOMAIN accepted \cup op[a].todo |->
                        IF u \in DOMAIN accepted THEN accepted[u]
                        ELSE op[a].tasks[u].blockedBy]
  BY DEF SaveTask, TypeInv
<1>2. PICK t \in Ids :
        /\ t \in op[a].todo
        /\ files' = [u \in DOMAIN files \cup {t} |-> IF u = t THEN op[a].tasks[t] ELSE files[u]]
        /\ everCompleted' = everCompleted \cup {u \in {t} : op[a].tasks[t].status = "completed"}
        /\ IF op[a].todo = {t} THEN Return(a)
           ELSE op' = [op EXCEPT ![a].todo = @ \ {t}]
  BY DEF SaveTask, IsFirst
<1> DEFINE file == op[a].tasks[t]
<1>3. /\ file \in Task
      /\ file.status # "pending" => file.blockedBy \subseteq everCompleted
  <2>1. file \in Task
    BY <1>1, <1>2 DEF Op
  <2>2. op[a].kind \in {"claim", "update", "create"}
    BY <1>1 DEF Op
  <2>3. CASE op[a].kind = "create"
    BY <2>1, <2>3, <1>2 DEF Checked
  <2>4. CASE Writing(a)
    BY <2>1, <2>4, <1>1, <1>2 DEF Checked
  <2> QED
    BY <2>1, <2>2, <2>3, <2>4 DEF Writing
<1>4. /\ op' \in [Actors -> Op]
      /\ op'[a].todo \subseteq op[a].todo /\ op'[a].left = {}
      /\ op'[a].todo # {} => op'[a].kind = op[a].kind /\ op'[a].tasks = op[a].tasks
      /\ op'[a].kind = "none" => op'[a].todo = {}
      /\ \A b \in Actors : b # a => op'[b] = op[b]
  <2>1. CASE Return(a)
    BY <2>1, <1>1, ReturnFields, IdleFields
  <2>2. CASE op' = [op EXCEPT ![a].todo = @ \ {t}]
    BY <2>2, <1>1 DEF Op
  <2> QED
    BY <1>2, <2>1, <2>2
<1>5. /\ DOMAIN files' = DOMAIN files \cup {t} /\ files'[t] = file
      /\ \A u \in DOMAIN files : u # t => files'[u] = files[u]
      /\ everCompleted \subseteq everCompleted'
      /\ everCompleted' \subseteq everCompleted \cup {t}
      /\ file.status = "completed" => t \in everCompleted'
  BY <1>2
<1>6. TypeInv' /\ OpIdsOK'
  <2>1. t \in 1..(nextId - 1)
    BY <1>2 DEF OpIdsOK
  <2> HIDE DEF file
  <2>2. TypeInv'
    BY <1>1, <1>2, <1>3, <1>4, <1>5, <2>1 DEF TypeInv
  <2>3. OpIdsOK'
    BY <1>1, <1>4 DEF OpIdsOK
  <2> QED
    BY <2>2, <2>3
<1>7. Started'
  <2> HIDE DEF file
  <2>1. ASSUME NEW u \in DOMAIN files', u # t
        PROVE  /\ files'[u].status # "pending" => files'[u].blockedBy \subseteq everCompleted'
               /\ files'[u].status = "completed" => u \in everCompleted'
    BY <1>5, <2>1 DEF Started
  <2>2. /\ files'[t].status # "pending" => files'[t].blockedBy \subseteq everCompleted'
        /\ files'[t].status = "completed" => t \in everCompleted'
    BY <1>3, <1>5
  <2> QED
    BY <2>1, <2>2 DEF Started
<1>8. Checked'
  <2>1. ASSUME NEW b \in Actors, b # a, NEW u \in op'[b].todo
        PROVE  /\ Writing(b)' /\ op'[b].tasks[u].status # "pending" =>
                    op'[b].tasks[u].blockedBy \subseteq everCompleted' \cup op'[b].left
               /\ op'[b].kind = "create" => op'[b].tasks[u].status = "pending"
    BY <2>1, <1>4, <1>5 DEF Checked, Writing
  <2>2. ASSUME NEW u \in op'[a].todo
        PROVE  /\ Writing(a)' /\ op'[a].tasks[u].status # "pending" =>
                    op'[a].tasks[u].blockedBy \subseteq everCompleted' \cup op'[a].left
               /\ op'[a].kind = "create" => op'[a].tasks[u].status = "pending"
    BY <2>2, <1>1, <1>4, <1>5 DEF Checked, Writing
  <2> QED
    BY <2>1, <2>2 DEF Checked
<1>9. CASE Faithful(a)
  <2>1. accepted' = accepted
    <3>1. op[a].todo \subseteq DOMAIN accepted
      BY <1>9 DEF Faithful
    <3> QED
      BY <3>1, <1>1 DEF AcceptedOK
  <2>2. AcceptedOK'
    BY <2>1, <1>1 DEF AcceptedOK
  <2>3. FilesFaithful'
    BY <2>1, <1>2, <1>5, <1>9 DEF FilesFaithful, Faithful
  <2>4. Faithful(a)'
    BY <2>1, <1>4, <1>9 DEF Faithful
  <2>5. ASSUME NEW b \in Actors, b # a PROVE (Faithful(b) \/ Fresh(b))'
    BY <2>1, <2>5, <1>4 DEF OpsFaithful, Faithful, Fresh, Batch
  <2>6. OpsFaithful'
    BY <2>4, <2>5, <1>4 DEF OpsFaithful
  <2> QED
    BY <1>6, <1>7, <1>8, <2>2, <2>3, <2>6
<1>10. CASE Fresh(a)
  <2> DEFINE batch == Batch(a)
  <2>1. /\ DOMAIN accepted' = DOMAIN accepted \cup op[a].todo
        /\ \A u \in DOMAIN accepted : accepted'[u] = accepted[u]
        /\ \A u \in op[a].todo : accepted'[u] = op[a].tasks[u].blockedBy
        /\ accepted' = [u \in DOMAIN accepted' |-> accepted'[u]]
    BY <1>1, <1>10 DEF Fresh
  <2>2. /\ DOMAIN batch = op[a].todo /\ Acyclic(batch)
        /\ \A u \in op[a].todo : batch[u] = op[a].tasks[u].blockedBy
    BY <1>10 DEF Fresh, Batch
  <2> HIDE DEF batch
  <2>3. accepted' = [u \in DOMAIN accepted \cup DOMAIN batch |->
                       IF u \in DOMAIN accepted THEN accepted[u] ELSE batch[u]]
    BY <1>1, <2>2
  <2>4. Acyclic(accepted')
    <3>1. DOMAIN batch \cap DOMAIN accepted = {}
      BY <1>10, <2>2 DEF Fresh
    <3>2. Acyclic(accepted) /\ \A u \in DOMAIN accepted : accepted[u] \subseteq DOMAIN accepted
      BY DEF AcceptedOK
    <3> QED
      BY <2>2, <2>3, <3>1, <3>2, ExtendAcyclic
  <2>5. AcceptedOK'
    <3>1. \A u \in op[a].todo : accepted'[u] \subseteq DOMAIN accepted'
      BY <1>1, <1>10, <2>1 DEF Fresh
    <3>2. \A u \in DOMAIN accepted : accepted'[u] \subseteq DOMAIN accepted'
      BY <2>1 DEF AcceptedOK
    <3>3. DOMAIN accepted' \subseteq 1..(nextId' - 1)
      BY <1>1, <2>1 DEF AcceptedOK, OpIdsOK
    <3> QED
      BY <2>1, <2>4, <3>1, <3>2, <3>3 DEF AcceptedOK
  <2>6. FilesFaithful'
    BY <1>2, <1>5, <2>1 DEF FilesFaithful
  <2>7. Faithful(a)'
    BY <1>4, <2>1 DEF Faithful
  <2>8. ASSUME NEW b \in Actors, b # a PROVE (Faithful(b) \/ Fresh(b))'
    <3>1. op'[b] = op[b] /\ Batch(b)' = Batch(b)
      BY <1>4, <2>8 DEF Batch
    <3>2. CASE Faithful(b)
      BY <2>1, <3>1, <3>2 DEF Faithful
    <3>3. CASE Fresh(b)
      <4>1. op[b].todo \cap op[a].todo = {}
        BY <1>10, <2>8, <3>3 DEF Fresh, OpsFaithful
      <4>2. Fresh(b)'
        BY <2>1, <3>1, <3>3, <4>1 DEF Fresh
      <4> QED
        BY <4>2
    <3> QED
      BY <3>2, <3>3 DEF OpsFaithful
  <2>9. OpsFaithful'
    BY <1>4, <2>7, <2>8 DEF OpsFaithful
  <2> QED
    BY <1>6, <1>7, <1>8, <2>5, <2>6, <2>9
<1> QED
  BY <1>9, <1>10 DEF OpsFaithful
-----------------------------------------------------------------------------
LEMMA BoardStep == BoardInv /\ [Next]_vars => BoardInv'
<1> SUFFICES ASSUME BoardInv, [Next]_vars PROVE BoardInv'
  OBVIOUS
<1>1. CASE UNCHANGED vars
  <2> USE <1>1 DEF vars, BoardInv
  <2>1. TypeInv' /\ OpIdsOK' /\ Started' /\ Checked'
    BY DEF TypeInv, OpIdsOK, Started, Checked, Writing
  <2>2. AcceptedOK' /\ FilesFaithful' /\ OpsFaithful'
    BY DEF AcceptedOK, FilesFaithful, OpsFaithful, Faithful, Fresh, Batch
  <2> QED
    BY <2>1, <2>2
<1>2. CASE \E a \in Actors : StoreCall(a)
  BY <1>2, CreateManyKeeps, ClaimKeeps, UpdateKeeps, DeleteKeeps DEF StoreCall
<1>3. CASE \E a \in Actors : LookAtBlocker(a)
  BY <1>3, LookAtBlockerKeeps
<1>4. CASE \E a \in Actors : SaveTask(a)
  BY <1>4, SaveTaskKeeps
<1>5. CASE Crash
  BY <1>5, CrashKeeps
<1> QED
  BY <1>1, <1>2, <1>3, <1>4, <1>5 DEF Next

THEOREM BoardInvariant == Spec => []BoardInv
<1>1. Init => BoardInv
  BY BoardInit
<1>2. BoardInv /\ [Next]_vars => BoardInv'
  BY BoardStep
<1> QED
  BY <1>1, <1>2, PTL DEF Spec

\* Types of the store's state, for any number of actors, tasks and batch sizes.
THEOREM BoardTypes == Spec => []TypeOK
<1>1. BoardInv => TypeOK
  BY DEF BoardInv, TypeInv, TypeOK
<1> QED
  BY <1>1, BoardInvariant, PTL

\* However the calls of any number of actors interleave, and wherever the process
\* dies, no task is in progress or completed before its blockers were completed.
THEOREM BlockersFirst == Spec => []StartedAfterBlockers
<1>1. BoardInv => StartedAfterBlockers
  BY DEF BoardInv, Started, StartedAfterBlockers
<1> QED
  BY <1>1, BoardInvariant, PTL

\* Batches created at the same time never close a cycle of dependencies.
THEOREM NoCycle == Spec => []NoDependencyCycle
<1>1. BoardInv => NoDependencyCycle
  <2> SUFFICES ASSUME BoardInv PROVE NoDependencyCycle
    OBVIOUS
  <2> DEFINE graph == [t \in DOMAIN files |-> files[t].blockedBy]
  <2>1. Acyclic(accepted) /\ DOMAIN graph \subseteq DOMAIN accepted
    BY DEF BoardInv, AcceptedOK, FilesFaithful
  <2>2. \A t \in DOMAIN graph : graph[t] = accepted[t]
    BY DEF BoardInv, FilesFaithful
  <2> HIDE DEF graph
  <2>3. Acyclic(graph)
    BY <2>1, <2>2, SubAcyclic
  <2> QED
    BY <2>3 DEF graph, NoDependencyCycle
<1> QED
  BY <1>1, BoardInvariant, PTL

-----------------------------------------------------------------------------
(* The invariant.                                                          *)

MemberStatuses == {"none", "starting", "working", "idle", "shutdown"}
ThreadPlaces == {"none", "boot", "round", "model", "assigning", "poll", "claim", "expire", "dead", "failed"}
TaskFiles == [status : {"absent", "pending", "in_progress", "completed"}, owner : Teammates \cup {Nobody}]
Assignments ==
  [step : Steps, tasks : SUBSET Tasks, free : SUBSET Teammates, resume : SUBSET Teammates,
   for : Teammates \cup {Nobody}, task : Tasks \cup {0}, thread : TaskThreads \cup {0}, back : {"none", "next"}]

TeamTypes ==
  /\ task \in [Tasks -> TaskFiles]
  /\ status \in [Teammates -> MemberStatuses]
  /\ reason \in [Teammates -> Reasons]
  /\ stop \in [Teammates -> {NoStop, "lead_interrupt", "shutdown_request"}]
  /\ inbox \in [Teammates -> Seq(Tasks \cup {Shutdown})]
  /\ registered \in [Teammates -> TaskThreads \cup {0}]
  /\ member \in [TaskThreads -> Teammates \cup {Nobody}]
  /\ at \in [TaskThreads -> ThreadPlaces]
  /\ left \in [TaskThreads -> Int]
  /\ pick \in [TaskThreads -> Tasks \cup {0}]
  /\ doing \in [Assigners -> Assignments]
  /\ lead \in [spawns : Nat, stops : Nat]

\* A task is begun when its blockers are completed, and has an owner only then.
FilesInv ==
  \A t \in Tasks :
    /\ task[t].status \in {"in_progress", "completed"} => ~Blocked(t)
    /\ task[t].owner # Nobody => task[t].status \in {"in_progress", "completed"}

\* A thread has a member, whose row is written; what it is about to claim is not blocked.
RunnersInv ==
  /\ \A w \in TaskThreads :
       /\ at[w] # "none" => member[w] \in Teammates /\ status[member[w]] # "none"
       /\ at[w] = "claim" => pick[w] \in Tasks /\ ~Blocked(pick[w])
       /\ at[w] # "assigning" => doing[w].step = "none"
  /\ \A m \in Teammates :
       registered[m] # 0 => at[registered[m]] # "none" /\ member[registered[m]] = m

\* Whoever assigns.
AssignersInv ==
  \A a \in Assigners :
    /\ doing[a].step \in {"tell", "start", "register"} => doing[a].for \in Teammates
    /\ doing[a].step \in {"start", "register"} => status[doing[a].for] # "none"
    /\ doing[a].step = "tell" => doing[a].task \in Tasks
    /\ doing[a].step = "register" =>
         /\ doing[a].thread \in TaskThreads
         /\ at[doing[a].thread] # "none" /\ member[doing[a].thread] = doing[a].for

\* A member that works or starts has a thread that is not yet idle, or gets one.
RowsInv ==
  \A m \in Teammates :
    /\ status[m] = "working" =>
         \E w \in TaskThreads : member[w] = m /\ at[w] \in {"round", "model", "assigning"}
    /\ status[m] = "starting" =>
         \/ \E a \in Assigners : doing[a].step = "start" /\ doing[a].for = m
         \/ \E w \in TaskThreads : member[w] = m /\ at[w] = "boot"

\* Nobody was told to stop.
Unstopped == lead.stops = 0

StopsInv ==
  Unstopped => \A m \in Teammates : stop[m] = NoStop /\ \A i \in DOMAIN inbox[m] : inbox[m][i] # Shutdown

\* Before the first task is completed.
Early == Undisturbed /\ \A t \in Tasks : task[t].status # "completed"

LeadStarts(m) == doing[Lead].step \in {"start", "register"} /\ doing[Lead].for = m

\* Until then only the lead assigns, and a thread ends by its timeout only.
EarlyInv ==
  Early =>
    /\ \A w \in TaskThreads : doing[w].step = "none"
    /\ \A m \in Teammates :
         /\ reason[m] \in {"none", "idle_timeout"}
         /\ status[m] = "shutdown" => reason[m] = "idle_timeout"
         /\ registered[m] # 0 /\ at[registered[m]] = "dead" => reason[m] = "idle_timeout" \/ LeadStarts(m)
    /\ doing[Lead].step = "register" /\ at[doing[Lead].thread] = "dead" =>
         reason[doing[Lead].for] = "idle_timeout"

\* A thread that has a poll before it, or is about to claim the task.
Serves(w, t) ==
  \/ at[w] \in {"boot", "round", "model", "assigning"}
  \/ at[w] = "poll" /\ left[w] > 0
  \/ at[w] = "claim" /\ pick[w] = t

Coming == \E a \in Assigners : doing[a].step = "start"

\* The lead is about to assign the first task.
LeadServes ==
  \/ doing[Lead].step = "list"
  \/ doing[Lead].step = "candidates" /\ doing[Lead].tasks = {1}
  \/ doing[Lead].step = "next" /\ doing[Lead].tasks = {1} /\ doing[Lead].free # {}

NoMembers == \A m \in Teammates : status[m] = "none"

Served(t) ==
  \/ \E w \in TaskThreads : Serves(w, t)
  \/ Coming
  \/ t = 1 /\ (LeadServes \/ NoMembers)

ServedInv == Undisturbed /\ OneByOne => \A t \in Tasks : Claimable(t) => Served(t)

TasksInv ==
  TeamTypes /\ FilesInv /\ RunnersInv /\ AssignersInv /\ RowsInv /\ StopsInv /\ EarlyInv /\ ServedInv

-----------------------------------------------------------------------------
(* Numbers and tasks.                                                      *)

LEMMA LeastNumber ==
  ASSUME NEW S \in SUBSET Nat, S # {}
  PROVE  Least(S) \in S /\ \A y \in S : Least(S) <= y
<1> DEFINE R == OpToRel(<, Nat)
<1>1. IsWellFoundedOn(R, Nat)
  BY NatLessThanWellFounded
<1>2. \A x, y \in Nat : x < y => <<x, y>> \in R
  BY DEF OpToRel
<1> HIDE DEF R
<1>3. PICK x \in S : \A y \in S : ~ (<<y, x>> \in R)
  BY <1>1, WFMin
<1>4. ASSUME NEW y \in S PROVE x <= y
  <2>1. x \in Nat /\ y \in Nat /\ ~(y < x)
    BY <1>2, <1>3
  <2>. QED  BY <2>1
<1>. QED  BY <1>4 DEF Least

LEMMA LeastOfOne ==
  ASSUME NEW t \in Nat
  PROVE  Least({t}) = t
BY LeastNumber

LEMMA Numbers ==
  /\ Teammates \subseteq Nat \ {0} /\ Tasks \subseteq Nat \ {0} /\ TaskThreads \subseteq Nat \ {0}
  /\ Lead \in Assigners /\ Lead \notin TaskThreads /\ TaskThreads \subseteq Assigners
  /\ Nobody \notin Teammates /\ Shutdown \notin Tasks
BY TasksAssumption DEF Teammates, Tasks, TaskThreads, Lead, Assigners, Nobody, Shutdown

\* What a step may do to the files.
FilesGoOn ==
  /\ task' \in [Tasks -> TaskFiles] /\ FilesInv'
  /\ \A t \in Tasks : (~Blocked(t) => ~Blocked(t)') /\ (Claimable(t)' => Claimable(t))
  /\ \A t \in Tasks : task[t].status = "completed" => task'[t].status = "completed"

LEMMA SameFiles ==
  ASSUME TasksInv, task' = task
  PROVE  FilesGoOn
BY DEF TasksInv, TeamTypes, FilesGoOn, FilesInv, Blocked, Claimable

\* A task that is not completed, and whose blockers are, is given an owner.
LEMMA ClaimedFile ==
  ASSUME TasksInv, NEW t \in Tasks, NEW m \in Teammates, ~CannotClaim(t), ClaimFor(t, m), lead' = lead
  PROVE  FilesGoOn /\ ~Claimable(t)'
<1>1. task' = [task EXCEPT ![t] = [status |-> "in_progress", owner |-> m]] /\ task \in [Tasks -> TaskFiles]
  BY DEF ClaimFor, TasksInv, TeamTypes
<1>2. task' \in [Tasks -> TaskFiles]
  BY <1>1 DEF TaskFiles
<1>3. task[t].status # "completed" /\ ~Blocked(t)
  BY DEF CannotClaim
<1>4. task'[t].status = "in_progress" /\ \A u \in Tasks \ {t} : task'[u] = task[u]
  BY <1>1
<1>5. \A u \in Tasks : task'[u].status = "completed" <=> task[u].status = "completed"
  BY <1>3, <1>4
<1>6. \A u \in Tasks : Blocked(u)' <=> Blocked(u)
  BY <1>5, TasksAssumption DEF Blocked
<1>7. FilesInv'
  BY <1>3, <1>4, <1>6 DEF FilesInv, TasksInv
<1>8. \A u \in Tasks : Claimable(u)' => Claimable(u) /\ u # t
  BY <1>4, <1>6 DEF Claimable
<1>. QED  BY <1>2, <1>5, <1>6, <1>7, <1>8 DEF FilesGoOn

LEMMA CompletedFile ==
  ASSUME TasksInv, NEW t \in Tasks, ~Blocked(t), task' = [task EXCEPT ![t].status = "completed"]
  PROVE  /\ task' \in [Tasks -> TaskFiles] /\ FilesInv' /\ ~Early'
         /\ \A u \in Tasks : ~Blocked(u) => ~Blocked(u)'
<1>1. task \in [Tasks -> TaskFiles]
  BY DEF TasksInv, TeamTypes
<1>2. task' \in [Tasks -> TaskFiles]
  BY <1>1 DEF TaskFiles
<1>3. /\ task'[t].status = "completed" /\ task'[t].owner = task[t].owner
      /\ \A u \in Tasks \ {t} : task'[u] = task[u]
  BY <1>1 DEF TaskFiles
<1>4. \A u \in Tasks : ~Blocked(u) => ~Blocked(u)'
  BY <1>3, TasksAssumption DEF Blocked
<1>5. FilesInv'
  BY <1>3, <1>4 DEF FilesInv, TasksInv
<1>. QED  BY <1>2, <1>3, <1>4, <1>5 DEF Early

\* In a chain one task is claimable at a time, and nobody owns an open one then.
LEMMA OneClaimable ==
  ASSUME TasksInv, OneByOne, NEW t \in Tasks, Claimable(t)
  PROVE  /\ \A u \in Tasks : Claimable(u) => u = t
         /\ \A m \in Teammates : Open(m) = {} /\ ClaimableFor(m) = {t}
         /\ t = 1 => \A u \in Tasks : task[u].status # "completed"
<1>1. \A u \in Tasks : Blocked(u) <=> \E b \in 1..(u - 1) : task[b].status # "completed"
  BY DEF Blocked, OneByOne
<1>2. task[t].status = "pending" /\ task[t].owner = Nobody /\ t \in Nat \ {0} /\ Tasks \subseteq Nat \ {0}
  BY Numbers DEF Claimable
<1>3. ASSUME NEW u \in Tasks, ~Blocked(u) PROVE u <= t
  <2>1. CASE u > t
    <3>1. t \in Nat \ {0} /\ u \in Nat /\ t < u
      BY <1>2, <2>1
    <3>2. t \in 1..(u - 1)
      BY <3>1
    <3>. QED  BY <1>1, <1>2, <1>3, <3>2
  <2>. QED  BY <1>2, <2>1
<1>4. ASSUME NEW u \in Tasks, u < t PROVE task[u].status = "completed"
  <2>1. u \in 1..(t - 1)
    BY <1>2, <1>4
  <2>. QED  BY <1>1, <2>1 DEF Claimable
<1>5. ASSUME NEW u \in Tasks, u # t PROVE task[u].status = "completed" \/ Blocked(u)
  BY <1>2, <1>3, <1>4, <1>5
<1>6. \A u \in Tasks : Claimable(u) => u = t
  BY <1>5 DEF Claimable
<1>7. \A u \in Tasks, m \in Teammates : ~(task[u].owner = m /\ task[u].status \in {"pending", "in_progress"})
  BY <1>2, <1>5, Numbers DEF TasksInv, FilesInv
<1>8. ASSUME NEW m \in Teammates PROVE ClaimableFor(m) = {t}
  <2>1. {u \in Tasks : Claimable(u) /\ Preferred[u] = m} = {}
    BY Numbers DEF OneByOne
  <2>2. {u \in Tasks : Claimable(u) /\ Preferred[u] = Nobody} = {t}
    BY <1>6 DEF OneByOne
  <2>. QED  BY <2>1, <2>2 DEF ClaimableFor
<1>9. ASSUME t = 1, NEW u \in Tasks PROVE task[u].status # "completed"
  <2>1. CASE u = t
    BY <1>2, <2>1
  <2>2. CASE u # t
    <3>1. 1 \in 1..(u - 1)
      BY <1>2, <1>9, <2>2
    <3>2. Blocked(u)
      BY <1>1, <1>2, <1>9, <3>1
    <3>. QED  BY <3>2 DEF TasksInv, FilesInv
  <2>. QED  BY <2>1, <2>2
<1>. QED  BY <1>6, <1>7, <1>8, <1>9 DEF Open

-----------------------------------------------------------------------------
(* A step of a thread.                                                     *)

\* The thread goes to q; s and r go into the row of its member.
Moves(w, q, s, r, x, y) ==
  /\ at' = [at EXCEPT ![w] = q]
  /\ status' = [status EXCEPT ![member[w]] = s] /\ reason' = [reason EXCEPT ![member[w]] = r]
  /\ left' = [left EXCEPT ![w] = x] /\ pick' = [pick EXCEPT ![w] = y]
  /\ UNCHANGED <<registered, member, doing, lead>>

MayMove(w, q, s, r, x, y) ==
  /\ q \in ThreadPlaces \ {"none"} /\ s \in MemberStatuses \ {"none"} /\ r \in Reasons /\ x \in Int
  /\ y \in Tasks \cup {0} /\ (q = "claim" => y \in Tasks /\ ~Blocked(y))
  /\ q = "assigning" \/ doing[w].step = "none"
  /\ s = "working" => \/ q \in {"round", "model", "assigning"}
                      \/ status[member[w]] = "working" /\ at[w] \notin {"round", "model", "assigning"}
  /\ s = "starting" => status[member[w]] = "starting" /\ at[w] # "boot"
  /\ Early /\ q # "failed" =>
              /\ r = reason[member[w]] \/ r = "idle_timeout"
              /\ s = "shutdown" => r = "idle_timeout" \/ (status[member[w]] = s /\ reason[member[w]] = r)
              /\ q = "dead" => r = "idle_timeout"

\* If the thread serves a task, it still does.
StillServes(w, q, x, y) ==
  \A t \in Tasks : Undisturbed /\ q # "failed" /\ OneByOne /\ Claimable(t)' /\ Serves(w, t) =>
    \/ q \in {"boot", "round", "model", "assigning"}
    \/ q = "poll" /\ x > 0
    \/ q = "claim" /\ y = t

MessagesGoOn ==
  /\ stop' \in [Teammates -> {NoStop, "lead_interrupt", "shutdown_request"}]
  /\ inbox' \in [Teammates -> Seq(Tasks \cup {Shutdown})]
  /\ StopsInv'

LEMMA ThreadMoves ==
  ASSUME TasksInv, FilesGoOn, MessagesGoOn, NEW w \in TaskThreads, at[w] \notin {"none", "failed"}, NEW q, NEW s, NEW r, NEW x, NEW y,
         Moves(w, q, s, r, x, y), MayMove(w, q, s, r, x, y), StillServes(w, q, x, y)
  PROVE  TasksInv'
<1> DEFINE m == member[w]
<1>0. /\ TeamTypes /\ FilesInv /\ RunnersInv /\ AssignersInv /\ RowsInv /\ StopsInv /\ EarlyInv /\ ServedInv
      /\ m \in Teammates /\ status[m] # "none"
  BY DEF TasksInv, RunnersInv
<1>1. /\ at'[w] = q /\ left'[w] = x /\ pick'[w] = y /\ status'[m] = s /\ reason'[m] = r
      /\ \A v \in TaskThreads \ {w} : at'[v] = at[v] /\ left'[v] = left[v] /\ pick'[v] = pick[v]
      /\ \A k \in Teammates \ {m} : status'[k] = status[k] /\ reason'[k] = reason[k]
      /\ registered' = registered /\ member' = member /\ doing' = doing /\ lead' = lead
  BY <1>0 DEF TeamTypes, Moves
<1>a. /\ q \in ThreadPlaces \ {"none"} /\ s \in MemberStatuses \ {"none"} /\ r \in Reasons /\ x \in Int
      /\ y \in Tasks \cup {0} /\ (q = "claim" => y \in Tasks /\ ~Blocked(y))
      /\ q = "assigning" \/ doing[w].step = "none"
      /\ s = "working" => \/ q \in {"round", "model", "assigning"}
                          \/ status[m] = "working" /\ at[w] \notin {"round", "model", "assigning"}
      /\ s = "starting" => status[m] = "starting" /\ at[w] # "boot"
  BY DEF MayMove
<1>b. Early /\ q # "failed" =>
               /\ r = reason[m] \/ r = "idle_timeout"
               /\ s = "shutdown" => r = "idle_timeout" \/ (status[m] = s /\ reason[m] = r)
               /\ q = "dead" => r = "idle_timeout"
  BY DEF MayMove
<1>c. Undisturbed' => Undisturbed /\ q # "failed"
  BY <1>1 DEF Undisturbed
<1>2. TeamTypes'
  BY <1>0, <1>a DEF TeamTypes, Moves, FilesGoOn, MessagesGoOn
<1> HIDE DEF m
<1>3. RunnersInv'
  <2>1. \A v \in TaskThreads : at'[v] # "none" => member[v] \in Teammates /\ status'[member[v]] # "none"
    BY <1>0, <1>1, <1>a DEF RunnersInv, m
  <2>2. \A v \in TaskThreads : at'[v] = "claim" => \E u \in Tasks : pick'[v] = u /\ ~Blocked(u)
    BY <1>0, <1>1, <1>a DEF RunnersInv
  <2>3. \A v \in TaskThreads : at'[v] = "claim" => pick'[v] \in Tasks /\ ~Blocked(pick[v])'
    <3>1. ASSUME NEW v \in TaskThreads, NEW u \in Tasks, pick'[v] = u, ~Blocked(u) PROVE ~Blocked(pick[v])'
      <4>1. ~Blocked(u)'
        BY <3>1 DEF FilesGoOn
      <4>. QED  BY <3>1, <4>1 DEF Blocked
    <3>. QED  BY <2>2, <3>1
  <2>4. \A v \in TaskThreads : at'[v] # "assigning" => doing[v].step = "none"
    BY <1>0, <1>1, <1>a DEF RunnersInv
  <2>5. \A k \in Teammates : registered[k] # 0 => at'[registered[k]] # "none" /\ member[registered[k]] = k
    BY <1>0, <1>1, <1>a DEF RunnersInv, TeamTypes
  <2>. QED  BY <1>1, <1>a, <2>1, <2>3, <2>4, <2>5 DEF RunnersInv
<1>4. AssignersInv'
  <2>1. \A v \in TaskThreads : at[v] # "none" => at'[v] # "none"
    BY <1>1, <1>a
  <2>2. \A k \in Teammates : status[k] # "none" => status'[k] # "none"
    BY <1>1, <1>a
  <2>. QED  BY <1>0, <1>1, <1>a, <2>1, <2>2 DEF AssignersInv
<1>5. RowsInv'
  <2>1. ASSUME NEW k \in Teammates, status'[k] = "working"
        PROVE  \E v \in TaskThreads : member[v] = k /\ at'[v] \in {"round", "model", "assigning"}
    <3>1. CASE k = m /\ q \in {"round", "model", "assigning"}
      BY <1>1, <1>a, <2>1, <3>1 DEF m
    <3>2. CASE k # m \/ (status[m] = "working" /\ at[w] \notin {"round", "model", "assigning"})
      <4>1. status[k] = "working"
        BY <1>1, <1>a, <2>1, <3>2
      <4>2. PICK v \in TaskThreads : member[v] = k /\ at[v] \in {"round", "model", "assigning"}
        BY <1>0, <4>1 DEF RowsInv
      <4>3. v # w
        BY <3>2, <4>2 DEF m
      <4>. QED  BY <1>1, <4>2, <4>3
    <3>3. k = m => s = "working"
      BY <1>1, <2>1
    <3>. QED  BY <1>a, <3>1, <3>2, <3>3
  <2>2. ASSUME NEW k \in Teammates, status'[k] = "starting"
        PROVE  \/ \E a \in Assigners : doing[a].step = "start" /\ doing[a].for = k
               \/ \E v \in TaskThreads : member[v] = k /\ at'[v] = "boot"
    <3>1. status[k] = "starting" /\ (k = m => at[w] # "boot")
      BY <1>0, <1>1, <1>a, <2>2 DEF m
    <3>2. CASE \E v \in TaskThreads : member[v] = k /\ at[v] = "boot"
      <4>1. PICK v \in TaskThreads : member[v] = k /\ at[v] = "boot"
        BY <3>2
      <4>2. v # w
        BY <3>1, <4>1 DEF m
      <4>. QED  BY <1>1, <1>a, <4>1, <4>2
    <3>. QED  BY <1>0, <3>1, <3>2 DEF RowsInv
  <2>. QED  BY <1>1, <1>a, <2>1, <2>2 DEF RowsInv
<1>6. EarlyInv'
  <2> SUFFICES ASSUME Early' PROVE EarlyInv'
    BY DEF EarlyInv
  <2>1. Early /\ q # "failed"
    BY <1>c DEF FilesGoOn, Early
  <2>2. \A v \in TaskThreads : doing[v].step = "none"
    BY <1>0, <2>1 DEF EarlyInv
  <2>3. ASSUME NEW k \in Teammates
        PROVE  /\ reason'[k] \in {"none", "idle_timeout"}
               /\ status'[k] = "shutdown" => reason'[k] = "idle_timeout"
               /\ reason[k] = "idle_timeout" => reason'[k] = "idle_timeout"
    BY <1>0, <1>1, <1>b, <2>1 DEF EarlyInv, m
  <2>4. ASSUME NEW v \in TaskThreads, at'[v] = "dead"
        PROVE  at[v] = "dead" \/ reason'[member[v]] = "idle_timeout"
    BY <1>0, <1>1, <1>b, <2>1, <2>4 DEF m
  <2>5. ASSUME NEW k \in Teammates, registered[k] # 0, at'[registered[k]] = "dead"
        PROVE  reason'[k] = "idle_timeout" \/ LeadStarts(k)
    <3>1. registered[k] \in TaskThreads /\ member[registered[k]] = k
      BY <1>0, <2>5 DEF RunnersInv, TeamTypes
    <3>2. at[registered[k]] = "dead" => reason[k] = "idle_timeout" \/ LeadStarts(k)
      BY <1>0, <2>1, <2>5 DEF EarlyInv
    <3>. QED  BY <2>3, <2>4, <2>5, <3>1, <3>2
  <2>6. ASSUME doing[Lead].step = "register", at'[doing[Lead].thread] = "dead"
        PROVE  reason'[doing[Lead].for] = "idle_timeout"
    <3>1. /\ doing[Lead].thread \in TaskThreads /\ member[doing[Lead].thread] = doing[Lead].for
          /\ doing[Lead].for \in Teammates
      BY <1>0, <2>6, Numbers DEF AssignersInv
    <3>2. at[doing[Lead].thread] = "dead" => reason[doing[Lead].for] = "idle_timeout"
      BY <1>0, <2>1, <2>6 DEF EarlyInv
    <3>. QED  BY <2>3, <2>4, <2>6, <3>1, <3>2
  <2>. QED  BY <1>1, <1>a, <2>2, <2>3, <2>5, <2>6 DEF EarlyInv, LeadStarts
<1>7. ServedInv'
  <2> SUFFICES ASSUME Undisturbed, q # "failed", OneByOne, NEW t \in Tasks, Claimable(t)' PROVE Served(t)'
    BY <1>c DEF ServedInv, OneByOne
  <2>1. Served(t)
    BY <1>0 DEF ServedInv, FilesGoOn
  <2>2. ASSUME NEW v \in TaskThreads, Serves(v, t) PROVE Serves(v, t)'
    <3>1. CASE v = w
      BY <1>1, <2>2, <3>1 DEF Serves, StillServes
    <3>2. CASE v # w
      BY <1>1, <1>a, <2>2, <3>2 DEF Serves
    <3>. QED  BY <3>1, <3>2
  <2>3. ~NoMembers
    BY <1>0 DEF NoMembers
  <2>4. Coming' = Coming /\ LeadServes' = LeadServes
    BY <1>1, <1>a DEF Coming, LeadServes
  <2>. QED  BY <2>1, <2>2, <2>3, <2>4 DEF Served
<1>. QED  BY <1>2, <1>3, <1>4, <1>5, <1>6, <1>7 DEF TasksInv, FilesGoOn, MessagesGoOn

\* What a thread leaves as it is.
LEMMA AsItWas ==
  ASSUME TasksInv, NEW w \in TaskThreads, at[w] # "none"
  PROVE  LET m == member[w]
         IN /\ m \in Teammates /\ status[m] \in MemberStatuses \ {"none"} /\ reason[m] \in Reasons
            /\ status = [status EXCEPT ![m] = status[m]] /\ reason = [reason EXCEPT ![m] = reason[m]]
            /\ left = [left EXCEPT ![w] = left[w]] /\ left[w] \in Int
            /\ pick = [pick EXCEPT ![w] = pick[w]] /\ pick[w] \in Tasks \cup {0}
            /\ stop[m] \in {NoStop, "lead_interrupt", "shutdown_request"}
            /\ at[w] # "assigning" => doing[w].step = "none"
BY DEF TasksInv, TeamTypes, RunnersInv

LEMMA SameMessages ==
  ASSUME TasksInv, stop' = stop, inbox' = inbox, lead'.stops = 0 => lead.stops = 0
  PROVE  MessagesGoOn
BY DEF TasksInv, TeamTypes, MessagesGoOn, StopsInv, Unstopped

\* Nobody who waits to claim a task is told to stop while nobody was.
LEMMA NotStopped ==
  ASSUME TasksInv, Unstopped, NEW w \in TaskThreads, at[w] # "none"
  PROVE  GoesOn(w)
BY AsItWas DEF TasksInv, StopsInv, GoesOn

LEMMA BootKeeps ==
  ASSUME TasksInv, NEW w \in TaskThreads, Boot(w)
  PROVE  TasksInv'
<1>1. at[w] = "boot" /\ FilesGoOn
  BY SameFiles DEF Boot
<1>2. MessagesGoOn
  BY <1>1, AsItWas DEF Boot, TasksInv, TeamTypes, MessagesGoOn, StopsInv, Unstopped
<1>3. Moves(w, "round", "working", reason[member[w]], MaxAgentRounds, pick[w])
  BY <1>1, AsItWas DEF Boot, Moves
<1>4. MayMove(w, "round", "working", reason[member[w]], MaxAgentRounds, pick[w])
  BY <1>1, AsItWas, TasksAssumption DEF MayMove, ThreadPlaces, MemberStatuses
<1>5. StillServes(w, "round", MaxAgentRounds, pick[w])
  BY DEF StillServes
<1>. QED  BY <1>1, <1>2, <1>3, <1>4, <1>5, ThreadMoves

LEMMA ShutDownIfStopRequestedKeeps ==
  ASSUME TasksInv, NEW w \in TaskThreads, ShutDownIfStopRequested(w)
  PROVE  TasksInv'
<1>1. at[w] \in {"model", "round", "poll"} /\ stop[member[w]] # NoStop /\ FilesGoOn /\ MessagesGoOn
  BY SameFiles, SameMessages DEF ShutDownIfStopRequested, Die
<1>2. ~Unstopped
  BY <1>1, NotStopped DEF GoesOn
<1>3. Moves(w, "dead", "shutdown", stop[member[w]], left[w], pick[w])
  BY <1>1, AsItWas DEF ShutDownIfStopRequested, Die, Moves
<1>4. MayMove(w, "dead", "shutdown", stop[member[w]], left[w], pick[w])
  BY <1>1, <1>2, AsItWas DEF MayMove, ThreadPlaces, MemberStatuses, Reasons, Early, Undisturbed, Unstopped
<1>5. StillServes(w, "dead", left[w], pick[w])
  BY <1>2 DEF StillServes, Undisturbed, Unstopped
<1>. QED  BY <1>1, <1>3, <1>4, <1>5, ThreadMoves

LEMMA ModelFailsKeeps ==
  ASSUME TasksInv, NEW w \in TaskThreads, ModelFails(w)
  PROVE  TasksInv'
<1>1. at[w] = "model" /\ FilesGoOn /\ MessagesGoOn
  BY SameFiles, SameMessages DEF ModelFails
<1>2. Moves(w, "failed", "shutdown", "runtime_error", left[w], pick[w])
  BY <1>1, AsItWas DEF ModelFails, Moves
<1>3. MayMove(w, "failed", "shutdown", "runtime_error", left[w], pick[w])
  BY <1>1, AsItWas DEF MayMove, ThreadPlaces, MemberStatuses, Reasons
<1>4. StillServes(w, "failed", left[w], pick[w])
  BY DEF StillServes
<1>. QED  BY <1>1, <1>2, <1>3, <1>4, ThreadMoves

\* The inbox is read by a thread that is not starting.
LEMMA ReadInboxKeeps ==
  ASSUME TasksInv, NEW w \in TaskThreads, at[w] \in {"round", "poll"}, NEW q \in {"round", "model"}, NEW x \in Int,
         ReadInbox(w, q, x)
  PROVE  TasksInv'
<1> DEFINE m == member[w]
           ends == {i \in DOMAIN inbox[m] : inbox[m][i] = Shutdown}
<1>1. FilesGoOn /\ m \in Teammates
  BY SameFiles, AsItWas DEF ReadInbox
<1>2. inbox' = [inbox EXCEPT ![m] = <<>>]
  BY DEF ReadInbox
<1>3. /\ inbox' \in [Teammates -> Seq(Tasks \cup {Shutdown})]
      /\ \A k \in Teammates : inbox'[k] = IF k = m THEN <<>> ELSE inbox[k]
  BY <1>1, <1>2 DEF TasksInv, TeamTypes
<1>4. CASE ends = {}
  <2>1. stop' = stop /\ Moves(w, q, "working", reason[m], x, pick[w])
    BY <1>4, AsItWas DEF ReadInbox, Moves
  <2>2. MessagesGoOn
    BY <1>3, <2>1 DEF MessagesGoOn, TasksInv, TeamTypes, StopsInv, Moves, Unstopped
  <2>3. MayMove(w, q, "working", reason[m], x, pick[w])
    BY AsItWas DEF MayMove, ThreadPlaces, MemberStatuses
  <2>4. StillServes(w, q, x, pick[w])
    BY DEF StillServes
  <2>. QED  BY <1>1, <2>1, <2>2, <2>3, <2>4, ThreadMoves
<1>5. CASE ends # {}
  <2>1. ~Unstopped
    BY <1>1, <1>5 DEF TasksInv, StopsInv
  <2>2. stop' = [stop EXCEPT ![m] = "shutdown_request"] /\ Moves(w, "dead", "shutdown", "shutdown_request", left[w], pick[w])
    BY <1>5, AsItWas DEF ReadInbox, Moves, Die
  <2>3. MessagesGoOn
    BY <1>3, <2>1, <2>2 DEF MessagesGoOn, TasksInv, TeamTypes, StopsInv, Moves, Unstopped
  <2>4. MayMove(w, "dead", "shutdown", "shutdown_request", left[w], pick[w])
    BY <2>1, AsItWas DEF MayMove, ThreadPlaces, MemberStatuses, Reasons, Early, Undisturbed, Unstopped
  <2>5. StillServes(w, "dead", left[w], pick[w])
    BY <2>1 DEF StillServes, Undisturbed, Unstopped
  <2>. QED  BY <1>1, <2>2, <2>3, <2>4, <2>5, ThreadMoves
<1>. QED  BY <1>4, <1>5

LEMMA SettleKeeps ==
  ASSUME TasksInv, NEW w \in TaskThreads, Settle(w)
  PROVE  TasksInv'
<1>1. at[w] \in {"round", "model"} /\ FilesGoOn /\ MessagesGoOn
  BY SameFiles, SameMessages DEF Settle
<1>2. Moves(w, "poll", "idle", reason[member[w]], MaxPolls, pick[w])
  BY <1>1, AsItWas DEF Settle, Moves
<1>3. MayMove(w, "poll", "idle", reason[member[w]], MaxPolls, pick[w])
  BY <1>1, AsItWas, TasksAssumption DEF MayMove, ThreadPlaces, MemberStatuses
<1>4. StillServes(w, "poll", MaxPolls, pick[w])
  BY TasksAssumption DEF StillServes
<1>. QED  BY <1>1, <1>2, <1>3, <1>4, ThreadMoves

\* A tool, with or without a claim.
LEMMA EndRoundKeeps ==
  ASSUME TasksInv, NEW w \in TaskThreads, EndRound(w, "round"), FilesGoOn, doing' = doing
  PROVE  TasksInv'
<1>1. at[w] = "model" /\ MessagesGoOn
  BY SameMessages DEF EndRound
<1>2. left[w] - 1 \in Int
  BY <1>1, AsItWas
<1>3. left' = [left EXCEPT ![w] = left[w] - 1]
  BY DEF EndRound
<1>4. Moves(w, "round", status[member[w]], reason[member[w]], left[w] - 1, pick[w])
  BY <1>1, <1>3, AsItWas DEF EndRound, Moves
<1>5. MayMove(w, "round", status[member[w]], reason[member[w]], left[w] - 1, pick[w])
  BY <1>1, <1>2, AsItWas DEF MayMove, ThreadPlaces, MemberStatuses
<1>6. StillServes(w, "round", left[w] - 1, pick[w])
  BY DEF StillServes
<1>. QED  BY <1>1, <1>4, <1>5, <1>6, ThreadMoves

LEMMA OtherToolKeeps ==
  ASSUME TasksInv, NEW w \in TaskThreads, OtherTool(w)
  PROVE  TasksInv'
BY SameFiles, EndRoundKeeps DEF OtherTool, EndRound

LEMMA ClaimToolKeeps ==
  ASSUME TasksInv, NEW w \in TaskThreads, NEW t \in Tasks, ClaimTool(w, t)
  PROVE  TasksInv'
<1>1. at[w] # "none" /\ lead' = lead
  BY DEF ClaimTool, EndRound
<1>2. FilesGoOn
  BY <1>1, AsItWas, ClaimedFile DEF ClaimTool
<1>. QED  BY <1>2, EndRoundKeeps DEF ClaimTool

LEMMA EndAssigningKeeps ==
  ASSUME TasksInv, NEW w \in TaskThreads, EndAssigning(w)
  PROVE  TasksInv'
<1>1. at[w] = "assigning" /\ doing[w].step = "none" /\ FilesGoOn /\ MessagesGoOn
  BY SameFiles, SameMessages DEF EndAssigning, memberVars
<1>2. Moves(w, "round", status[member[w]], reason[member[w]], left[w], pick[w])
  BY <1>1, AsItWas DEF EndAssigning, Moves, memberVars
<1>3. MayMove(w, "round", status[member[w]], reason[member[w]], left[w], pick[w])
  BY <1>1, AsItWas DEF MayMove, ThreadPlaces, MemberStatuses
<1>4. StillServes(w, "round", left[w], pick[w])
  BY DEF StillServes
<1>. QED  BY <1>1, <1>2, <1>3, <1>4, ThreadMoves

LEMMA PollKeeps ==
  ASSUME TasksInv, NEW w \in TaskThreads, Poll(w)
  PROVE  TasksInv'
<1> DEFINE m == member[w]
<1>1. at[w] = "poll" /\ m \in Teammates
  BY AsItWas DEF Poll
<1>2. CASE ReadInbox(w, "round", MaxAgentRounds)
  BY <1>1, <1>2, ReadInboxKeeps, TasksAssumption
\* Nothing for it: then no task of a chain is claimable.
<1>3. CASE /\ Open(m) # {} \/ ClaimableFor(m) = {}
           /\ left' = [left EXCEPT ![w] = @ - 1] /\ status' = [status EXCEPT ![m] = "idle"]
           /\ UNCHANGED <<task, inbox, reason, stop, logs, registered, member, at, told, pick, doing, lead>>
  <2>1. FilesGoOn /\ MessagesGoOn
    BY <1>3, SameFiles, SameMessages
  <2>2. at = [at EXCEPT ![w] = "poll"] /\ left[w] - 1 \in Int
    BY <1>1, AsItWas DEF TasksInv, TeamTypes
  <2>3. Moves(w, "poll", "idle", reason[m], left[w] - 1, pick[w])
    BY <1>1, <1>3, <2>2, AsItWas DEF Moves
  <2>4. MayMove(w, "poll", "idle", reason[m], left[w] - 1, pick[w])
    BY <1>1, <2>2, AsItWas DEF MayMove, ThreadPlaces, MemberStatuses
  <2>5. StillServes(w, "poll", left[w] - 1, pick[w])
    BY <1>1, <1>3, <2>1, OneClaimable DEF StillServes, FilesGoOn
  <2>. QED  BY <1>1, <2>1, <2>3, <2>4, <2>5, ThreadMoves
<1>4. CASE /\ ClaimableFor(m) # {}
           /\ at' = [at EXCEPT ![w] = "claim"] /\ pick' = [pick EXCEPT ![w] = Least(ClaimableFor(m))]
           /\ status' = [status EXCEPT ![m] = "idle"]
           /\ UNCHANGED <<task, inbox, reason, stop, logs, registered, member, left, told, doing, lead>>
  <2> DEFINE y == Least(ClaimableFor(m))
  <2>1. FilesGoOn /\ MessagesGoOn
    BY <1>4, SameFiles, SameMessages
  <2>2. ClaimableFor(m) \subseteq Tasks /\ \A u \in ClaimableFor(m) : ~Blocked(u)
    BY DEF ClaimableFor, Claimable
  <2>3. y \in Tasks /\ ~Blocked(y)
    BY <1>4, <2>2, Numbers, LeastNumber
  <2>4. \A t \in Tasks : OneByOne /\ Claimable(t) => y = t
    BY <1>1, Numbers, OneClaimable, LeastOfOne
  <2>5. Moves(w, "claim", "idle", reason[m], left[w], y)
    BY <1>1, <1>4, AsItWas DEF Moves
  <2> HIDE DEF y
  <2>6. MayMove(w, "claim", "idle", reason[m], left[w], y)
    BY <1>1, <2>3, AsItWas DEF MayMove, ThreadPlaces, MemberStatuses
  <2>7. StillServes(w, "claim", left[w], y)
    BY <2>1, <2>4 DEF StillServes, FilesGoOn
  <2>. QED  BY <1>1, <2>1, <2>5, <2>6, <2>7, ThreadMoves
<1>. QED  BY <1>2, <1>3, <1>4 DEF Poll

LEMMA AutoClaimKeeps ==
  ASSUME TasksInv, NEW w \in TaskThreads, AutoClaim(w)
  PROVE  TasksInv'
<1> DEFINE m == member[w]
           t == pick[w]
           why == IF GoesOn(w) THEN "runtime_error" ELSE stop[m]
<1>1. /\ at[w] = "claim" /\ m \in Teammates /\ t \in Tasks /\ ~Blocked(t) /\ lead' = lead
      /\ MessagesGoOn
  BY AsItWas, SameMessages DEF AutoClaim, TasksInv, RunnersInv
<1>2. CASE CannotClaim(t)
  <2>1. FilesGoOn /\ task[t].status = "completed"
    BY <1>1, <1>2, SameFiles DEF AutoClaim, CannotClaim
  <2>2. Moves(w, "dead", "shutdown", why, left[w], 0)
    BY <1>1, <1>2, AsItWas DEF AutoClaim, Die, Moves
  <2>3. why \in Reasons
    BY <1>1, AsItWas DEF GoesOn, Reasons
  <2> HIDE DEF why
  <2>4. MayMove(w, "dead", "shutdown", why, left[w], 0)
    BY <1>1, <2>1, <2>3, AsItWas DEF MayMove, ThreadPlaces, MemberStatuses, Early
  <2>5. StillServes(w, "dead", left[w], 0)
    BY <1>1, <2>1 DEF StillServes, Serves, FilesGoOn, Claimable
  <2>. QED  BY <1>1, <2>1, <2>2, <2>4, <2>5, ThreadMoves
<1>3. CASE ~CannotClaim(t)
  <2>1. FilesGoOn
    BY <1>1, <1>3, ClaimedFile DEF AutoClaim
  <2>2. Moves(w, "round", "working", reason[m], MaxAgentRounds, 0)
    BY <1>1, <1>3, AsItWas DEF AutoClaim, Moves
  <2>3. MayMove(w, "round", "working", reason[m], MaxAgentRounds, 0)
    BY <1>1, AsItWas, TasksAssumption DEF MayMove, ThreadPlaces, MemberStatuses
  <2>4. StillServes(w, "round", MaxAgentRounds, 0)
    BY DEF StillServes
  <2>. QED  BY <1>1, <2>1, <2>2, <2>3, <2>4, ThreadMoves
<1>. QED  BY <1>2, <1>3

LEMMA LastPollKeeps ==
  ASSUME TasksInv, NEW w \in TaskThreads, LastPoll(w)
  PROVE  TasksInv'
<1> DEFINE m == member[w]
<1>1. at[w] = "poll" /\ left[w] = 0 /\ FilesGoOn /\ MessagesGoOn
  BY SameFiles, SameMessages DEF LastPoll
<1>2. CASE Open(m) = {}
  <2>1. Moves(w, "expire", status[m], reason[m], left[w], pick[w])
    BY <1>1, <1>2, AsItWas DEF LastPoll, Moves
  <2>2. MayMove(w, "expire", status[m], reason[m], left[w], pick[w])
    BY <1>1, AsItWas DEF MayMove, ThreadPlaces, MemberStatuses
  <2>3. StillServes(w, "expire", left[w], pick[w])
    BY <1>1 DEF StillServes, Serves
  <2>. QED  BY <1>1, <2>1, <2>2, <2>3, ThreadMoves
<1>3. CASE Open(m) # {}
  <2>1. Moves(w, "round", "working", reason[m], MaxAgentRounds, pick[w])
    BY <1>1, <1>3, AsItWas DEF LastPoll, Moves
  <2>2. MayMove(w, "round", "working", reason[m], MaxAgentRounds, pick[w])
    BY <1>1, AsItWas, TasksAssumption DEF MayMove, ThreadPlaces, MemberStatuses
  <2>3. StillServes(w, "round", MaxAgentRounds, pick[w])
    BY DEF StillServes
  <2>. QED  BY <1>1, <2>1, <2>2, <2>3, ThreadMoves
<1>. QED  BY <1>2, <1>3

LEMMA ExpireKeeps ==
  ASSUME TasksInv, NEW w \in TaskThreads, Expire(w)
  PROVE  TasksInv'
<1>1. at[w] = "expire" /\ FilesGoOn /\ MessagesGoOn
  BY SameFiles, SameMessages DEF Expire, Die
<1>2. Moves(w, "dead", "shutdown", "idle_timeout", left[w], pick[w])
  BY <1>1, AsItWas DEF Expire, Die, Moves
<1>3. MayMove(w, "dead", "shutdown", "idle_timeout", left[w], pick[w])
  BY <1>1, AsItWas DEF MayMove, ThreadPlaces, MemberStatuses, Reasons
<1>4. StillServes(w, "dead", left[w], pick[w])
  BY <1>1 DEF StillServes, Serves
<1>. QED  BY <1>1, <1>2, <1>3, <1>4, ThreadMoves

-----------------------------------------------------------------------------
(* A step of whoever assigns.                                              *)

FilesKept ==
  /\ task' \in [Tasks -> TaskFiles] /\ FilesInv'
  /\ \A t \in Tasks : ~Blocked(t) => ~Blocked(t)'

\* What is assigned goes from one record to another.
Assigns(a, d) ==
  /\ doing' = [doing EXCEPT ![a] = d]
  /\ lead' \in [spawns : Nat, stops : Nat] /\ lead'.stops = lead.stops
  /\ UNCHANGED <<member, at, left, pick>>

MayAssign(a, d) ==
  /\ d \in Assignments /\ d.step # "register" /\ doing[a].step # "start"
  /\ a \in TaskThreads => at[a] = "assigning"
  /\ d.step \in {"tell", "start"} => d.for \in Teammates
  /\ d.step = "start" => status'[d.for] # "none"
  /\ d.step = "tell" => d.task \in Tasks
  /\ status' \in [Teammates -> MemberStatuses] /\ reason' \in [Teammates -> Reasons]
  /\ \A m \in Teammates :
       /\ status[m] # "none" => status'[m] # "none"
       /\ status'[m] = "working" => status[m] = "working"
       /\ status'[m] = "starting" => status[m] = "starting" \/ (d.step = "start" /\ d.for = m)

RegisteredGoOn ==
  /\ registered' \in [Teammates -> TaskThreads \cup {0}]
  /\ \A m \in Teammates : registered'[m] # 0 => at[registered'[m]] # "none" /\ member[registered'[m]] = m

LEMMA SameRegistered ==
  ASSUME TasksInv, registered' = registered
  PROVE  RegisteredGoOn
BY DEF TasksInv, TeamTypes, RunnersInv, RegisteredGoOn

LEMMA Assigned ==
  ASSUME TasksInv, FilesKept, MessagesGoOn, RegisteredGoOn, NEW a \in Assigners, NEW d, Assigns(a, d), MayAssign(a, d),
         EarlyInv', ServedInv'
  PROVE  TasksInv'
<1>1. /\ TeamTypes /\ FilesInv /\ RunnersInv /\ AssignersInv /\ RowsInv
      /\ member' = member /\ at' = at /\ left' = left /\ pick' = pick
  BY DEF TasksInv, Assigns
<1>2. doing'[a] = d /\ \A b \in Assigners \ {a} : doing'[b] = doing[b]
  BY <1>1 DEF TeamTypes, Assigns
<1>3. TeamTypes'
  BY <1>1 DEF TeamTypes, Assigns, MayAssign, FilesKept, MessagesGoOn, RegisteredGoOn
<1>4. RunnersInv'
  <2>1. ASSUME NEW v \in TaskThreads, at[v] = "claim" PROVE ~Blocked(pick[v])'
    <3>1. pick[v] \in Tasks /\ ~Blocked(pick[v])
      BY <1>1, <2>1 DEF RunnersInv
    <3>2. \A u \in Tasks : ~Blocked(u) => ~Blocked(u)'
      BY DEF FilesKept
    <3>. QED  BY <1>1, <3>1, <3>2 DEF Blocked
  <2>2. \A v \in TaskThreads : at[v] # "assigning" => doing'[v].step = "none"
    BY <1>1, <1>2, Numbers DEF RunnersInv, MayAssign
  <2>. QED  BY <1>1, <2>1, <2>2 DEF RunnersInv, MayAssign, RegisteredGoOn
<1>5. AssignersInv'
  BY <1>1, <1>2 DEF AssignersInv, MayAssign
<1>6. RowsInv'
  <2>1. ASSUME NEW m \in Teammates, status'[m] = "starting"
        PROVE  \/ \E b \in Assigners : doing'[b].step = "start" /\ doing'[b].for = m
               \/ \E w \in TaskThreads : member[w] = m /\ at[w] = "boot"
    <3>1. CASE d.step = "start" /\ d.for = m
      BY <1>2, <3>1
    <3>2. CASE status[m] = "starting"
      BY <1>1, <1>2, <3>2 DEF RowsInv, MayAssign
    <3>. QED  BY <2>1, <3>1, <3>2 DEF MayAssign
  <2>2. ASSUME NEW m \in Teammates, status'[m] = "working"
        PROVE  \E w \in TaskThreads : member[w] = m /\ at[w] \in {"round", "model", "assigning"}
    BY <1>1, <2>2 DEF RowsInv, MayAssign
  <2>. QED  BY <1>1, <2>1, <2>2 DEF RowsInv
<1>. QED  BY <1>3, <1>4, <1>5, <1>6 DEF TasksInv, FilesKept, MessagesGoOn

\* While somebody assigns, no thread fails and nobody is told to stop.
LEMMA EarlyBefore ==
  ASSUME FilesGoOn, NEW a, NEW d, Assigns(a, d)
  PROVE  Early' => Early
BY DEF FilesGoOn, Assigns, Early, Undisturbed

\* Only the lead assigns before a task is completed.
LEMMA MemberAssigns ==
  ASSUME TasksInv, FilesGoOn, NEW a \in TaskThreads, NEW d, Assigns(a, d), doing[a].step \notin {"none", "start"}
  PROVE  EarlyInv' /\ ServedInv'
<1>1. ~Early
  BY DEF TasksInv, EarlyInv
<1>2. EarlyInv'
  BY <1>1, EarlyBefore DEF EarlyInv
<1>3. /\ member' = member /\ at' = at /\ left' = left /\ pick' = pick /\ lead'.stops = lead.stops
      /\ \A b \in Assigners \ {a} : doing'[b] = doing[b]
  BY Numbers DEF TasksInv, TeamTypes, Assigns
<1>4. ASSUME Undisturbed, OneByOne, NEW t \in Tasks, Claimable(t)' PROVE Served(t)'
  <2>1. Claimable(t) /\ Served(t)
    BY <1>4 DEF FilesGoOn, TasksInv, ServedInv
  <2>2. t # 1
    BY <1>1, <1>4, <2>1, OneClaimable DEF Early
  <2>3. \A w \in TaskThreads : Serves(w, t)' <=> Serves(w, t)
    BY <1>3 DEF Serves
  <2>4. Coming => Coming'
    BY <1>3 DEF Coming
  <2>. QED  BY <2>1, <2>2, <2>3, <2>4 DEF Served
<1>5. ServedInv'
  BY <1>3, <1>4 DEF ServedInv, Undisturbed, OneByOne
<1>. QED  BY <1>2, <1>5

\* What the lead assigns while all that ended has timed out.
LEMMA LeadAssigns ==
  ASSUME TasksInv, NEW d, Assigns(Lead, d), registered' = registered, Early' => Early, d.step # "register",
         doing[Lead].step \notin {"start", "register"},
         Early => \A m \in Teammates :
           /\ reason'[m] \in {"none", "idle_timeout"}
           /\ status'[m] = "shutdown" => reason'[m] = "idle_timeout"
           /\ reason[m] = "idle_timeout" => reason'[m] = "idle_timeout" \/ (d.step = "start" /\ d.for = m)
  PROVE  EarlyInv'
<1> SUFFICES ASSUME Early PROVE EarlyInv'
  BY DEF EarlyInv
<1>1. /\ at' = at /\ doing'[Lead] = d /\ \A w \in TaskThreads : doing'[w] = doing[w]
  BY Numbers DEF TasksInv, TeamTypes, Assigns
<1>2. /\ \A w \in TaskThreads : doing[w].step = "none"
      /\ \A m \in Teammates : registered[m] # 0 /\ at[registered[m]] = "dead" => reason[m] = "idle_timeout"
  BY DEF TasksInv, EarlyInv, LeadStarts
<1>. QED  BY <1>1, <1>2 DEF EarlyInv, LeadStarts

\* If another assigner, or a thread, serves a task, it goes on.
LEMMA LeadServed ==
  ASSUME TasksInv, FilesGoOn, NEW d, Assigns(Lead, d), doing[Lead].step # "start",
         Undisturbed /\ OneByOne /\ Claimable(1) /\ Claimable(1)' /\ 1 \in Tasks /\ (LeadServes \/ NoMembers) => Served(1)'
  PROVE  ServedInv'
<1>1. /\ at' = at /\ left' = left /\ pick' = pick /\ lead'.stops = lead.stops
      /\ \A w \in Assigners \ {Lead} : doing'[w] = doing[w]
  BY Numbers DEF TasksInv, TeamTypes, Assigns
<1>2. ASSUME Undisturbed, OneByOne, NEW t \in Tasks, Claimable(t)' PROVE Served(t)'
  <2>1. Claimable(t) /\ Served(t)
    BY <1>2 DEF FilesGoOn, TasksInv, ServedInv
  <2>2. \A w \in TaskThreads : Serves(w, t)' <=> Serves(w, t)
    BY <1>1 DEF Serves
  <2>3. Coming => Coming'
    BY <1>1 DEF Coming
  <2>4. CASE \E w \in TaskThreads : Serves(w, t)
    BY <2>2, <2>4 DEF Served
  <2>5. CASE t = 1 /\ (LeadServes \/ NoMembers)
    BY <1>2, <2>1, <2>5
  <2>. QED  BY <2>1, <2>3, <2>4, <2>5 DEF Served
<1>. QED  BY <1>1, <1>2 DEF ServedInv, Undisturbed, OneByOne

LEMMA Kept ==
  ASSUME TasksInv, FilesGoOn
  PROVE  FilesKept
BY DEF FilesGoOn, FilesKept

\* An assignment under way.
LEMMA Assigning ==
  ASSUME TasksInv, NEW a \in Assigners
  PROVE  /\ doing[a] \in Assignments /\ doing \in [Assigners -> Assignments]
         /\ a \in TaskThreads /\ doing[a].step # "none" => at[a] = "assigning"
         /\ lead \in [spawns : Nat, stops : Nat]
BY DEF TasksInv, TeamTypes, RunnersInv

\* The rows stay as they are.
SameRows == UNCHANGED <<status, reason, registered>>

LEMMA QuietAssign ==
  ASSUME TasksInv, FilesGoOn, MessagesGoOn, SameRows, NEW a \in Assigners, NEW d \in Assignments, Assigns(a, d),
         doing[a].step \notin {"none", "start", "register"}, d.step \notin {"start", "register"},
         d.step = "tell" => d.for \in Teammates /\ d.task \in Tasks,
         a = Lead => ServedInv'
  PROVE  TasksInv'
<1>1. FilesKept /\ RegisteredGoOn
  BY Kept, SameRegistered DEF SameRows
<1>2. MayAssign(a, d)
  BY Assigning DEF MayAssign, SameRows, TasksInv, TeamTypes
<1>3. CASE a = Lead
  <2>1. Early => \A m \in Teammates :
          /\ reason'[m] \in {"none", "idle_timeout"}
          /\ status'[m] = "shutdown" => reason'[m] = "idle_timeout"
          /\ reason[m] = "idle_timeout" => reason'[m] = "idle_timeout"
    BY DEF TasksInv, EarlyInv, SameRows
  <2>2. EarlyInv'
    BY <1>3, <2>1, LeadAssigns, EarlyBefore DEF SameRows
  <2>. QED  BY <1>1, <1>2, <1>3, <2>2, Assigned
<1>4. CASE a \in TaskThreads
  BY <1>1, <1>2, <1>4, MemberAssigns, Assigned
<1>. QED  BY <1>3, <1>4 DEF Assigners

LEMMA ListClaimableKeeps ==
  ASSUME TasksInv, NEW a \in Assigners, ListClaimable(a)
  PROVE  TasksInv'
<1> DEFINE tasks == {t \in Tasks : Claimable(t)}
           d == IF tasks = {} THEN NoOp ELSE [NoOp EXCEPT !.step = "candidates", !.tasks = tasks]
<1>1. FilesGoOn /\ MessagesGoOn /\ SameRows /\ doing[a].step = "list"
  BY SameFiles, SameMessages DEF ListClaimable, SameRows, memberVars
<1>2. /\ d \in Assignments /\ d.step \in {"none", "candidates"}
      /\ tasks # {} => d.step = "candidates" /\ d.tasks = tasks
  BY Numbers DEF NoOp, Assignments, Steps, Nobody
<1>3. Assigns(a, d)
  BY Assigning DEF ListClaimable, Assigns, threadVars
<1>4. ASSUME a = Lead, OneByOne, Claimable(1), Claimable(1)', 1 \in Tasks, LeadServes \/ NoMembers PROVE Served(1)'
  <2>1. tasks = {1}
    BY <1>4, OneClaimable
  <2>2. doing'[Lead] = d
    BY <1>3, <1>4, Assigning DEF Assigns
  <2> HIDE DEF d
  <2>3. LeadServes'
    BY <1>2, <2>1, <2>2 DEF LeadServes
  <2>. QED  BY <2>3 DEF Served
<1> HIDE DEF d
<1>5. a = Lead => ServedInv'
  BY <1>1, <1>3, <1>4, LeadServed
<1>. QED  BY <1>1, <1>2, <1>3, <1>5, QuietAssign

\* _refresh_thread_health: rows only go to shutdown, and only those of a member with a thread.
LEMMA Refreshed ==
  ASSUME TasksInv, RefreshHealth
  PROVE  /\ status' \in [Teammates -> MemberStatuses] /\ reason' \in [Teammates -> Reasons]
         /\ \A m \in Teammates :
              /\ status'[m] = status[m] \/ status'[m] = "shutdown"
              /\ status[m] = "none" => status'[m] = "none"
              /\ ~Exited(m) => status'[m] = status[m] /\ reason'[m] = reason[m]
              /\ reason[m] # "none" => reason'[m] = reason[m]
<1>1. status \in [Teammates -> MemberStatuses] /\ reason \in [Teammates -> Reasons] /\ RunnersInv
      /\ registered \in [Teammates -> TaskThreads \cup {0}]
  BY DEF TasksInv, TeamTypes
<1>2. status' \in [Teammates -> MemberStatuses] /\ reason' \in [Teammates -> Reasons]
  BY <1>1 DEF RefreshHealth, MemberStatuses, Reasons
<1>3. ASSUME NEW m \in Teammates
      PROVE  /\ status'[m] = IF Exited(m) THEN "shutdown" ELSE status[m]
             /\ reason'[m] = IF Exited(m) /\ reason[m] = "none" THEN "thread_exited" ELSE reason[m]
  BY DEF RefreshHealth
<1>4. ASSUME NEW m \in Teammates, Exited(m) PROVE status[m] # "none"
  BY <1>1, <1>4 DEF Exited, RunnersInv
<1>. QED  BY <1>2, <1>3, <1>4

LEMMA ListCandidatesKeeps ==
  ASSUME TasksInv, NEW a \in Assigners, ListCandidates(a)
  PROVE  TasksInv'
<1> DEFINE timedOut == {m \in Teammates : Resumable(m)' /\ Open(m) = {}}
           idle == {m \in Teammates : status'[m] = "idle" /\ Open(m) = {}}
           d == [doing[a] EXCEPT !.step = "next", !.free = idle \cup timedOut, !.resume = timedOut]
<1>1. /\ FilesGoOn /\ MessagesGoOn /\ FilesKept /\ RegisteredGoOn /\ RefreshHealth /\ registered' = registered
      /\ doing[a].step = "candidates"
  BY SameFiles, SameMessages, Kept, SameRegistered DEF ListCandidates
<1>2. /\ d \in Assignments /\ d.step = "next" /\ d.free = idle \cup timedOut /\ d.tasks = doing[a].tasks
  <2>1. idle \subseteq Teammates /\ timedOut \subseteq Teammates
    OBVIOUS
  <2>2. doing[a] \in Assignments
    BY Assigning
  <2> HIDE DEF idle, timedOut
  <2>3. d.step = "next" /\ d.free = idle \cup timedOut /\ d.tasks = doing[a].tasks
    BY <2>2 DEF Assignments
  <2>4. d \in Assignments
    BY <2>1, <2>2 DEF Assignments, Steps
  <2>. QED  BY <2>3, <2>4
<1>3. Assigns(a, d)
  <2>1. doing' = [doing EXCEPT ![a] = d]
    BY Assigning DEF ListCandidates
  <2>. QED  BY <2>1, Assigning DEF ListCandidates, Assigns, threadVars
<1> HIDE DEF d
<1>4. MayAssign(a, d)
  BY <1>1, <1>2, Refreshed, Assigning DEF MayAssign, MemberStatuses
<1>5. CASE a \in TaskThreads
  BY <1>1, <1>2, <1>3, <1>4, <1>5, MemberAssigns, Assigned
<1>6. CASE a = Lead
  \* Until then whatever has ended has timed out.
  <2>1. ASSUME Early, NEW m \in Teammates
        PROVE  /\ reason'[m] = reason[m] /\ reason'[m] \in {"none", "idle_timeout"}
               /\ status'[m] = "shutdown" => reason'[m] = "idle_timeout"
    <3>1. /\ reason[m] \in {"none", "idle_timeout"} /\ (status[m] = "shutdown" => reason[m] = "idle_timeout")
          /\ registered[m] # 0 /\ at[registered[m]] = "dead" => reason[m] = "idle_timeout"
      BY <1>1, <1>6, <2>1 DEF TasksInv, EarlyInv, LeadStarts
    <3>a. registered[m] # 0 => at[registered[m]] # "failed"
      BY <2>1 DEF TasksInv, TeamTypes, Early, Undisturbed
    <3>2. Exited(m) => reason[m] = "idle_timeout"
      BY <3>1, <3>a DEF Exited, Ended
    <3>. QED  BY <1>1, <3>1, <3>2, Refreshed
  <2>2. EarlyInv'
    BY <1>1, <1>2, <1>3, <1>6, <2>1, LeadAssigns, EarlyBefore
  <2>3. ASSUME Undisturbed, OneByOne, Claimable(1), Claimable(1)', 1 \in Tasks, LeadServes \/ NoMembers PROVE Served(1)'
    <3>1. /\ doing'[Lead] = d /\ at' = at /\ left' = left /\ pick' = pick
          /\ \A b \in Assigners \ {Lead} : doing'[b] = doing[b]
      BY <1>3, <1>6, Assigning DEF Assigns
    <3>2. CASE NoMembers
      BY <1>1, <3>2, Refreshed DEF NoMembers, Served
    <3>3. CASE LeadServes /\ idle \cup timedOut # {}
      <4>1. d.tasks = {1}
        BY <1>1, <1>2, <1>6, <3>3 DEF LeadServes
      <4>2. LeadServes'
        BY <1>2, <3>1, <3>3, <4>1 DEF LeadServes
      <4>. QED  BY <4>2 DEF Served
    <3>4. CASE idle \cup timedOut = {}
      <4>1. Early /\ \A m \in Teammates : Open(m) = {}
        BY <2>3, OneClaimable DEF Early
      <4>2. ASSUME NEW m \in Teammates PROVE status'[m] \in {"none", "starting", "working"}
        <5>1. status'[m] # "idle" /\ ~Resumable(m)'
          BY <3>4, <4>1
        <5>2. status'[m] # "shutdown"
          BY <2>1, <4>1, <5>1 DEF Resumable, TimedOut
        <5>. QED  BY <1>1, <5>1, <5>2, Refreshed DEF MemberStatuses
      <4>3. \A m \in Teammates : status'[m] = status[m]
        BY <1>1, <4>2, Refreshed
      <4>4. CASE \E m \in Teammates : status[m] = "working"
        <5>1. \E w \in TaskThreads : at[w] \in {"round", "model", "assigning"}
          BY <4>4 DEF TasksInv, RowsInv
        <5>. QED  BY <3>1, <5>1 DEF Served, Serves
      <4>5. CASE \E m \in Teammates : status[m] = "starting"
        <5>1. (\E w \in TaskThreads : at[w] = "boot") \/ \E b \in Assigners : doing[b].step = "start"
          BY <4>5 DEF TasksInv, RowsInv
        <5>2. (\E b \in Assigners : doing[b].step = "start") => Coming'
          BY <1>1, <1>6, <3>1 DEF Coming
        <5>. QED  BY <3>1, <5>1, <5>2 DEF Served, Serves
      <4>6. CASE \A m \in Teammates : status[m] = "none"
        BY <4>3, <4>6 DEF Served, NoMembers
      <4>. QED  BY <4>2, <4>3, <4>4, <4>5, <4>6
    <3>. QED  BY <2>3, <3>2, <3>3, <3>4
  <2>4. ServedInv'
    BY <1>1, <1>3, <1>6, <2>3, LeadServed
  <2>. QED  BY <1>1, <1>3, <1>4, <2>2, <2>4, Assigned
<1>. QED  BY <1>5, <1>6 DEF Assigners

LEMMA AssignNextKeeps ==
  ASSUME TasksInv, NEW a \in Assigners, AssignNext(a)
  PROVE  TasksInv'
<1> DEFINE given == {u \in doing[a].tasks : TakersOf(a, u) # {}}
           t == Least(given)
           m == Least(TakersOf(a, t))
<1>1. /\ doing[a].step = "next" /\ doing[a] \in Assignments /\ SameRows /\ MessagesGoOn /\ lead' = lead
      /\ UNCHANGED <<member, at, left, pick>> /\ lead \in [spawns : Nat, stops : Nat]
  BY SameMessages, Assigning DEF AssignNext, SameRows, memberVars, threadVars
<1>2. doing[a].tasks \subseteq Tasks /\ \A u : TakersOf(a, u) \subseteq Teammates
  BY <1>1 DEF Assignments, TakersOf
<1>3. given # {} => t \in given /\ m \in TakersOf(a, t)
  <2>1. given \subseteq Nat
    BY <1>2, Numbers
  <2>2. given # {} => t \in given
    BY <2>1, LeastNumber
  <2>3. t \in given => TakersOf(a, t) # {}
    OBVIOUS
  <2> HIDE DEF given, t
  <2>. QED  BY <1>2, <2>2, <2>3, Numbers, LeastNumber
\* The lead finds the first task of a chain claimable.
<1>4. ASSUME OneByOne, Claimable(1), 1 \in Tasks, a = Lead, LeadServes PROVE given # {} /\ t = 1 /\ ~CannotClaim(t)
  <2>1. doing[a].tasks = {1} /\ TakersOf(a, 1) # {}
    BY <1>1, <1>4 DEF LeadServes, TakersOf, OneByOne
  <2>2. given = {1}
    BY <2>1
  <2>3. t = 1
    BY <2>2, LeastOfOne
  <2>. QED  BY <1>4, <2>2, <2>3 DEF CannotClaim, Claimable
<1>5. CASE given = {} \/ CannotClaim(t)
  <2>1. doing' = [doing EXCEPT ![a] = NoOp] /\ task' = task
    BY <1>5 DEF AssignNext
  <2>2. FilesGoOn
    BY <1>1, <2>1, SameFiles
  <2>3. NoOp \in Assignments /\ NoOp.step = "none"
    BY Numbers DEF NoOp, Assignments, Steps, Nobody
  <2>4. Assigns(a, NoOp)
    BY <1>1, <2>1 DEF Assigns
  <2>5. ASSUME a = Lead, OneByOne, Claimable(1), 1 \in Tasks, LeadServes \/ NoMembers PROVE Served(1)'
    BY <1>1, <1>4, <1>5, <2>5 DEF Served, NoMembers, SameRows
  <2>6. a = Lead => ServedInv'
    BY <1>1, <2>2, <2>4, <2>5, LeadServed
  <2>. QED  BY <1>1, <2>2, <2>3, <2>4, <2>6, QuietAssign
<1>6. CASE given # {} /\ ~CannotClaim(t)
  <2>1. t \in Tasks /\ m \in Teammates
    BY <1>2, <1>3, <1>6
  <2>2. PICK u \in Tasks, k \in Teammates : u = t /\ k = m
    BY <2>1
  <2> DEFINE d == [doing[a] EXCEPT !.step = "tell", !.task = u, !.for = k,
                                   !.tasks = {v \in doing[a].tasks : v > u}, !.free = doing[a].free \ {k}]
  <2>3. doing' = [doing EXCEPT ![a] = d] /\ ClaimFor(u, k) /\ ~CannotClaim(u)
    <3>1. /\ ClaimFor(t, m)
          /\ doing' = [doing EXCEPT ![a].step = "tell", ![a].task = t, ![a].for = m,
                                    ![a].tasks = {v \in @ : v > t}, ![a].free = @ \ {m}]
      BY <1>6 DEF AssignNext
    <3> HIDE DEF given, t, m
    <3>2. ClaimFor(u, k) /\ ~CannotClaim(u)
      BY <1>6, <2>2, <3>1
    <3>3. doing \in [Assigners -> Assignments]
      BY Assigning
    <3>4. doing' = [doing EXCEPT ![a].step = "tell", ![a].task = u, ![a].for = k,
                                ![a].tasks = {v \in @ : v > u}, ![a].free = @ \ {k}]
      BY <2>2, <3>1
    <3>5. doing' = [doing EXCEPT ![a] = d]
      BY <3>3, <3>4 DEF Assignments
    <3>. QED  BY <3>2, <3>5
  <2> HIDE DEF given, t, m
  <2>4. FilesGoOn /\ ~Claimable(u)'
    BY <1>1, <2>3, ClaimedFile
  <2>5. d \in Assignments /\ d.step = "tell" /\ d.for = k /\ d.task = u
    <3>1. {v \in doing[a].tasks : v > u} \subseteq Tasks /\ doing[a].free \ {k} \subseteq Teammates
      BY <1>1, <1>2 DEF Assignments
    <3>. QED  BY <1>1, <3>1 DEF Assignments, Steps
  <2>6. Assigns(a, d)
    BY <1>1, <2>3 DEF Assigns
  <2>7. ASSUME a = Lead, OneByOne, Claimable(1), Claimable(1)', 1 \in Tasks, LeadServes \/ NoMembers PROVE Served(1)'
    <3>1. ~LeadServes
      BY <1>4, <2>2, <2>4, <2>7
    <3>. QED  BY <1>1, <2>7, <3>1 DEF Served, NoMembers, SameRows
  <2> HIDE DEF d
  <2>8. a = Lead => ServedInv'
    BY <1>1, <2>4, <2>6, <2>7, LeadServed
  <2>. QED  BY <1>1, <2>4, <2>5, <2>6, <2>8, QuietAssign
<1>. QED  BY <1>5, <1>6

LEMMA TellAssignedKeeps ==
  ASSUME TasksInv, NEW a \in Assigners, TellAssigned(a)
  PROVE  TasksInv'
<1> DEFINE m == doing[a].for
<1>1. /\ doing[a].step = "tell" /\ doing[a] \in Assignments /\ m \in Teammates /\ doing[a].task \in Tasks
      /\ registered' = registered /\ lead' = lead /\ UNCHANGED <<member, at, left, pick>>
      /\ lead \in [spawns : Nat, stops : Nat] /\ FilesGoOn
  BY Assigning, SameFiles DEF TellAssigned, TasksInv, AssignersInv, threadVars
<1>2. MessagesGoOn
  <2>1. /\ inbox \in [Teammates -> Seq(Tasks \cup {Shutdown})] /\ stop' = stop
        /\ inbox' = [inbox EXCEPT ![m] = Append(inbox[m], doing[a].task)] /\ StopsInv
    BY DEF TellAssigned, TasksInv, TeamTypes
  <2>2. Append(inbox[m], doing[a].task) \in Seq(Tasks \cup {Shutdown})
    BY <1>1, <2>1
  <2>3. ASSUME \A i \in DOMAIN inbox[m] : inbox[m][i] # Shutdown,
               NEW i \in DOMAIN Append(inbox[m], doing[a].task)
        PROVE  Append(inbox[m], doing[a].task)[i] # Shutdown
    BY <1>1, <2>1, <2>3, Numbers
  <2>4. ASSUME Unstopped, NEW k \in Teammates, NEW i \in DOMAIN inbox'[k] PROVE inbox'[k][i] # Shutdown
    BY <1>1, <2>1, <2>3, <2>4 DEF StopsInv
  <2>5. StopsInv'
    BY <1>1, <2>1, <2>4 DEF StopsInv, Unstopped
  <2>. QED  BY <1>1, <2>1, <2>2, <2>5 DEF MessagesGoOn, TasksInv, TeamTypes
<1>3. CASE m \in doing[a].resume
  <2> DEFINE d == [doing[a] EXCEPT !.step = "start", !.back = "next", !.task = 0]
  <2>1. d \in Assignments /\ d.step = "start" /\ d.for = m
    BY <1>1 DEF Assignments, Steps
  <2>2. /\ doing' = [doing EXCEPT ![a] = d]
        /\ status' = [status EXCEPT ![m] = "starting"] /\ reason' = [reason EXCEPT ![m] = "none"]
    BY <1>3, Assigning DEF TellAssigned
  <2> HIDE DEF d
  <2>3. Assigns(a, d) /\ FilesKept /\ RegisteredGoOn
    BY <1>1, <2>2, Kept, SameRegistered DEF Assigns
  <2>4. /\ status' \in [Teammates -> MemberStatuses] /\ reason' \in [Teammates -> Reasons]
        /\ status'[m] = "starting" /\ reason'[m] = "none"
        /\ \A k \in Teammates \ {m} : status'[k] = status[k] /\ reason'[k] = reason[k]
    BY <1>1, <2>2 DEF TasksInv, TeamTypes, MemberStatuses, Reasons
  <2>5. MayAssign(a, d)
    BY <1>1, <2>1, <2>4, Assigning DEF MayAssign
  <2>6. CASE a \in TaskThreads
    BY <1>1, <1>2, <2>3, <2>5, <2>6, MemberAssigns, Assigned
  <2>7. CASE a = Lead
    <3>1. Early => \A k \in Teammates :
            /\ reason'[k] \in {"none", "idle_timeout"}
            /\ status'[k] = "shutdown" => reason'[k] = "idle_timeout"
            /\ reason[k] = "idle_timeout" => reason'[k] = "idle_timeout" \/ (d.step = "start" /\ d.for = k)
      BY <2>1, <2>4 DEF TasksInv, EarlyInv
    <3>2. EarlyInv'
      BY <1>1, <2>1, <2>3, <2>7, <3>1, LeadAssigns, EarlyBefore
    <3>3. Coming'
      BY <2>1, <2>2, Assigning DEF Coming
    <3>4. ServedInv'
      BY <3>3 DEF ServedInv, Served
    <3>. QED  BY <1>1, <1>2, <2>3, <2>5, <3>2, <3>4, Assigned
  <2>. QED  BY <2>6, <2>7 DEF Assigners
<1>4. CASE m \notin doing[a].resume
  <2> DEFINE d == [doing[a] EXCEPT !.step = "next", !.task = 0, !.for = Nobody]
  <2>1. d \in Assignments /\ d.step = "next"
    BY <1>1 DEF Assignments, Steps
  <2>2. doing' = [doing EXCEPT ![a] = d] /\ SameRows
    BY <1>1, <1>4, Assigning DEF TellAssigned, SameRows
  <2> HIDE DEF d
  <2>3. Assigns(a, d)
    BY <1>1, <2>2 DEF Assigns
  <2>4. ASSUME a = Lead, LeadServes \/ NoMembers PROVE Served(1)'
    BY <1>1, <2>2, <2>4 DEF LeadServes, Served, NoMembers, SameRows
  <2>5. a = Lead => ServedInv'
    BY <1>1, <2>3, <2>4, LeadServed
  <2>. QED  BY <1>1, <1>2, <2>1, <2>2, <2>3, <2>5, QuietAssign
<1>. QED  BY <1>3, <1>4

LEMMA RegisterThreadKeeps ==
  ASSUME TasksInv, NEW a \in Assigners, RegisterThread(a)
  PROVE  TasksInv'
<1> DEFINE m == doing[a].for
           w == doing[a].thread
           d == [doing[a] EXCEPT !.step = doing[a].back, !.thread = 0]
<1>1. /\ doing[a].step = "register" /\ doing[a] \in Assignments /\ m \in Teammates /\ w \in TaskThreads
      /\ at[w] # "none" /\ member[w] = m
      /\ status' = status /\ reason' = reason /\ lead' = lead /\ UNCHANGED <<member, at, left, pick>>
      /\ lead \in [spawns : Nat, stops : Nat] /\ FilesGoOn /\ MessagesGoOn /\ FilesKept
  BY Assigning, SameFiles, SameMessages, Kept DEF RegisterThread, TasksInv, AssignersInv, threadVars
<1>2. d \in Assignments /\ d.step \in {"none", "next"}
  BY <1>1 DEF Assignments, Steps
<1>3. registered' = [registered EXCEPT ![m] = w] /\ doing' = [doing EXCEPT ![a] = d]
  BY Assigning DEF RegisterThread
<1> HIDE DEF d
<1>4. registered'[m] = w /\ \A k \in Teammates \ {m} : registered'[k] = registered[k]
  BY <1>1, <1>3 DEF TasksInv, TeamTypes
<1>5. RegisteredGoOn
  BY <1>1, <1>3 DEF TasksInv, TeamTypes, RunnersInv, RegisteredGoOn
<1>6. Assigns(a, d) /\ MayAssign(a, d)
  BY <1>1, <1>2, <1>3, Assigning DEF Assigns, MayAssign, TasksInv, TeamTypes
<1>7. CASE a \in TaskThreads
  BY <1>1, <1>5, <1>6, <1>7, MemberAssigns, Assigned
<1>8. CASE a = Lead
  <2>1. doing'[Lead] = d /\ \A v \in TaskThreads : doing'[v] = doing[v]
    BY <1>3, <1>8, Assigning, Numbers
  <2>2. EarlyInv'
    <3> SUFFICES ASSUME Early PROVE EarlyInv'
      BY <1>1, <1>6, EarlyBefore DEF EarlyInv
    <3>1. at[w] = "dead" => reason[m] = "idle_timeout"
      BY <1>1, <1>8 DEF TasksInv, EarlyInv
    <3>2. ASSUME NEW k \in Teammates, registered'[k] # 0, at[registered'[k]] = "dead" PROVE reason[k] = "idle_timeout"
      <4>1. CASE k = m
        BY <1>4, <3>1, <3>2, <4>1
      <4>2. CASE k # m
        BY <1>4, <1>8, <3>2, <4>2 DEF TasksInv, EarlyInv, LeadStarts
      <4>. QED  BY <4>1, <4>2
    <3>. QED  BY <1>1, <1>2, <2>1, <3>2 DEF TasksInv, EarlyInv
  <2>3. ASSUME LeadServes \/ NoMembers PROVE Served(1)'
    BY <1>1, <1>8, <2>3 DEF LeadServes, Served, NoMembers
  <2>4. ServedInv'
    BY <1>1, <1>6, <1>8, <2>3, LeadServed
  <2>. QED  BY <1>1, <1>5, <1>6, <2>2, <2>4, Assigned
<1>. QED  BY <1>7, <1>8 DEF Assigners

\* A thread is started: it serves whatever there is to do.
LEMMA StartThreadKeeps ==
  ASSUME TasksInv, NEW a \in Assigners, StartThread(a)
  PROVE  TasksInv'
<1> DEFINE unused == {v \in TaskThreads : at[v] = "none"}
<1>1. /\ TeamTypes /\ FilesInv /\ RunnersInv /\ AssignersInv /\ RowsInv /\ StopsInv /\ EarlyInv
      /\ doing[a].step = "start" /\ unused # {} /\ doing[a].for \in Teammates /\ status[doing[a].for] # "none"
  BY DEF TasksInv, StartThread, AssignersInv
<1>2. PICK w \in TaskThreads, m \in Teammates : w = Least(unused) /\ at[w] = "none" /\ m = doing[a].for
  BY <1>1, Numbers, LeastNumber
<1> DEFINE d == [doing[a] EXCEPT !.step = "register", !.thread = w]
<1>3. /\ stop' = [stop EXCEPT ![m] = NoStop] /\ member' = [member EXCEPT ![w] = m] /\ at' = [at EXCEPT ![w] = "boot"]
      /\ doing' = [doing EXCEPT ![a] = d]
      /\ UNCHANGED <<task, inbox, status, reason, registered, left, pick, lead>>
  BY <1>2, Assigning DEF StartThread
<1>4. d \in Assignments /\ d.step = "register" /\ d.thread = w /\ d.for = m
  <2>1. doing[a] \in Assignments
    BY Assigning
  <2>2. d.step = "register" /\ d.thread = w /\ d.for = m
    BY <1>2, <2>1 DEF Assignments
  <2>3. d \in Assignments
    BY <2>1 DEF Assignments, Steps
  <2>. QED  BY <2>2, <2>3
<1> HIDE DEF unused, d
<1>5. /\ at'[w] = "boot" /\ member'[w] = m /\ doing'[a] = d /\ stop'[m] = NoStop
      /\ \A v \in TaskThreads \ {w} : at'[v] = at[v] /\ member'[v] = member[v]
      /\ \A b \in Assigners \ {a} : doing'[b] = doing[b]
      /\ \A k \in Teammates \ {m} : stop'[k] = stop[k]
  BY <1>1, <1>3 DEF TeamTypes
<1>6. TeamTypes'
  BY <1>1, <1>3, <1>4 DEF TeamTypes, ThreadPlaces
<1>7. FilesInv'
  BY <1>1, <1>3 DEF FilesInv, Blocked
<1>8. RunnersInv'
  <2>1. \A v \in TaskThreads : at'[v] # "none" => member'[v] \in Teammates /\ status[member'[v]] # "none"
    BY <1>1, <1>2, <1>5 DEF RunnersInv
  <2>2. \A v \in TaskThreads : at'[v] = "claim" => pick[v] \in Tasks /\ ~Blocked(pick[v])
    BY <1>1, <1>5 DEF RunnersInv
  <2>3. a \in TaskThreads => at[a] = "assigning"
    BY <1>1, Assigning
  <2>4. \A v \in TaskThreads : at'[v] # "assigning" => doing'[v].step = "none"
    BY <1>1, <1>2, <1>5, <2>3, Numbers DEF RunnersInv
  <2>5. \A k \in Teammates : registered[k] # 0 => at'[registered[k]] # "none" /\ member'[registered[k]] = k
    BY <1>1, <1>2, <1>5 DEF RunnersInv, TeamTypes
  <2>. QED  BY <1>3, <2>1, <2>2, <2>4, <2>5 DEF RunnersInv, Blocked
<1>9. AssignersInv'
  <2>1. ASSUME NEW b \in Assigners \ {a}, doing[b].step = "register"
        PROVE  at'[doing[b].thread] # "none" /\ member'[doing[b].thread] = doing[b].for
    BY <1>1, <1>2, <1>5, <2>1 DEF AssignersInv
  <2>. QED  BY <1>1, <1>2, <1>3, <1>4, <1>5, <2>1 DEF AssignersInv
<1>10. RowsInv'
  <2>1. ASSUME NEW k \in Teammates, status[k] = "working"
        PROVE  \E v \in TaskThreads : member'[v] = k /\ at'[v] \in {"round", "model", "assigning"}
    <3>1. PICK v \in TaskThreads : member[v] = k /\ at[v] \in {"round", "model", "assigning"}
      BY <1>1, <2>1 DEF RowsInv
    <3>. QED  BY <1>2, <1>5, <3>1
  <2>2. ASSUME NEW k \in Teammates, status[k] = "starting"
        PROVE  \/ \E b \in Assigners : doing'[b].step = "start" /\ doing'[b].for = k
               \/ \E v \in TaskThreads : member'[v] = k /\ at'[v] = "boot"
    <3>1. CASE \E v \in TaskThreads : member[v] = k /\ at[v] = "boot"
      BY <1>2, <1>5, <3>1
    <3>2. CASE \E b \in Assigners : doing[b].step = "start" /\ doing[b].for = k
      BY <1>2, <1>5, <3>2
    <3>. QED  BY <1>1, <2>2, <3>1, <3>2 DEF RowsInv
  <2>. QED  BY <1>3, <2>1, <2>2 DEF RowsInv
<1>11. StopsInv'
  BY <1>1, <1>3, <1>5 DEF StopsInv, Unstopped
<1>12. EarlyInv'
  <2> SUFFICES ASSUME Early PROVE EarlyInv'
    BY <1>2, <1>3, <1>5 DEF EarlyInv, Early, Undisturbed
  <2>1. a = Lead
    BY <1>1 DEF EarlyInv, Assigners
  <2>2. \A v \in TaskThreads : doing'[v].step = "none"
    BY <1>1, <1>5, <2>1, Numbers DEF EarlyInv
  <2>3. ASSUME NEW k \in Teammates, registered[k] # 0, at'[registered[k]] = "dead"
        PROVE  reason[k] = "idle_timeout" \/ (doing'[Lead].step \in {"start", "register"} /\ doing'[Lead].for = k)
    <3>1. registered[k] \in TaskThreads /\ at[registered[k]] # "none"
      BY <1>1, <2>3 DEF RunnersInv, TeamTypes
    <3>2. at[registered[k]] = "dead"
      BY <1>2, <1>5, <2>3, <3>1
    <3>. QED  BY <1>1, <1>2, <1>4, <1>5, <2>1, <2>3, <3>2 DEF EarlyInv, LeadStarts
  <2>4. at'[doing'[Lead].thread] # "dead"
    BY <1>4, <1>5, <2>1
  <2>. QED  BY <1>1, <1>3, <2>2, <2>3, <2>4 DEF EarlyInv, LeadStarts
<1>13. ServedInv'
  BY <1>5 DEF ServedInv, Served, Serves
<1>. QED  BY <1>6, <1>7, <1>8, <1>9, <1>10, <1>11, <1>12, <1>13 DEF TasksInv

LEMMA CompleteToolKeeps ==
  ASSUME TasksInv, NEW w \in TaskThreads, NEW t \in Tasks, CompleteTool(w, t)
  PROVE  TasksInv'
<1> DEFINE d == [NoOp EXCEPT !.step = "list"]
<1>1. /\ TeamTypes /\ RunnersInv /\ AssignersInv /\ RowsInv /\ StopsInv
      /\ at[w] = "model" /\ doing[w].step = "none"
  BY DEF TasksInv, CompleteTool, EndRound, RunnersInv
<1>2. /\ at' = [at EXCEPT ![w] = "assigning"] /\ left' = [left EXCEPT ![w] = @ - 1]
      /\ doing' = [doing EXCEPT ![w] = d]
      /\ UNCHANGED <<inbox, status, reason, stop, registered, member, pick, lead>>
  BY DEF CompleteTool, EndRound, BeginAssigning
<1>3. d \in Assignments /\ d.step = "list"
  BY Numbers DEF NoOp, Assignments, Steps, Nobody
<1> HIDE DEF d
<1>4. /\ task' \in [Tasks -> TaskFiles] /\ FilesInv' /\ ~Early' /\ \A u \in Tasks : ~Blocked(u) => ~Blocked(u)'
  BY CompletedFile DEF CompleteTool
<1>5. /\ at'[w] = "assigning" /\ \A v \in TaskThreads \ {w} : at'[v] = at[v]
      /\ doing'[w] = d /\ \A b \in Assigners \ {w} : doing'[b] = doing[b]
  BY <1>1, <1>2, Numbers DEF TeamTypes
<1>6. TeamTypes'
  <2>1. left[w] \in Int /\ left \in [TaskThreads -> Int]
    BY <1>1 DEF TeamTypes
  <2>2. left[w] - 1 \in Int
    BY <2>1
  <2>3. left' \in [TaskThreads -> Int]
    BY <1>2, <2>1, <2>2
  <2>4. at' \in [TaskThreads -> ThreadPlaces]
    BY <1>1, <1>2 DEF TeamTypes, ThreadPlaces
  <2>5. doing' \in [Assigners -> Assignments]
    BY <1>1, <1>2, <1>3, Numbers DEF TeamTypes
  <2>. QED  BY <1>1, <1>2, <1>4, <2>3, <2>4, <2>5 DEF TeamTypes
<1>7. RunnersInv'
  <2>1. ASSUME NEW v \in TaskThreads, at'[v] = "claim" PROVE pick[v] \in Tasks /\ ~Blocked(pick[v])'
    <3>1. pick[v] \in Tasks /\ ~Blocked(pick[v])
      BY <1>1, <1>5, <2>1 DEF RunnersInv
    <3>. QED  BY <1>2, <1>4, <3>1 DEF Blocked
  <2>2. \A v \in TaskThreads : at'[v] # "assigning" => doing'[v].step = "none"
    BY <1>1, <1>5, Numbers DEF RunnersInv
  <2>3. \A v \in TaskThreads : at'[v] # "none" => member[v] \in Teammates /\ status[member[v]] # "none"
    BY <1>1, <1>5 DEF RunnersInv
  <2>4. \A k \in Teammates : registered[k] # 0 => at'[registered[k]] # "none" /\ member[registered[k]] = k
    BY <1>1, <1>5 DEF RunnersInv, TeamTypes
  <2>. QED  BY <1>2, <2>1, <2>2, <2>3, <2>4 DEF RunnersInv
<1>8. AssignersInv'
  BY <1>1, <1>2, <1>3, <1>5 DEF AssignersInv
<1>9. RowsInv'
  <2>1. ASSUME NEW k \in Teammates, status[k] = "working"
        PROVE  \E v \in TaskThreads : member[v] = k /\ at'[v] \in {"round", "model", "assigning"}
    BY <1>1, <1>5, <2>1 DEF RowsInv
  <2>2. ASSUME NEW k \in Teammates, status[k] = "starting"
        PROVE  \/ \E b \in Assigners : doing'[b].step = "start" /\ doing'[b].for = k
               \/ \E v \in TaskThreads : member[v] = k /\ at'[v] = "boot"
    BY <1>1, <1>5, <2>2 DEF RowsInv
  <2>. QED  BY <1>2, <2>1, <2>2 DEF RowsInv
<1>10. StopsInv' /\ EarlyInv'
  BY <1>1, <1>2, <1>4 DEF StopsInv, Unstopped, EarlyInv
<1>11. ServedInv'
  BY <1>5 DEF ServedInv, Served, Serves
<1>. QED  BY <1>4, <1>6, <1>7, <1>8, <1>9, <1>10, <1>11 DEF TasksInv

-----------------------------------------------------------------------------
(* A step of the lead and the user.                                        *)

LEMMA SpawnKeeps ==
  ASSUME TasksInv, NEW m \in Teammates, Spawn(m)
  PROVE  TasksInv'
<1> DEFINE d == [NoOp EXCEPT !.step = "start", !.for = m]
<1>1. /\ doing[Lead].step = "none" /\ registered' = registered /\ UNCHANGED <<task, inbox, stop>>
      /\ doing' = [doing EXCEPT ![Lead] = d] /\ UNCHANGED <<member, at, left, pick>>
      /\ lead' = [lead EXCEPT !.spawns = @ + 1]
      /\ status' = [status EXCEPT ![m] = "starting"] /\ reason' = [reason EXCEPT ![m] = "none"]
  BY DEF Spawn, threadVars
<1>2. d \in Assignments /\ d.step = "start" /\ d.for = m
  BY Numbers DEF NoOp, Assignments, Steps, Nobody
<1>3. Assigns(Lead, d)
  BY <1>1, Assigning, Numbers DEF Assigns
<1> HIDE DEF d
<1>4. FilesGoOn /\ FilesKept /\ MessagesGoOn /\ RegisteredGoOn
  BY <1>1, <1>3, SameFiles, SameMessages, SameRegistered, Kept DEF Assigns
<1>5. /\ status' \in [Teammates -> MemberStatuses] /\ reason' \in [Teammates -> Reasons]
      /\ status'[m] = "starting" /\ reason'[m] = "none"
      /\ \A k \in Teammates \ {m} : status'[k] = status[k] /\ reason'[k] = reason[k]
  BY <1>1 DEF TasksInv, TeamTypes, MemberStatuses, Reasons
<1>6. MayAssign(Lead, d)
  BY <1>1, <1>2, <1>5, Numbers DEF MayAssign
<1>7. Early => \A k \in Teammates :
        /\ reason'[k] \in {"none", "idle_timeout"}
        /\ status'[k] = "shutdown" => reason'[k] = "idle_timeout"
        /\ reason[k] = "idle_timeout" => reason'[k] = "idle_timeout" \/ (d.step = "start" /\ d.for = k)
  BY <1>2, <1>5 DEF TasksInv, EarlyInv
<1>8. EarlyInv'
  BY <1>1, <1>2, <1>3, <1>4, <1>7, LeadAssigns, EarlyBefore
<1>9. Coming'
  BY <1>1, <1>2, Assigning, Numbers DEF Coming
<1>10. ServedInv'
  BY <1>9 DEF ServedInv, Served
<1>. QED  BY <1>3, <1>4, <1>6, <1>8, <1>10, Assigned, Numbers

LEMMA CreateBatchKeeps ==
  ASSUME TasksInv, CreateBatch
  PROVE  TasksInv'
<1> DEFINE d == [NoOp EXCEPT !.step = "list"]
<1>1. /\ doing[Lead].step = "none" /\ \A t \in Tasks : task[t].status = "absent"
      /\ task' = [t \in Tasks |-> [status |-> "pending", owner |-> Nobody]]
      /\ doing' = [doing EXCEPT ![Lead] = d] /\ lead' = lead /\ UNCHANGED <<member, at, left, pick>>
      /\ UNCHANGED <<inbox, stop>> /\ SameRows
  BY DEF CreateBatch, BeginAssigning, memberVars, threadVars, SameRows
<1>2. d \in Assignments /\ d.step = "list"
  BY Numbers DEF NoOp, Assignments, Steps, Nobody
<1> HIDE DEF d
<1>3. Assigns(Lead, d)
  BY <1>1, Assigning, Numbers DEF Assigns
<1>4. task' \in [Tasks -> TaskFiles] /\ \A t \in Tasks : task'[t].status = "pending" /\ task'[t].owner = Nobody
  BY <1>1 DEF TaskFiles
<1>5. FilesKept
  <2>1. \A t \in Tasks : ~Blocked(t) => ~Blocked(t)'
    BY <1>1, TasksAssumption DEF Blocked
  <2>2. FilesInv'
    BY <1>4 DEF FilesInv
  <2>. QED  BY <1>4, <2>1, <2>2 DEF FilesKept
<1>6. MessagesGoOn /\ RegisteredGoOn
  BY <1>1, SameMessages, SameRegistered DEF SameRows
<1>7. MayAssign(Lead, d)
  BY <1>1, <1>2, Numbers DEF MayAssign, SameRows, TasksInv, TeamTypes
<1>8. EarlyInv'
  <2>1. Early' => Early
    BY <1>1 DEF Early, Undisturbed
  <2>2. Early => \A m \in Teammates :
          /\ reason'[m] \in {"none", "idle_timeout"}
          /\ status'[m] = "shutdown" => reason'[m] = "idle_timeout"
          /\ reason[m] = "idle_timeout" => reason'[m] = "idle_timeout"
    BY <1>1 DEF TasksInv, EarlyInv, SameRows
  <2>. QED  BY <1>1, <1>2, <1>3, <2>1, <2>2, LeadAssigns DEF SameRows
<1>9. ServedInv'
  <2>1. ASSUME OneByOne, NEW t \in Tasks, Claimable(t)' PROVE t = 1
    <3>1. 1..(t - 1) = {}
      BY <1>4, <2>1, TasksAssumption DEF Claimable, Blocked, OneByOne
    <3>2. t \in Nat \ {0}
      BY Numbers
    <3>. QED  BY <3>1, <3>2
  <2>2. LeadServes'
    BY <1>1, <1>2, Assigning, Numbers DEF LeadServes
  <2>. QED  BY <2>1, <2>2 DEF ServedInv, OneByOne, Served
<1>. QED  BY <1>3, <1>5, <1>6, <1>7, <1>8, <1>9, Assigned, Numbers

\* The user stops everybody, or tells one to shut down.
LEMMA StopsKeep ==
  ASSUME TasksInv, InterruptActive \/ \E m \in Teammates : RequestShutdown(m)
  PROVE  TasksInv'
<1>1. /\ TeamTypes /\ FilesInv /\ RunnersInv /\ AssignersInv /\ RowsInv
      /\ lead' = [lead EXCEPT !.stops = @ + 1] /\ UNCHANGED <<task, registered, member, at, left, pick, doing>>
  BY DEF TasksInv, InterruptActive, RequestShutdown, threadVars, memberVars
<1>2. lead' \in [spawns : Nat, stops : Nat] /\ ~Unstopped'
  <2>1. lead \in [spawns : Nat, stops : Nat] /\ lead.stops \in Nat
    BY <1>1 DEF TeamTypes
  <2>2. lead.stops + 1 \in Nat /\ lead.stops + 1 # 0
    BY <2>1
  <2>. QED  BY <1>1, <2>1, <2>2 DEF Unstopped
<1>3. /\ status' \in [Teammates -> MemberStatuses] /\ reason' \in [Teammates -> Reasons]
      /\ \A m \in Teammates :
           /\ status'[m] = status[m] \/ status'[m] = "shutdown"
           /\ status[m] = "none" => status'[m] = "none"
  <2>1. CASE InterruptActive
    BY <2>1, Refreshed DEF InterruptActive
  <2>2. CASE \E m \in Teammates : RequestShutdown(m)
    BY <1>1, <2>2 DEF RequestShutdown, memberVars, TeamTypes
  <2>. QED  BY <2>1, <2>2
<1>4. stop' \in [Teammates -> {NoStop, "lead_interrupt", "shutdown_request"}] /\ inbox' \in [Teammates -> Seq(Tasks \cup {Shutdown})]
  <2>1. CASE InterruptActive
    BY <1>1, <2>1 DEF InterruptActive, TeamTypes
  <2>2. ASSUME NEW m \in Teammates, RequestShutdown(m)
        PROVE  stop' \in [Teammates -> {NoStop, "lead_interrupt", "shutdown_request"}] /\ inbox' \in [Teammates -> Seq(Tasks \cup {Shutdown})]
    <3>1. Append(inbox[m], Shutdown) \in Seq(Tasks \cup {Shutdown})
      BY <1>1 DEF TeamTypes
    <3>. QED  BY <1>1, <2>2, <3>1 DEF RequestShutdown, memberVars, TeamTypes
  <2>. QED  BY <2>1, <2>2
<1>5. TeamTypes'
  BY <1>1, <1>2, <1>3, <1>4 DEF TeamTypes
<1>6. FilesInv'
  BY <1>1 DEF FilesInv, Blocked
<1>7. RunnersInv'
  BY <1>1, <1>3 DEF RunnersInv, Blocked
<1>8. AssignersInv'
  BY <1>1, <1>3 DEF AssignersInv
<1>9. RowsInv'
  BY <1>1, <1>3 DEF RowsInv
<1>10. StopsInv' /\ EarlyInv' /\ ServedInv'
  BY <1>2 DEF StopsInv, EarlyInv, ServedInv, Early, Undisturbed, Unstopped
<1>. QED  BY <1>5, <1>6, <1>7, <1>8, <1>9, <1>10 DEF TasksInv

-----------------------------------------------------------------------------
(* The theorem.                                                            *)

LEMMA TasksStart ==
  ASSUME TasksInit
  PROVE  TasksInv
<1>1. NoOp \in Assignments /\ NoOp.step = "none"
  BY Numbers DEF NoOp, Assignments, Steps, Nobody
<1>2. /\ \A t \in Tasks : task[t].status = "absent" /\ task[t].owner = Nobody
      /\ \A m \in Teammates : status[m] = "none" /\ reason[m] = "none" /\ stop[m] = NoStop
                              /\ inbox[m] = <<>> /\ registered[m] = 0
      /\ \A w \in TaskThreads : at[w] = "none"
      /\ \A a \in Assigners : doing[a] = NoOp
  BY DEF TasksInit
<1>3. TeamTypes
  <2>1. task \in [Tasks -> TaskFiles]
    BY DEF TasksInit, TaskFiles
  <2>2. inbox \in [Teammates -> Seq(Tasks \cup {Shutdown})]
    BY DEF TasksInit
  <2>3. doing \in [Assigners -> Assignments]
    BY <1>1 DEF TasksInit
  <2>4. /\ status \in [Teammates -> MemberStatuses] /\ reason \in [Teammates -> Reasons]
        /\ stop \in [Teammates -> {NoStop, "lead_interrupt", "shutdown_request"}]
        /\ registered \in [Teammates -> TaskThreads \cup {0}]
    BY DEF TasksInit, MemberStatuses, Reasons
  <2>5. /\ member \in [TaskThreads -> Teammates \cup {Nobody}] /\ at \in [TaskThreads -> ThreadPlaces]
        /\ left \in [TaskThreads -> Int] /\ pick \in [TaskThreads -> Tasks \cup {0}]
    BY DEF TasksInit, ThreadPlaces
  <2>6. lead \in [spawns : Nat, stops : Nat]
    BY DEF TasksInit
  <2>. QED  BY <2>1, <2>2, <2>3, <2>4, <2>5, <2>6 DEF TeamTypes
<1>4. FilesInv
  BY <1>2 DEF FilesInv
<1>5. RunnersInv /\ AssignersInv
  BY <1>1, <1>2, Numbers DEF RunnersInv, AssignersInv
<1>6. RowsInv /\ StopsInv
  BY <1>2 DEF RowsInv, StopsInv
<1>7. EarlyInv
  BY <1>1, <1>2, Numbers DEF EarlyInv
<1>8. ServedInv
  BY <1>2 DEF ServedInv, Claimable
<1>. QED  BY <1>3, <1>4, <1>5, <1>6, <1>7, <1>8 DEF TasksInv

LEMMA AssignStepKeeps ==
  ASSUME TasksInv, NEW a \in Assigners, AssignStep(a)
  PROVE  TasksInv'
BY ListClaimableKeeps, ListCandidatesKeeps, AssignNextKeeps, TellAssignedKeeps, StartThreadKeeps,
   RegisterThreadKeeps DEF AssignStep

LEMMA ThreadStepKeeps ==
  ASSUME TasksInv, NEW w \in TaskThreads, ThreadStep(w)
  PROVE  TasksInv'
<1>1. CASE BeginRound(w)
  <2>1. at[w] = "round" /\ ReadInbox(w, "model", left[w])
    BY <1>1 DEF BeginRound
  <2>2. left[w] \in Int
    BY DEF TasksInv, TeamTypes
  <2>. QED  BY <2>1, <2>2, ReadInboxKeeps
<1>2. CASE Boot(w) \/ ShutDownIfStopRequested(w) \/ Settle(w) \/ ModelFails(w) \/ OtherTool(w)
  BY <1>2, BootKeeps, ShutDownIfStopRequestedKeeps, SettleKeeps, ModelFailsKeeps, OtherToolKeeps
<1>3. CASE Poll(w) \/ AutoClaim(w) \/ LastPoll(w) \/ Expire(w)
  BY <1>3, PollKeeps, AutoClaimKeeps, LastPollKeeps, ExpireKeeps
<1>4. CASE \E t \in Tasks : ClaimTool(w, t) \/ CompleteTool(w, t)
  BY <1>4, ClaimToolKeeps, CompleteToolKeeps
<1>5. CASE EndAssigning(w)
  BY <1>5, EndAssigningKeeps
<1>6. CASE AssignStep(w)
  BY <1>6, AssignStepKeeps, Numbers
<1>. QED  BY <1>1, <1>2, <1>3, <1>4, <1>5, <1>6 DEF ThreadStep

LEMMA LeadStepKeeps ==
  ASSUME TasksInv, LeadStep
  PROVE  TasksInv'
BY CreateBatchKeeps, StopsKeep, SpawnKeeps DEF LeadStep

LEMMA TasksStutter ==
  ASSUME TasksInv, UNCHANGED tasksVars
  PROVE  TasksInv'
<1>1. UNCHANGED <<task, inbox, status, reason, stop, registered, member, at, left, pick, doing, lead>>
  BY DEF tasksVars, memberVars, threadVars
<1>2. TeamTypes' /\ FilesInv' /\ RunnersInv' /\ AssignersInv'
  BY <1>1 DEF TasksInv, TeamTypes, FilesInv, RunnersInv, AssignersInv, Blocked
<1>3. RowsInv' /\ StopsInv'
  BY <1>1 DEF TasksInv, RowsInv, StopsInv, Unstopped
<1>4. EarlyInv'
  BY <1>1 DEF TasksInv, EarlyInv, Early, Undisturbed, LeadStarts
<1>5. ServedInv'
  BY <1>1 DEF TasksInv, ServedInv, Served, Serves, Coming, LeadServes, NoMembers, Undisturbed, Claimable, Blocked
<1>. QED  BY <1>2, <1>3, <1>4, <1>5 DEF TasksInv

LEMMA TasksGo ==
  ASSUME TasksInv, [TasksNext]_tasksVars
  PROVE  TasksInv'
BY ThreadStepKeeps, AssignStepKeeps, LeadStepKeeps, TasksStutter, Numbers DEF TasksNext

\* When everybody has stopped, nobody serves a task: no teammate was ever there.
LEMMA TasksInvMeans ==
  ASSUME TasksInv
  PROVE  NoTaskLeftBehind
<1> SUFFICES ASSUME OneByOne, Quiet, Undisturbed, NEW t \in Tasks, NEW m \in Teammates,
                    Claimable(t), TimedOut(m)
             PROVE  FALSE
  BY DEF NoTaskLeftBehind
<1>1. Served(t)
  BY DEF TasksInv, ServedInv
<1>2. \A w \in TaskThreads : ~Serves(w, t)
  BY DEF Quiet, Live, Ended, Serves
<1>3. ~Coming /\ ~LeadServes
  BY Numbers DEF Quiet, Coming, LeadServes
<1>. QED  BY <1>1, <1>2, <1>3 DEF Served, NoMembers, TimedOut

\* No task of a chain is left behind, for any teammates, tasks, rounds and polls: when
\* everybody has stopped by itself, not told to and not by a failure of the provider, no
\* task is claimable that a member which timed out might have taken (runtime/teammate.py:
\* _idle_phase, assign_claimable_tasks, can_resume_idle_timeout).
THEOREM NothingLeft == TasksSpec => []NoTaskLeftBehind
<1>1. TasksInit => TasksInv
  BY TasksStart
<1>2. TasksInv /\ [TasksNext]_tasksVars => TasksInv'
  BY TasksGo
<1>3. TasksInv => NoTaskLeftBehind
  BY TasksInvMeans
<1>. QED  BY <1>1, <1>2, <1>3, PTL DEF TasksSpec
=============================================================================
