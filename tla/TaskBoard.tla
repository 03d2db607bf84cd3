----------------------------- MODULE TaskBoard -----------------------------
(***************************************************************************)
(* The persistent task store (storage/tasks.py): one file per task, shared *)
(* by the lead and every teammate thread.  Only the allocation of ids is   *)
(* under a lock; claim and update read the task, read its blockers one by  *)
(* one, and write the whole task back, so every actor holds a copy that    *)
(* the others may have outdated.                                           *)
(*                                                                         *)
(* A task keeps its status, owner and blockedBy; subject, description,     *)
(* preferred_owner and the timestamps only reach listings.                 *)
(***************************************************************************)
EXTENDS Integers

CONSTANTS Actors,    \* the lead and the teammates
          NoOwner,   \* owner: None
          MaxTask,   \* bound: task ids
          MaxBatch   \* bound: tasks created at once

ASSUME BoardAssumption ==
  /\ NoOwner \notin Actors
  /\ MaxTask \in Nat /\ MaxBatch \in Nat \ {0}

VARIABLES
  files,        \* task_<id>.json, by id
  nextId,       \* meta.json
  op,           \* what each actor is in the middle of: locals of a store call
  \* history variables
  everCompleted, \* ids of tasks whose file once said completed
  accepted       \* blockedBy of every task create_many accepted, by id

vars == <<files, nextId, op, everCompleted, accepted>>

Ids    == 1..MaxTask
Status == {"pending", "in_progress", "completed"}
Task   == [status : Status, owner : Actors \cup {NoOwner}, blockedBy : SUBSET Ids]

NewTask(blockers) == [status |-> "pending", owner |-> NoOwner, blockedBy |-> blockers]

\* todo: the task files the call will write; left: the tasks it has yet to look at.
Op == [kind : {"none", "claim", "update", "create"}, todo : SUBSET Ids, left : SUBSET Ids,
       tasks : [Ids -> Task]]

Idle == [kind |-> "none", todo |-> {}, left |-> {}, tasks |-> [t \in Ids |-> NewTask({})]]

Begin(a, kind, left, tasks) ==
  op' = [op EXCEPT ![a] =
           [kind |-> kind, left |-> left, todo |-> DOMAIN tasks,
            tasks |-> [t \in Ids |-> IF t \in DOMAIN tasks THEN tasks[t] ELSE NewTask({})]]]

Return(a) == op' = [op EXCEPT ![a] = Idle]

IsFirst(t, S) == t \in S /\ \A u \in S : t <= u

Init ==
  /\ files = [t \in {} |-> NewTask({})]
  /\ nextId = 1
  /\ op = [a \in Actors |-> Idle]
  /\ everCompleted = {} /\ accepted = [t \in {} |-> {}]
-----------------------------------------------------------------------------
(* create_many: the ids are taken first and stay taken when the graph is   *)
(* refused; the files are written one after the other.                     *)

\* No set of tasks waits for itself.
Acyclic(graph) ==
  \A S \in SUBSET DOMAIN graph : S # {} => \E t \in S : graph[t] \cap S = {}

NextIds(n) == nextId' = nextId + n

CreateMany(a, n) ==
  /\ op[a].kind = "none" /\ nextId + n - 1 <= MaxTask
  /\ NextIds(n)
  /\ LET new == nextId..(nextId + n - 1)
     IN \E batch \in [new -> SUBSET Ids] :
          IF Acyclic(batch)
          THEN Begin(a, "create", {d \in Ids \ new : \E t \in new : d \in batch[t]},
                     [t \in new |-> NewTask(batch[t])])
          ELSE UNCHANGED op
  /\ UNCHANGED <<files, everCompleted, accepted>>
-----------------------------------------------------------------------------
(* claim and update.                                                       *)

\* claim refuses a completed task and does not look at the owner.
Claim(a, t, owner) ==
  /\ op[a].kind = "none" /\ t \in DOMAIN files
  /\ files[t].status # "completed"
  /\ Begin(a, "claim", files[t].blockedBy,
           [u \in {t} |-> [files[t] EXCEPT !.owner = owner, !.status = "in_progress"]])
  /\ UNCHANGED <<files, nextId, everCompleted, accepted>>

\* update: the blockers count when the status it will write is not pending.
\* With no status given (a change of preferred_owner) the one it read stays.
Update(a, t, status) ==
  /\ op[a].kind = "none" /\ t \in DOMAIN files
  /\ Begin(a, "update", IF status = "pending" THEN {} ELSE files[t].blockedBy,
           [u \in {t} |-> [files[t] EXCEPT !.status = status]])
  /\ UNCHANGED <<files, nextId, everCompleted, accepted>>

Delete(a, t) ==
  /\ op[a].kind = "none" /\ t \in DOMAIN files
  /\ files' = [u \in DOMAIN files \ {t} |-> files[u]]
  /\ UNCHANGED <<nextId, op, everCompleted, accepted>>
-----------------------------------------------------------------------------
(* The steps of a call in progress.                                        *)

\* plausible bug: a blocker that cannot be read is skipped
UnfinishedIfThere(t) == t \in DOMAIN files /\ files[t].status # "completed"

\* _incomplete_blockers: a missing blocker is an incomplete one.
Unfinished(t) == t \notin DOMAIN files \/ files[t].status # "completed"

\* plausible bug: a reference outside the batch is taken as it is
AnyTask(t) == TRUE

Known(t) == t \in DOMAIN files

Passes(a, t) == IF op[a].kind = "create" THEN Known(t) ELSE ~Unfinished(t)

\* Looks at the next blocker (a reference outside the batch, for create_many);
\* the call fails with ValueError and writes nothing if it does not pass.
LookAtBlocker(a) ==
  /\ \E t \in Ids :
       /\ IsFirst(t, op[a].left)
       /\ IF Passes(a, t) THEN op' = [op EXCEPT ![a].left = @ \ {t}] ELSE Return(a)
  /\ UNCHANGED <<files, nextId, everCompleted, accepted>>

\* save writes the copy, whatever the file holds by now or if it is gone.
SaveTask(a) ==
  /\ op[a].kind # "none" /\ op[a].left = {}
  /\ \E t \in Ids :
       /\ IsFirst(t, op[a].todo)
       /\ LET task == op[a].tasks[t]
          IN /\ files' = [u \in DOMAIN files \cup {t} |-> IF u = t THEN task ELSE files[u]]
             /\ everCompleted' = everCompleted \cup {u \in {t} : task.status = "completed"}
       /\ IF op[a].todo = {t} THEN Return(a)
          ELSE op' = [op EXCEPT ![a].todo = @ \ {t}]
  /\ accepted' = [u \in DOMAIN accepted \cup op[a].todo |->
                    IF u \in DOMAIN accepted THEN accepted[u]
                    ELSE op[a].tasks[u].blockedBy]
  /\ UNCHANGED nextId

\* The process dies: every thread with it.
Crash ==
  /\ op' = [a \in Actors |-> Idle]
  /\ UNCHANGED <<files, nextId, everCompleted, accepted>>

StoreCall(a) ==
  \/ \E n \in 1..MaxBatch : CreateMany(a, n)
  \/ \E t \in Ids, owner \in Actors : Claim(a, t, owner)
  \/ \E t \in Ids, status \in Status : Update(a, t, status)
  \/ \E t \in Ids : Delete(a, t)

Next ==
  \/ \E a \in Actors : StoreCall(a) \/ LookAtBlocker(a) \/ SaveTask(a)
  \/ Crash

Spec == Init /\ [][Next]_vars
-----------------------------------------------------------------------------
\* The variables have their types, and ids not yet allocated are nobody's.
TypeOK ==
  /\ nextId \in 1..(MaxTask + 1)
  /\ DOMAIN files \subseteq 1..(nextId - 1)
  /\ \A t \in DOMAIN files : files[t] \in Task
  /\ op \in [Actors -> Op]
  /\ everCompleted \subseteq Ids

\* No task is started, by whoever claims or updates it and however stale the
\* copy that is written, before each of its blockers has once been completed.
StartedAfterBlockers ==
  \A t \in DOMAIN files :
    files[t].status # "pending" => files[t].blockedBy \subseteq everCompleted

\* The dependency graph stays acyclic whoever creates batches at the same time,
\* so no set of tasks waits for itself.
NoDependencyCycle == Acyclic([t \in DOMAIN files |-> files[t].blockedBy])
=============================================================================
