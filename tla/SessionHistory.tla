--------------------------- MODULE SessionHistory ---------------------------
(***************************************************************************)
(* One interactive session and the files it edits: the undo stack that the *)
(* agent loop fills, /undo, and the named checkpoints with /rollback       *)
(* (runtime/agent.py, runtime/session.py, storage/transcripts.py,          *)
(* tools/filesystem.py).                                                   *)
(*                                                                         *)
(* The turn keeps the control of _agent_loop that decides when the pending *)
(* file changes reach the undo stack: text replies, tool rounds, the todo  *)
(* reconcile pass, interrupts, failures.  A message is the number of the   *)
(* turn it belongs to; compaction, which puts a summary of the same turns   *)
(* in place of old messages, and last_turn_file_changes, a display value,  *)
(* are left out.                                                           *)
(***************************************************************************)
EXTENDS Integers, Sequences

CONSTANTS Files,         \* workspace files the agent may write
          Contents,      \* what a file may contain
          Absent,        \* the file does not exist (existed_before = False)
          Tags,          \* checkpoint names
          MaxUndoTurns,  \* AgentRuntime.MAX_UNDO_TURNS
          MaxRounds,     \* settings.runtime.max_agent_rounds
          \* bounds of the model
          MaxTurns,      \* user turns in a behaviour
          MaxWrites,     \* file writes waiting in one turn
          MaxExternal,   \* edits made outside the agent
          MaxCheckpoints \* checkpoints taken

ASSUME HistoryAssumption ==
  /\ Absent \notin Contents
  /\ MaxUndoTurns \in Nat \ {0} /\ MaxRounds \in Nat \ {0}
  /\ {MaxTurns, MaxWrites, MaxExternal, MaxCheckpoints} \subseteq Nat

VARIABLES
  disk,        \* the workspace
  messages,    \* session.messages, as the turn each message belongs to
  undoStack,   \* session.undo_stack
  pending,     \* session.pending_file_changes (never written to disk)
  todo,        \* the todo list: open items?, rounds_without_todo > 0?
  saved,       \* the session file
  checkpoints, \* checkpoint files, by tag
  phase,       \* what the session is doing
  turn,        \* locals of _agent_loop
  walk,        \* locals of undo_last_turn / rollback_to_checkpoint
  counters,    \* turns started, checkpoints taken (time), external edits
  \* history variables
  snapshot,    \* the workspace when each checkpoint was taken
  untracked,   \* files changed since a checkpoint without an undo record
  anchored     \* checkpoints whose part of the undo stack is intact

session == <<messages, undoStack, pending, todo>>
ghosts  == <<snapshot, untracked, anchored>>
vars == <<disk, messages, undoStack, pending, todo, saved, checkpoints, phase,
          turn, walk, counters, snapshot, untracked, anchored>>

Value  == Contents \cup {Absent}
Record == [path : Files, before : Value]
Entry  == [turn : Nat, files : Seq(Record)]
Todo   == [open : BOOLEAN, stale : BOOLEAN]
\* An undo stack: at most MaxUndoTurns entries, none of them empty.
Stack  == {s \in Seq(Entry) : /\ Len(s) <= MaxUndoTurns
                              /\ \A i \in 1..Len(s) : s[i].files # <<>>}
Saved  == [messages : Seq(Nat), undo : Stack, todo : Todo]
Checkpoint == [time : Nat, messages : Seq(Nat), undo : Stack, todo : Todo]

Turn == [round : 0..MaxRounds, reconcile : BOOLEAN, calls : SUBSET {"work", "todo"}]
Walk == [entry : Nat, file : Nat, floor : Nat, skip : SUBSET Files,
         edited : SUBSET Files, tag : SUBSET Tags]

NoTurn == [round |-> 0, reconcile |-> FALSE, calls |-> {}]
NoWalk == [entry |-> 0, file |-> 0, floor |-> 0, skip |-> {}, edited |-> {}, tag |-> {}]

Paths(records) == {records[i].path : i \in 1..Len(records)}

IsPrefixOf(s, t) == Len(s) <= Len(t) /\ \A i \in 1..Len(s) : s[i] = t[i]

\* SessionManager.save: the session file; pending_file_changes is not part of it.
Save == saved' = [messages |-> messages', undo |-> undoStack', todo |-> todo']

\* The files of records nobody will ever find on the undo stack.
Untrack(files) ==
  untracked' = [t \in Tags |-> untracked[t] \cup files]
-----------------------------------------------------------------------------
Init ==
  /\ disk \in [Files -> Value]
  /\ messages = <<>> /\ undoStack = <<>> /\ pending = <<>>
  /\ todo = [open |-> FALSE, stale |-> FALSE]
  /\ saved = [messages |-> <<>>, undo |-> <<>>, todo |-> [open |-> FALSE, stale |-> FALSE]]
  /\ checkpoints = <<>>
  /\ phase = "idle" /\ turn = NoTurn /\ walk = NoWalk
  /\ counters = [turns |-> 0, time |-> 0, external |-> 0]
  /\ snapshot = [t \in Tags |-> disk]
  /\ untracked = [t \in Tags |-> {}]
  /\ anchored = {}
-----------------------------------------------------------------------------
(* The turn.                                                               *)

\* run_turn drops what an earlier turn left pending and appends the user message.
RunTurn ==
  /\ phase = "idle" /\ counters.turns < MaxTurns
  /\ pending' = <<>>
  /\ counters' = [counters EXCEPT !.turns = @ + 1]
  /\ messages' = Append(messages, counters'.turns)
  /\ phase' = "turn" /\ turn' = NoTurn
  /\ UNCHANGED <<disk, undoStack, todo, saved, checkpoints, walk, ghosts>>

InLoop == phase = "turn" /\ turn.round < MaxRounds

\* write_file, and each file of edit_file: the write, then its record.
WriteFile(f, c) ==
  /\ InLoop /\ Len(pending) < MaxWrites
  /\ disk' = [disk EXCEPT ![f] = c]
  /\ pending' = Append(pending, [path |-> f, before |-> disk[f]])
  /\ turn' = [turn EXCEPT !.calls = @ \cup {"work"}]
  /\ UNCHANGED <<messages, undoStack, todo, saved, checkpoints, phase, walk,
                 counters, ghosts>>

\* Any other tool but TodoWrite leaves this state alone.
OtherTool ==
  /\ InLoop /\ "work" \notin turn.calls
  /\ turn' = [turn EXCEPT !.calls = @ \cup {"work"}]
  /\ UNCHANGED <<disk, session, saved, checkpoints, phase, walk, counters, ghosts>>

TodoWrite(open) ==
  /\ InLoop
  /\ todo' = [todo EXCEPT !.open = open]
  /\ turn' = [turn EXCEPT !.calls = @ \cup {"todo"}]
  /\ UNCHANGED <<disk, messages, undoStack, pending, saved, checkpoints, phase,
                 walk, counters, ghosts>>

\* The tail of a tool round: both messages, the save, and the todo reconcile
\* pass, which returns "completed" once a TodoWrite-only round closed the list.
EndToolRound ==
  /\ InLoop /\ turn.calls # {}
  /\ messages' = Append(messages, counters.turns)
  /\ todo' = [todo EXCEPT !.stale = "todo" \notin turn.calls]
  /\ UNCHANGED <<undoStack, pending>>
  /\ Save
  /\ LET reconciled == turn.reconcile /\ turn.calls = {"todo"} /\ ~todo.open
     IN /\ phase' = IF reconciled THEN "idle" ELSE "turn"
        /\ turn' = IF reconciled THEN NoTurn
                   ELSE [round |-> turn.round + 1, calls |-> {},
                         reconcile |-> turn.reconcile /\ "todo" \notin turn.calls]
        /\ IF reconciled THEN Untrack(Paths(pending)) ELSE UNCHANGED untracked
  /\ UNCHANGED <<disk, checkpoints, walk, counters, snapshot, anchored>>

\* _capture_turn_file_changes: the pending records become one undo entry and
\* the stack keeps its newest MaxUndoTurns entries.
Captured == IF pending = <<>> THEN undoStack
            ELSE Append(undoStack, [turn |-> counters.turns, files |-> pending])

NewestTurns(stack) ==
  IF Len(stack) <= MaxUndoTurns THEN stack
  ELSE SubSeq(stack, Len(stack) - MaxUndoTurns + 1, Len(stack))

Capture ==
  /\ pending' = <<>>
  /\ undoStack' = NewestTurns(Captured)
  /\ anchored' = IF Len(Captured) > MaxUndoTurns THEN {} ELSE anchored

\* A reply without tool calls.  The loop goes on when the text is empty, when
\* open todos must be reconciled once, or when the lead's inbox had messages.
TextReply ==
  /\ InLoop /\ turn.calls = {}
  /\ messages' = Append(messages, counters.turns)
  /\ Capture
  /\ UNCHANGED todo
  /\ Save
  /\ LET again == [turn EXCEPT !.round = @ + 1]
         reconcile == todo.open /\ todo.stale /\ ~turn.reconcile
     IN \/ phase' = "turn" /\ turn' = again                            \* empty text
        \/ reconcile /\ phase' = "turn" /\ turn' = [again EXCEPT !.reconcile = TRUE]
        \/ ~reconcile /\ phase' = "turn" /\ turn' = again              \* inbox
        \/ ~reconcile /\ phase' = "idle" /\ turn' = NoTurn
  /\ UNCHANGED <<disk, checkpoints, walk, counters, snapshot, untracked>>

StopAfterMaxRounds ==
  /\ phase = "turn" /\ turn.round = MaxRounds
  /\ Capture
  /\ UNCHANGED <<messages, todo>>
  /\ Save
  /\ phase' = "idle" /\ turn' = NoTurn
  /\ UNCHANGED <<disk, checkpoints, walk, counters, snapshot, untracked>>

\* except TurnInterrupted: the records of what was written are dropped.
Interrupt ==
  /\ InLoop
  /\ pending' = <<>>
  /\ UNCHANGED <<messages, undoStack, todo>>
  /\ Save
  /\ Untrack(Paths(pending))
  /\ phase' = "idle" /\ turn' = NoTurn
  /\ UNCHANGED <<disk, checkpoints, walk, counters, snapshot, anchored>>

\* except Exception (the provider failed): nothing is saved, the records stay
\* pending until the next run_turn drops them.
Fail ==
  /\ InLoop /\ turn.calls = {}
  /\ Untrack(Paths(pending))
  /\ phase' = "idle" /\ turn' = NoTurn
  /\ UNCHANGED <<disk, session, saved, checkpoints, walk, counters, snapshot, anchored>>
-----------------------------------------------------------------------------
(* Restoring files: undo_last_turn walks one entry, rollback_to_checkpoint *)
(* every entry above the length the stack had at the checkpoint, both from *)
(* the newest record to the oldest.                                        *)

WalkFrom(entry, floor, skip, tag) ==
  [entry |-> entry, floor |-> floor, skip |-> skip, edited |-> {}, tag |-> tag,
   file |-> IF entry > floor THEN Len(undoStack[entry].files) ELSE 0]

Walking == phase \in {"undo", "rollback"}
WalkDone == walk.entry <= walk.floor

\* plausible bug: the records of an entry are not reversed
RecordForward ==
  LET files == undoStack[walk.entry].files IN files[Len(files) + 1 - walk.file]

CurrentRecord == undoStack[walk.entry].files[walk.file]

RestoreFile ==
  /\ Walking /\ ~WalkDone
  /\ LET record == CurrentRecord
         below  == walk.entry - 1
     IN /\ disk' = IF record.path \in walk.skip THEN disk
                   ELSE [disk EXCEPT ![record.path] = record.before]
        /\ walk' = IF walk.file > 1 THEN [walk EXCEPT !.file = @ - 1]
                   ELSE [walk EXCEPT !.entry = below,
                           !.file = IF below > walk.floor
                                    THEN Len(undoStack[below].files) ELSE 0]
  /\ anchored' = {t \in anchored : Len(checkpoints[t].undo) < walk.entry}
  /\ UNCHANGED <<session, saved, checkpoints, phase, turn, counters, snapshot, untracked>>

BeginUndo ==
  /\ phase = "idle" /\ undoStack # <<>>
  /\ phase' = "undo"
  /\ walk' = WalkFrom(Len(undoStack), Len(undoStack) - 1, {}, {})
  /\ UNCHANGED <<disk, session, saved, checkpoints, turn, counters, ghosts>>

FinishUndo ==
  /\ phase = "undo" /\ WalkDone
  /\ undoStack' = SubSeq(undoStack, 1, Len(undoStack) - 1)
  /\ pending' = <<>>
  /\ UNCHANGED <<messages, todo>>
  /\ Save
  /\ phase' = "idle" /\ walk' = NoWalk
  /\ UNCHANGED <<disk, checkpoints, turn, counters, ghosts>>

\* create_checkpoint; the same tag again replaces the checkpoint.
CreateCheckpoint(t) ==
  /\ phase = "idle" /\ counters.time < MaxCheckpoints
  /\ counters' = [counters EXCEPT !.time = @ + 1]
  /\ LET new == [time |-> counters'.time, messages |-> messages,
                 undo |-> undoStack, todo |-> todo]
     IN checkpoints' = [u \in DOMAIN checkpoints \cup {t} |->
                          IF u = t THEN new ELSE checkpoints[u]]
  /\ snapshot' = [snapshot EXCEPT ![t] = disk]
  /\ untracked' = [untracked EXCEPT ![t] = {}]
  /\ anchored' = anchored \cup {t}
  /\ UNCHANGED <<disk, session, saved, phase, turn, walk>>

\* The records of file f above a checkpoint, oldest first.
RecordsOf(f, t) ==
  {p \in (Len(checkpoints[t].undo) + 1..Len(undoStack)) \X (1..MaxWrites) :
     LET files == undoStack[p[1]].files
     IN p[2] <= Len(files) /\ files[p[2]].path = f}

\* detect_external_modifications: a file the agent changed since is missing, or
\* is back at what it was before the agent's only (or latest) write to it.
Flagged(t) ==
  {f \in Files :
     LET at == RecordsOf(f, t)
         Before(p) == undoStack[p[1]].files[p[2]].before
         Older(p, q) == p[1] < q[1] \/ (p[1] = q[1] /\ p[2] <= q[2])
     IN /\ at # {}
        /\ \/ disk[f] = Absent
           \/ \E first, last \in at :
                /\ \A p \in at : Older(first, p) /\ Older(p, last)
                /\ Before(first) # Absent
                /\ disk[f] = Before(last)}

FloorOneHigh(t) == Len(checkpoints[t].undo) + 1   \* plausible bug: off by one

Floor(t) == Len(checkpoints[t].undo)

\* The user may have files that look externally modified skipped.
BeginRollback(t, skip) ==
  /\ phase = "idle" /\ t \in DOMAIN checkpoints
  /\ phase' = "rollback"
  /\ walk' = WalkFrom(Len(undoStack), Floor(t),
                      IF skip THEN Flagged(t) ELSE {}, {t})
  /\ UNCHANGED <<disk, session, saved, checkpoints, turn, counters, ghosts>>

FinishRollback ==
  /\ phase = "rollback" /\ WalkDone
  /\ \E t \in walk.tag :
       /\ messages' = checkpoints[t].messages
       /\ todo' = checkpoints[t].todo
       /\ undoStack' = checkpoints[t].undo
       /\ anchored' = IF t \in anchored THEN anchored ELSE {}
  /\ pending' = <<>>
  /\ Save
  /\ Untrack(walk.skip)
  /\ phase' = "prune"
  /\ UNCHANGED <<disk, checkpoints, turn, walk, counters, snapshot>>

\* plausible bug: the first newer checkpoint is taken for the target itself
OrphansButOne == {c \in DOMAIN checkpoints :
                    \E t \in walk.tag : checkpoints[c].time > checkpoints[t].time + 1}

\* delete_checkpoints_after: one file at a time, oldest first.
Orphans == {c \in DOMAIN checkpoints :
              \E t \in walk.tag : checkpoints[c].time > checkpoints[t].time}

PruneCheckpoint ==
  /\ phase = "prune"
  /\ \E c \in Orphans :
       /\ \A d \in Orphans : checkpoints[c].time <= checkpoints[d].time
       /\ checkpoints' = [t \in DOMAIN checkpoints \ {c} |-> checkpoints[t]]
       /\ anchored' = anchored \ {c}
  /\ UNCHANGED <<disk, session, saved, phase, turn, walk, counters, snapshot, untracked>>

PruneDone ==
  /\ phase = "prune" /\ Orphans = {}
  /\ phase' = "idle" /\ walk' = NoWalk
  /\ UNCHANGED <<disk, session, saved, checkpoints, turn, counters, ghosts>>
-----------------------------------------------------------------------------
(* The environment: an editor, a shell command or a teammate changes a     *)
(* file, which leaves no undo record; the process dies and is restarted.   *)

ExternalEdit(f, v) ==
  /\ counters.external < MaxExternal /\ v # disk[f]
  /\ counters' = [counters EXCEPT !.external = @ + 1]
  /\ disk' = [disk EXCEPT ![f] = v]
  /\ Untrack({f})
  /\ walk' = IF Walking THEN [walk EXCEPT !.edited = @ \cup {f}] ELSE walk
  /\ UNCHANGED <<session, saved, checkpoints, phase, turn, snapshot, anchored>>

Crash ==
  /\ messages' = saved.messages /\ undoStack' = saved.undo /\ todo' = saved.todo
  /\ pending' = <<>>
  /\ Untrack(Paths(pending))
  /\ phase' = "idle" /\ turn' = NoTurn /\ walk' = NoWalk
  /\ UNCHANGED <<disk, saved, checkpoints, counters, snapshot, anchored>>

TurnStep ==
  \/ RunTurn \/ EndToolRound \/ OtherTool \/ TextReply \/ StopAfterMaxRounds
  \/ Interrupt \/ Fail
  \/ \E f \in Files, c \in Contents : WriteFile(f, c)
  \/ \E open \in BOOLEAN : TodoWrite(open)

HistoryStep ==
  \/ BeginUndo \/ FinishUndo \/ RestoreFile
  \/ FinishRollback \/ PruneCheckpoint \/ PruneDone
  \/ \E t \in Tags : CreateCheckpoint(t)
  \/ \E t \in Tags, skip \in BOOLEAN : BeginRollback(t, skip)

Next == TurnStep \/ HistoryStep \/ \E f \in Files, v \in Value : ExternalEdit(f, v)

Spec == Init /\ [][Next]_vars

CrashSpec == Init /\ [][Next \/ Crash]_vars
-----------------------------------------------------------------------------
SessionOK ==
  /\ messages \in Seq(Nat)
  /\ undoStack \in Stack
  /\ pending \in Seq(Record)
  /\ todo \in Todo
  /\ saved \in Saved

CheckpointsOK ==
  /\ DOMAIN checkpoints \subseteq Tags
  /\ \A t \in DOMAIN checkpoints : checkpoints[t] \in Checkpoint
  /\ anchored \subseteq DOMAIN checkpoints

ControlOK ==
  /\ phase \in {"idle", "turn", "undo", "rollback", "prune"}
  /\ turn \in Turn
  /\ walk \in Walk
  /\ counters \in [turns : Nat, time : Nat, external : Nat]

WorkspaceOK ==
  /\ disk \in [Files -> Value]
  /\ snapshot \in [Tags -> [Files -> Value]]
  /\ untracked \in [Tags -> SUBSET Files]

\* The variables have their types; the undo stack and every copy of it that a
\* checkpoint or the session file holds is trimmed and free of empty entries.
TypeOK == SessionOK /\ CheckpointsOK /\ ControlOK /\ WorkspaceOK

\* When a rollback has finished, every file is what it was at the checkpoint,
\* but for files changed outside the undo stack and files the user skipped;
\* provided the stack was neither trimmed nor undone past the checkpoint.
RollbackExact ==
  phase = "prune" =>
    \A t \in walk.tag \cap anchored : \A f \in Files \ (untracked[t] \cup walk.skip) :
      disk[f] = snapshot[t][f]

\* When /undo has restored its entry, each file of the entry is back at its
\* state before the first write of that entry, however often it was written.
UndoExact ==
  phase = "undo" /\ WalkDone =>
    LET files == undoStack[Len(undoStack)].files
    IN \A j \in 1..Len(files) :
         \/ \E i \in 1..j - 1 : files[i].path = files[j].path
         \/ files[j].path \in walk.edited
         \/ disk[files[j].path] = files[j].before

\* Checkpoints lie on one timeline: an older one's conversation is a prefix of
\* a newer one's and of the live conversation, so no rollback can jump to a
\* conversation an earlier rollback abandoned.
TimelineLinear ==
  /\ \A a, b \in DOMAIN checkpoints : checkpoints[a].time <= checkpoints[b].time =>
       IsPrefixOf(checkpoints[a].messages, checkpoints[b].messages)
  /\ phase # "prune" => \A a \in DOMAIN checkpoints :
       IsPrefixOf(checkpoints[a].messages, messages)

\* rollback_to_checkpoint "reverts all file changes recorded in the undo_stack
\* after the checkpoint": entries of turns later than the checkpoint's are above
\* the floor of the walk.
RollbackReachesNewerEntries ==
  phase = "rollback" =>
    \A t \in walk.tag : \A i \in 1..Len(undoStack) :
      (\A k \in 1..Len(checkpoints[t].messages) :
          undoStack[i].turn > checkpoints[t].messages[k]) => i > walk.floor
=============================================================================
