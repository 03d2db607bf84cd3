------------------------ MODULE SessionHistoryProofs ------------------------
(* Theorems about SessionHistory, for every set of files, contents and     *)
(* tags and every bound.                                                   *)
EXTENDS SessionHistory, SequenceTheorems, TLAPS

\* What the walks of undo_last_turn and rollback_to_checkpoint point at.
WalkOK ==
  /\ phase \in {"rollback", "prune"} => \E t \in DOMAIN checkpoints : walk.tag = {t}
  /\ phase = "undo" => undoStack # <<>>
  /\ Walking /\ ~WalkDone => /\ walk.entry \in 1..Len(undoStack)
                             /\ walk.file \in 1..Len(undoStack[walk.entry].files)

TypeInv == TypeOK /\ WalkOK

-----------------------------------------------------------------------------
(* The operators on undo stacks.                                           *)

\* Trimming keeps a sequence of non-empty entries within MAX_UNDO_TURNS.
LEMMA NewestTurnsStack ==
  ASSUME NEW s \in Seq(Entry), \A i \in 1..Len(s) : s[i].files # <<>>
  PROVE  NewestTurns(s) \in Stack
<1>1. CASE Len(s) <= MaxUndoTurns
  BY <1>1 DEF NewestTurns, Stack
<1>2. CASE ~(Len(s) <= MaxUndoTurns)
  <2> DEFINE m == Len(s) - MaxUndoTurns + 1
             r == SubSeq(s, m, Len(s))
  <2>1. m \in 1..Len(s) /\ MaxUndoTurns \in Nat \ {0}
    BY <1>2, HistoryAssumption
  <2>2. \A i \in m..Len(s) : s[i] \in Entry
    BY <2>1, ElementOfSeq
  <2>3. /\ r \in Seq(Entry) /\ Len(r) = MaxUndoTurns
        /\ \A i \in 1..Len(r) : r[i] = s[m + i - 1] /\ m + i - 1 \in 1..Len(s)
    <3>1. /\ r \in Seq(Entry)
          /\ Len(r) = IF m <= Len(s) THEN Len(s) - m + 1 ELSE 0
          /\ \A i \in 1..Len(s) - m + 1 : r[i] = s[m + i - 1]
      BY <2>1, <2>2, SubSeqProperties, Z3
    <3> HIDE DEF r
    <3>. QED  BY <2>1, <3>1
  <2> HIDE DEF r
  <2>4. \A i \in 1..Len(r) : r[i].files # <<>>
    BY <2>3
  <2>5. Len(r) <= MaxUndoTurns
    BY <2>1, <2>3
  <2>6. r \in Stack
    BY <2>3, <2>4, <2>5 DEF Stack
  <2>. QED  BY <1>2, <2>6 DEF NewestTurns, r
<1>. QED  BY <1>1, <1>2

LEMMA CapturedStack ==
  ASSUME SessionOK, ControlOK
  PROVE  NewestTurns(Captured) \in Stack
<1>1. undoStack \in Seq(Entry) /\ \A i \in 1..Len(undoStack) : undoStack[i].files # <<>>
  BY DEF SessionOK, Stack
<1>2. CASE pending = <<>>
  BY <1>1, <1>2, NewestTurnsStack DEF Captured
<1>3. CASE pending # <<>>
  <2> DEFINE e == [turn |-> counters.turns, files |-> pending]
  <2>1. e \in Entry /\ e.files # <<>>
    BY <1>3 DEF SessionOK, ControlOK, Turn, Walk, Entry
  <2> HIDE DEF e
  <2>2. Append(undoStack, e) \in Seq(Entry)
    BY <1>1, <2>1
  <2>3. \A i \in 1..Len(Append(undoStack, e)) : Append(undoStack, e)[i].files # <<>>
    BY <1>1, <2>1
  <2>. QED  BY <1>3, <2>2, <2>3, NewestTurnsStack DEF Captured, e
<1>. QED  BY <1>2, <1>3

\* All of a sequence but its last element.
LEMMA PopSeq ==
  ASSUME NEW S, NEW q \in Seq(S), q # <<>>
  PROVE  /\ SubSeq(q, 1, Len(q) - 1) \in Seq(S)
         /\ Len(SubSeq(q, 1, Len(q) - 1)) = Len(q) - 1
         /\ \A i \in 1..Len(q) - 1 : SubSeq(q, 1, Len(q) - 1)[i] = q[i]
<1>1. Len(q) \in Nat \ {0}
  BY EmptySeq
<1>2. PICK n \in Nat : Len(q) = n + 1
  BY <1>1
<1>3. n = Len(q) - 1 /\ \A i \in 1..n : q[i] \in S
  BY <1>2, ElementOfSeq
<1>4. /\ SubSeq(q, 1, n) \in Seq(S)
      /\ Len(SubSeq(q, 1, n)) = IF 1 <= n THEN n - 1 + 1 ELSE 0
      /\ \A i \in 1..n - 1 + 1 : SubSeq(q, 1, n)[i] = q[1 + i - 1]
  BY <1>3, SubSeqProperties, Z3
<1>. QED  BY <1>3, <1>4

\* So does popping the newest entry, as /undo does.
LEMMA PopStack ==
  ASSUME NEW s \in Stack, s # <<>>
  PROVE  SubSeq(s, 1, Len(s) - 1) \in Stack
<1> DEFINE r == SubSeq(s, 1, Len(s) - 1)
<1>1. s \in Seq(Entry) /\ Len(s) <= MaxUndoTurns
  BY DEF Stack
<1>2. Len(s) \in Nat
  BY <1>1
<1>3. r \in Seq(Entry) /\ Len(r) = Len(s) - 1 /\ \A i \in 1..Len(s) - 1 : r[i] = s[i]
  BY <1>1, PopSeq, Z3
<1> HIDE DEF r
<1>4. r \in Stack
  BY <1>1, <1>2, <1>3, HistoryAssumption DEF Stack
<1>. QED  BY <1>4 DEF r

\* The undo records name workspace files.
LEMMA PathsFiles ==
  ASSUME NEW r \in Seq(Record)
  PROVE  Paths(r) \subseteq Files
<1>1. \A i \in 1..Len(r) : r[i] \in Record
  BY ElementOfSeq
<1>. QED  BY <1>1 DEF Paths, Record

LEMMA UntrackType ==
  ASSUME untracked \in [Tags -> SUBSET Files], NEW files \in SUBSET Files, Untrack(files)
  PROVE  untracked' \in [Tags -> SUBSET Files]
BY DEF Untrack

\* A walk starts at the last record of its newest entry.
LEMMA WalkFromType ==
  ASSUME SessionOK, NEW entry \in 0..Len(undoStack), NEW floor \in Nat,
         NEW skip \in SUBSET Files, NEW tag \in SUBSET Tags
  PROVE  /\ WalkFrom(entry, floor, skip, tag) \in Walk
         /\ entry > floor =>
              /\ entry \in 1..Len(undoStack)
              /\ WalkFrom(entry, floor, skip, tag).file \in 1..Len(undoStack[entry].files)
<1>1. undoStack \in Seq(Entry) /\ \A i \in 1..Len(undoStack) : undoStack[i].files # <<>>
  BY DEF SessionOK, Stack
<1>2. CASE entry > floor
  <2>1. entry \in 1..Len(undoStack)
    BY <1>1, <1>2
  <2>2. undoStack[entry] \in Entry /\ undoStack[entry].files # <<>>
    BY <1>1, <2>1, ElementOfSeq
  <2>3. Len(undoStack[entry].files) \in Nat \ {0}
    BY <2>2, EmptySeq DEF Entry
  <2>. QED  BY <1>2, <2>1, <2>3 DEF WalkFrom, Walk
<1>3. CASE ~(entry > floor)
  BY <1>1, <1>3 DEF WalkFrom, Walk
<1>. QED  BY <1>2, <1>3

-----------------------------------------------------------------------------
(* Each step keeps TypeInv.                                                *)

\* One more turn, or one more checkpoint.
LEMMA CountersType ==
  ASSUME NEW c \in [turns : Nat, time : Nat, external : Nat]
  PROVE  /\ [c EXCEPT !.turns = @ + 1] \in [turns : Nat, time : Nat, external : Nat]
         /\ [c EXCEPT !.time = @ + 1] \in [turns : Nat, time : Nat, external : Nat]
OBVIOUS

LEMMA RunTurnTypeInv ==
  ASSUME TypeInv, RunTurn
  PROVE  TypeInv'
<1> USE HistoryAssumption DEF TypeInv, TypeOK, RunTurn, session, ghosts, InLoop
<1>1. SessionOK'
  <2>1. counters'.turns \in Nat
    BY DEF ControlOK
  <2>. QED  BY <2>1 DEF SessionOK
<1>2. CheckpointsOK'
  BY DEF CheckpointsOK
<1>3. ControlOK'
  <2>1. counters' \in [turns : Nat, time : Nat, external : Nat]
    BY CountersType, Zenon DEF ControlOK
  <2>2. turn' \in Turn
    BY DEF Turn, NoTurn
  <2>. QED  BY <2>1, <2>2 DEF ControlOK
<1>4. WorkspaceOK'
  BY DEF WorkspaceOK, Untrack
<1>5. WalkOK'
  BY DEF WalkOK, Walking, WalkDone
<1>. QED  BY <1>1, <1>2, <1>3, <1>4, <1>5

LEMMA WriteFileTypeInv ==
  ASSUME TypeInv, NEW f \in Files, NEW c \in Contents, WriteFile(f, c)
  PROVE  TypeInv'
<1> USE HistoryAssumption DEF TypeInv, TypeOK, WriteFile, session, ghosts, InLoop
<1>1. SessionOK'
  <2>1. [path |-> f, before |-> disk[f]] \in Record
    BY DEF WorkspaceOK, Record
  <2>2. pending' \in Seq(Record)
    BY <2>1 DEF SessionOK
  <2>. QED  BY <2>2 DEF SessionOK
<1>2. CheckpointsOK'
  BY DEF CheckpointsOK
<1>3. ControlOK'
  BY DEF ControlOK, Turn, Walk, NoTurn, NoWalk
<1>4. WorkspaceOK'
  <2>1. c \in Value
    BY DEF Value
  <2>. QED  BY <2>1 DEF WorkspaceOK
<1>5. WalkOK'
  BY DEF WalkOK, Walking, WalkDone
<1>. QED  BY <1>1, <1>2, <1>3, <1>4, <1>5

LEMMA OtherToolTypeInv ==
  ASSUME TypeInv, OtherTool
  PROVE  TypeInv'
<1> USE HistoryAssumption DEF TypeInv, TypeOK, OtherTool, session, ghosts, InLoop
<1>1. SessionOK'
  BY DEF SessionOK, Save, Saved
<1>2. CheckpointsOK'
  BY DEF CheckpointsOK
<1>3. ControlOK'
  BY DEF ControlOK, Turn, Walk, NoTurn, NoWalk
<1>4. WorkspaceOK'
  BY DEF WorkspaceOK, Untrack
<1>5. WalkOK'
  BY DEF WalkOK, Walking, WalkDone
<1>. QED  BY <1>1, <1>2, <1>3, <1>4, <1>5

LEMMA TodoWriteTypeInv ==
  ASSUME TypeInv, NEW open \in BOOLEAN, TodoWrite(open)
  PROVE  TypeInv'
<1> USE HistoryAssumption DEF TypeInv, TypeOK, TodoWrite, session, ghosts, InLoop
<1>1. SessionOK'
  <2>1. todo' \in Todo
    BY DEF SessionOK, Todo
  <2>. QED  BY <2>1 DEF SessionOK
<1>2. CheckpointsOK'
  BY DEF CheckpointsOK
<1>3. ControlOK'
  BY DEF ControlOK, Turn, Walk, NoTurn, NoWalk
<1>4. WorkspaceOK'
  BY DEF WorkspaceOK, Untrack
<1>5. WalkOK'
  BY DEF WalkOK, Walking, WalkDone
<1>. QED  BY <1>1, <1>2, <1>3, <1>4, <1>5

LEMMA EndToolRoundTypeInv ==
  ASSUME TypeInv, EndToolRound
  PROVE  TypeInv'
<1> USE HistoryAssumption DEF TypeInv, TypeOK, EndToolRound, session, ghosts, InLoop
<1>1. SessionOK'
  <2>1. messages' \in Seq(Nat)
    BY DEF SessionOK, ControlOK, Turn, Walk
  <2>2. todo' \in Todo
    BY DEF SessionOK, Todo
  <2>. QED  BY <2>1, <2>2 DEF SessionOK, Save, Saved
<1>2. CheckpointsOK'
  BY DEF CheckpointsOK
<1>3. ControlOK'
  <2>1. turn.round + 1 \in 0..MaxRounds /\ turn.reconcile \in BOOLEAN
    BY DEF ControlOK, Turn
  <2>2. \A b \in BOOLEAN : [round |-> turn.round + 1, calls |-> {}, reconcile |-> b] \in Turn
    BY <2>1 DEF Turn
  <2>3. NoTurn \in Turn
    BY HistoryAssumption DEF Turn, NoTurn
  <2>4. turn' = NoTurn \/ \E b \in BOOLEAN :
                            turn' = [round |-> turn.round + 1, calls |-> {}, reconcile |-> b]
    <3> HIDE DEF TypeInv
    <3>. QED  BY <2>1
  <2>5. turn' \in Turn
    <3> HIDE DEF TypeInv, EndToolRound
    <3>. QED  BY <2>2, <2>3, <2>4
  <2>. QED  BY <2>5 DEF ControlOK
<1>4. WorkspaceOK'
  <2>1. Paths(pending) \in SUBSET Files
    BY PathsFiles DEF SessionOK
  <2>2. untracked' \in [Tags -> SUBSET Files]
    BY <2>1, UntrackType DEF WorkspaceOK
  <2>. QED  BY <2>2 DEF WorkspaceOK
<1>5. WalkOK'
  BY DEF WalkOK, Walking, WalkDone
<1>. QED  BY <1>1, <1>2, <1>3, <1>4, <1>5

LEMMA TextReplyTypeInv ==
  ASSUME TypeInv, TextReply
  PROVE  TypeInv'
<1> USE HistoryAssumption DEF TypeInv, TypeOK, TextReply, session, ghosts, InLoop
<1>1. SessionOK'
  <2>1. undoStack' \in Stack /\ pending' = <<>>
    BY CapturedStack DEF Capture
  <2>2. messages' \in Seq(Nat) /\ todo' \in Todo
    BY DEF SessionOK, ControlOK, Turn, Walk
  <2>. QED  BY <2>1, <2>2 DEF SessionOK, Save, Saved
<1>2. CheckpointsOK'
  <2>1. anchored' \subseteq anchored
    BY DEF Capture
  <2>. QED  BY <2>1 DEF CheckpointsOK
<1>3. ControlOK'
  <2>1. turn \in Turn /\ turn.round + 1 \in 0..MaxRounds
    BY DEF ControlOK, Turn
  <2> DEFINE again == [turn EXCEPT !.round = @ + 1]
  <2>2. again \in Turn
    BY ONLY <2>1 DEF Turn
  <2>3. [again EXCEPT !.reconcile = TRUE] \in Turn
    BY <2>2 DEF Turn
  <2>4. NoTurn \in Turn
    BY DEF NoTurn, Turn
  <2>5. turn' \in {again, [again EXCEPT !.reconcile = TRUE], NoTurn} /\ phase' \in {"turn", "idle"}
    OBVIOUS
  <2> HIDE DEF again
  <2>. QED  BY <2>2, <2>3, <2>4, <2>5 DEF ControlOK
<1>4. WorkspaceOK'
  BY DEF WorkspaceOK, Untrack
<1>5. WalkOK'
  BY DEF WalkOK, Walking, WalkDone
<1>. QED  BY <1>1, <1>2, <1>3, <1>4, <1>5

LEMMA StopAfterMaxRoundsTypeInv ==
  ASSUME TypeInv, StopAfterMaxRounds
  PROVE  TypeInv'
<1> USE HistoryAssumption DEF TypeInv, TypeOK, StopAfterMaxRounds, session, ghosts, InLoop
<1>1. SessionOK'
  <2>1. undoStack' \in Stack /\ pending' = <<>>
    BY CapturedStack DEF Capture
  <2>2. messages' \in Seq(Nat) /\ todo' \in Todo
    BY DEF SessionOK
  <2>. QED  BY <2>1, <2>2 DEF SessionOK, Save, Saved
<1>2. CheckpointsOK'
  <2>1. anchored' \subseteq anchored
    BY DEF Capture
  <2>. QED  BY <2>1 DEF CheckpointsOK
<1>3. ControlOK'
  BY DEF ControlOK, Turn, Walk, NoTurn, NoWalk
<1>4. WorkspaceOK'
  BY DEF WorkspaceOK, Untrack
<1>5. WalkOK'
  BY DEF WalkOK, Walking, WalkDone
<1>. QED  BY <1>1, <1>2, <1>3, <1>4, <1>5

LEMMA InterruptTypeInv ==
  ASSUME TypeInv, Interrupt
  PROVE  TypeInv'
<1> USE HistoryAssumption DEF TypeInv, TypeOK, Interrupt, session, ghosts, InLoop
<1>1. SessionOK'
  BY DEF SessionOK, Save, Saved
<1>2. CheckpointsOK'
  BY DEF CheckpointsOK
<1>3. ControlOK'
  BY DEF ControlOK, Turn, Walk, NoTurn, NoWalk
<1>4. WorkspaceOK'
  <2>1. Paths(pending) \in SUBSET Files
    BY PathsFiles DEF SessionOK
  <2>. QED  BY <2>1, UntrackType DEF WorkspaceOK
<1>5. WalkOK'
  BY DEF WalkOK, Walking, WalkDone
<1>. QED  BY <1>1, <1>2, <1>3, <1>4, <1>5

LEMMA FailTypeInv ==
  ASSUME TypeInv, Fail
  PROVE  TypeInv'
<1> USE HistoryAssumption DEF TypeInv, TypeOK, Fail, session, ghosts, InLoop
<1>1. SessionOK'
  BY DEF SessionOK, Save, Saved
<1>2. CheckpointsOK'
  BY DEF CheckpointsOK
<1>3. ControlOK'
  BY DEF ControlOK, Turn, Walk, NoTurn, NoWalk
<1>4. WorkspaceOK'
  <2>1. Paths(pending) \in SUBSET Files
    BY PathsFiles DEF SessionOK
  <2>. QED  BY <2>1, UntrackType DEF WorkspaceOK
<1>5. WalkOK'
  BY DEF WalkOK, Walking, WalkDone
<1>. QED  BY <1>1, <1>2, <1>3, <1>4, <1>5

\* The entries of an undo stack have records.
LEMMA EntryLength ==
  ASSUME NEW s \in Stack, NEW i \in 1..Len(s)
  PROVE  Len(s[i].files) \in Nat \ {0}
<1>1. s[i] \in Entry /\ s[i].files # <<>>
  BY ElementOfSeq DEF Stack
<1>2. s[i].files \in Seq(Record)
  BY <1>1 DEF Entry
<1>. QED  BY <1>1, <1>2, EmptySeq

\* What one restored file changes of the walk: it moves to the record before,
\* or to the newest record of the entry below.
LEMMA RestoreFileMoves ==
  ASSUME SessionOK, ControlOK, WalkOK, RestoreFile
  PROVE  /\ {walk.entry, walk.file, walk.floor} \subseteq Nat
         /\ Walking /\ ~WalkDone
         /\ phase' = phase /\ checkpoints' = checkpoints /\ undoStack' = undoStack
         /\ walk' \in Walk /\ walk'.tag = walk.tag /\ walk'.floor = walk.floor
         /\ walk.file > 1 => walk'.entry = walk.entry /\ walk'.file = walk.file - 1
         /\ ~(walk.file > 1) =>
              /\ walk'.entry = walk.entry - 1
              /\ walk.entry - 1 > walk.floor =>
                   walk'.file = Len(undoStack[walk.entry - 1].files)
<1>1. walk \in Walk
  BY DEF ControlOK
<1>2. {walk.entry, walk.file, walk.floor} \subseteq Nat
  BY <1>1 DEF Walk
<1>3. /\ Walking /\ ~WalkDone
      /\ phase' = phase /\ checkpoints' = checkpoints /\ undoStack' = undoStack
  BY DEF RestoreFile, session
<1>4. walk' = IF walk.file > 1 THEN [walk EXCEPT !.file = @ - 1]
              ELSE [walk EXCEPT !.entry = walk.entry - 1,
                      !.file = IF walk.entry - 1 > walk.floor
                               THEN Len(undoStack[walk.entry - 1].files) ELSE 0]
  BY DEF RestoreFile
<1>5. CASE walk.file > 1
  <2>1. walk' = [walk EXCEPT !.file = walk.file - 1] /\ walk.file - 1 \in Nat
    BY <1>2, <1>4, <1>5
  <2>2. /\ walk' \in Walk /\ walk'.tag = walk.tag /\ walk'.floor = walk.floor
        /\ walk'.entry = walk.entry /\ walk'.file = walk.file - 1
    BY <1>1, <2>1 DEF Walk
  <2>. QED  BY <1>2, <1>3, <1>5, <2>2
<1>6. CASE ~(walk.file > 1)
  <2> DEFINE below == walk.entry - 1
             file  == IF walk.entry - 1 > walk.floor
                      THEN Len(undoStack[walk.entry - 1].files) ELSE 0
  <2>1. walk' = [walk EXCEPT !.entry = below, !.file = file]
    BY <1>4, <1>6
  <2>2. below = walk.entry - 1
        /\ (walk.entry - 1 > walk.floor => file = Len(undoStack[walk.entry - 1].files))
    OBVIOUS
  <2>3. below \in Nat /\ file \in Nat
    <3>1. undoStack \in Stack /\ Len(undoStack) \in Nat /\ walk.entry \in 1..Len(undoStack)
      BY <1>3 DEF SessionOK, Stack, WalkOK
    <3>2. ASSUME walk.entry - 1 > walk.floor
          PROVE  Len(undoStack[walk.entry - 1].files) \in Nat
      <4>1. walk.entry - 1 \in 1..Len(undoStack)
        BY <1>2, <3>1, <3>2
      <4>. QED  BY <3>1, <4>1, EntryLength
    <3>. QED  BY <1>2, <3>1, <3>2
  <2> HIDE DEF below, file
  <2>4. /\ walk' \in Walk /\ walk'.tag = walk.tag /\ walk'.floor = walk.floor
        /\ walk'.entry = below /\ walk'.file = file
    BY <1>1, <2>1, <2>3 DEF Walk
  <2>. QED  BY <1>2, <1>3, <1>6, <2>2, <2>4
<1>. QED  BY <1>5, <1>6

\* The record being restored is one of the undo stack.
LEMMA CurrentRecordType ==
  ASSUME SessionOK, WalkOK, Walking, ~WalkDone
  PROVE  CurrentRecord \in Record
<1>1. /\ undoStack \in Seq(Entry) /\ walk.entry \in 1..Len(undoStack)
      /\ walk.file \in 1..Len(undoStack[walk.entry].files)
  BY DEF SessionOK, Stack, WalkOK
<1>2. undoStack[walk.entry] \in Entry
  BY <1>1, ElementOfSeq
<1>3. undoStack[walk.entry].files \in Seq(Record)
  BY <1>2 DEF Entry
<1>4. undoStack[walk.entry].files[walk.file] \in Record
  BY <1>1, <1>3, ElementOfSeq
<1>. QED  BY <1>4 DEF CurrentRecord

\* The walk stays on a record of the undo stack until it is done.
LEMMA RestoreFileWalkOK ==
  ASSUME TypeInv, RestoreFile
  PROVE  WalkOK'
<1>1. /\ undoStack \in Stack /\ Len(undoStack) \in Nat
      /\ SessionOK /\ ControlOK /\ WalkOK
  BY DEF TypeInv, TypeOK, SessionOK, Stack
<1>2. /\ {walk.entry, walk.file, walk.floor} \subseteq Nat
      /\ Walking /\ ~WalkDone
      /\ phase' = phase /\ checkpoints' = checkpoints /\ undoStack' = undoStack
      /\ walk'.tag = walk.tag /\ walk'.floor = walk.floor
  BY <1>1, RestoreFileMoves
<1>3. /\ walk.file > 1 => walk'.entry = walk.entry /\ walk'.file = walk.file - 1
      /\ ~(walk.file > 1) =>
           /\ walk'.entry = walk.entry - 1
           /\ walk.entry - 1 > walk.floor =>
                walk'.file = Len(undoStack[walk.entry - 1].files)
  BY <1>1, RestoreFileMoves
<1>4. /\ walk.entry \in 1..Len(undoStack)
      /\ walk.file \in 1..Len(undoStack[walk.entry].files)
  BY <1>1, <1>2 DEF WalkOK
<1>5. /\ phase' \in {"rollback", "prune"} =>
           \E t \in DOMAIN checkpoints' : walk'.tag = {t}
      /\ phase' = "undo" => undoStack' # <<>>
  BY <1>1, <1>2 DEF WalkOK
<1>6. ~WalkDone' => /\ walk'.entry \in 1..Len(undoStack)
                    /\ walk'.file \in 1..Len(undoStack[walk'.entry].files)
  <2> SUFFICES ASSUME walk'.entry > walk.floor
               PROVE  /\ walk'.entry \in 1..Len(undoStack)
                      /\ walk'.file \in 1..Len(undoStack[walk'.entry].files)
    <3>1. walk'.entry \in Int /\ walk'.floor = walk.floor
      BY <1>2, <1>3
    <3>. QED  BY <1>2, <3>1 DEF WalkDone
  <2>1. CASE walk.file > 1
    <3>1. walk'.entry = walk.entry /\ walk'.file = walk.file - 1
      BY <1>3, <2>1
    <3>2. Len(undoStack[walk.entry].files) \in Nat
      BY <1>1, <1>4, EntryLength
    <3>3. walk.file - 1 \in 1..Len(undoStack[walk.entry].files)
      BY <1>2, <1>4, <2>1, <3>2
    <3>. QED  BY <1>4, <3>1, <3>3
  <2>2. CASE ~(walk.file > 1)
    <3>1. walk'.entry = walk.entry - 1 /\ walk.entry - 1 > walk.floor
      BY <1>3, <2>2
    <3>2. walk'.file = Len(undoStack[walk'.entry].files)
      BY <1>3, <2>2, <3>1
    <3>3. walk'.entry \in 1..Len(undoStack)
      BY <1>1, <1>2, <1>4, <3>1
    <3>4. Len(undoStack[walk'.entry].files) \in Nat \ {0}
      BY <1>1, <3>3, EntryLength
    <3>. QED  BY <3>2, <3>3, <3>4
  <2>. QED  BY <2>1, <2>2
<1>. QED  BY <1>2, <1>5, <1>6 DEF WalkOK

LEMMA RestoreFileTypeInv ==
  ASSUME TypeInv, RestoreFile
  PROVE  TypeInv'
<1>1. SessionOK /\ CheckpointsOK /\ ControlOK /\ WorkspaceOK /\ WalkOK
  BY DEF TypeInv, TypeOK
<1>2. SessionOK'
  BY <1>1 DEF SessionOK, RestoreFile, session
<1>3. CheckpointsOK'
  BY <1>1 DEF CheckpointsOK, RestoreFile
<1>4. ControlOK'
  <2>1. walk' \in Walk
    BY <1>1, RestoreFileMoves
  <2>. QED  BY <1>1, <2>1 DEF ControlOK, RestoreFile
<1>5. WorkspaceOK'
  <2>1. CurrentRecord.path \in Files /\ CurrentRecord.before \in Value
    BY <1>1, CurrentRecordType DEF Record, RestoreFile
  <2>2. disk' = disk \/ disk' = [disk EXCEPT ![CurrentRecord.path] = CurrentRecord.before]
    BY DEF RestoreFile
  <2>. QED  BY <1>1, <2>1, <2>2 DEF WorkspaceOK, RestoreFile
<1>6. WalkOK'
  BY RestoreFileWalkOK
<1>. QED  BY <1>2, <1>3, <1>4, <1>5, <1>6 DEF TypeInv, TypeOK

LEMMA BeginUndoTypeInv ==
  ASSUME TypeInv, BeginUndo
  PROVE  TypeInv'
<1> USE HistoryAssumption DEF TypeInv, TypeOK, BeginUndo, session, ghosts, InLoop
<1>1. SessionOK'
  BY DEF SessionOK, Save, Saved
<1>2. CheckpointsOK'
  BY DEF CheckpointsOK
<1>3. ControlOK'
  <2>1. Len(undoStack) \in 0..Len(undoStack) /\ Len(undoStack) - 1 \in Nat
    BY EmptySeq DEF SessionOK, Stack
  <2>2. walk' \in Walk
    BY <2>1, WalkFromType, Zenon
  <2>. QED  BY <2>2 DEF ControlOK, Turn, Walk
<1>4. WorkspaceOK'
  BY DEF WorkspaceOK, Untrack
<1>5. WalkOK'
  <2>1. Len(undoStack) \in 0..Len(undoStack) /\ Len(undoStack) - 1 \in Nat
    BY EmptySeq DEF SessionOK, Stack
  <2> DEFINE w == WalkFrom(Len(undoStack), Len(undoStack) - 1, {}, {})
  <2>2. Len(undoStack) > Len(undoStack) - 1 =>
          /\ Len(undoStack) \in 1..Len(undoStack)
          /\ w.file \in 1..Len(undoStack[Len(undoStack)].files)
    BY <2>1, WalkFromType, Zenon
  <2>3. walk' = w /\ w.entry = Len(undoStack)
    BY DEF WalkFrom
  <2>4. Len(undoStack) > Len(undoStack) - 1
    BY <2>1
  <2> HIDE DEF w
  <2>. QED  BY <2>2, <2>3, <2>4 DEF WalkOK
<1>. QED  BY <1>1, <1>2, <1>3, <1>4, <1>5

LEMMA FinishUndoTypeInv ==
  ASSUME TypeInv, FinishUndo
  PROVE  TypeInv'
<1> USE HistoryAssumption DEF TypeInv, TypeOK, FinishUndo, session, ghosts, InLoop
<1>1. SessionOK'
  <2>1. undoStack' \in Stack
    BY PopStack DEF SessionOK, WalkOK
  <2>. QED  BY <2>1 DEF SessionOK, Save, Saved
<1>2. CheckpointsOK'
  BY DEF CheckpointsOK
<1>3. ControlOK'
  BY DEF ControlOK, Turn, Walk, NoTurn, NoWalk
<1>4. WorkspaceOK'
  BY DEF WorkspaceOK, Untrack
<1>5. WalkOK'
  BY DEF WalkOK, Walking, WalkDone
<1>. QED  BY <1>1, <1>2, <1>3, <1>4, <1>5

LEMMA CreateCheckpointTypeInv ==
  ASSUME TypeInv, NEW t \in Tags, CreateCheckpoint(t)
  PROVE  TypeInv'
<1> USE HistoryAssumption DEF TypeInv, TypeOK, CreateCheckpoint, session, ghosts, InLoop
<1>1. SessionOK'
  BY DEF SessionOK, Save, Saved
<1>2. CheckpointsOK'
  <2> DEFINE new == [time |-> counters'.time, messages |-> messages,
                     undo |-> undoStack, todo |-> todo]
  <2>1. new \in Checkpoint
    <3>1. messages \in Seq(Nat) /\ undoStack \in Stack /\ todo \in Todo
      BY DEF SessionOK
    <3>2. counters' \in [turns : Nat, time : Nat, external : Nat]
      BY CountersType, Zenon DEF ControlOK
    <3>3. counters'.time \in Nat
      BY <3>2
    <3> HIDE DEF TypeInv, CreateCheckpoint
    <3>. QED  BY <3>1, <3>3 DEF Checkpoint
  <2>2. /\ DOMAIN checkpoints' = {t} \cup DOMAIN checkpoints
        /\ \A u \in DOMAIN checkpoints' :
             checkpoints'[u] = IF u = t THEN new ELSE checkpoints[u]
    OBVIOUS
  <2> HIDE DEF new
  <2>. QED  BY <2>1, <2>2 DEF CheckpointsOK
<1>3. ControlOK'
  BY DEF ControlOK, Turn, Walk, NoTurn, NoWalk
<1>4. WorkspaceOK'
  BY DEF WorkspaceOK, Untrack
<1>5. WalkOK'
  BY DEF WalkOK, Walking, WalkDone
<1>. QED  BY <1>1, <1>2, <1>3, <1>4, <1>5

\* What a rollback may be told to skip are workspace files.
LEMMA FlaggedFiles == \A t : Flagged(t) \in SUBSET Files
BY Zenon DEF Flagged

\* Where a rollback's walk begins and ends.
LEMMA RollbackBounds ==
  ASSUME SessionOK, CheckpointsOK, NEW t \in DOMAIN checkpoints, NEW skip \in BOOLEAN
  PROVE  /\ Len(undoStack) \in 0..Len(undoStack) /\ Floor(t) \in Nat
         /\ (IF skip THEN Flagged(t) ELSE {}) \in SUBSET Files
<1>1. Len(undoStack) \in 0..Len(undoStack)
  BY DEF SessionOK, Stack
<1>2. checkpoints[t].undo \in Stack
  BY DEF CheckpointsOK, Checkpoint
<1>3. Floor(t) \in Nat
  BY <1>2 DEF Stack, Floor
<1>. QED  BY <1>1, <1>3, FlaggedFiles

LEMMA BeginRollbackTypeInv ==
  ASSUME TypeInv, NEW t \in Tags, NEW skip \in BOOLEAN, BeginRollback(t, skip)
  PROVE  TypeInv'
<1> USE HistoryAssumption DEF TypeInv, TypeOK, BeginRollback, session, ghosts, InLoop
<1>1. SessionOK'
  BY DEF SessionOK, Save, Saved
<1>2. CheckpointsOK'
  BY DEF CheckpointsOK
<1>3. ControlOK'
  <2>1. /\ Len(undoStack) \in 0..Len(undoStack) /\ Floor(t) \in Nat
        /\ (IF skip THEN Flagged(t) ELSE {}) \in SUBSET Files
    <3>1. SessionOK /\ CheckpointsOK /\ t \in DOMAIN checkpoints
      OBVIOUS
    <3>. QED  BY <3>1, RollbackBounds, Zenon
  <2>2. {t} \in SUBSET Tags
    OBVIOUS
  <2>3. walk' \in Walk
    BY <2>1, <2>2, WalkFromType, Zenon
  <2>. QED  BY <2>3 DEF ControlOK, Turn, Walk
<1>4. WorkspaceOK'
  BY DEF WorkspaceOK, Untrack
<1>5. WalkOK'
  <2>1. /\ Len(undoStack) \in 0..Len(undoStack) /\ Floor(t) \in Nat
        /\ (IF skip THEN Flagged(t) ELSE {}) \in SUBSET Files
    <3>1. SessionOK /\ CheckpointsOK /\ t \in DOMAIN checkpoints
      OBVIOUS
    <3>. QED  BY <3>1, RollbackBounds, Zenon
  <2> DEFINE w == WalkFrom(Len(undoStack), Floor(t), IF skip THEN Flagged(t) ELSE {}, {t})
  <2>2. {t} \in SUBSET Tags
    OBVIOUS
  <2>3. Len(undoStack) > Floor(t) =>
          /\ Len(undoStack) \in 1..Len(undoStack)
          /\ w.file \in 1..Len(undoStack[Len(undoStack)].files)
    BY <2>1, <2>2, WalkFromType, Zenon
  <2>4. walk' = w /\ w.entry = Len(undoStack) /\ w.floor = Floor(t) /\ w.tag = {t}
    BY DEF WalkFrom
  <2> HIDE DEF w
  <2>. QED  BY <2>1, <2>3, <2>4 DEF WalkOK, Walking, WalkDone
<1>. QED  BY <1>1, <1>2, <1>3, <1>4, <1>5

LEMMA FinishRollbackTypeInv ==
  ASSUME TypeInv, FinishRollback
  PROVE  TypeInv'
<1> USE HistoryAssumption DEF TypeInv, TypeOK, FinishRollback, session, ghosts, InLoop
<1>1. SessionOK'
  <2>1. PICK t \in walk.tag : /\ messages' = checkpoints[t].messages
                             /\ todo' = checkpoints[t].todo
                             /\ undoStack' = checkpoints[t].undo
    OBVIOUS
  <2>2. checkpoints[t] \in Checkpoint
    BY <2>1 DEF WalkOK, CheckpointsOK
  <2>. QED  BY <2>1, <2>2 DEF SessionOK, Save, Saved, Checkpoint
<1>2. CheckpointsOK'
  BY DEF CheckpointsOK
<1>3. ControlOK'
  BY DEF ControlOK, Turn, Walk, NoTurn, NoWalk
<1>4. WorkspaceOK'
  <2>1. walk.skip \in SUBSET Files
    BY DEF ControlOK, Turn, Walk
  <2>. QED  BY <2>1, UntrackType DEF WorkspaceOK
<1>5. WalkOK'
  BY DEF WalkOK, Walking, WalkDone
<1>. QED  BY <1>1, <1>2, <1>3, <1>4, <1>5

LEMMA PruneCheckpointTypeInv ==
  ASSUME TypeInv, PruneCheckpoint
  PROVE  TypeInv'
<1> USE HistoryAssumption DEF TypeInv, TypeOK, PruneCheckpoint, session, ghosts, InLoop
<1>1. SessionOK'
  BY DEF SessionOK, Save, Saved
<1>2. CheckpointsOK'
  BY DEF CheckpointsOK
<1>3. ControlOK'
  BY DEF ControlOK, Turn, Walk, NoTurn, NoWalk
<1>4. WorkspaceOK'
  BY DEF WorkspaceOK, Untrack
<1>5. WalkOK'
  <2>1. PICK t \in DOMAIN checkpoints : walk.tag = {t}
    BY DEF WalkOK
  <2>2. t \notin Orphans
    BY <2>1 DEF Orphans, CheckpointsOK, Checkpoint
  <2>3. t \in DOMAIN checkpoints'
    BY <2>1, <2>2
  <2>. QED  BY <2>1, <2>3 DEF WalkOK, Walking
<1>. QED  BY <1>1, <1>2, <1>3, <1>4, <1>5

LEMMA PruneDoneTypeInv ==
  ASSUME TypeInv, PruneDone
  PROVE  TypeInv'
<1> USE HistoryAssumption DEF TypeInv, TypeOK, PruneDone, session, ghosts, InLoop
<1>1. SessionOK'
  BY DEF SessionOK, Save, Saved
<1>2. CheckpointsOK'
  BY DEF CheckpointsOK
<1>3. ControlOK'
  BY DEF ControlOK, Turn, Walk, NoTurn, NoWalk
<1>4. WorkspaceOK'
  BY DEF WorkspaceOK, Untrack
<1>5. WalkOK'
  BY DEF WalkOK, Walking, WalkDone
<1>. QED  BY <1>1, <1>2, <1>3, <1>4, <1>5

LEMMA ExternalEditTypeInv ==
  ASSUME TypeInv, NEW f \in Files, NEW v \in Value, ExternalEdit(f, v)
  PROVE  TypeInv'
<1> USE HistoryAssumption DEF TypeInv, TypeOK, ExternalEdit, session, ghosts, InLoop
<1>1. SessionOK'
  BY DEF SessionOK, Save, Saved
<1>2. CheckpointsOK'
  BY DEF CheckpointsOK
<1>3. ControlOK'
  BY DEF ControlOK, Turn, Walk, NoTurn, NoWalk
<1>4. WorkspaceOK'
  BY DEF WorkspaceOK, Untrack
<1>5. WalkOK'
  BY DEF WalkOK, Walking, WalkDone
<1>. QED  BY <1>1, <1>2, <1>3, <1>4, <1>5

LEMMA CrashTypeInv ==
  ASSUME TypeInv, Crash
  PROVE  TypeInv'
<1> USE HistoryAssumption DEF TypeInv, TypeOK, Crash, session, ghosts, InLoop
<1>1. SessionOK'
  BY DEF SessionOK, Save, Saved
<1>2. CheckpointsOK'
  BY DEF CheckpointsOK
<1>3. ControlOK'
  BY DEF ControlOK, Turn, Walk, NoTurn, NoWalk
<1>4. WorkspaceOK'
  <2>1. Paths(pending) \in SUBSET Files
    BY PathsFiles DEF SessionOK
  <2>. QED  BY <2>1, UntrackType DEF WorkspaceOK
<1>5. WalkOK'
  BY DEF WalkOK, Walking, WalkDone
<1>. QED  BY <1>1, <1>2, <1>3, <1>4, <1>5

LEMMA StutterTypeInv ==
  ASSUME TypeInv, UNCHANGED vars
  PROVE  TypeInv'
BY DEF TypeInv, TypeOK, SessionOK, CheckpointsOK, ControlOK, WorkspaceOK, WalkOK,
       Walking, WalkDone, vars

LEMMA NextTypeInv ==
  ASSUME TypeInv, [Next \/ Crash]_vars
  PROVE  TypeInv'
<1>1. CASE TurnStep
  BY <1>1, RunTurnTypeInv, EndToolRoundTypeInv, OtherToolTypeInv, TextReplyTypeInv,
     StopAfterMaxRoundsTypeInv, InterruptTypeInv, FailTypeInv, WriteFileTypeInv,
     TodoWriteTypeInv DEF TurnStep
<1>2. CASE HistoryStep
  BY <1>2, BeginUndoTypeInv, FinishUndoTypeInv, RestoreFileTypeInv, FinishRollbackTypeInv,
     PruneCheckpointTypeInv, PruneDoneTypeInv, CreateCheckpointTypeInv,
     BeginRollbackTypeInv DEF HistoryStep
<1>3. CASE \E f \in Files, v \in Value : ExternalEdit(f, v)
  BY <1>3, ExternalEditTypeInv
<1>4. CASE Crash
  BY <1>4, CrashTypeInv
<1>5. CASE UNCHANGED vars
  BY <1>5, StutterTypeInv
<1>. QED  BY <1>1, <1>2, <1>3, <1>4, <1>5 DEF Next

LEMMA InitTypeInv == Init => TypeInv
<1> SUFFICES ASSUME Init PROVE TypeInv
  OBVIOUS
<1>1. SessionOK
  <2>1. <<>> \in Stack
    BY HistoryAssumption DEF Stack
  <2>. QED  BY <2>1 DEF Init, SessionOK, Saved, Todo
<1>2. CheckpointsOK
  BY DEF Init, CheckpointsOK
<1>3. ControlOK
  BY HistoryAssumption DEF Init, ControlOK, NoTurn, NoWalk, Turn, Walk
<1>4. WorkspaceOK
  BY DEF Init, WorkspaceOK
<1>5. WalkOK
  BY DEF Init, WalkOK, Walking
<1>. QED  BY <1>1, <1>2, <1>3, <1>4, <1>5 DEF TypeInv, TypeOK

\* Whatever the turns, undos, rollbacks, edits and crashes, every variable has
\* its type: in particular no copy of the undo stack outgrows MAX_UNDO_TURNS or
\* holds an empty entry, and a restoring walk always points at a record.
THEOREM TypeCorrect == CrashSpec => []TypeInv
<1>1. TypeInv /\ [Next \/ Crash]_vars => TypeInv'
  BY NextTypeInv
<1>. QED  BY <1>1, InitTypeInv, PTL DEF CrashSpec

\* The behaviours without a crash are behaviours with crashes.
THEOREM SpecTypeOK == Spec => []TypeOK
<1>1. TypeInv /\ [Next]_vars => TypeInv'
  BY NextTypeInv
<1>2. TypeInv => TypeOK
  BY DEF TypeInv
<1>. QED  BY <1>1, <1>2, InitTypeInv, PTL DEF Spec
-----------------------------------------------------------------------------
(* Checkpoints lie on one timeline.                                        *)

LEMMA PrefixSelf == ASSUME NEW s PROVE IsPrefixOf(s, s)
BY DEF IsPrefixOf

LEMMA PrefixAppend ==
  ASSUME NEW s \in Seq(Nat), NEW r \in Seq(Nat), NEW x \in Nat, IsPrefixOf(s, r)
  PROVE  IsPrefixOf(s, Append(r, x))
<1>1. Len(s) \in Nat /\ Len(r) \in Nat /\ Len(s) <= Len(r)
  BY DEF IsPrefixOf
<1>2. Len(Append(r, x)) = Len(r) + 1 /\ \A i \in 1..Len(r) : Append(r, x)[i] = r[i]
  OBVIOUS
<1>. QED  BY <1>1, <1>2 DEF IsPrefixOf

\* TimelineLinear is inductive with what ties time and the rollback target to it.
TimelineInv ==
  /\ TimelineLinear
  /\ \A t \in DOMAIN checkpoints : checkpoints[t].time <= counters.time
  /\ phase = "prune" => \A t \in walk.tag : messages = checkpoints[t].messages

\* Steps that leave the checkpoints alone and at most append to the conversation.
LEMMA SameTimeline ==
  ASSUME TypeInv, TimelineInv, checkpoints' = checkpoints, counters'.time = counters.time,
         \/ messages' = messages
         \/ \E x \in Nat : messages' = Append(messages, x),
         phase # "prune", phase' # "prune"
  PROVE  TimelineInv'
<1>1. \A a, b \in DOMAIN checkpoints' : checkpoints'[a].time <= checkpoints'[b].time =>
        IsPrefixOf(checkpoints'[a].messages, checkpoints'[b].messages)
  BY DEF TimelineInv, TimelineLinear
<1>2. ASSUME NEW a \in DOMAIN checkpoints PROVE IsPrefixOf(checkpoints[a].messages, messages')
  <2>1. /\ IsPrefixOf(checkpoints[a].messages, messages)
        /\ checkpoints[a].messages \in Seq(Nat) /\ messages \in Seq(Nat)
    BY DEF TimelineInv, TimelineLinear, TypeInv, TypeOK, SessionOK, CheckpointsOK, Checkpoint
  <2>. QED  BY <2>1, PrefixAppend
<1>. QED  BY <1>1, <1>2 DEF TimelineInv, TimelineLinear

LEMMA TurnTimeline ==
  ASSUME TypeInv, TimelineInv, TurnStep
  PROVE  TimelineInv'
<1> USE DEF session, ghosts, InLoop
<1>1. counters.turns \in Nat /\ counters.turns + 1 \in Nat
  BY DEF TypeInv, TypeOK, ControlOK
<1>2. CASE RunTurn
  <2>1. counters'.turns = counters.turns + 1 /\ counters'.time = counters.time
    BY <1>2 DEF RunTurn, TypeInv, TypeOK, ControlOK
  <2>. QED  BY <1>1, <1>2, <2>1, SameTimeline DEF RunTurn
<1>3. CASE EndToolRound
  BY <1>1, <1>3, SameTimeline DEF EndToolRound
<1>4. CASE TextReply
  BY <1>1, <1>4, SameTimeline DEF TextReply
<1>5. CASE OtherTool \/ StopAfterMaxRounds \/ Interrupt \/ Fail
  BY <1>5, SameTimeline DEF OtherTool, StopAfterMaxRounds, Interrupt, Fail
<1>6. CASE \E f \in Files, c \in Contents : WriteFile(f, c)
  BY <1>6, SameTimeline DEF WriteFile
<1>7. CASE \E open \in BOOLEAN : TodoWrite(open)
  BY <1>7, SameTimeline DEF TodoWrite
<1>. QED  BY <1>2, <1>3, <1>4, <1>5, <1>6, <1>7 DEF TurnStep

\* A new checkpoint is later than all and holds the live conversation.
LEMMA CreateTimeline ==
  ASSUME TypeInv, TimelineInv, NEW t \in Tags, CreateCheckpoint(t)
  PROVE  TimelineInv'
<1>1. /\ DOMAIN checkpoints' = DOMAIN checkpoints \cup {t}
      /\ checkpoints'[t].time = counters.time + 1 /\ checkpoints'[t].messages = messages
      /\ \A u \in DOMAIN checkpoints \ {t} : checkpoints'[u] = checkpoints[u]
      /\ counters'.time = counters.time + 1 /\ counters.time \in Nat
      /\ phase = "idle" /\ phase' = phase /\ messages' = messages
  BY DEF CreateCheckpoint, session, TypeInv, TypeOK, ControlOK
<1>2. \A u \in DOMAIN checkpoints :
        /\ checkpoints[u].time \in Nat /\ checkpoints[u].time <= counters.time
        /\ IsPrefixOf(checkpoints[u].messages, messages)
  BY <1>1 DEF TypeInv, TypeOK, CheckpointsOK, Checkpoint, TimelineInv, TimelineLinear
<1>3. ASSUME NEW a \in DOMAIN checkpoints', NEW b \in DOMAIN checkpoints',
             checkpoints'[a].time <= checkpoints'[b].time
      PROVE  IsPrefixOf(checkpoints'[a].messages, checkpoints'[b].messages)
  <2>1. CASE b = t
    BY <1>1, <1>2, <2>1, PrefixSelf
  <2>2. CASE b # t /\ a = t
    <3>1. checkpoints'[b].time <= counters.time /\ checkpoints'[b].time \in Nat
      BY <1>1, <1>2, <2>2
    <3>. QED  BY <1>1, <1>3, <2>2, <3>1
  <2>3. CASE b # t /\ a # t
    BY <1>1, <1>3, <2>3 DEF TimelineInv, TimelineLinear
  <2>. QED  BY <2>1, <2>2, <2>3
<1>4. \A a \in DOMAIN checkpoints' : /\ IsPrefixOf(checkpoints'[a].messages, messages')
                                     /\ checkpoints'[a].time <= counters'.time
  BY <1>1, <1>2, PrefixSelf
<1>. QED  BY <1>1, <1>3, <1>4 DEF TimelineInv, TimelineLinear

LEMMA FinishRollbackTimeline ==
  ASSUME TypeInv, TimelineInv, FinishRollback
  PROVE  TimelineInv'
<1>1. PICK t \in DOMAIN checkpoints : walk.tag = {t}
  BY DEF FinishRollback, TypeInv, WalkOK
<1>2. messages' = checkpoints[t].messages /\ walk' = walk /\ checkpoints' = checkpoints
      /\ counters' = counters /\ phase' = "prune"
  BY <1>1 DEF FinishRollback
<1>. QED  BY <1>1, <1>2 DEF TimelineInv, TimelineLinear

\* Pruning keeps the target, and leaves nothing newer than it.
LEMMA PruneTimeline ==
  ASSUME TypeInv, TimelineInv, PruneCheckpoint \/ PruneDone
  PROVE  TimelineInv'
<1>1. PICK t \in DOMAIN checkpoints : walk.tag = {t} /\ messages = checkpoints[t].messages
  BY DEF PruneCheckpoint, PruneDone, TypeInv, WalkOK, TimelineInv
<1>2. Orphans = {c \in DOMAIN checkpoints : checkpoints[c].time > checkpoints[t].time}
      /\ \A c \in DOMAIN checkpoints : checkpoints[c].time \in Nat
  BY <1>1 DEF Orphans, TypeInv, TypeOK, CheckpointsOK, Checkpoint
<1>3. CASE PruneCheckpoint
  <2>1. PICK c \in Orphans : checkpoints' = [u \in DOMAIN checkpoints \ {c} |-> checkpoints[u]]
    BY <1>3 DEF PruneCheckpoint
  <2>2. c # t
    BY <1>2, <2>1
  <2>. QED  BY <1>1, <1>3, <2>1, <2>2 DEF PruneCheckpoint, session, TimelineInv, TimelineLinear
<1>4. CASE PruneDone
  <2>1. \A c \in DOMAIN checkpoints : checkpoints[c].time <= checkpoints[t].time
    BY <1>2, <1>4 DEF PruneDone
  <2>2. \A c \in DOMAIN checkpoints : IsPrefixOf(checkpoints[c].messages, messages)
    BY <1>1, <2>1 DEF TimelineInv, TimelineLinear
  <2>. QED  BY <1>4, <2>2 DEF PruneDone, session, TimelineInv, TimelineLinear
<1>. QED  BY <1>3, <1>4

LEMMA NextTimeline ==
  ASSUME TypeInv, TimelineInv, [Next]_vars
  PROVE  TimelineInv'
<1>1. CASE TurnStep
  BY <1>1, TurnTimeline
<1>2. CASE BeginUndo \/ FinishUndo \/ RestoreFile
  BY <1>2, SameTimeline DEF BeginUndo, FinishUndo, RestoreFile, Walking, session
<1>3. CASE \E t \in Tags, skip \in BOOLEAN : BeginRollback(t, skip)
  BY <1>3, SameTimeline DEF BeginRollback, session
<1>4. CASE FinishRollback
  BY <1>4, FinishRollbackTimeline
<1>5. CASE PruneCheckpoint \/ PruneDone
  BY <1>5, PruneTimeline
<1>6. CASE \E t \in Tags : CreateCheckpoint(t)
  BY <1>6, CreateTimeline
<1>7. CASE \E f \in Files, v \in Value : ExternalEdit(f, v)
  <2>1. /\ UNCHANGED <<checkpoints, messages, phase>> /\ counters'.time = counters.time
        /\ walk'.tag = walk.tag
    BY <1>7 DEF ExternalEdit, session, TypeInv, TypeOK, ControlOK, Walk
  <2>. QED  BY <2>1 DEF TimelineInv, TimelineLinear
<1>8. CASE UNCHANGED vars
  BY <1>8 DEF vars, TimelineInv, TimelineLinear
<1>. QED  BY <1>1, <1>2, <1>3, <1>4, <1>5, <1>6, <1>7, <1>8 DEF Next, HistoryStep

\* As long as no crash separates a rollback from its pruning, checkpoints form
\* one timeline that ends in the live conversation.
THEOREM Timeline == Spec => []TimelineLinear
<1>1. Init => TimelineInv
  BY DEF Init, TimelineInv, TimelineLinear
<1>2. TypeInv /\ TimelineInv /\ [Next]_vars => TypeInv' /\ TimelineInv'
  BY NextTypeInv, NextTimeline
<1>3. TimelineInv => TimelineLinear
  BY DEF TimelineInv
<1>. QED  BY <1>1, <1>2, <1>3, InitTypeInv, PTL DEF Spec
-----------------------------------------------------------------------------
(* Undo records and the workspace they lead back to.                       *)

\* F holds the records of each entry. A region is what lies above the entry from, up to
\* the entry full, with the first records, part of them, of the entry after it.
Count(F, full, part, e) == IF e <= full THEN Len(F[e]) ELSE part

At(F, from, full, part, e, j) == e \in from+1..full+1 /\ j \in 1..Count(F, full, part, e)

Untouched(F, from, full, part, f) ==
  \A e \in from+1..full+1 : \A j \in 1..Count(F, full, part, e) : F[e][j].path # f

\* The oldest record of f in the region has the content v.
OldestHas(F, from, full, part, f, v) ==
  \E e \in from+1..full+1 : \E j \in 1..Count(F, full, part, e) :
    /\ F[e][j].path = f /\ F[e][j].before = v
    /\ \A g \in from+1..full+1 : \A k \in 1..Count(F, full, part, g) :
         F[g][k].path = f => e < g \/ (e = g /\ j <= k)

\* Restoring the region from its newest record to its oldest, where f is now as it is,
\* leaves v in f.
Traced(F, from, full, part, f, now, v) ==
  \/ Untouched(F, from, full, part, f) /\ now = v
  \/ OldestHas(F, from, full, part, f, v)

LEMMA TracedBy ==
  ASSUME NEW F, NEW from, NEW full, NEW part, NEW f, NEW now, NEW v
  PROVE  Traced(F, from, full, part, f, now, v) <=>
           \/ now = v /\ \A e, j : At(F, from, full, part, e, j) => F[e][j].path # f
           \/ \E e, j : /\ At(F, from, full, part, e, j) /\ F[e][j].path = f /\ F[e][j].before = v
                        /\ \A g, k : At(F, from, full, part, g, k) /\ F[g][k].path = f => e < g \/ (e = g /\ j <= k)
BY DEF Traced, Untouched, OldestHas, At

\* The same records in the same order.
LEMMA SameRecords ==
  ASSUME NEW F, NEW from, NEW full, NEW part, NEW G, NEW bottom, NEW top, NEW rest, NEW f, NEW now, NEW v,
         \A e, j : At(G, bottom, top, rest, e, j) <=> At(F, from, full, part, e, j),
         \A e, j : At(F, from, full, part, e, j) => G[e][j] = F[e][j],
         Traced(F, from, full, part, f, now, v)
  PROVE  Traced(G, bottom, top, rest, f, now, v)
<1> DEFINE InF(e, j) == At(F, from, full, part, e, j)
           InG(e, j) == At(G, bottom, top, rest, e, j)
<1>1. \A e, j : (InG(e, j) <=> InF(e, j)) /\ (InF(e, j) => G[e][j] = F[e][j])
  OBVIOUS
<1>2. \/ now = v /\ \A e, j : InF(e, j) => F[e][j].path # f
      \/ \E e, j : /\ InF(e, j) /\ F[e][j].path = f /\ F[e][j].before = v
                   /\ \A g, k : InF(g, k) /\ F[g][k].path = f => e < g \/ (e = g /\ j <= k)
  BY TracedBy
<1> HIDE DEF InF, InG
<1>3. \/ now = v /\ \A e, j : InG(e, j) => G[e][j].path # f
      \/ \E e, j : /\ InG(e, j) /\ G[e][j].path = f /\ G[e][j].before = v
                   /\ \A g, k : InG(g, k) /\ G[g][k].path = f => e < g \/ (e = g /\ j <= k)
  <2>1. CASE now = v /\ \A e, j : InF(e, j) => F[e][j].path # f
    BY <1>1, <2>1
  <2>2. CASE \E e, j : /\ InF(e, j) /\ F[e][j].path = f /\ F[e][j].before = v
                       /\ \A g, k : InF(g, k) /\ F[g][k].path = f => e < g \/ (e = g /\ j <= k)
    <3>1. PICK e, j : /\ InF(e, j) /\ F[e][j].path = f /\ F[e][j].before = v
                      /\ \A g, k : InF(g, k) /\ F[g][k].path = f => e < g \/ (e = g /\ j <= k)
      BY <2>2
    <3>2. InG(e, j) /\ G[e][j].path = f /\ G[e][j].before = v
      BY <1>1, <3>1
    <3>3. \A g, k : InG(g, k) /\ G[g][k].path = f => e < g \/ (e = g /\ j <= k)
      BY <1>1, <3>1
    <3>. QED  BY <3>2, <3>3
  <2>. QED  BY <1>2, <2>1, <2>2
<1>. QED  BY <1>3, TracedBy DEF InG

\* A newer record, of a file that is written then.
LEMMA MoreRecords ==
  ASSUME NEW F, NEW from, NEW full, NEW part, NEW G, NEW bottom, NEW top, NEW rest, NEW f, NEW now, NEW later, NEW v,
         NEW a \in Int, NEW b \in Int,
         \A e, j : At(G, bottom, top, rest, e, j) <=> At(F, from, full, part, e, j) \/ (e = a /\ j = b),
         \A e, j : At(F, from, full, part, e, j) => G[e][j] = F[e][j] /\ (e < a \/ (e = a /\ j <= b)),
         IF G[a][b].path = f THEN G[a][b].before = now ELSE later = now,
         Traced(F, from, full, part, f, now, v)
  PROVE  Traced(G, bottom, top, rest, f, later, v)
<1> DEFINE InF(e, j) == At(F, from, full, part, e, j)
           InG(e, j) == At(G, bottom, top, rest, e, j)
<1>1. /\ \A e, j : (InG(e, j) <=> InF(e, j) \/ (e = a /\ j = b))
      /\ \A e, j : InF(e, j) => G[e][j] = F[e][j] /\ (e < a \/ (e = a /\ j <= b))
  OBVIOUS
<1>2. \/ now = v /\ \A e, j : InF(e, j) => F[e][j].path # f
      \/ \E e, j : /\ InF(e, j) /\ F[e][j].path = f /\ F[e][j].before = v
                   /\ \A g, k : InF(g, k) /\ F[g][k].path = f => e < g \/ (e = g /\ j <= k)
  BY TracedBy
<1> HIDE DEF InF, InG
<1>3. \/ later = v /\ \A e, j : InG(e, j) => G[e][j].path # f
      \/ \E e, j : /\ InG(e, j) /\ G[e][j].path = f /\ G[e][j].before = v
                   /\ \A g, k : InG(g, k) /\ G[g][k].path = f => e < g \/ (e = g /\ j <= k)
  <2>1. CASE now = v /\ \A e, j : InF(e, j) => F[e][j].path # f
    <3>1. CASE G[a][b].path = f
      <4>1. InG(a, b) /\ G[a][b].before = v
        BY <1>1, <2>1, <3>1
      <4>2. \A g, k : InG(g, k) /\ G[g][k].path = f => g = a /\ k = b
        BY <1>1, <2>1
      <4>3. b <= b
        OBVIOUS
      <4>. QED  BY <3>1, <4>1, <4>2, <4>3
    <3>2. CASE G[a][b].path # f
      BY <1>1, <2>1, <3>2
    <3>. QED  BY <3>1, <3>2
  <2>2. CASE \E e, j : /\ InF(e, j) /\ F[e][j].path = f /\ F[e][j].before = v
                       /\ \A g, k : InF(g, k) /\ F[g][k].path = f => e < g \/ (e = g /\ j <= k)
    <3>1. PICK e, j : /\ InF(e, j) /\ F[e][j].path = f /\ F[e][j].before = v
                      /\ \A g, k : InF(g, k) /\ F[g][k].path = f => e < g \/ (e = g /\ j <= k)
      BY <2>2
    <3>2. InG(e, j) /\ G[e][j].path = f /\ G[e][j].before = v /\ (e < a \/ (e = a /\ j <= b))
      BY <1>1, <3>1
    <3>3. \A g, k : InG(g, k) /\ G[g][k].path = f => e < g \/ (e = g /\ j <= k)
      BY <1>1, <3>1, <3>2
    <3>. QED  BY <3>2, <3>3
  <2>. QED  BY <1>2, <2>1, <2>2
<1>. QED  BY <1>3, TracedBy DEF InG

\* The newest record is restored.
LEMMA FewerRecords ==
  ASSUME NEW F, NEW from, NEW full, NEW part, NEW G, NEW bottom, NEW top, NEW rest, NEW f, NEW now, NEW later, NEW v,
         NEW a \in Int, NEW b \in Int, At(F, from, full, part, a, b),
         \A e, j : At(G, bottom, top, rest, e, j) <=> At(F, from, full, part, e, j) /\ ~(e = a /\ j = b),
         \A e, j : At(F, from, full, part, e, j) => G[e][j] = F[e][j],
         \A e, j : At(G, bottom, top, rest, e, j) => e \in Int /\ j \in Int /\ (e < a \/ (e = a /\ j < b)),
         IF F[a][b].path = f THEN later = F[a][b].before ELSE later = now,
         Traced(F, from, full, part, f, now, v)
  PROVE  Traced(G, bottom, top, rest, f, later, v)
<1> DEFINE InF(e, j) == At(F, from, full, part, e, j)
           InG(e, j) == At(G, bottom, top, rest, e, j)
<1>1. /\ \A e, j : (InG(e, j) <=> InF(e, j) /\ ~(e = a /\ j = b))
      /\ \A e, j : InF(e, j) => G[e][j] = F[e][j]
      /\ \A e, j : InG(e, j) => e \in Int /\ j \in Int /\ (e < a \/ (e = a /\ j < b))
      /\ InF(a, b)
  OBVIOUS
<1>2. \/ now = v /\ \A e, j : InF(e, j) => F[e][j].path # f
      \/ \E e, j : /\ InF(e, j) /\ F[e][j].path = f /\ F[e][j].before = v
                   /\ \A g, k : InF(g, k) /\ F[g][k].path = f => e < g \/ (e = g /\ j <= k)
  BY TracedBy
<1> HIDE DEF InF, InG
<1>3. \/ later = v /\ \A e, j : InG(e, j) => G[e][j].path # f
      \/ \E e, j : /\ InG(e, j) /\ G[e][j].path = f /\ G[e][j].before = v
                   /\ \A g, k : InG(g, k) /\ G[g][k].path = f => e < g \/ (e = g /\ j <= k)
  <2>1. CASE now = v /\ \A e, j : InF(e, j) => F[e][j].path # f
    BY <1>1, <2>1
  <2>2. CASE \E e, j : /\ InF(e, j) /\ F[e][j].path = f /\ F[e][j].before = v
                       /\ \A g, k : InF(g, k) /\ F[g][k].path = f => e < g \/ (e = g /\ j <= k)
    <3>1. PICK e, j : /\ InF(e, j) /\ F[e][j].path = f /\ F[e][j].before = v
                      /\ \A g, k : InF(g, k) /\ F[g][k].path = f => e < g \/ (e = g /\ j <= k)
      BY <2>2
    <3>2. CASE e = a /\ j = b
      <4>1. \A g, k : InG(g, k) => G[g][k].path # f
        <5>1. SUFFICES ASSUME NEW g, NEW k, InG(g, k), G[g][k].path = f PROVE FALSE
          OBVIOUS
        <5>2. a < g \/ (a = g /\ b <= k)
          BY <1>1, <3>1, <3>2, <5>1
        <5>. QED  BY <1>1, <5>1, <5>2
      <4>. QED  BY <3>1, <3>2, <4>1
    <3>3. CASE ~(e = a /\ j = b)
      <4>1. InG(e, j) /\ G[e][j].path = f /\ G[e][j].before = v
        BY <1>1, <3>1, <3>3
      <4>2. \A g, k : InG(g, k) /\ G[g][k].path = f => e < g \/ (e = g /\ j <= k)
        BY <1>1, <3>1
      <4>. QED  BY <4>1, <4>2
    <3>. QED  BY <3>2, <3>3
  <2>. QED  BY <1>2, <2>1, <2>2
<1>. QED  BY <1>3, TracedBy DEF InG

\* Records of other files come and go.
LEMMA OtherRecords ==
  ASSUME NEW F, NEW from, NEW full, NEW part, NEW G, NEW bottom, NEW top, NEW rest, NEW f, NEW now, NEW v,
         \A e, j : At(G, bottom, top, rest, e, j) /\ G[e][j].path = f => At(F, from, full, part, e, j) /\ F[e][j] = G[e][j],
         \A e, j : At(F, from, full, part, e, j) /\ F[e][j].path = f => At(G, bottom, top, rest, e, j) /\ F[e][j] = G[e][j],
         Traced(F, from, full, part, f, now, v)
  PROVE  Traced(G, bottom, top, rest, f, now, v)
<1> DEFINE InF(e, j) == At(F, from, full, part, e, j)
           InG(e, j) == At(G, bottom, top, rest, e, j)
<1>1. /\ \A e, j : InG(e, j) /\ G[e][j].path = f => InF(e, j) /\ F[e][j] = G[e][j]
      /\ \A e, j : InF(e, j) /\ F[e][j].path = f => InG(e, j) /\ F[e][j] = G[e][j]
  OBVIOUS
<1>2. \/ now = v /\ \A e, j : InF(e, j) => F[e][j].path # f
      \/ \E e, j : /\ InF(e, j) /\ F[e][j].path = f /\ F[e][j].before = v
                   /\ \A g, k : InF(g, k) /\ F[g][k].path = f => e < g \/ (e = g /\ j <= k)
  BY TracedBy
<1> HIDE DEF InF, InG
<1>3. \/ now = v /\ \A e, j : InG(e, j) => G[e][j].path # f
      \/ \E e, j : /\ InG(e, j) /\ G[e][j].path = f /\ G[e][j].before = v
                   /\ \A g, k : InG(g, k) /\ G[g][k].path = f => e < g \/ (e = g /\ j <= k)
  <2>1. CASE now = v /\ \A e, j : InF(e, j) => F[e][j].path # f
    BY <1>1, <2>1
  <2>2. CASE \E e, j : /\ InF(e, j) /\ F[e][j].path = f /\ F[e][j].before = v
                       /\ \A g, k : InF(g, k) /\ F[g][k].path = f => e < g \/ (e = g /\ j <= k)
    <3>1. PICK e, j : /\ InF(e, j) /\ F[e][j].path = f /\ F[e][j].before = v
                      /\ \A g, k : InF(g, k) /\ F[g][k].path = f => e < g \/ (e = g /\ j <= k)
      BY <2>2
    <3>2. InG(e, j) /\ G[e][j].path = f /\ G[e][j].before = v
      BY <1>1, <3>1
    <3>3. \A g, k : InG(g, k) /\ G[g][k].path = f => e < g \/ (e = g /\ j <= k)
      <4>1. SUFFICES ASSUME NEW g, NEW k, InG(g, k), G[g][k].path = f PROVE e < g \/ (e = g /\ j <= k)
        OBVIOUS
      <4>2. InF(g, k) /\ F[g][k].path = f
        BY <1>1, <4>1
      <4>. QED  BY <3>1, <4>2
    <3>. QED  BY <3>2, <3>3
  <2>. QED  BY <1>2, <2>1, <2>2
<1>. QED  BY <1>3, TracedBy DEF InG
-----------------------------------------------------------------------------
(* The live workspace and every checkpoint lead back to what was checked   *)
(* in before them.                                                         *)

\* The records of each entry of the stack, and of the turn after them.
Layers == [e \in 1..Len(undoStack)+1 |-> IF e = Len(undoStack) + 1 THEN pending ELSE undoStack[e].files]

Depth(t) == Len(checkpoints[t].undo)

Kept(t) == [e \in 1..Depth(t) |-> checkpoints[t].undo[e].files]

\* The region that is still to be restored: a walk has done the rest.
Full == IF Walking THEN (IF WalkDone THEN walk.entry ELSE walk.entry - 1) ELSE Len(undoStack)

Part == IF Walking THEN (IF WalkDone THEN 0 ELSE walk.file)
        ELSE IF phase = "turn" THEN Len(pending) ELSE 0

\* The files a checkpoint knows everything about.
Known(t) == Files \ (untracked[t] \cup IF Walking THEN walk.skip ELSE {})

LiveInv ==
  phase # "prune" => \A t \in anchored :
    /\ Depth(t) <= IF Walking THEN walk.entry ELSE Len(undoStack)
    /\ \A f \in Known(t) : Traced(Layers, Depth(t), Full, Part, f, disk[f], snapshot[t][f])

ChainInv ==
  \A u, t \in anchored : checkpoints[u].time <= checkpoints[t].time =>
    /\ Depth(u) <= Depth(t) /\ untracked[t] \subseteq untracked[u]
    /\ \A f \in Files \ untracked[u] :
         Traced(Kept(t), Depth(u), Depth(t), 0, f, snapshot[t][f], snapshot[u][f])

PruneInv ==
  phase = "prune" => \E t \in DOMAIN checkpoints :
    /\ walk.tag = {t} /\ undoStack = checkpoints[t].undo /\ (t \in anchored \/ anchored = {})
    /\ t \in anchored => \A f \in Files \ untracked[t] : disk[f] = snapshot[t][f]

WalkInv ==
  /\ phase = "undo" => /\ walk.floor = Len(undoStack) - 1 /\ walk.skip = {}
                       /\ walk.entry \in {Len(undoStack) - 1, Len(undoStack)}
  /\ phase = "rollback" => \E t \in DOMAIN checkpoints : walk.tag = {t} /\ walk.floor = Depth(t)
  /\ Walking => walk.entry <= Len(undoStack)

RollbackInv == LiveInv /\ ChainInv /\ PruneInv /\ WalkInv

\* What TypeInv says of the stack, the walk and the checkpoints.
LEMMA StackFacts ==
  ASSUME TypeInv
  PROVE  /\ Len(undoStack) \in Nat /\ undoStack \in Seq(Entry) /\ pending \in Seq(Record) /\ Len(pending) \in Nat
         /\ DOMAIN Layers = 1..(Len(undoStack) + 1) /\ Layers[Len(undoStack) + 1] = pending
         /\ \A e \in 1..Len(undoStack) : /\ Layers[e] = undoStack[e].files /\ undoStack[e].files \in Seq(Record)
                                         /\ Len(undoStack[e].files) \in Nat
         /\ walk.entry \in Nat /\ walk.file \in Nat /\ walk.floor \in Nat
<1>1. undoStack \in Seq(Entry) /\ pending \in Seq(Record) /\ walk \in Walk
  BY DEF TypeInv, TypeOK, SessionOK, ControlOK, Stack
<1>2. \A e \in 1..Len(undoStack) : undoStack[e] \in Entry
  BY <1>1, ElementOfSeq
<1>3. Len(undoStack) \in Nat /\ Len(pending) \in Nat
  BY <1>1
<1>4. \A e \in 1..Len(undoStack) : undoStack[e].files \in Seq(Record) /\ Len(undoStack[e].files) \in Nat
  BY <1>2 DEF Entry
<1>. QED  BY <1>1, <1>3, <1>4 DEF Layers, Walk

LEMMA CheckpointFacts ==
  ASSUME TypeInv, NEW t \in anchored
  PROVE  /\ t \in DOMAIN checkpoints /\ t \in Tags /\ Depth(t) \in Nat /\ checkpoints[t].time \in Nat
         /\ DOMAIN Kept(t) = 1..Depth(t)
         /\ \A e \in 1..Depth(t) : Kept(t)[e] = checkpoints[t].undo[e].files /\ Len(Kept(t)[e]) \in Nat
         /\ untracked[t] \subseteq Files
<1>1. t \in DOMAIN checkpoints /\ t \in Tags /\ checkpoints[t] \in Checkpoint /\ untracked[t] \subseteq Files
  BY DEF TypeInv, TypeOK, CheckpointsOK, WorkspaceOK
<1>2. checkpoints[t].time \in Nat /\ checkpoints[t].undo \in Seq(Entry)
  BY <1>1 DEF Checkpoint, Stack
<1>3. \A e \in 1..Len(checkpoints[t].undo) : checkpoints[t].undo[e] \in Entry
  BY <1>2, ElementOfSeq
<1>4. Depth(t) \in Nat
  BY <1>2 DEF Depth
<1>5. \A e \in 1..Depth(t) : Kept(t)[e] = checkpoints[t].undo[e].files /\ Len(Kept(t)[e]) \in Nat
  BY <1>3 DEF Kept, Depth, Entry
<1>. QED  BY <1>1, <1>2, <1>4, <1>5 DEF Kept

\* The checkpoints and what is known about them stay, or get fewer.
LEMMA ChainStays ==
  ASSUME ChainInv, anchored' \subseteq anchored, snapshot' = snapshot,
         \A t \in anchored' : checkpoints'[t] = checkpoints[t],
         \E new \in SUBSET Files : \A t \in anchored' : untracked'[t] = untracked[t] \cup new
  PROVE  ChainInv'
<1>1. PICK new \in SUBSET Files : \A t \in anchored' : untracked'[t] = untracked[t] \cup new
  OBVIOUS
<1>2. \A t \in anchored' : Depth(t)' = Depth(t) /\ Kept(t)' = Kept(t)
  BY DEF Depth, Kept
<1>3. ASSUME NEW u \in anchored', NEW t \in anchored', checkpoints'[u].time <= checkpoints'[t].time
      PROVE  /\ Depth(u)' <= Depth(t)' /\ untracked'[t] \subseteq untracked'[u]
             /\ \A f \in Files \ untracked'[u] :
                  Traced(Kept(t)', Depth(u)', Depth(t)', 0, f, snapshot'[t][f], snapshot'[u][f])
  <2>1. /\ Depth(u) <= Depth(t) /\ untracked[t] \subseteq untracked[u]
        /\ \A f \in Files \ untracked[u] :
             Traced(Kept(t), Depth(u), Depth(t), 0, f, snapshot[t][f], snapshot[u][f])
    BY <1>3 DEF ChainInv
  <2>. QED  BY <1>1, <1>2, <2>1
<1>. QED  BY <1>3 DEF ChainInv, Traced, Untouched, OldestHas, Count

\* A whole entry, counted as full or as part.
LEMMA Edge ==
  ASSUME NEW F, NEW from \in Nat, NEW m \in Nat \ {0}, from <= m
  PROVE  \A e, j : At(F, from, m, 0, e, j) <=> At(F, from, m - 1, Len(F[m]), e, j)
<1>1. ASSUME NEW e, NEW j
      PROVE  At(F, from, m, 0, e, j) <=> At(F, from, m - 1, Len(F[m]), e, j)
  <2>1. CASE e \in from + 1 .. m - 1
    BY <2>1 DEF At, Count
  <2>2. CASE e = m
    BY <2>2 DEF At, Count
  <2>3. CASE e \notin from + 1 .. m
    <3>1. ~At(F, from, m, 0, e, j)
      <4>1. CASE e \in from + 1 .. m + 1
        <5>1. e = m + 1
          BY <2>3, <4>1
        <5>. QED  BY <5>1 DEF At, Count
      <4>. QED  BY <4>1 DEF At
    <3>2. m - 1 + 1 = m
      OBVIOUS
    <3>3. ~At(F, from, m - 1, Len(F[m]), e, j)
      BY <2>3, <3>2 DEF At
    <3>. QED  BY <3>1, <3>3
  <2>. QED  BY <2>1, <2>2, <2>3
<1>. QED  BY <1>1

\* One record less.
LEMMA OneLess ==
  ASSUME NEW F, NEW from \in Nat, NEW a \in Nat, NEW b \in Nat \ {0}, from < a
  PROVE  /\ At(F, from, a - 1, b, a, b)
         /\ \A e, j : At(F, from, a - 1, b - 1, e, j) <=> At(F, from, a - 1, b, e, j) /\ ~(e = a /\ j = b)
<1>1. At(F, from, a - 1, b, a, b)
  BY DEF At, Count
<1>2. ASSUME NEW e, NEW j
      PROVE  At(F, from, a - 1, b - 1, e, j) <=> At(F, from, a - 1, b, e, j) /\ ~(e = a /\ j = b)
  <2>1. CASE e \in from + 1 .. a - 1
    BY <2>1 DEF At, Count
  <2>2. CASE e = a
    BY <2>2 DEF At, Count
  <2>3. CASE e \notin from + 1 .. a
    BY <2>3 DEF At
  <2>. QED  BY <2>1, <2>2, <2>3
<1>. QED  BY <1>1, <1>2

\* The same entries below, and no part of the one above them.
LEMMA WholeEntries ==
  ASSUME NEW F, NEW G, NEW from \in Nat, NEW m \in Nat, \A e \in 1..m : G[e] = F[e]
  PROVE  /\ \A e, j : At(G, from, m, 0, e, j) <=> At(F, from, m, 0, e, j)
         /\ \A e, j : At(F, from, m, 0, e, j) => e \in 1..m /\ G[e][j] = F[e][j]
<1>1. ASSUME NEW e, NEW j
      PROVE  /\ At(G, from, m, 0, e, j) <=> At(F, from, m, 0, e, j)
             /\ At(F, from, m, 0, e, j) => e \in 1..m /\ G[e][j] = F[e][j]
  <2>1. CASE e \in from + 1 .. m
    <3>1. e \in 1..m /\ G[e] = F[e]
      BY <2>1
    <3>. QED  BY <2>1, <3>1 DEF At, Count
  <2>2. CASE e = m + 1
    BY <2>2 DEF At, Count
  <2>3. CASE e \notin from + 1 .. m + 1
    BY <2>3 DEF At
  <2>. QED  BY <2>1, <2>2, <2>3
<1>. QED  BY <1>1

\* LiveInv after a step that leaves the checkpoints alone.
LEMMA LiveStep ==
  ASSUME LiveInv, phase # "prune", checkpoints' = checkpoints, snapshot' = snapshot,
         anchored' \subseteq anchored,
         \A t \in anchored' : Depth(t) <= IF Walking' THEN walk'.entry ELSE Len(undoStack'),
         \A t \in anchored' : Known(t)' \subseteq Known(t),
         \A t \in anchored' : \A f \in Known(t)' : \A v :
           Traced(Layers, Depth(t), Full, Part, f, disk[f], v)
             => Traced(Layers', Depth(t), Full', Part', f, disk'[f], v)
  PROVE  LiveInv'
<1>1. ASSUME NEW t \in anchored'
      PROVE  /\ Depth(t)' = Depth(t)
             /\ \A f \in Known(t)' :
                  Traced(Layers', Depth(t), Full', Part', f, disk'[f], snapshot'[t][f])
  <2>1. t \in anchored
    BY <1>1
  <2>2. \A f \in Known(t) : Traced(Layers, Depth(t), Full, Part, f, disk[f], snapshot[t][f])
    BY <2>1 DEF LiveInv
  <2>3. Depth(t)' = Depth(t)
    BY DEF Depth
  <2>. QED  BY <1>1, <2>2, <2>3
<1>2. \A t \in anchored' :
        /\ Depth(t)' <= IF Walking' THEN walk'.entry ELSE Len(undoStack')
        /\ \A f \in Known(t)' :
             Traced(Layers', Depth(t)', Full', Part', f, disk'[f], snapshot'[t][f])
  BY <1>1
<1>. QED  BY <1>2 DEF LiveInv, Traced, Untouched, OldestHas, Count

\* What is still to be restored when nothing is being restored.
LEMMA IdleRegion == phase = "idle" => ~Walking /\ Full = Len(undoStack) /\ Part = 0
BY DEF Walking, Full, Part

LEMMA TurnRegion == phase = "turn" => ~Walking /\ Full = Len(undoStack) /\ Part = Len(pending)
BY DEF Walking, Full, Part

\* The records of the turn are dropped and the files they name forgotten.
LEMMA DroppedLive ==
  ASSUME TypeInv, LiveInv, phase = "turn", phase' = "idle", pending' \in {<<>>, pending},
         Untrack(Paths(pending)),
         UNCHANGED <<disk, undoStack, checkpoints, snapshot, anchored>>
  PROVE  LiveInv'
<1>1. /\ ~Walking /\ Full = Len(undoStack) /\ Part = Len(pending)
      /\ ~Walking' /\ Full' = Len(undoStack) /\ Part' = 0
  BY DEF Walking, Full, Part
<1>2. /\ Len(undoStack) \in Nat /\ Len(pending) \in Nat
      /\ Layers[Len(undoStack) + 1] = pending
      /\ \A e \in 1..Len(undoStack) : Layers'[e] = Layers[e]
  BY StackFacts DEF Layers
<1>3. ASSUME NEW t \in anchored
      PROVE  /\ Depth(t) <= Len(undoStack) /\ Depth(t) \in Nat
             /\ Known(t)' \subseteq Known(t) \ Paths(pending)
  <2>1. Depth(t) <= Len(undoStack) /\ Depth(t) \in Nat /\ t \in Tags
    BY <1>1, CheckpointFacts DEF LiveInv
  <2>. QED  BY <1>1, <2>1 DEF Known, Untrack
<1>4. ASSUME NEW t \in anchored, NEW f \in Known(t)', NEW v,
             Traced(Layers, Depth(t), Full, Part, f, disk[f], v)
      PROVE  Traced(Layers', Depth(t), Full', Part', f, disk'[f], v)
  <2> DEFINE n == Len(undoStack)
  <2>1. PICK d \in Nat : d = Depth(t)
    BY <1>3
  <2>2. f \notin Paths(pending)
    BY <1>3
  <2>3. /\ \A e, j : At(Layers', d, n, 0, e, j) <=> At(Layers, d, n, 0, e, j)
        /\ \A e, j : At(Layers, d, n, 0, e, j) => e \in 1..n /\ Layers'[e][j] = Layers[e][j]
    BY <1>2, WholeEntries
  <2>4. \A e, j : At(Layers, d, n, 0, e, j) => At(Layers, d, n, Len(pending), e, j)
    BY <1>2 DEF At, Count
  <2>5. \A e, j : At(Layers, d, n, Len(pending), e, j) /\ Layers[e][j].path = f
                    => At(Layers, d, n, 0, e, j)
    <3>1. SUFFICES ASSUME NEW e, NEW j, At(Layers, d, n, Len(pending), e, j), Layers[e][j].path = f
                   PROVE  e \in d + 1 .. n
      BY <1>2 DEF At, Count
    <3>2. e \in d + 1 .. n + 1 /\ (e = n + 1 => j \in 1..Len(pending))
      BY <1>2, <3>1 DEF At, Count
    <3>3. e # n + 1
      BY <1>2, <2>2, <3>1, <3>2 DEF Paths
    <3>. QED  BY <1>2, <3>2, <3>3
  <2>. QED  BY <1>1, <1>4, <2>1, <2>3, <2>4, <2>5, OtherRecords
<1>. QED  BY <1>1, <1>3, <1>4, LiveStep

\* Steps that touch neither the workspace nor the stack and stay in their phase.
LEMMA SameLive ==
  ASSUME LiveInv, phase # "prune",
         UNCHANGED <<disk, undoStack, pending, checkpoints, phase, walk, snapshot, untracked, anchored>>
  PROVE  LiveInv'
<1>1. Layers' = Layers /\ Full' = Full /\ Part' = Part /\ Walking' = Walking
  BY DEF Layers, Full, Part, Walking, WalkDone
<1>2. \A t \in anchored : Known(t)' = Known(t) /\ Depth(t)' = Depth(t)
  BY <1>1 DEF Known, Depth
<1>. QED  BY <1>1, <1>2, LiveStep DEF LiveInv

LEMMA RunTurnLive ==
  ASSUME TypeInv, LiveInv, RunTurn
  PROVE  LiveInv'
<1>1. /\ UNCHANGED <<disk, undoStack, checkpoints, walk, snapshot, untracked, anchored>>
      /\ phase = "idle" /\ phase' = "turn" /\ pending' = <<>>
  BY DEF RunTurn, ghosts
<1>2. /\ ~Walking /\ Full = Len(undoStack) /\ Part = 0
      /\ ~Walking' /\ Full' = Len(undoStack) /\ Part' = 0
  BY <1>1 DEF Walking, Full, Part
<1>3. Len(undoStack) \in Nat /\ \A e \in 1..Len(undoStack) : Layers'[e] = Layers[e]
  BY <1>1, StackFacts DEF Layers
<1>4. \A t \in anchored : /\ Depth(t) <= Len(undoStack) /\ Depth(t) \in Nat
                          /\ Known(t)' = Known(t)
  BY <1>1, <1>2, CheckpointFacts DEF LiveInv, Known
<1>5. ASSUME NEW t \in anchored, NEW f, NEW v,
             Traced(Layers, Depth(t), Full, Part, f, disk[f], v)
      PROVE  Traced(Layers', Depth(t), Full', Part', f, disk'[f], v)
  <2> DEFINE n == Len(undoStack)
  <2>1. PICK d \in Nat : d = Depth(t)
    BY <1>4
  <2>2. /\ \A e, j : At(Layers', d, n, 0, e, j) <=> At(Layers, d, n, 0, e, j)
        /\ \A e, j : At(Layers, d, n, 0, e, j) => e \in 1..n /\ Layers'[e][j] = Layers[e][j]
    BY <1>3, WholeEntries
  <2>. QED  BY <1>1, <1>2, <1>5, <2>1, <2>2, SameRecords
<1>. QED  BY <1>1, <1>2, <1>4, <1>5, LiveStep

LEMMA WriteFileLive ==
  ASSUME TypeInv, LiveInv, NEW g \in Files, NEW c \in Contents, WriteFile(g, c)
  PROVE  LiveInv'
<1>1. /\ UNCHANGED <<undoStack, checkpoints, walk, snapshot, untracked, anchored>>
      /\ phase = "turn" /\ phase' = "turn"
      /\ disk' = [disk EXCEPT ![g] = c]
      /\ pending' = Append(pending, [path |-> g, before |-> disk[g]])
  BY DEF WriteFile, ghosts, InLoop
<1>2. /\ Len(undoStack) \in Nat /\ Len(pending) \in Nat /\ pending \in Seq(Record)
      /\ DOMAIN disk = Files
      /\ Layers[Len(undoStack) + 1] = pending /\ Layers'[Len(undoStack) + 1] = pending'
      /\ \A e \in 1..Len(undoStack) : Layers'[e] = Layers[e]
  BY <1>1, StackFacts DEF Layers, TypeInv, TypeOK, WorkspaceOK
<1>3. /\ Len(pending') = Len(pending) + 1 /\ \A j \in 1..Len(pending) : pending'[j] = pending[j]
      /\ pending'[Len(pending) + 1] = [path |-> g, before |-> disk[g]]
  BY <1>1, <1>2
<1>4. /\ ~Walking /\ Full = Len(undoStack) /\ Part = Len(pending)
      /\ ~Walking' /\ Full' = Len(undoStack) /\ Part' = Len(pending) + 1
  BY <1>1, <1>3 DEF Walking, Full, Part
<1>5. \A t \in anchored : /\ Depth(t) <= Len(undoStack) /\ Depth(t) \in Nat
                          /\ Known(t)' = Known(t) /\ Known(t) \subseteq Files
  BY <1>1, <1>4, CheckpointFacts DEF LiveInv, Known
<1>6. ASSUME NEW t \in anchored, NEW f \in Files, NEW v,
             Traced(Layers, Depth(t), Full, Part, f, disk[f], v)
      PROVE  Traced(Layers', Depth(t), Full', Part', f, disk'[f], v)
  <2> DEFINE n == Len(undoStack)
             p == Len(pending)
  <2>1. PICK d \in Nat : d = Depth(t) /\ d <= n
    BY <1>5
  <2>2. \A e, j : At(Layers', d, n, p + 1, e, j) <=> At(Layers, d, n, p, e, j) \/ (e = n + 1 /\ j = p + 1)
    <3>1. ASSUME NEW e, NEW j
          PROVE  At(Layers', d, n, p + 1, e, j) <=> At(Layers, d, n, p, e, j) \/ (e = n + 1 /\ j = p + 1)
      <4>1. CASE e \in d + 1 .. n
        BY <1>2, <2>1, <4>1 DEF At, Count
      <4>2. CASE e = n + 1
        BY <1>2, <2>1, <4>2 DEF At, Count
      <4>3. CASE e \notin d + 1 .. n + 1
        <5>1. e # n + 1
          BY <1>2, <2>1, <4>3
        <5>. QED  BY <4>3, <5>1 DEF At
      <4>. QED  BY <1>2, <2>1, <4>1, <4>2, <4>3
    <3>. QED  BY <3>1
  <2>3. \A e, j : At(Layers, d, n, p, e, j) =>
          Layers'[e][j] = Layers[e][j] /\ (e < n + 1 \/ (e = n + 1 /\ j <= p + 1))
    <3>1. SUFFICES ASSUME NEW e, NEW j, At(Layers, d, n, p, e, j)
                   PROVE  Layers'[e][j] = Layers[e][j] /\ (e < n + 1 \/ (e = n + 1 /\ j <= p + 1))
      OBVIOUS
    <3>2. CASE e \in d + 1 .. n
      BY <1>2, <2>1, <3>2
    <3>3. CASE e = n + 1
      BY <1>2, <1>3, <2>1, <3>1, <3>3 DEF At, Count
    <3>. QED  BY <1>2, <2>1, <3>1, <3>2, <3>3 DEF At
  <2>4. /\ Layers'[n + 1][p + 1] = [path |-> g, before |-> disk[g]]
        /\ disk'[f] = IF f = g THEN c ELSE disk[f]
    BY <1>1, <1>2, <1>3
  <2>5. IF Layers'[n + 1][p + 1].path = f THEN Layers'[n + 1][p + 1].before = disk[f] ELSE disk'[f] = disk[f]
    BY <2>4
  <2>6. n + 1 \in Int /\ p + 1 \in Int
    BY <1>2
  <2>7. Traced(Layers, d, n, p, f, disk[f], v)
    BY <1>4, <1>6, <2>1
  <2>8. Traced(Layers', d, n, p + 1, f, disk'[f], v)
    <3>1. PICK F, G, now, later, a, b : /\ F = Layers /\ G = Layers' /\ now = disk[f] /\ later = disk'[f]
                                        /\ a = n + 1 /\ b = p + 1
      OBVIOUS
    <3> HIDE DEF n, p
    <3>2. /\ \A e, j : At(G, d, n, b, e, j) <=> At(F, d, n, p, e, j) \/ (e = a /\ j = b)
          /\ \A e, j : At(F, d, n, p, e, j) => G[e][j] = F[e][j] /\ (e < a \/ (e = a /\ j <= b))
          /\ IF G[a][b].path = f THEN G[a][b].before = now ELSE later = now
          /\ a \in Int /\ b \in Int /\ Traced(F, d, n, p, f, now, v)
      BY <2>2, <2>3, <2>5, <2>6, <2>7, <3>1
    <3>3. Traced(G, d, n, b, f, later, v)
      BY ONLY <3>2, MoreRecords
    <3>. QED  BY <3>1, <3>3
  <2>. QED  BY <1>4, <2>1, <2>8
<1>. QED  BY <1>1, <1>4, <1>5, <1>6, LiveStep

LEMMA EndToolRoundLive ==
  ASSUME TypeInv, LiveInv, EndToolRound
  PROVE  LiveInv'
<1>1. /\ UNCHANGED <<disk, undoStack, pending, checkpoints, walk, snapshot, anchored>>
      /\ phase = "turn"
      /\ \/ phase' = "idle" /\ Untrack(Paths(pending))
         \/ phase' = "turn" /\ untracked' = untracked
  BY DEF EndToolRound, InLoop
<1>2. CASE phase' = "idle" /\ Untrack(Paths(pending))
  BY <1>1, <1>2, DroppedLive
<1>3. CASE phase' = "turn" /\ untracked' = untracked
  BY <1>1, <1>3, SameLive
<1>. QED  BY <1>1, <1>2, <1>3

\* The pending records become the newest entry, or the oldest is trimmed.
LEMMA CaptureLive ==
  ASSUME TypeInv, LiveInv, Capture, phase = "turn", phase' \in {"idle", "turn"},
         UNCHANGED <<disk, checkpoints, walk, snapshot, untracked>>
  PROVE  LiveInv'
<1>1. /\ ~Walking /\ Full = Len(undoStack) /\ Part = Len(pending)
      /\ ~Walking' /\ Full' = Len(undoStack') /\ Part' = 0
  BY DEF Walking, Full, Part, Capture
<1>2. /\ Len(undoStack) \in Nat /\ undoStack \in Seq(Entry)
      /\ Layers[Len(undoStack) + 1] = pending
      /\ \A e \in 1..Len(undoStack) : Layers[e] = undoStack[e].files
  BY StackFacts
<1>3. \A t \in anchored : /\ Depth(t) <= Len(undoStack) /\ Depth(t) \in Nat
                          /\ Known(t)' = Known(t)
  BY <1>1, CheckpointFacts DEF LiveInv, Known
<1>4. CASE Len(Captured) > MaxUndoTurns
  <2>1. anchored' = {}
    BY <1>4 DEF Capture
  <2>. QED  BY <2>1 DEF LiveInv
<1>5. CASE ~(Len(Captured) > MaxUndoTurns) /\ pending = <<>>
  <2>1. undoStack' = undoStack /\ pending' = pending /\ anchored' = anchored
    BY <1>2, <1>5, HistoryAssumption DEF Capture, Captured, NewestTurns
  <2>2. Layers' = Layers /\ Part = 0
    BY <1>1, <1>5, <2>1 DEF Layers
  <2>. QED  BY <1>1, <1>3, <2>1, <2>2, LiveStep
<1>6. CASE ~(Len(Captured) > MaxUndoTurns) /\ pending # <<>>
  <2> DEFINE n == Len(undoStack)
             new == [turn |-> counters.turns, files |-> pending]
  <2>1. undoStack' = Append(undoStack, new) /\ anchored' = anchored
    <3>1. Len(Captured) <= MaxUndoTurns
      BY <1>2, <1>6, HistoryAssumption DEF Captured
    <3>. QED  BY <1>6, <3>1 DEF Capture, Captured, NewestTurns
  <2>2. /\ Len(undoStack') = n + 1 /\ undoStack'[n + 1].files = pending
        /\ \A e \in 1..n : undoStack'[e] = undoStack[e]
    BY <1>2, <2>1
  <2>3. \A e \in 1..n + 1 : Layers'[e] = Layers[e]
    BY <1>2, <2>2 DEF Layers
  <2>4. ASSUME NEW t \in anchored, NEW f, NEW v,
               Traced(Layers, Depth(t), Full, Part, f, disk[f], v)
        PROVE  Traced(Layers', Depth(t), Full', Part', f, disk'[f], v)
    <3>1. PICK d \in Nat : d = Depth(t) /\ d <= n
      BY <1>3
    <3>2. PICK m \in Nat : m = n + 1 /\ m - 1 = n /\ m # 0 /\ d <= m
      BY <1>2, <3>1
    <3>3. \A e, j : At(Layers, d, m, 0, e, j) <=> At(Layers, d, n, Len(pending), e, j)
      BY <1>2, <3>1, <3>2, Edge
    <3>4. /\ \A e, j : At(Layers', d, m, 0, e, j) <=> At(Layers, d, m, 0, e, j)
          /\ \A e, j : At(Layers, d, m, 0, e, j) => Layers'[e][j] = Layers[e][j]
      BY <2>3, <3>1, <3>2, WholeEntries
    <3>5. Full' = m
      BY <1>1, <2>2, <3>2
    <3>. QED  BY <1>1, <2>4, <3>1, <3>3, <3>4, <3>5, SameRecords
  <2>5. \A t \in anchored : Depth(t) <= Len(undoStack')
    BY <1>2, <1>3, <2>2
  <2>. QED  BY <1>1, <1>3, <2>1, <2>4, <2>5, LiveStep
<1>. QED  BY <1>4, <1>5, <1>6

LEMMA TurnLive ==
  ASSUME TypeInv, LiveInv, TurnStep
  PROVE  LiveInv'
<1> USE DEF session, ghosts, InLoop
<1>1. CASE RunTurn
  BY <1>1, RunTurnLive
<1>2. CASE EndToolRound
  BY <1>2, EndToolRoundLive
<1>3. CASE TextReply
  BY <1>3, CaptureLive DEF TextReply
<1>4. CASE StopAfterMaxRounds
  BY <1>4, CaptureLive DEF StopAfterMaxRounds
<1>5. CASE Interrupt \/ Fail
  BY <1>5, DroppedLive DEF Interrupt, Fail
<1>6. CASE OtherTool
  BY <1>6, SameLive DEF OtherTool
<1>7. CASE \E f \in Files, c \in Contents : WriteFile(f, c)
  BY <1>7, WriteFileLive
<1>8. CASE \E open \in BOOLEAN : TodoWrite(open)
  BY <1>8, SameLive DEF TodoWrite
<1>. QED  BY <1>1, <1>2, <1>3, <1>4, <1>5, <1>6, <1>7, <1>8 DEF TurnStep

LEMMA BeginLive ==
  ASSUME TypeInv, LiveInv,
         BeginUndo \/ \E t \in Tags, skip \in BOOLEAN : BeginRollback(t, skip)
  PROVE  LiveInv'
<1>1. PICK floor, skip, tag : walk' = WalkFrom(Len(undoStack), floor, skip, tag)
  BY DEF BeginUndo, BeginRollback
<1>2. /\ UNCHANGED <<disk, undoStack, pending, checkpoints, snapshot, untracked, anchored>>
      /\ phase = "idle" /\ phase' \in {"undo", "rollback"}
  BY DEF BeginUndo, BeginRollback, session, ghosts
<1>3. /\ Len(undoStack) \in Nat /\ Layers' = Layers
      /\ \A e \in 1..Len(undoStack) : Layers[e] = undoStack[e].files
  BY <1>2, StackFacts DEF Layers
<1>4. /\ ~Walking /\ Full = Len(undoStack) /\ Part = 0 /\ Walking'
      /\ walk'.entry = Len(undoStack) /\ walk'.floor = floor
  BY <1>1, <1>2 DEF Walking, Full, Part, WalkFrom
<1>5. \A t \in anchored : /\ Depth(t) <= Len(undoStack) /\ Depth(t) \in Nat
                          /\ Known(t)' \subseteq Known(t)
  BY <1>2, <1>4, CheckpointFacts DEF LiveInv, Known
<1>6. TypeInv'
  BY BeginUndoTypeInv, BeginRollbackTypeInv
<1>7. ASSUME NEW t \in anchored, NEW f, NEW v,
             Traced(Layers, Depth(t), Full, Part, f, disk[f], v)
      PROVE  Traced(Layers', Depth(t), Full', Part', f, disk'[f], v)
  <2> DEFINE n == Len(undoStack)
  <2>1. CASE WalkDone'
    <3>1. Full' = n /\ Part' = 0
      BY <1>4, <2>1 DEF Full, Part
    <3>. QED  BY <1>2, <1>3, <1>4, <1>7, <3>1
  <2>2. CASE ~WalkDone'
    <3>1. n \in 1..n /\ n > floor
      BY <1>2, <1>4, <1>6, <2>2 DEF TypeInv, TypeOK, ControlOK, Walk, WalkOK, WalkDone
    <3>2. Full' = n - 1 /\ Part' = Len(Layers[n])
      BY <1>1, <1>3, <1>4, <2>2, <3>1 DEF Full, Part, WalkFrom
    <3>3. PICK d \in Nat : d = Depth(t) /\ d <= n
      BY <1>5
    <3>4. n \in Nat \ {0}
      BY <1>3, <3>1
    <3>5. \A e, j : At(Layers, d, n, 0, e, j) <=> At(Layers, d, n - 1, Len(Layers[n]), e, j)
      BY <3>3, <3>4, Edge
    <3>. QED  BY <1>2, <1>3, <1>4, <1>7, <3>2, <3>3, <3>5, SameRecords
  <2>. QED  BY <2>1, <2>2
<1>. QED  BY <1>2, <1>4, <1>5, <1>7, LiveStep

LEMMA FinishUndoLive ==
  ASSUME TypeInv, LiveInv, WalkInv, FinishUndo
  PROVE  LiveInv'
<1>1. /\ UNCHANGED <<disk, checkpoints, snapshot, untracked, anchored>>
      /\ phase = "undo" /\ WalkDone /\ phase' = "idle" /\ pending' = <<>>
      /\ undoStack # <<>> /\ undoStack' = SubSeq(undoStack, 1, Len(undoStack) - 1)
  BY DEF FinishUndo, ghosts, TypeInv, WalkOK
<1>2. PICK m \in Nat : m = Len(undoStack) - 1
  <2>1. undoStack \in Seq(Entry)
    BY StackFacts
  <2>2. Len(undoStack) \in Nat \ {0}
    BY <1>1, <2>1, EmptySeq
  <2>. QED  BY <2>2
<1>3. Len(undoStack') = m /\ \A e \in 1..m : undoStack'[e] = undoStack[e]
  BY <1>1, <1>2, StackFacts, PopSeq
<1>4. \A e \in 1..m : Layers'[e] = Layers[e]
  BY <1>2, <1>3, StackFacts DEF Layers
<1>5. walk.entry = m /\ walk.skip = {}
  BY <1>1, <1>2, StackFacts DEF WalkInv, WalkDone
<1>6. /\ Walking /\ Full = m /\ Part = 0 /\ ~Walking' /\ Full' = m /\ Part' = 0
  BY <1>1, <1>3, <1>5 DEF Walking, Full, Part
<1>7. \A t \in anchored : /\ Depth(t) <= m /\ Depth(t) \in Nat
                          /\ Known(t)' = Known(t)
  BY <1>1, <1>5, <1>6, CheckpointFacts DEF LiveInv, Known
<1>8. ASSUME NEW t \in anchored, NEW f, NEW v,
             Traced(Layers, Depth(t), Full, Part, f, disk[f], v)
      PROVE  Traced(Layers', Depth(t), Full', Part', f, disk'[f], v)
  <2>1. PICK d \in Nat : d = Depth(t)
    BY <1>7
  <2>2. /\ \A e, j : At(Layers', d, m, 0, e, j) <=> At(Layers, d, m, 0, e, j)
        /\ \A e, j : At(Layers, d, m, 0, e, j) => Layers'[e][j] = Layers[e][j]
    BY <1>4, WholeEntries
  <2>. QED  BY <1>1, <1>6, <1>8, <2>1, <2>2, SameRecords
<1>. QED  BY <1>1, <1>3, <1>6, <1>7, <1>8, LiveStep

LEMMA RestoreFileLive ==
  ASSUME TypeInv, LiveInv, RestoreFile
  PROVE  LiveInv'
<1>1. /\ UNCHANGED <<undoStack, pending, checkpoints, phase, snapshot, untracked>>
      /\ Walking /\ ~WalkDone /\ Layers' = Layers
      /\ anchored' = {t \in anchored : Depth(t) < walk.entry}
  BY DEF RestoreFile, session, Layers, Depth
<1>2. PICK a, b : a = walk.entry /\ b = walk.file
  OBVIOUS
<1>3. /\ a \in Nat /\ b \in Nat \ {0} /\ a \in 1..Len(undoStack) /\ b \in 1..Len(undoStack[a].files)
      /\ walk.floor \in Nat /\ Layers[a] = undoStack[a].files
  BY <1>1, <1>2, StackFacts DEF TypeInv, WalkOK
<1>4. /\ walk'.floor = walk.floor
      /\ b > 1 => walk'.entry = a /\ walk'.file = b - 1
      /\ ~(b > 1) => /\ walk'.entry = a - 1
                     /\ a - 1 > walk.floor => walk'.file = Len(undoStack[a - 1].files)
  BY <1>2, RestoreFileMoves DEF TypeInv, TypeOK
<1>5. walk'.skip = walk.skip
  BY DEF RestoreFile, TypeInv, TypeOK, ControlOK, Walk
<1>6. PICK r \in Record : r = Layers[a][b] /\ r = CurrentRecord
  BY <1>1, <1>2, <1>3, CurrentRecordType DEF CurrentRecord, TypeInv, TypeOK
<1>7. \A f \in Files \ walk.skip : disk'[f] = IF r.path = f THEN r.before ELSE disk[f]
  BY <1>6 DEF RestoreFile, Record, TypeInv, TypeOK, WorkspaceOK
<1>8. Full = a - 1 /\ Part = b /\ Walking'
  BY <1>1, <1>2 DEF Full, Part, Walking
<1>9. ASSUME NEW t \in anchored'
      PROVE  /\ Depth(t) \in Nat /\ Depth(t) < a /\ Depth(t) <= walk'.entry
             /\ Known(t)' = Known(t) /\ Known(t) \subseteq Files \ walk.skip
  <2>1. t \in anchored /\ Depth(t) < a
    BY <1>1, <1>2
  <2>2. Depth(t) \in Nat
    BY <2>1, CheckpointFacts
  <2>3. Known(t)' = Known(t) /\ Known(t) \subseteq Files \ walk.skip
    BY <1>1, <1>5, <1>8 DEF Known
  <2>. QED  BY <1>3, <1>4, <2>1, <2>2, <2>3
\* The region ends just below the record.
<1>10. ASSUME NEW d \in Nat, d < a
       PROVE  \A e, j : At(Layers, d, Full', Part', e, j) <=> At(Layers, d, a - 1, b - 1, e, j)
  <2>1. CASE b > 1
    <3>1. ~WalkDone'
      BY <1>1, <1>2, <1>4, <2>1 DEF WalkDone
    <3>2. Full' = a - 1 /\ Part' = b - 1
      BY <1>4, <1>8, <2>1, <3>1 DEF Full, Part
    <3>. QED  BY <3>2
  <2>2. CASE ~(b > 1) /\ WalkDone'
    <3>1. Full' = a - 1 /\ Part' = b - 1
      BY <1>3, <1>4, <1>8, <2>2 DEF Full, Part
    <3>. QED  BY <3>1
  <2>3. CASE ~(b > 1) /\ ~WalkDone'
    <3>1. a - 1 > walk.floor
      BY <1>3, <1>4, <2>3 DEF WalkDone
    <3>2. PICK m \in Nat \ {0} : m = a - 1 /\ d <= m /\ m \in 1..Len(undoStack)
      BY <1>3, <1>10, <3>1, StackFacts
    <3>3. Full' = m - 1 /\ Part' = Len(Layers[m])
      BY <1>4, <1>8, <2>3, <3>1, <3>2, StackFacts DEF Full, Part
    <3>4. b - 1 = 0
      BY <1>3, <2>3
    <3>. QED  BY <3>2, <3>3, <3>4, Edge
  <2>. QED  BY <2>1, <2>2, <2>3
<1>11. ASSUME NEW t \in anchored', NEW f \in Known(t)', NEW v,
              Traced(Layers, Depth(t), Full, Part, f, disk[f], v)
       PROVE  Traced(Layers', Depth(t), Full', Part', f, disk'[f], v)
  <2>1. PICK d \in Nat : d = Depth(t) /\ d < a
    BY <1>9
  <2>2. PICK full, part : full = Full' /\ part = Part'
    OBVIOUS
  <2>3. /\ At(Layers, d, a - 1, b, a, b)
        /\ \A e, j : At(Layers, d, full, part, e, j)
                       <=> At(Layers, d, a - 1, b, e, j) /\ ~(e = a /\ j = b)
    <3>1. /\ At(Layers, d, a - 1, b, a, b)
          /\ \A e, j : At(Layers, d, a - 1, b - 1, e, j)
                         <=> At(Layers, d, a - 1, b, e, j) /\ ~(e = a /\ j = b)
      <4>1. At(Layers, d, a - 1, b, a, b)
        BY <1>3, <2>1, OneLess
      <4>2. \A e, j : At(Layers, d, a - 1, b - 1, e, j)
                        <=> At(Layers, d, a - 1, b, e, j) /\ ~(e = a /\ j = b)
        BY <1>3, <2>1, OneLess
      <4>. QED  BY <4>1, <4>2
    <3>2. \A e, j : At(Layers, d, full, part, e, j) <=> At(Layers, d, a - 1, b - 1, e, j)
      BY <1>10, <2>1, <2>2
    <3>. QED  BY <3>1, <3>2
  <2>4. \A e, j : At(Layers, d, a - 1, b - 1, e, j) => e \in Int /\ j \in Int /\ (e < a \/ (e = a /\ j < b))
    <3>1. SUFFICES ASSUME NEW e, NEW j, At(Layers, d, a - 1, b - 1, e, j)
                   PROVE  e \in Int /\ j \in Int /\ (e < a \/ (e = a /\ j < b))
      OBVIOUS
    <3>2. e \in d + 1 .. a
      BY <1>3, <3>1 DEF At
    <3>3. CASE e = a
      BY <1>3, <3>1, <3>3 DEF At, Count
    <3>4. CASE e # a
      BY <1>3, <3>1, <3>2, <3>4 DEF At
    <3>. QED  BY <3>3, <3>4
  <2>5. PICK now, later : now = disk[f] /\ later = disk'[f]
    OBVIOUS
  <2>6. IF Layers[a][b].path = f THEN later = Layers[a][b].before ELSE later = now
    BY <1>6, <1>7, <1>9, <2>5
  <2>7. /\ \A e, j : At(Layers, d, full, part, e, j) =>
                       e \in Int /\ j \in Int /\ (e < a \/ (e = a /\ j < b))
    BY <1>10, <2>1, <2>2, <2>4
  <2>8. Traced(Layers, d, a - 1, b, f, now, v)
    BY <1>8, <1>11, <2>1, <2>5
  <2>9. Traced(Layers, d, full, part, f, later, v)
    <3>1. a \in Int /\ b \in Int
      BY <1>3
    <3>2. PICK F, low : F = Layers /\ low = a - 1
      OBVIOUS
    <3>3. /\ At(F, d, low, b, a, b)
          /\ \A e, j : At(F, d, full, part, e, j) <=> At(F, d, low, b, e, j) /\ ~(e = a /\ j = b)
          /\ \A e, j : At(F, d, full, part, e, j) => e \in Int /\ j \in Int /\ (e < a \/ (e = a /\ j < b))
          /\ IF F[a][b].path = f THEN later = F[a][b].before ELSE later = now
          /\ Traced(F, d, low, b, f, now, v)
      BY <2>3, <2>6, <2>7, <2>8, <3>2
    <3>4. Traced(F, d, full, part, f, later, v)
      BY ONLY <3>1, <3>3, FewerRecords
    <3>. QED  BY <3>2, <3>4
  <2>. QED  BY <1>1, <2>1, <2>2, <2>5, <2>9
<1>12. phase # "prune" /\ anchored' \subseteq anchored
  BY <1>1 DEF Walking
<1>. QED  BY <1>1, <1>8, <1>9, <1>11, <1>12, LiveStep

LEMMA NothingForgotten ==
  ASSUME untracked' = untracked
  PROVE  \E new \in SUBSET Files : \A t : untracked'[t] = untracked[t] \cup new
<1>1. {} \in SUBSET Files /\ \A S : S = S \cup {}
  OBVIOUS
<1>. QED  BY <1>1

\* The walk and the edits beside it do not meet.
LEMMA ExternalEditWalk ==
  ASSUME TypeInv, NEW g \in Files, NEW w \in Value, ExternalEdit(g, w)
  PROVE  /\ UNCHANGED <<undoStack, pending, checkpoints, phase, snapshot, anchored, Walking>>
         /\ Untrack({g}) /\ \A f \in Files \ {g} : disk'[f] = disk[f]
         /\ UNCHANGED <<walk.entry, walk.file, walk.floor, walk.skip, walk.tag>>
         /\ Walking => walk'.edited = walk.edited \cup {g}
         /\ WalkInv => WalkInv'
<1>1. /\ UNCHANGED <<undoStack, pending, checkpoints, phase, snapshot, anchored, Walking>>
      /\ Untrack({g}) /\ \A f \in Files \ {g} : disk'[f] = disk[f]
  BY DEF ExternalEdit, session, TypeInv, TypeOK, WorkspaceOK, Walking
<1>2. /\ UNCHANGED <<walk.entry, walk.file, walk.floor, walk.skip, walk.tag>>
      /\ Walking => walk'.edited = walk.edited \cup {g}
  BY DEF ExternalEdit, TypeInv, TypeOK, ControlOK, Walk
<1>3. WalkInv => WalkInv'
  BY <1>1, <1>2 DEF WalkInv, Depth, Walking
<1>. QED  BY <1>1, <1>2, <1>3

\* An edit outside the agent, of a file nobody knows anything about from then on.
LEMMA ExternalEditRollback ==
  ASSUME TypeInv, RollbackInv, NEW g \in Files, NEW w \in Value, ExternalEdit(g, w)
  PROVE  RollbackInv'
<1>1. /\ UNCHANGED <<undoStack, pending, checkpoints, phase, snapshot, anchored>>
      /\ Untrack({g}) /\ \A f \in Files \ {g} : disk'[f] = disk[f]
  BY ExternalEditWalk
<1>2. UNCHANGED <<walk.entry, walk.file, walk.floor, walk.skip, walk.tag>>
  BY ExternalEditWalk
<1>3. Layers' = Layers /\ Full' = Full /\ Part' = Part /\ Walking' = Walking
  BY <1>1, <1>2 DEF Layers, Full, Part, Walking, WalkDone
<1>4. \A t \in anchored : /\ t \in Tags /\ untracked'[t] = untracked[t] \cup {g}
                          /\ Known(t)' = Known(t) \ {g} /\ Known(t) \subseteq Files
  BY <1>1, <1>2, <1>3, CheckpointFacts DEF Known, Untrack
<1>5. LiveInv'
  <2>1. CASE phase = "prune"
    BY <1>1, <2>1 DEF LiveInv
  <2>2. CASE phase # "prune"
    <3>1. \A t \in anchored : Depth(t) <= IF Walking' THEN walk'.entry ELSE Len(undoStack')
      BY <1>1, <1>2, <1>3, <2>2 DEF RollbackInv, LiveInv
    <3>2. \A t \in anchored : \A f \in Known(t)' : disk'[f] = disk[f]
      BY <1>1, <1>4
    <3>. QED  BY <1>1, <1>3, <1>4, <2>2, <3>1, <3>2, LiveStep DEF RollbackInv
  <2>. QED  BY <2>1, <2>2
<1>6. ChainInv'
  BY <1>1, <1>4, ChainStays DEF RollbackInv
<1>7. PruneInv'
  BY <1>1, <1>2, <1>4 DEF RollbackInv, PruneInv
<1>8. WalkInv'
  BY ExternalEditWalk DEF RollbackInv
<1>. QED  BY <1>5, <1>6, <1>7, <1>8 DEF RollbackInv

\* The walk restores nothing below its floor.
LEMMA WalkStep ==
  ASSUME TypeInv, WalkInv,
         \/ phase' \notin {"undo", "rollback"}
         \/ RestoreFile \/ BeginUndo \/ \E t \in Tags, skip \in BOOLEAN : BeginRollback(t, skip)
  PROVE  WalkInv'
<1>1. CASE phase' \notin {"undo", "rollback"}
  BY <1>1 DEF WalkInv, Walking
<1>2. CASE RestoreFile
  <2>1. /\ phase' = phase /\ Walking /\ ~WalkDone /\ undoStack' = undoStack
        /\ checkpoints' = checkpoints
        /\ walk'.tag = walk.tag /\ walk'.floor = walk.floor
        /\ walk'.entry \in {walk.entry, walk.entry - 1}
    BY <1>2, RestoreFileMoves DEF TypeInv, TypeOK
  <2>2. walk'.skip = walk.skip
    BY <1>2 DEF RestoreFile, TypeInv, TypeOK, ControlOK, Walk
  <2>3. /\ Len(undoStack) \in Nat /\ walk.entry \in Nat /\ walk.floor \in Nat
        /\ walk.entry <= Len(undoStack) /\ walk.entry > walk.floor
    BY <2>1, StackFacts DEF WalkInv, WalkDone
  <2>4. walk'.entry <= Len(undoStack)
    BY <2>1, <2>3
  <2>5. phase = "undo" => walk'.entry \in {Len(undoStack) - 1, Len(undoStack)}
    BY <2>1, <2>3 DEF WalkInv
  <2>. QED  BY <2>1, <2>2, <2>4, <2>5 DEF WalkInv, Depth
<1>3. CASE BeginUndo
  <2>1. /\ phase' = "undo" /\ undoStack' = undoStack
        /\ walk' = WalkFrom(Len(undoStack), Len(undoStack) - 1, {}, {})
        /\ Len(undoStack) \in Nat
    BY <1>3, StackFacts DEF BeginUndo, session
  <2>2. walk'.entry = Len(undoStack) /\ walk'.floor = Len(undoStack) - 1 /\ walk'.skip = {}
    BY <2>1 DEF WalkFrom
  <2>. QED  BY <2>1, <2>2 DEF WalkInv
<1>4. CASE \E t \in Tags, skip \in BOOLEAN : BeginRollback(t, skip)
  <2>1. PICK t \in Tags, skip \in BOOLEAN : BeginRollback(t, skip)
    BY <1>4
  <2>2. /\ phase' = "rollback" /\ undoStack' = undoStack /\ checkpoints' = checkpoints
        /\ t \in DOMAIN checkpoints /\ Len(undoStack) \in Nat
    BY <2>1, StackFacts DEF BeginRollback, session
  <2>3. walk'.entry = Len(undoStack) /\ walk'.floor = Floor(t) /\ walk'.tag = {t}
    BY <2>1 DEF BeginRollback, WalkFrom
  <2>. QED  BY <2>2, <2>3 DEF WalkInv, Floor, Depth
<1>. QED  BY <1>1, <1>2, <1>3, <1>4

\* A new checkpoint is at the top of the stack, and every older one below it.
LEMMA CreateCheckpointRollback ==
  ASSUME TypeInv, TimelineInv, RollbackInv, NEW c \in Tags, CreateCheckpoint(c)
  PROVE  RollbackInv'
<1>1. /\ UNCHANGED <<disk, undoStack, pending, phase, walk>> /\ phase = "idle"
      /\ anchored' = anchored \cup {c}
      /\ checkpoints'[c].undo = undoStack /\ checkpoints'[c].time = counters.time + 1
      /\ snapshot'[c] = disk /\ untracked'[c] = {} /\ counters.time \in Nat
  BY DEF CreateCheckpoint, session, TypeInv, TypeOK, WorkspaceOK, ControlOK
<1>2. \A u \in anchored \ {c} : /\ checkpoints'[u] = checkpoints[u] /\ snapshot'[u] = snapshot[u]
                                /\ untracked'[u] = untracked[u]
  BY CheckpointFacts DEF CreateCheckpoint, TypeInv, TypeOK, WorkspaceOK
<1>3. /\ Layers' = Layers /\ ~Walking /\ ~Walking' /\ Len(undoStack) \in Nat
      /\ Full = Len(undoStack) /\ Full' = Len(undoStack) /\ Part = 0 /\ Part' = 0
  BY <1>1, StackFacts DEF Layers, Walking, Full, Part
<1>4. Depth(c)' = Len(undoStack) /\ Known(c)' = Files
  BY <1>1, <1>3 DEF Depth, Known
<1>5. \A u \in anchored \ {c} : Depth(u)' = Depth(u) /\ Kept(u)' = Kept(u) /\ Known(u)' = Known(u)
  BY <1>2, <1>3 DEF Depth, Kept, Known
<1>6. \A u \in anchored : /\ Depth(u) <= Len(undoStack) /\ Depth(u) \in Nat
                          /\ Known(u) = Files \ untracked[u]
                          /\ checkpoints[u].time \in Nat /\ checkpoints[u].time <= counters.time
  BY <1>1, <1>3, CheckpointFacts DEF RollbackInv, LiveInv, TimelineInv, Known
<1>7. \A F, f, v : Traced(F, Len(undoStack), Len(undoStack), 0, f, v, v)
  BY <1>3 DEF Traced, Untouched, Count
<1>8. LiveInv'
  <2>1. ASSUME NEW u \in anchored'
        PROVE  /\ Depth(u)' <= Len(undoStack)
               /\ \A f \in Known(u)' :
                    Traced(Layers', Depth(u)', Full', Part', f, disk'[f], snapshot'[u][f])
    <3>1. CASE u = c
      BY <1>1, <1>3, <1>4, <1>7, <3>1
    <3>2. CASE u # c
      <4>1. u \in anchored \ {c}
        BY <1>1, <2>1, <3>2
      <4>2. \A f \in Known(u) : Traced(Layers, Depth(u), Full, Part, f, disk[f], snapshot[u][f])
        BY <1>1, <4>1 DEF RollbackInv, LiveInv
      <4>. QED  BY <1>1, <1>2, <1>3, <1>5, <1>6, <4>1, <4>2
    <3>. QED  BY <3>1, <3>2
  <2>2. ASSUME NEW u \in anchored', NEW f \in Known(u)'
        PROVE  Traced(Layers, Depth(u), Full, Part, f, disk[f], snapshot[u][f])'
    BY <2>1, <2>2 DEF Traced, Untouched, OldestHas, Count
  <2>. QED  BY <1>1, <1>3, <2>1, <2>2 DEF LiveInv
<1>9. ChainInv'
  <2>1. ASSUME NEW u \in anchored', NEW t \in anchored', checkpoints'[u].time <= checkpoints'[t].time
        PROVE  /\ Depth(u)' <= Depth(t)' /\ untracked'[t] \subseteq untracked'[u]
               /\ \A f \in Files \ untracked'[u] :
                    Traced(Kept(t)', Depth(u)', Depth(t)', 0, f, snapshot'[t][f], snapshot'[u][f])
    <3>1. CASE u # c /\ t # c
      <4>1. u \in anchored \ {c} /\ t \in anchored \ {c}
        BY <1>1, <2>1, <3>1
      <4>2. /\ Depth(u) <= Depth(t) /\ untracked[t] \subseteq untracked[u]
            /\ \A f \in Files \ untracked[u] :
                 Traced(Kept(t), Depth(u), Depth(t), 0, f, snapshot[t][f], snapshot[u][f])
        BY <1>2, <2>1, <4>1 DEF RollbackInv, ChainInv
      <4>. QED  BY <1>2, <1>5, <4>1, <4>2
    <3>2. CASE u = c /\ t = c
      BY <1>3, <1>4, <1>7, <3>2
    <3>3. CASE u = c /\ t # c
      <4>1. t \in anchored \ {c}
        BY <1>1, <2>1, <3>3
      <4>. QED  BY <1>1, <1>2, <1>6, <2>1, <3>3, <4>1
    <3>4. CASE u # c /\ t = c
      <4>1. u \in anchored \ {c}
        BY <1>1, <2>1, <3>4
      <4>2. PICK d \in Nat : d = Depth(u)
        BY <1>6, <4>1
      <4>3. \A e \in 1..Len(undoStack) : Kept(c)'[e] = Layers[e]
        BY <1>1, <1>3, StackFacts DEF Kept, Depth
      <4>4. \A f \in Files \ untracked[u] :
              Traced(Layers, d, Len(undoStack), 0, f, disk[f], snapshot[u][f])
        BY <1>1, <1>3, <1>6, <4>1, <4>2 DEF RollbackInv, LiveInv
      <4>5. \A f \in Files \ untracked[u] :
              Traced(Kept(c)', d, Len(undoStack), 0, f, disk[f], snapshot[u][f])
        <5>1. PICK G : G = Kept(c)'
          OBVIOUS
        <5>2. /\ \A e, j : At(G, d, Len(undoStack), 0, e, j) <=> At(Layers, d, Len(undoStack), 0, e, j)
              /\ \A e, j : At(Layers, d, Len(undoStack), 0, e, j) => G[e][j] = Layers[e][j]
          BY <1>3, <4>2, <4>3, <5>1, WholeEntries
        <5>. QED  BY <4>4, <5>1, <5>2, SameRecords
      <4>. QED  BY <1>1, <1>2, <1>4, <1>5, <1>6, <3>4, <4>1, <4>2, <4>5
    <3>. QED  BY <3>1, <3>2, <3>3, <3>4
  <2>. QED  BY <2>1 DEF ChainInv, Traced, Untouched, OldestHas, Count
<1>10. PruneInv' /\ WalkInv'
  BY <1>1 DEF PruneInv, WalkInv, Walking
<1>. QED  BY <1>8, <1>9, <1>10 DEF RollbackInv

LEMMA FinishRollbackRollback ==
  ASSUME TypeInv, RollbackInv, FinishRollback
  PROVE  RollbackInv'
<1>1. PICK t \in DOMAIN checkpoints : walk.tag = {t} /\ walk.floor = Depth(t)
  BY DEF FinishRollback, RollbackInv, WalkInv
<1>2. /\ UNCHANGED <<disk, checkpoints, walk, snapshot>>
      /\ phase = "rollback" /\ WalkDone /\ phase' = "prune"
      /\ undoStack' = checkpoints[t].undo
      /\ anchored' = IF t \in anchored THEN anchored ELSE {}
      /\ Untrack(walk.skip)
  BY <1>1 DEF FinishRollback
<1>3. walk.skip \in SUBSET Files /\ \A u \in anchored : untracked'[u] = untracked[u] \cup walk.skip
  BY <1>2, CheckpointFacts DEF Untrack, TypeInv, TypeOK, ControlOK, Walk
<1>4. ChainInv'
  BY <1>2, <1>3, ChainStays DEF RollbackInv
<1>5. ASSUME t \in anchored, NEW f \in Files \ untracked'[t]
      PROVE  disk[f] = snapshot[t][f]
  <2>1. Walking /\ Full = walk.entry /\ Part = 0
    BY <1>2 DEF Walking, Full, Part
  <2>2. Full = Depth(t) /\ Depth(t) \in Nat
    BY <1>1, <1>2, <1>5, <2>1, CheckpointFacts, StackFacts DEF RollbackInv, LiveInv, WalkDone
  <2>3. Traced(Layers, Depth(t), Depth(t), 0, f, disk[f], snapshot[t][f])
    BY <1>2, <1>3, <1>5, <2>1, <2>2 DEF RollbackInv, LiveInv, Known
  <2>4. \A e \in Depth(t)+1..Depth(t)+1 : Count(Layers, Depth(t), 0, e) = 0
    BY <2>2 DEF Count
  <2>. QED  BY <2>3, <2>4 DEF Traced, OldestHas
<1>6. PruneInv'
  BY <1>1, <1>2, <1>5 DEF PruneInv
<1>7. LiveInv' /\ WalkInv'
  BY <1>2 DEF LiveInv, WalkInv, Walking
<1>. QED  BY <1>4, <1>6, <1>7 DEF RollbackInv

\* Pruning keeps the target of the rollback.
LEMMA PruneCheckpointRollback ==
  ASSUME TypeInv, RollbackInv, PruneCheckpoint
  PROVE  RollbackInv'
<1>1. PICK t \in DOMAIN checkpoints :
        /\ walk.tag = {t} /\ undoStack = checkpoints[t].undo /\ (t \in anchored \/ anchored = {})
        /\ t \in anchored => \A f \in Files \ untracked[t] : disk[f] = snapshot[t][f]
  BY DEF PruneCheckpoint, RollbackInv, PruneInv
<1>2. PICK c \in Orphans : /\ checkpoints' = [u \in DOMAIN checkpoints \ {c} |-> checkpoints[u]]
                           /\ anchored' = anchored \ {c}
  BY DEF PruneCheckpoint
<1>3. /\ UNCHANGED <<disk, undoStack, phase, walk, snapshot, untracked>> /\ phase = "prune"
  BY DEF PruneCheckpoint, session
<1>4. c # t
  BY <1>1, <1>2 DEF Orphans, TypeInv, TypeOK, CheckpointsOK, Checkpoint
<1>5. \A u \in anchored' : u \in DOMAIN checkpoints /\ checkpoints'[u] = checkpoints[u]
  BY <1>2, CheckpointFacts
<1>6. ChainInv'
  BY <1>2, <1>3, <1>5, NothingForgotten, ChainStays DEF RollbackInv
<1>7. PruneInv'
  BY <1>1, <1>2, <1>3, <1>4 DEF PruneInv
<1>8. LiveInv' /\ WalkInv'
  BY <1>3 DEF LiveInv, WalkInv, Walking
<1>. QED  BY <1>6, <1>7, <1>8 DEF RollbackInv

\* From the workspace of the target, every checkpoint that is left can be reached.
LEMMA PruneDoneRollback ==
  ASSUME TypeInv, RollbackInv, PruneDone
  PROVE  RollbackInv'
<1>1. PICK t \in DOMAIN checkpoints :
        /\ walk.tag = {t} /\ undoStack = checkpoints[t].undo /\ (t \in anchored \/ anchored = {})
        /\ t \in anchored => \A f \in Files \ untracked[t] : disk[f] = snapshot[t][f]
  BY DEF PruneDone, RollbackInv, PruneInv
<1>2. /\ UNCHANGED <<disk, undoStack, pending, checkpoints, snapshot, untracked, anchored>>
      /\ phase' = "idle" /\ Orphans = {}
  BY DEF PruneDone, session, ghosts
<1>3. ~Walking' /\ Full' = Len(undoStack) /\ Part' = 0 /\ Layers' = Layers
  BY <1>2 DEF Walking, Full, Part, Layers
<1>4. Depth(t) = Len(undoStack) /\ Len(undoStack) \in Nat
  BY <1>1, StackFacts DEF Depth
<1>5. ASSUME NEW u \in anchored
      PROVE  /\ Depth(u)' = Depth(u) /\ Depth(u) <= Len(undoStack)
             /\ \A f \in Known(u)' :
                  Traced(Layers, Depth(u), Len(undoStack), 0, f, disk[f], snapshot[u][f])
  <2>1. t \in anchored /\ checkpoints[u].time <= checkpoints[t].time
    <3>1. t \in anchored
      BY <1>1
    <3>2. checkpoints[u].time \in Nat /\ checkpoints[t].time \in Nat /\ u \in DOMAIN checkpoints
      BY <3>1, CheckpointFacts
    <3>3. ~(checkpoints[u].time > checkpoints[t].time)
      BY <1>1, <1>2, <3>2 DEF Orphans
    <3>. QED  BY <3>1, <3>2, <3>3
  <2>2. /\ Depth(u) <= Depth(t) /\ untracked[t] \subseteq untracked[u]
        /\ \A f \in Files \ untracked[u] :
             Traced(Kept(t), Depth(u), Depth(t), 0, f, snapshot[t][f], snapshot[u][f])
    BY <2>1 DEF RollbackInv, ChainInv
  <2>3. Known(u)' = Files \ untracked[u] /\ Depth(u)' = Depth(u)
    BY <1>2, <1>3 DEF Known, Depth
  <2>4. PICK d \in Nat : d = Depth(u)
    BY CheckpointFacts
  <2>5. PICK F : F = Kept(t)
    OBVIOUS
  <2>6. \A e \in 1..Len(undoStack) : Layers[e] = F[e]
    BY <1>1, <1>4, <2>1, <2>5, StackFacts, CheckpointFacts
  <2>7. /\ \A e, j : At(Layers, d, Len(undoStack), 0, e, j) <=> At(F, d, Len(undoStack), 0, e, j)
        /\ \A e, j : At(F, d, Len(undoStack), 0, e, j) => Layers[e][j] = F[e][j]
    BY <1>4, <2>4, <2>6, WholeEntries
  <2>8. ASSUME NEW f \in Files \ untracked[u]
        PROVE  Traced(Layers, d, Len(undoStack), 0, f, disk[f], snapshot[u][f])
    <3>1. disk[f] = snapshot[t][f]
      BY <1>1, <2>1, <2>2, <2>8
    <3>2. Traced(F, d, Len(undoStack), 0, f, disk[f], snapshot[u][f])
      BY <1>4, <2>2, <2>4, <2>5, <2>8, <3>1
    <3>. QED  BY <2>7, <3>2, SameRecords
  <2>. QED  BY <1>4, <2>2, <2>3, <2>4, <2>8
<1>6. LiveInv'
  BY <1>2, <1>3, <1>5 DEF LiveInv, Traced, Untouched, OldestHas, Count
<1>7. ChainInv'
  BY <1>2, NothingForgotten, ChainStays DEF RollbackInv
<1>8. PruneInv' /\ WalkInv'
  BY <1>2 DEF PruneInv, WalkInv, Walking
<1>. QED  BY <1>6, <1>7, <1>8 DEF RollbackInv

\* What the steps of a turn and of a walk do to the checkpoints.
LEMMA CheckpointsStay ==
  ASSUME TypeInv,
         TurnStep \/ BeginUndo \/ FinishUndo \/ RestoreFile
           \/ \E t \in Tags, skip \in BOOLEAN : BeginRollback(t, skip)
  PROVE  /\ checkpoints' = checkpoints /\ snapshot' = snapshot /\ anchored' \subseteq anchored
         /\ \E new \in SUBSET Files : \A t \in anchored : untracked'[t] = untracked[t] \cup new
<1> USE DEF session, ghosts, InLoop
<1>1. /\ checkpoints' = checkpoints /\ snapshot' = snapshot /\ anchored' \subseteq anchored
      /\ untracked' = untracked \/ Untrack(Paths(pending))
  <2>1. CASE RunTurn \/ OtherTool \/ TextReply \/ StopAfterMaxRounds
    BY <2>1 DEF RunTurn, OtherTool, TextReply, StopAfterMaxRounds, Capture
  <2>2. CASE EndToolRound
    BY <2>2 DEF EndToolRound
  <2>3. CASE Interrupt \/ Fail
    BY <2>3 DEF Interrupt, Fail
  <2>4. CASE \E f \in Files, c \in Contents : WriteFile(f, c)
    BY <2>4 DEF WriteFile
  <2>5. CASE \E open \in BOOLEAN : TodoWrite(open)
    BY <2>5 DEF TodoWrite
  <2>6. CASE BeginUndo \/ FinishUndo \/ RestoreFile
    BY <2>6 DEF BeginUndo, FinishUndo, RestoreFile
  <2>7. CASE \E t \in Tags, skip \in BOOLEAN : BeginRollback(t, skip)
    BY <2>7 DEF BeginRollback
  <2>. QED  BY <2>1, <2>2, <2>3, <2>4, <2>5, <2>6, <2>7 DEF TurnStep
<1>2. Paths(pending) \in SUBSET Files /\ anchored \subseteq Tags
  BY PathsFiles, CheckpointFacts DEF TypeInv, TypeOK, SessionOK
<1>3. CASE untracked' = untracked
  BY <1>1, <1>3, NothingForgotten
<1>4. CASE Untrack(Paths(pending))
  BY <1>1, <1>2, <1>4 DEF Untrack
<1>. QED  BY <1>1, <1>3, <1>4

LEMMA TurnRollback ==
  ASSUME TypeInv, RollbackInv, TurnStep
  PROVE  RollbackInv'
<1>1. LiveInv'
  BY TurnLive DEF RollbackInv
<1>2. ChainInv'
  BY CheckpointsStay, ChainStays DEF RollbackInv
<1>3. phase' \notin {"undo", "rollback", "prune"}
  BY DEF TurnStep, RunTurn, EndToolRound, OtherTool, TextReply, StopAfterMaxRounds, Interrupt,
         Fail, WriteFile, TodoWrite, InLoop
<1>4. PruneInv' /\ WalkInv'
  BY <1>3, WalkStep DEF RollbackInv, PruneInv
<1>. QED  BY <1>1, <1>2, <1>4 DEF RollbackInv

LEMMA WalkRollback ==
  ASSUME TypeInv, RollbackInv,
         BeginUndo \/ FinishUndo \/ RestoreFile
           \/ \E t \in Tags, skip \in BOOLEAN : BeginRollback(t, skip)
  PROVE  RollbackInv'
<1>1. LiveInv'
  BY BeginLive, FinishUndoLive, RestoreFileLive DEF RollbackInv
<1>2. ChainInv'
  BY CheckpointsStay, ChainStays DEF RollbackInv
<1>3. phase' # "prune" /\ (FinishUndo => phase' = "idle")
  BY DEF BeginUndo, FinishUndo, RestoreFile, BeginRollback, Walking
<1>4. PruneInv' /\ WalkInv'
  BY <1>3, WalkStep DEF RollbackInv, PruneInv
<1>. QED  BY <1>1, <1>2, <1>4 DEF RollbackInv

LEMMA NextRollback ==
  ASSUME TypeInv, TimelineInv, RollbackInv, [Next]_vars
  PROVE  RollbackInv'
<1>1. CASE TurnStep
  BY <1>1, TurnRollback
<1>2. CASE BeginUndo \/ FinishUndo \/ RestoreFile
             \/ \E t \in Tags, skip \in BOOLEAN : BeginRollback(t, skip)
  BY <1>2, WalkRollback
<1>3. CASE FinishRollback
  BY <1>3, FinishRollbackRollback
<1>4. CASE PruneCheckpoint
  BY <1>4, PruneCheckpointRollback
<1>5. CASE PruneDone
  BY <1>5, PruneDoneRollback
<1>6. CASE \E t \in Tags : CreateCheckpoint(t)
  BY <1>6, CreateCheckpointRollback
<1>7. CASE \E f \in Files, v \in Value : ExternalEdit(f, v)
  BY <1>7, ExternalEditRollback
<1>8. CASE UNCHANGED vars
  <2>1. UNCHANGED <<disk, undoStack, pending, checkpoints, phase, walk, snapshot, untracked, anchored>>
    BY <1>8 DEF vars
  <2>2. Layers' = Layers /\ Full' = Full /\ Part' = Part /\ Walking' = Walking
    BY <2>1 DEF Layers, Full, Part, Walking, WalkDone
  <2>3. LiveInv'
    BY <2>1, SameLive DEF RollbackInv, LiveInv
  <2>4. ChainInv'
    BY <2>1, NothingForgotten, ChainStays DEF RollbackInv
  <2>5. PruneInv' /\ WalkInv'
    BY <2>1, <2>2 DEF RollbackInv, PruneInv, WalkInv, Depth
  <2>. QED  BY <2>3, <2>4, <2>5 DEF RollbackInv
<1>. QED  BY <1>1, <1>2, <1>3, <1>4, <1>5, <1>6, <1>7, <1>8 DEF Next, HistoryStep

\* As long as no crash separates a rollback from its pruning, a finished rollback
\* has put every file back to what it was at the checkpoint, but for files changed
\* outside the undo stack and files the user skipped; however often it was written,
\* undone or rolled back in between, as long as the checkpoint's part of the stack
\* was neither trimmed nor undone.
THEOREM Rollback == Spec => []RollbackExact
<1>1. Init => RollbackInv
  BY DEF Init, RollbackInv, LiveInv, ChainInv, PruneInv, WalkInv, Walking
<1>2. TypeInv /\ TimelineInv /\ RollbackInv /\ [Next]_vars
        => TypeInv' /\ TimelineInv' /\ RollbackInv'
  BY NextTypeInv, NextTimeline, NextRollback
<1>3. RollbackInv => RollbackExact
  BY DEF RollbackInv, PruneInv, RollbackExact
<1>4. Init => TimelineInv
  BY DEF Init, TimelineInv, TimelineLinear
<1>. QED  BY <1>1, <1>2, <1>3, <1>4, InitTypeInv, PTL DEF Spec
-----------------------------------------------------------------------------
(* /undo.                                                                  *)

\* The records of the entry that /undo has restored so far.
Left == IF WalkDone THEN 0 ELSE walk.file

UndoneFrom(left, files, edited, now) ==
  \A j \in 1..Len(files) : j > left =>
    \/ \E i \in left+1..j-1 : files[i].path = files[j].path
    \/ files[j].path \in edited
    \/ now[files[j].path] = files[j].before

UndoInv ==
  phase = "undo" => UndoneFrom(Left, undoStack[Len(undoStack)].files, walk.edited, disk)

\* Restoring the record before: it is the one that counts for its file.
LEMMA UndoneMore ==
  ASSUME NEW files \in Seq(Record), NEW b \in 1..Len(files), NEW edited,
         NEW now \in [Files -> Value], NEW later \in [Files -> Value],
         later = [now EXCEPT ![files[b].path] = files[b].before],
         UndoneFrom(b, files, edited, now)
  PROVE  UndoneFrom(b - 1, files, edited, later)
<1>1. SUFFICES ASSUME NEW j \in 1..Len(files), j > b - 1
               PROVE  \/ \E i \in b-1+1..j-1 : files[i].path = files[j].path
                      \/ files[j].path \in edited
                      \/ later[files[j].path] = files[j].before
  BY DEF UndoneFrom
<1>2. files[b] \in Record /\ files[j] \in Record
  BY ElementOfSeq
<1>3. files[b].path \in Files /\ files[j].path \in Files
  BY <1>2 DEF Record
<1>4. CASE j = b
  BY <1>3, <1>4
<1>5. CASE j # b /\ files[j].path = files[b].path
  <2>1. b \in b-1+1..j-1
    BY <1>1, <1>5
  <2>. QED  BY <1>5, <2>1
<1>6. CASE j # b /\ files[j].path # files[b].path
  <2>1. j > b
    BY <1>1, <1>6
  <2>2. \/ \E i \in b+1..j-1 : files[i].path = files[j].path
        \/ files[j].path \in edited
        \/ now[files[j].path] = files[j].before
    BY <2>1 DEF UndoneFrom
  <2>3. \A i \in b+1..j-1 : i \in b-1+1..j-1
    OBVIOUS
  <2>4. later[files[j].path] = now[files[j].path]
    BY <1>3, <1>6
  <2>. QED  BY <2>2, <2>3, <2>4
<1>. QED  BY <1>4, <1>5, <1>6

LEMMA RestoreFileUndo ==
  ASSUME TypeInv, WalkInv, UndoInv, RestoreFile
  PROVE  UndoInv'
<1> SUFFICES ASSUME phase = "undo" PROVE UndoInv'
  BY DEF RestoreFile, UndoInv
<1>1. PICK n, b, files : n = Len(undoStack) /\ b = walk.file /\ files = undoStack[n].files
  OBVIOUS
<1>2. /\ ~WalkDone /\ walk.entry = n /\ walk.floor = n - 1 /\ walk.skip = {} /\ n \in Nat
      /\ n \in 1..n /\ b \in 1..Len(files) /\ files \in Seq(Record)
  BY <1>1, StackFacts DEF RestoreFile, WalkInv, WalkDone, TypeInv, WalkOK
<1>3. /\ undoStack' = undoStack /\ phase' = phase
      /\ disk' = [disk EXCEPT ![files[b].path] = files[b].before]
      /\ disk \in [Files -> Value] /\ disk' \in [Files -> Value]
  <2>1. disk' \in [Files -> Value]
    BY RestoreFileTypeInv DEF TypeInv, TypeOK, WorkspaceOK
  <2>. QED  BY <1>1, <1>2, <2>1 DEF RestoreFile, CurrentRecord, session, TypeInv, TypeOK, WorkspaceOK
<1>4. walk'.edited = walk.edited
  BY DEF RestoreFile, TypeInv, TypeOK, ControlOK, Walk
<1>5. Left = b /\ Left' = b - 1
  <2>1. /\ walk'.floor = n - 1
        /\ b > 1 => walk'.entry = n /\ walk'.file = b - 1
        /\ ~(b > 1) => walk'.entry = n - 1
    BY <1>1, <1>2, RestoreFileMoves DEF TypeInv, TypeOK
  <2>2. b \in Nat \ {0}
    BY <1>2
  <2>. QED  BY <1>1, <1>2, <2>1, <2>2 DEF Left, WalkDone
<1>6. UndoneFrom(b, files, walk.edited, disk)
  BY <1>1, <1>5 DEF UndoInv
<1>7. UndoneFrom(b - 1, files, walk.edited, disk')
  BY <1>2, <1>3, <1>6, UndoneMore
<1>. QED  BY <1>1, <1>3, <1>4, <1>5, <1>7 DEF UndoInv, UndoneFrom

LEMMA ExternalEditUndo ==
  ASSUME TypeInv, WalkInv, UndoInv, NEW g \in Files, NEW w \in Value, ExternalEdit(g, w)
  PROVE  UndoInv'
<1> SUFFICES ASSUME phase = "undo" PROVE UndoInv'
  BY DEF ExternalEdit, UndoInv
<1>1. /\ UNCHANGED <<undoStack, phase, walk.entry, walk.floor, walk.file>>
      /\ walk'.edited = walk.edited \cup {g} /\ \A f \in Files \ {g} : disk'[f] = disk[f]
  BY ExternalEditWalk DEF Walking
<1>2. PICK n, files : n = Len(undoStack) /\ files = undoStack[n].files
  OBVIOUS
<1>3. files \in Seq(Record)
  BY <1>2, StackFacts, EmptySeq DEF TypeInv, WalkOK
<1>4. \A j \in 1..Len(files) : files[j].path \in Files
  <2>1. \A j \in 1..Len(files) : files[j] \in Record
    BY <1>3, ElementOfSeq
  <2>. QED  BY <2>1 DEF Record
<1>5. Left' = Left /\ UndoneFrom(Left, files, walk.edited, disk)
  BY <1>1, <1>2 DEF Left, WalkDone, UndoInv
<1>6. UndoneFrom(Left, files, walk'.edited, disk')
  BY <1>1, <1>4, <1>5 DEF UndoneFrom
<1>. QED  BY <1>1, <1>2, <1>5, <1>6 DEF UndoInv, UndoneFrom

LEMMA NextUndo ==
  ASSUME TypeInv, WalkInv, UndoInv, [Next \/ Crash]_vars
  PROVE  WalkInv' /\ UndoInv'
<1>1. CASE phase' \notin {"undo", "rollback"}
  BY <1>1, WalkStep DEF UndoInv
<1>2. CASE RestoreFile
  BY <1>2, RestoreFileUndo, WalkStep
<1>3. CASE BeginUndo
  <2>1. /\ undoStack' = undoStack /\ Len(undoStack) \in Nat
        /\ walk' = WalkFrom(Len(undoStack), Len(undoStack) - 1, {}, {})
    BY <1>3, StackFacts DEF BeginUndo, session
  <2>2. Left' = Len(undoStack[Len(undoStack)].files)
    BY <2>1 DEF Left, WalkDone, WalkFrom
  <2>3. UndoInv'
    BY <2>1, <2>2 DEF UndoInv, UndoneFrom
  <2>. QED  BY <1>3, <2>3, WalkStep
<1>4. CASE \E t \in Tags, skip \in BOOLEAN : BeginRollback(t, skip)
  BY <1>4, WalkStep DEF BeginRollback, UndoInv
<1>5. CASE \E g \in Files, w \in Value : ExternalEdit(g, w)
  BY <1>5, ExternalEditWalk, ExternalEditUndo
<1>6. CASE UNCHANGED vars
  BY <1>6 DEF vars, WalkInv, Walking, Depth, UndoInv, UndoneFrom, Left, WalkDone
<1>7. CASE TurnStep \/ FinishUndo \/ FinishRollback \/ PruneCheckpoint \/ PruneDone \/ Crash
             \/ \E t \in Tags : CreateCheckpoint(t)
  <2>1. phase' \notin {"undo", "rollback"}
    BY <1>7 DEF TurnStep, RunTurn, EndToolRound, OtherTool, TextReply, StopAfterMaxRounds, Interrupt,
         Fail, WriteFile, TodoWrite, InLoop, FinishUndo, FinishRollback, PruneCheckpoint, PruneDone,
         Crash, CreateCheckpoint
  <2>. QED  BY <1>1, <2>1
<1>. QED  BY <1>2, <1>3, <1>4, <1>5, <1>6, <1>7 DEF Next, HistoryStep

\* Whatever the edits beside it and whenever the process dies: an /undo that has
\* restored its entry has put each of its files back to what it was before the
\* first write of the entry, however often the entry wrote it.
THEOREM Undo == CrashSpec => []UndoExact
<1>1. Init => WalkInv /\ UndoInv
  BY DEF Init, WalkInv, UndoInv, Walking
<1>2. TypeInv /\ WalkInv /\ UndoInv /\ [Next \/ Crash]_vars => TypeInv' /\ WalkInv' /\ UndoInv'
  BY NextTypeInv, NextUndo
<1>3. TypeInv /\ UndoInv => UndoExact
  <2> SUFFICES ASSUME TypeInv, UndoInv, phase = "undo", WalkDone,
                      NEW j \in 1..Len(undoStack[Len(undoStack)].files)
               PROVE  LET files == undoStack[Len(undoStack)].files
                      IN \/ \E i \in 1..j - 1 : files[i].path = files[j].path
                         \/ files[j].path \in walk.edited
                         \/ disk[files[j].path] = files[j].before
    BY DEF UndoExact
  <2>1. Left = 0 /\ j > 0
    BY DEF Left
  <2>. QED  BY <2>1 DEF UndoInv, UndoneFrom
<1>. QED  BY <1>1, <1>2, <1>3, InitTypeInv, PTL DEF CrashSpec
=============================================================================
