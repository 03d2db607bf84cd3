------------------------------ MODULE MCSessions ------------------------------
(***************************************************************************)
(* What is kept of sessions and of their jobs, in one run: the history of  *)
(* a session and background jobs, which this module extends; the history   *)
(* with crashes, two files and fewer turns; and the context janitor.  In   *)
(* each behaviour one of the four moves, the one that SuiteInit chooses,   *)
(* and the others stay as they are, so the states of the run are theirs    *)
(* side by side, not their product.                                        *)
(***************************************************************************)
EXTENDS SessionHistory, BackgroundJobs, TLC

CONSTANT CrashFiles

Symmetry == Permutations(Tags) \cup Permutations(Files) \cup Permutations(CrashFiles)
              \cup Permutations(Contents)

VARIABLES
  moves,    \* what moves
  crashDisk, crashMessages, crashUndo, crashPending, crashTodo, crashSaved, crashCheckpoints,
  crashPhase, crashTurn, crashWalk, crashCounters, crashSnapshot, crashUntracked, crashAnchored,
  janitorMessages, list, latest, cache, disabled, anchor, repair, janitorPhase, sent, count

crashVars == <<crashDisk, crashMessages, crashUndo, crashPending, crashTodo, crashSaved, crashCheckpoints,
               crashPhase, crashTurn, crashWalk, crashCounters, crashSnapshot, crashUntracked, crashAnchored>>
janitorVars == <<janitorMessages, list, latest, cache, disabled, anchor, repair, janitorPhase, sent, count>>

Crashed == INSTANCE SessionHistory WITH
             disk <- crashDisk, messages <- crashMessages, undoStack <- crashUndo,
             pending <- crashPending, todo <- crashTodo, saved <- crashSaved,
             checkpoints <- crashCheckpoints, phase <- crashPhase, turn <- crashTurn,
             walk <- crashWalk, counters <- crashCounters, snapshot <- crashSnapshot,
             untracked <- crashUntracked, anchored <- crashAnchored,
             Files <- CrashFiles, MaxTurns <- 2, MaxWrites <- 2, MaxExternal <- 0, MaxCheckpoints <- 1
Janitor == INSTANCE ContextJanitor WITH
             messages <- janitorMessages, phase <- janitorPhase,
             MaxTurns <- 2, MaxCalls <- 4, MaxEmpty <- 2, MaxReviews <- 2, MaxCompacts <- 1
-----------------------------------------------------------------------------
SuiteInit ==
  /\ moves \in {"history", "crash", "janitor", "shell"}
  /\ Init /\ (moves = "history" \/ \A f \in Files : disk[f] = Absent)
  /\ Crashed!Init /\ (moves = "crash" \/ \A f \in CrashFiles : crashDisk[f] = Absent)
  /\ Janitor!Init
  /\ JobsInit /\ (moves = "shell" \/ \A j \in Jobs : jobOwner[j] = CHOOSE r \in Runtimes : TRUE)

SuiteNext ==
  /\ UNCHANGED moves
  /\ IF moves = "history" THEN Next ELSE UNCHANGED vars
  /\ IF moves = "crash" THEN Crashed!Next \/ Crashed!Crash ELSE UNCHANGED crashVars
  /\ IF moves = "janitor" THEN Janitor!Next ELSE UNCHANGED janitorVars
  /\ IF moves = "shell" THEN JobsNext ELSE UNCHANGED shellVars

SuiteSpec == SuiteInit /\ [][SuiteNext]_<<moves, vars, crashVars, janitorVars, shellVars>>
-----------------------------------------------------------------------------
\* UndoExact of SessionHistory holds under crashes too.
UndoExactAfterCrash == moves = "crash" => Crashed!UndoExact

\* The properties of the janitor, stated in its module.
HistoryExact == moves = "janitor" => Janitor!HistoryExact
PayloadPaired == moves = "janitor" => Janitor!PayloadPaired
=============================================================================
