SPECIFICATION SuiteSpec
CONSTANTS
  Files = {f1}
  CrashFiles = {g1, g2}
  Contents = {c1}
  Absent = Absent
  Tags = {t1, t2}
  MaxUndoTurns = 2
  MaxRounds = 1
  MaxTurns = 3
  MaxWrites = 1
  MaxExternal = 1
  MaxCheckpoints = 2
  Jobs = {"j1", "j2"}
  Calls = {"c1"}
  Runtimes = {"primary", "own"}
SYMMETRY Symmetry
INVARIANTS
  RollbackExact TimelineLinear UndoExactAfterCrash HistoryExact PayloadPaired ToldOutcome
CHECK_DEADLOCK FALSE
