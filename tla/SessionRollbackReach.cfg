CONSTANTS
  Files = {f1}
  Contents = {c1}
  Absent = Absent
  Tags = {t1, t2}
  MaxUndoTurns = 2
  MaxRounds = 1
  MaxTurns = 3
  MaxWrites = 1
  MaxExternal = 0
  MaxCheckpoints = 1
SPECIFICATION Spec
INVARIANTS RollbackReachesNewerEntries
CHECK_DEADLOCK FALSE
