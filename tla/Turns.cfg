CONSTANTS
  MaxTurns = 3
  Sessions = {s1, s2}
  Tools = {write}
  EditTools = {write}
  Modes = {"plan", "accept_edits"}
  MaxActiveTurns = 2
  MaxRounds = 1
  UserModes = {"plan"}
  MaxActs = 1
  MaxLoopTurns = 2
  MaxAgentRounds = 2
  MaxToolCalls = 1
  MaxReply = 2
  MaxThreads = 2
  MaxTasks = 3
  MaxInterrupts = 2
  MaxChunks = 1
  SidecarTurns = {"t1"}
  Clients = {"c1", "c2"}
  MaxEvents = 2
SPECIFICATION SuiteSpec
INVARIANTS
  TurnSlots PendingIsAwaited RunsAreApproved TurnEventsComplete PromptsInOrder
  InterruptReachesTurn CallsAnswered LateTextAtMostOnce
PROPERTIES EveryTurnEnds InterruptEndsTurn
CHECK_DEADLOCK FALSE
