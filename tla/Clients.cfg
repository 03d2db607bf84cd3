SPECIFICATION SuiteSpec
CONSTANTS
  RingLimit = 1
  MaxEvents = 2
  MaxEpochs = 2
  MaxDisconnects = 1
  MaxOthers = 0
  MaxFailures = 1
  MaxRefusals = 1
  Pids = {p1, p2, p3}
  Projects = {j1, j2}
  Overlap = FALSE
  MaxTokens = 4
  MaxLeaseFailures = 1
  MaxPrompts = 2
  MaxOtherTurns = 1
  MaxPromptFailures = 1
  MaxTurns = 2
  Accounts = {"a", "b"}
  SessionLimit = 1
  PairingLimit = 1
  MaxSessions = 2
  MaxCodes = 1
  MaxConnectors = 1
  MaxClients = 1
  MaxMessages = 1
  MaxRestarts = 1
INVARIANTS
  NothingSkipped AppliedIsAcknowledged OneReadyRuntime LostOnlyByTake AccessHolds
PROPERTIES RefusedOnlyByLiveOwner
CHECK_DEADLOCK FALSE
