SPECIFICATION SuiteSpec
CONSTANTS
  Actors = {a1, a2}
  NoOwner = NoOwner
  MaxTask = 2
  MaxBatch = 2
  Providers = {"p1", "p2"}
  Models = {"m1"}
  Keys = {"runtime", "mcp", "system_prompt", "hooks"}
  Values = {"v1", "v2"}
  Callers = {"lead", "sub"}
  CallHooks <- FourHooks
  MaxCalls = 1
  MaxReloads = 1
  Servers = {"s1", "s2"}
  MaxClients = 4
  MaxSessions = 3
  MaxRegistries = 2
  MaxPrompts = 3
  MaxRounds = 2
  MaxNotices = 1
  MaxImages = 2
  NumMembers = 2
  NumTasks = 2
  Blockers <- TaskChain
  Preferred <- NobodyPreferred
  MaxAgentRounds = 1
  MaxPolls = 1
  MaxThreads = 3
  MaxSpawns = 2
  MaxStops = 0
INVARIANTS
  StartedAfterBlockers NoDependencyCycle
  HooksKept OthersKept StreamedIsReply
  AuditedAsRun SessionsKnown NothingMissed
  FileTold ImagesSentOnce NoTaskLeftBehind
CHECK_DEADLOCK FALSE
