SPECIFICATION SuiteSpec
CONSTANTS
  RingLimit = 1
  MaxEvents = 2
  MaxEpochs = 2
  MaxDisconnects = 1
  MaxOthers = 0
  MaxFailures = 0
  MaxRefusals = 0
  Clients = {"c1", "c2"}
  Window = 1
  MaxRequests = 1
  MaxDrops = 1
  MaxRestarts = 1
PROPERTIES CatchesUp CommandsServed EveryRequestAnswered
CHECK_DEADLOCK FALSE
