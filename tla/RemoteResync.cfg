CONSTANTS
  RingLimit = 1
  MaxEvents = 2
  MaxEpochs = 2
  MaxDisconnects = 1
  MaxOthers = 1
  MaxFailures = 0
  MaxRefusals = 0
SPECIFICATION Spec
INVARIANTS ResyncedWhenQuiet
CHECK_DEADLOCK FALSE
