SPECIFICATION ImagesSpec
CONSTANTS
  MaxPrompts = 3
  MaxRounds = 2
  MaxNotices = 1
  MaxImages = 3
INVARIANTS PromptImagesSent
CHECK_DEADLOCK FALSE
