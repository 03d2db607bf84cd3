CONSTANTS
  Sessions = {"s1", "s2"}
  Workers = {"w1", "w2"}
  SessionOf <- WorkersInFirst
  First = "s1"
  MaxMessages = 0
  MaxRequests = 2
  MaxSwitches = 1
  ProjectSessions = {"s1", "s2"}
  Members = {"m1"}
  MemberSession <- MembersInFirst
  MaxThreads = 2
  MaxRestarts = 1
  MaxCalls = 1
SPECIFICATION SuiteSpec
INVARIANTS MessagesAccounted AnswerIsOwn ActiveHasThread
PROPERTIES OwnersAreTold
CHECK_DEADLOCK FALSE
