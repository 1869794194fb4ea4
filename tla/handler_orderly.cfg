SPECIFICATION FairSpec
CONSTANTS
  Kinds = {"setBreakpoints", "launch", "continue", "next", "stackTrace", "variables", "exceptionInfo", "disconnect", "hangup"}
  Care = "orderly"
  MaxRequests = 4
  MaxDepth = 2
  Window = 1
INVARIANTS TypeOK FailureIsFinal LockHasHolder
PROPERTIES StopsAnnounced ShutsDown
CHECK_DEADLOCK FALSE
