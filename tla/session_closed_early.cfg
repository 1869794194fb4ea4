SPECIFICATION Spec
CONSTANTS
  Kinds = {"setBreakpoints", "launch", "hangup"}
  Care = "orderly"
  MaxRequests = 2
  MaxDepth = 1
  Window = 1
INVARIANTS QueueClosedLast
CHECK_DEADLOCK FALSE
