SPECIFICATION Spec
CONSTANTS
  Kinds = {"initialize", "setBreakpoints", "launch", "continue", "scopes", "unknown", "garbage", "hangup"}
  Care = "eager"
  MaxRequests = 4
  MaxDepth = 1
  Window = 1
INVARIANTS TrackedSendersSafe AcknowledgedFirst ContinuesExclusive TerminatedIsTrue
CHECK_DEADLOCK FALSE
