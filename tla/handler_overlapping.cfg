SPECIFICATION Spec
CONSTANTS
  Kinds = {"setBreakpoints", "launch", "continue", "next", "stackTrace", "exceptionInfo"}
  Care = "orderly"
  MaxRequests = 4
  MaxDepth = 1
  Window = 2
INVARIANTS QuietWhenTold PanicsExplained LaunchKnowsSource
CHECK_DEADLOCK FALSE
