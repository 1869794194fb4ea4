SPECIFICATION Spec
CONSTANTS
  Fns <- MCFns
  Main = "main"
  Code <- StallingCode
  MaxFrames = 2
  BreakLines = {2, 6}
  UntilLines = {5}
  Compiles = {TRUE, FALSE}
CHECK_DEADLOCK FALSE
INVARIANT StepsLeaveTheirLine
