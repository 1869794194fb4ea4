SPECIFICATION Spec
CONSTANTS
  Fns <- MCFns
  Main = "main"
  Code <- RecursiveCode
  MaxFrames = 3
  BreakLines = {2, 6}
  UntilLines = {}
  Compiles = {TRUE, FALSE}
CHECK_DEADLOCK FALSE
PROPERTY NoBreakpointSkipped
