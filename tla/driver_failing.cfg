SPECIFICATION Spec
CONSTANTS
  Fns <- MCFns
  Main = "main"
  Code <- FailingCode
  MaxFrames = 2
  BreakLines = {2, 6}
  UntilLines = {3, 5}
  Compiles = {TRUE, FALSE}
INVARIANTS TypeOK OnBoundary StopsWhereAsked KnownPanics
PROPERTIES Transparent TraceMatchesStop ImplementsTarget
CHECK_DEADLOCK FALSE
