SPECIFICATION FairSpec
CONSTANTS
  Fns <- MCFns
  Main = "main"
  Code <- RecursiveCode
  MaxFrames = 3
  BreakLines = {2, 6}
  UntilLines = {}
  Compiles = {TRUE, FALSE}
INVARIANTS StopsWhereAsked FlagIsCurrent KnownPanics
PROPERTIES Transparent ReachesEnd
CHECK_DEADLOCK FALSE
