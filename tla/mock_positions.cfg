SPECIFICATION Spec
CONSTANTS
  Files = {"main"}
  Text <- OneFile
  Program = "main"
  Users <- ByLines
  Names = {"x"}
  BreakLines = {2, 3}
  Addresses = {}
  DataTypes <- NoneOrRead
  Filters <- NoneOrNamed
  MaxBreakPoints = 2
  MaxReads = 1
  Overrun = 0
  Underrun = 0
INVARIANT PositionsActual
CHECK_DEADLOCK FALSE
