SPECIFICATION FairSpec
CONSTANTS
  Files = {"main", "other"}
  Text <- TwoFiles
  Program = "main"
  Users <- AnyUser
  Names = {"x"}
  BreakLines = {2, 3, 5}
  Addresses = {2, 3}
  DataTypes <- NoneOrRead
  Filters <- NoneOrNamed
  MaxBreakPoints = 2
  MaxReads = 2
  Overrun = 1
  Underrun = 2
INVARIANTS TypeOK OneStop InstructionOnLine FramesDisassemble
PROPERTIES NoneJumped NoAddressPassed ThrowsUnloaded ReachesEnd
CHECK_DEADLOCK FALSE
