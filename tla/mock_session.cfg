SPECIFICATION FairSpec
CONSTANTS
  Files = {"main", "other"}
  Program = "main"
  MaxReads = 4
  Clients <- AnyClient
  Globals = 5
  Updates = 3
  MaxFetches = 2
  MaxProgress = 2
  Names = {"x", "lazy"}
  LazyNames = {"lazy"}
  Strings = {"a", "b", "replacement"}
  Numbers = {"1"}
  Bytes <- MCBytes
  Encoded <- MCEncoded
  Decoded <- MCDecoded
  Size <- MCSize
  Fields <- MCFields
  MaxObjects = 3
  MaxHandles = 4
INVARIANTS TypeOK LinesOfSourceFile FetchHonest ProgressHonest MemoryCoherent ReferencesOwned ViewCurrent
PROPERTIES LaunchSettles
CHECK_DEADLOCK FALSE
