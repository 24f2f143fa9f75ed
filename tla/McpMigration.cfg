SPECIFICATION Spec
CONSTANTS
  Order <- MCOrder
  Sources <- MCSources
  SourceOf <- MCSourceOf
  JsonMirrors = {"json"}
  Ignored = {"bytes"}
  Contents <- MCContents
  Absent = Absent
  Trees <- MCTrees
  MaxCommands = 3
  MaxFaults = 2
  MaxActs = 2
CHECK_DEADLOCK FALSE
INVARIANTS
  TargetsAreReceipted
  AuthoredIsKept
  AppliedIsInSync
