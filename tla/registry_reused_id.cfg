SPECIFICATION Spec
CONSTANTS
  Euis = {e1}
  NoEui = NoEui
  Requests = {c1, c2}
  CmdNone = CmdNone
  MaxNodes = 1
  OnlineTtl = 0
  CmdIdMod = 256
  NvsMayFail = FALSE
  MaxReports = 1
  MaxClock = 0
  MaxCrashes = 1
INVARIANT AckIdsDistinct
