SPECIFICATION Spec
CONSTANTS
  Euis = {e1}
  NoEui = NoEui
  Requests = {}
  CmdNone = CmdNone
  MaxNodes = 1
  OnlineTtl = 0
  CmdIdMod = 2
  NvsMayFail = FALSE
  MaxReports = 2
  MaxClock = 0
  MaxCrashes = 0
INVARIANT CleanMeansSaved
