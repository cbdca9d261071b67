SPECIFICATION Spec
CONSTANTS
  Euis = {e1, e2}
  NoEui = NoEui
  Requests = {c1, c2, c3}
  CmdNone = CmdNone
  MaxNodes = 2
  OnlineTtl = 0
  CmdIdMod = 2
  NvsMayFail = FALSE
  MaxReports = 1
  MaxClock = 0
  MaxCrashes = 0
SYMMETRY Interchangeable
INVARIANTS HandedOnce LatestRequestKept
PROPERTY KeepsBox
