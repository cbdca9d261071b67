SPECIFICATION FairSpec
CONSTANTS
  Euis = {e1}
  NoEui = NoEui
  Requests = {}
  CmdNone = CmdNone
  MaxNodes = 1
  OnlineTtl = 1
  CmdIdMod = 2
  NvsMayFail = TRUE
  MaxReports = 1
  MaxClock = 3
  MaxCrashes = 0
PROPERTIES SilentGoesOffline TasksReturn
