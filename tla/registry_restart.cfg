SPECIFICATION Spec
CONSTANTS
  Euis = {e1, e2, e3}
  NoEui = NoEui
  Requests = {}
  CmdNone = CmdNone
  MaxNodes = 2
  OnlineTtl = 1
  CmdIdMod = 4
  NvsMayFail = FALSE
  MaxReports = 1
  MaxClock = 2
  MaxCrashes = 2
SYMMETRY Interchangeable
INVARIANTS TypeOK UniqueEuis ImageRestorable CreatedSurvives
PROPERTIES KeepsPromise NoFalseOffline
