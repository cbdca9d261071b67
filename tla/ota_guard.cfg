SPECIFICATION FairSpec
CONSTANTS
  Updates = {o1, o2}
  EmptyUpdates = {e1}
  Reboots = {r1}
  Others = {}
  NoCmd = NoCmd
  Workers = {w1, w2}
  Deep = TRUE
  Overlapping = FALSE
  MemoryMayFail = TRUE
  CoapMaxRetries = 2
  MaxLosses = 2
INVARIANTS TypeOK NoSleepDuringOta TelemetryTellsOta
PROPERTY ReportsForever
