SPECIFICATION FairSpec
CONSTANTS
  Updates = {o1, o2}
  EmptyUpdates = {e1}
  Reboots = {}
  Others = {c1}
  NoCmd = NoCmd
  Workers = {w1, w2}
  Deep = FALSE
  Overlapping = FALSE
  MemoryMayFail = FALSE
  CoapMaxRetries = 2
  MaxLosses = 0
INVARIANTS UpdatesAccounted GuardMeansOta
PROPERTIES UpdatesConfirmed
