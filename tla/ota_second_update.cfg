SPECIFICATION Spec
CONSTANTS
  Updates = {o1, o2}
  EmptyUpdates = {}
  Reboots = {}
  Others = {}
  NoCmd = NoCmd
  Workers = {w1, w2}
  Deep = TRUE
  Overlapping = TRUE
  MemoryMayFail = FALSE
  CoapMaxRetries = 2
  MaxLosses = 0
SYMMETRY Interchangeable
INVARIANTS NoSleepDuringOta
