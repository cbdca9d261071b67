SPECIFICATION FairSpec
CONSTANTS
  Dht22Samples <- MCDht22Samples
  Sht31Samples <- MCSht31Samples
  Dht22Flips = 1
  Sht31Flips = 2
  Drivers = {"dht22", "sht31"}
  Deep = FALSE
  CoapMaxRetries = 1
  NoTruth = NoTruth
  MaxReadings = 2
  MaxMishaps = 1
  Router = Router
  Elsewhere = Elsewhere
  f1 = f1
  f2 = f2
  Fetches = {f1, f2}
  Idle = Idle
  MaxFetchFailures = 1
  MaxUrlChanges = 2
INVARIANTS
  PathTypeOK
  UnmarkedIsMeasured
  LiveIsReal
PROPERTIES
  CatchesUp
