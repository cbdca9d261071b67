SPECIFICATION FairSpec
CONSTANTS
  n1 = n1
  n2 = n2
  a1 = a1
  a2 = a2
  a3 = a3
  Nodes = {n1, n2}
  Addrs = {a1, a2, a3}
  Home <- MCHome
  c1 = c1
  c2 = c2
  Commands = {c1, c2}
  WithData = {c1}
  Reboots = {c2}
  CmdNone = CmdNone
  Nobody = Nobody
  Junk = Junk
  ByQuery = {n1, n2}
  Movable = {n1}
  SessionsLinger = FALSE
  MaxTimeouts = 1
  MaxResets = 1
  MaxDuplicates = 1
  MaxMoves = 1
  MaxBlanks = 1
  MaxMishaps = 1
INVARIANTS
  TypeOK
  PayloadStays
  NothingVanishes
  RegistrationKept
PROPERTIES
  ImplementsSlot
  CommandsConfirmed
  RegistrationLands
