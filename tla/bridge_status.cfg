SPECIFICATION FairSpec
CONSTANTS
  Nodes = {n1, n2}
  Stored = {n1}
  NoNode = NoNode
  MaxRequests = 2
  MaxConnects = 2
INVARIANTS TypeOK NoDeadlyEmbrace OfflineRetained
PROPERTIES OfflineReachesBroker TasksReturn
