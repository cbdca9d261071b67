SPECIFICATION Spec
CONSTANTS
  Nodes = {n1}
  Stored = {}
  NoNode = NoNode
  MaxRequests = 2
  MaxConnects = 1
INVARIANT StatusCurrent
