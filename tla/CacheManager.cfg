SPECIFICATION Spec
CONSTANTS
  TokenBlock = {"a", "b"}
  BlockKey <- Keys
  NodeId = {1, 2, 3, 4, 5}
  Root = 0
  NoNode = NoNode
  Request <- Requests
  Decoded = {"a"}
  BlockId = {b1, b2, b3, b4}
  Handle = {h1, h2}
  NoHandle = NoHandle
  Workers = 2
  Config <- LargeManager
SYMMETRY Sym
INVARIANTS TypeOK TablesIntact TableResident AcquireNeverAsserts FailureMeansExhausted RefusalExplained
PROPERTY NoOverDemotion
