SPECIFICATION FairSpec
CONSTANTS
  TokenBlock = {"a", "b"}
  BlockKey <- Keys
  NodeId = {1, 2, 3, 4, 5}
  Root = 0
  NoNode = NoNode
  Request <- Requests
  Decoded = {"a"}
  BlockId = {b1, b2, b3}
  Handle = {h1, h2}
  NoHandle = NoHandle
  Workers = 2
  Config <- Managers
INVARIANTS TableResident AcquireNeverAsserts
PROPERTY BecomesReady
