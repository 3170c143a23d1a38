SPECIFICATION Spec
CONSTANTS
  TokenBlock = {"a", "b", "c"}
  BlockKey <- Keys
  NodeId = {1, 2, 3, 4, 5}
  Root = 0
  NoNode = NoNode
  Request <- Requests
  BlockId = {b1, b2, b3, b4}
  Handle = {h1, h2}
  NoHandle = NoHandle
  MaxEvict = 2
SYMMETRY Sym
INVARIANT EvictWithinRequest
