SPECIFICATION Spec
CONSTANTS
  BlockId = {b1, b2, b3}
  Slot = {1, 2, 3}
  Tier = {0, 1}
  TierOf <- TwoOne
  FirstSlot = 1
  HostTier = {0, 1}
  JobId = {j1, j2, j3}
  Worker = {w1, w2}
  Value = {v1, v2}
  Garbage = Garbage
  Nil = Nil
  MaxRefs = 2
SYMMETRY Sym
INVARIANTS TypeOK SlotOwnership RebindIsSafe ClaimsAreExclusive RoomMeansId
PROPERTIES ImplementsBlockStore ImplementsTierPool
