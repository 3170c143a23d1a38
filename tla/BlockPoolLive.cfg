SPECIFICATION FairSpec
CONSTANTS
  BlockId = {b1, b2, b3}
  Slot = {1, 2, 3}
  Tier = {0, 1}
  TierOf <- TwoOne
  FirstSlot = 1
  HostTier = {0, 1}
  JobId = {j1, j2}
  Worker = {w1, w2}
  Value = {}
  Garbage = Garbage
  Nil = Nil
  MaxRefs = 1
PROPERTY JobsSettle
