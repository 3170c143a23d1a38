SPECIFICATION BenchSpec
CONSTANTS
  TokenBlock <- Blocks
  BlockKey <- Keys
  NodeId = {11, 12, 13, 14, 15, 16, 17, 18, 19}
  Root = 0
  NoNode = NoNode
  Request = {}
  Decoded = {}
  Handle = {h1, h2, h3}
  NoHandle = NoHandle
  Workers = 3
  Config = {}
  Scenario <- Rows
INVARIANTS NeverRefused SingleTierThrashes
PROPERTIES SpillKeepsEntries OneWaitSuffices BenchFinishes
