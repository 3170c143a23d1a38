SPECIFICATION Spec
CONSTANTS
  SizeLimit = 64
  IndexLimit = 4
  Alignment = 4
  CacheConfig <- Configs
  TierSpecs <- SpecLists
INVARIANTS SlotsInBounds SlotsDisjoint IdsAreGood OwnTierSuffices
CHECK_DEADLOCK FALSE
