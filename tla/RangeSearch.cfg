SPECIFICATION FairSpec
CONSTANTS
  MaxGroups = 4
  MaxWeight = 4
  Weights <- SmallWeights
  IntHalf = 12
  LongMod = 64
INVARIANTS TypeOK HolderInSubtree FindsHolder
PROPERTIES Returns
CHECK_DEADLOCK FALSE
