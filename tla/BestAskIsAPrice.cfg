\* Expected to be violated.
SPECIFICATION Spec
CONSTANTS
  Ids = {i1, i2, i3}
  MaxPriceLevels = 3
  Quantities = {0, 1, 2}
  QtyModulus = 3
  PoolSize = 3
  MapSize = 3
  QueueSize = 2
  MaxLost = 0
  NoCall = NoCall
INVARIANT BestAskIsAPrice
