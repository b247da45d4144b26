\* Two orders that meet at one tick, and an execution.
SPECIFICATION ReplaySpec
CHECK_DEADLOCK FALSE
CONSTANTS
  Ids = {r1, r2}
  MaxPriceLevels = 2
  Quantities = {0, 1, 2}
  QtyModulus = 3
  PoolSize = 2
  MapSize = 2
  QueueSize = 2
  MaxLost = 0
  NoCall = NoCall
  Locates = {aapl}
  NoLocate = NoLocate
  ItchPrices = {1}
  TickDivisor = 2
  MaxMessages = 0
  FeedLength = 3
  NoHandler = NoHandler
SYMMETRY RefSymmetry
PROPERTIES
  PlaceAlwaysKept
