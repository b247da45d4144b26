\* Expected to be violated: three orders and two more messages.
SPECIFICATION CollidingSpec
CHECK_DEADLOCK FALSE
CONSTANTS
  Ids = {1, 2, 3}
  MaxPriceLevels = 2
  Quantities = {1}
  QtyModulus = 8
  PoolSize = 4
  MapSize = 4
  QueueSize = 1
  MaxLost = 1
  NoCall = NoCall
  Locates = {aapl}
  NoLocate = NoLocate
  ItchPrices = {1}
  TickDivisor = 2
  MaxMessages = 0
  FeedLength = 5
  NoHandler = NoHandler
INVARIANT DeletedAreGone
