\* Four references at two ticks: price 1 becomes tick 0, price 5 is clamped to
\* tick 1; a pool of three orders, and an order map that loses a key at a time.
SPECIFICATION ReplaySpec
CHECK_DEADLOCK FALSE
CONSTANTS
  Ids = {r1, r2, r3, r4}
  MaxPriceLevels = 2
  Quantities = {1, 2}
  QtyModulus = 3
  PoolSize = 3
  MapSize = 3
  QueueSize = 1
  MaxLost = 1
  NoCall = NoCall
  Locates = {aapl}
  NoLocate = NoLocate
  ItchPrices = {1, 5}
  TickDivisor = 2
  MaxMessages = 4
  FeedLength = 5
  NoHandler = NoHandler
SYMMETRY RefSymmetry
INVARIANTS
  ReplayTypeOK
  TrackerCoversBook
  ReplayExact
  SharesConserved
PROPERTIES
  UsesBook
  PlaceKept
