\* Four orders at three prices, so that a level holds several and a match walks
\* several levels; quantities of at most 2 and level totals that wrap at 3.
SPECIFICATION Spec
CONSTANTS
  Ids = {i1, i2, i3, i4}
  MaxPriceLevels = 3
  Quantities = {0, 1, 2}
  QtyModulus = 3
  PoolSize = 4
  MapSize = 4
  QueueSize = 2
  MaxLost = 0
  NoCall = NoCall
SYMMETRY IdSymmetry
INVARIANTS
  TypeOK
  QueuedOnce
  TotalsMatch
  BestBounds
  QuotesNeverCross
PROPERTIES
  PriceTimePriority
  QueueOrderKept
  OperationEnds
