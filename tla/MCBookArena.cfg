\* Three slots at two prices: a level with a middle, and lists at two prices of
\* each side.  The table loses one key at a time; the fourth id is for an add
\* that a leftover key makes it refuse.  The event queue plays no part.
SPECIFICATION ArenaSpec
CONSTANTS
  Ids = {i1, i2, i3, i4}
  MaxPriceLevels = 2
  Quantities = {1, 2}
  QtyModulus = 3
  PoolSize = 3
  MapSize = 3
  QueueSize = 1
  MaxLost = 1
  NoCall = NoCall
  Unused = Unused
SYMMETRY IdSymmetry
INVARIANTS
  ArenaTypeOK
  ListsMatch
  FreeListExact
  PoolMatchesMap
  ReAddHasRoom
PROPERTY LiveFieldsKept
