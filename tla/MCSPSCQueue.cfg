\* Four slots, of which three are usable, and three items: the indices wrap
\* around many times, with the two threads' views up to three stores behind.
SPECIFICATION FairSpec
CONSTANTS
  Capacity = 4
  Items = {a, b, c}
  NoItem = NoItem
INVARIANTS
  TypeOK
  NoDataRace
PROPERTIES
  ImplementsFIFO
  DeliversAll
