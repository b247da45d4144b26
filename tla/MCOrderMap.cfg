\* Four slots and ids whose probe sequences collide, up to a full table: the
\* multiplier of the code is 1 modulo 4.
SPECIFICATION FairSpec
CONSTANTS
  Capacity = 4
  Multiplier = 1
  Ids = {1, 2, 3, 4, 5, 6, 7, 8, 9}
INVARIANTS
  TypeOK
  EachKeyOnce
  ExactUntilStranded
PROPERTIES
  LosesOnlyPastAStop
  EraseReturns
