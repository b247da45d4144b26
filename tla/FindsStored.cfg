\* Expected to be violated.
SPECIFICATION Spec
CONSTANTS
  Capacity = 4
  Multiplier = 1
  Ids = {1, 2, 3, 4, 5, 6, 7, 8, 9}
INVARIANT FindsStored
