CONSTANTS
  Ids = {i1, i2, i3}
  Prices = {1, 2, 3}
  Quantities = {1, 2}
  Absent = Absent
SPECIFICATION Spec
SYMMETRY IdSymmetry
CHECK_DEADLOCK FALSE
INVARIANTS
  LevelsMatchLookup
  PointersAreLive
  BestIsOldestAtBestPrice
PROPERTIES
  LevelsImplementBook
  HybridImplementsBook
