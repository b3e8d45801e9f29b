CONSTANTS
  TICK_COUNT = 2
  Prices = {1, 2}
  Quantities = {50, 100}
  batchSize = 2
SPECIFICATION Spec
CHECK_DEADLOCK FALSE
INVARIANT FillsAreManaged
