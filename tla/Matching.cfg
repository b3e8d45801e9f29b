CONSTANTS
  TICK_COUNT = 5
  Prices = {1, 2, 3}
  Quantities = {50, 100}
  batchSize = 2
SPECIFICATION Spec
CHECK_DEADLOCK FALSE
INVARIANTS
  BookIsNotCrossed
  StatesMatchBook
  EveryFillIsPrinted
PROPERTIES
  BestOrdersTrade
