CONSTANTS
  Prices = {1, 2, 3}
  Quantities = {5}
  Fills = {0, 30, 50}
  MaxOrders = 3
SPECIFICATION Spec
CHECK_DEADLOCK FALSE
INVARIANTS
  TriggersOwnTheirOrders
  StrategyPricesAreQuoted
PROPERTIES
  SalesArePricedToTrade
  BestChangesAreReported
