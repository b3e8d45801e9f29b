CONSTANTS
  Clients = {c1, c2}
  Prices = {1, 2, 3}
  Base = 2
  MaxPrices = 4
  MaxUnread = 2
SPECIFICATION Spec
SYMMETRY MarketSymmetry
CHECK_DEADLOCK FALSE
INVARIANTS
  HitsAreOrdered
  HandlersOwnTheirSockets
  NoPriceIsOrderedTwice
  StreamsAreComplete
  EndsByAnOpenSocketOnly
PROPERTIES
  ImplementsPriceBoard
  OrdersFollowMovements
