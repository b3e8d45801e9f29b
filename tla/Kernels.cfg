CONSTANTS
  Rows = {0, 1, 2, 3, 9}
  Widths = {0, 1, 2, 3, 4, 5, 8, 9, 17}
  Points = {0, 1, 2, 3, 4, 5, 8, 9}
  Windows = {1, 2, 3, 5}
  Sizes = {0, 1, 2, 3, 4, 5}
  Bids = {1, 2, 3}
  MaxBids = 7
  Instruments = 2
  Steady = {0, 8, 19}
  Ticks = {100, 150, 160, 196}
  MaxTicks = 4
SPECIFICATION Spec
CHECK_DEADLOCK FALSE
INVARIANTS
  LoopsMissNothing
  BidsComeOutSorted
  AveragesCoverTheirWindows
  StatsDescribeTheWindow
