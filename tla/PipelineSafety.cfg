CONSTANTS
  numProducers = 2
  ordersPerProducer = 1
  Consumers = {c1, c2}
SPECIFICATION Spec
SYMMETRY ConsumerSymmetry
INVARIANTS
  TypeOK
  SlotClaimedOnce
  CompletedNeverDrops
  LeavesOnlyWhenComplete
  CompletedOnce
  BookHoldsWhatWasProcessed
  ReportMatchesBook
PROPERTY
  FollowsOrderFlow
