CONSTANTS
  numProducers = 2
  ordersPerProducer = 1
  Consumers = {c1, c2}
SPECIFICATION Spec
SYMMETRY ConsumerSymmetry
INVARIANT PopReturnsAPushedItem
