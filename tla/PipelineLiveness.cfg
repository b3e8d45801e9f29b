CONSTANTS
  numProducers = 1
  ordersPerProducer = 2
  Consumers = {c1, c2}
SPECIFICATION FairSpec
PROPERTY
  ProgramEnds
