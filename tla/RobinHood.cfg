CONSTANTS
  Keys = {k1, k2, k3}
  Values = {v1, v2}
  NoKey = NoKey
  maxCapacity = 4
SPECIFICATION FairSpec
INVARIANTS
  LookupAgreesWithStored
PROPERTIES
  CallsReturn
