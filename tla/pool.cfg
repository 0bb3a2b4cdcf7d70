SPECIFICATION FairPoolSpec
CONSTANTS
  w1 = w1
  w2 = w2
  w3 = w3
  Pool <- ThreeWorkers
  Transports <- AllTransports
  PoolFaults <- AllPoolFaults
INVARIANTS
  PoolInv
  DrainedWhenOk
PROPERTIES
  ServeReturns
CHECK_DEADLOCK FALSE
