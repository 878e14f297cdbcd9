CONSTANTS
  k1 = k1
  k2 = k2
  Key <- MCKey
  Event <- MCEvent
  NoEvent = NoEvent
  Worker = {w1, w2}
  Batch <- MCBatch
  SCHEMA_VERSION = 1
  MaxRequests = 2
  MaxBatch = 2
SPECIFICATION Spec
INVARIANTS
  AckedIsLoggedInOrder
  ShownIsLogged
  LatestUnlessRaced
