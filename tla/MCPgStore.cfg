CONSTANTS
  k1 = k1
  k2 = k2
  Key <- MCKey
  Event <- MCEvent
  NoEvent = NoEvent
  Worker = {w1, w2, w3}
  NoWorker = NoWorker
  Batch <- MCBatch
  SCHEMA_VERSION = 1
  MaxRequests = 3
  MaxBatch = 2
  MaxConnections = 2
  TicksPerMicro = 2
SPECIFICATION Spec
INVARIANTS
  LatestIsNewest
  AckedIsStored
  StoredIsPrefix
PROPERTIES
  Refines
  RequestsEnd
