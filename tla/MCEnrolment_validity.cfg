CONSTANTS
  Token = {t1}
  Agent = {a1, a2}
  NoAgent = NoAgent
  NoToken = NoToken
  Absent = Absent
  Worker = {w1}
  AdminEnabled = TRUE
  MaxTtl = 1
  MaxValidity = 1
  MaxTime = 2
SPECIFICATION Spec
INVARIANTS
  ConsumedMeansEnrolled
