CONSTANTS
  Token = {t1, t2}
  Agent = {a1, a2}
  NoAgent = NoAgent
  NoToken = NoToken
  Absent = Absent
  Worker = {w1, w2}
  AdminEnabled = TRUE
  MaxTtl = 2
  MaxValidity = 1
  MaxTime = 3
  Call = {r1, r2, r3, r4}
  Client = {a1, a2}
  NoClient = none
  max = 2
  window = 2
  KEY_SOFT_CAP = 1
  LastInstant = 3
  Root = {ca1, ca2, ca3, ca4}
  NoRoot = none
  MaxCrashes = 2
  MaxLosses = 1
SPECIFICATION BootstrapSpec
SYMMETRY Symmetric
INVARIANTS
  SingleUse
  NotBurned
  AtMostMaxPerWindow
  RecentIsHeld
  SignaturesVerify
  OneAnchor
PROPERTIES
  ConsumeIsEntitled
  OverCapOnlyIfActive
  AuthorityComesUp
