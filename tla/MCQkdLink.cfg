CONSTANTS
  Kme = {kmeA, kmeB}
  NoEvent = none
  Driven = kmeA
  Scenario <- MCScenario
  MaxQber = 4
  InitialQber = 1
  WarnQber = 2
  FailQber = 3
  SeedKeys = 1
  MaxPerCall = 1
  MaxKeys = 3
  MaxTime = 2
  MaxFaults = 2
SPECIFICATION Spec
INVARIANTS RowsWereTrue ReplayKeepsTime
PROPERTIES SettledIsShown
