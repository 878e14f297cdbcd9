CONSTANTS
  Domain = {d1, d2}
  NoDomain = none
  MaxId = 2
  MaxFaults = 2
SPECIFICATION Spec
INVARIANTS PassedOverOnlyIfFailed RepeatedOnlyIfForgotten
PROPERTIES LoggedIsShipped
