CONSTANTS
  Event = {e1, e2, e3}
  Poison = {e3}
  NoEvent = NoEvent
  Junk = Junk
  MaxFaults = 2
  MaxCrashes = 2
SPECIFICATION Spec
INVARIANTS
  SpooledIsSafe
  RepeatedOnlyIfDisturbed
PROPERTIES
  SpooledIsDelivered
