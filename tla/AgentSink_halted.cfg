CONSTANTS
  Event = {e1, e2, e3}
  Poison = {}
  NoEvent = NoEvent
  Junk = Junk
  MaxFaults = 1
  MaxCrashes = 1
SPECIFICATION Spec
PROPERTIES
  ValidLinesAreRetried
