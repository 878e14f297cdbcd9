CONSTANTS
  Deadline = 10
  Horizon = 10
  Seen <- MCSeen
  Wrapped <- MCWrapped
  External <- MCExternal
  Tree <- MCTree
  RuleDirs <- MCRuleDirs
  ByteCaps = {1, 2}
  LineCaps = {1, 2}
  Plans <- MCPlans
  Start = 6
  Year = 4
  LastYear = 10
  MaxAssets = 2
SPECIFICATION Spec
INVARIANT LevelIsWeakestLink
