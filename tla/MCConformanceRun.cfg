CONSTANTS
  N = 2
  MaxLines = 4
  Lines <- Chatter
  None = None
  Basic = basic
  Derived = derived
  Core = core
  Extra = extra
  LevelIds <- MCLevels
  Families <- MCFamilies
  Suites <- MCSuites
  Docs <- MCDocs
SPECIFICATION FairSpec
CHECK_DEADLOCK FALSE
INVARIANT PassesAreEarned
INVARIANT NobodyWaitsOnTheDead
INVARIANT GradesAreEarned
INVARIANT ExitZeroIsEarned
PROPERTY EveryCaseGetsAResult
