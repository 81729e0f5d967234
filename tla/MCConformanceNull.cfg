CONSTANTS
  N = 1
  MaxLines = 2
  Lines <- Chatter
  None = None
  Basic = basic
  Derived = derived
  Core = core
  Extra = extra
  LevelIds <- MCLevels
  Families <- MCFamilies
  Suites <- MCSuites
  Docs <- MCDocs
SPECIFICATION Spec
CHECK_DEADLOCK FALSE
INVARIANT NoRunnerError
