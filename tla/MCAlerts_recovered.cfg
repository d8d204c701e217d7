SPECIFICATION Spec
CONSTANTS
  Runs <- MCRuns1
  Events <- MCCompletes
  Deletable <- MCNone
  MaxFailures = 0
  PageLimit = 2
  StalledAfter = 1
  MaxTime = 2
  MaxHandlers = 1
  None = None
PROPERTIES
  RecoveredRunIsNeverMarked
