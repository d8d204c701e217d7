SPECIFICATION FairSpec
CONSTANTS
  Runs <- MCRuns1
  Events <- MCEvents
  Deletable <- MCRuns1
  MaxFailures = 1
  PageLimit = 2
  StalledAfter = 1
  MaxTime = 1
  MaxHandlers = 1
  None = None
INVARIANTS
  NotifiedOnce
  MarkedRunsAreReported
PROPERTIES
  ReportedEndStays
  FailedRunsAreReported
  StalledAlertsClear
