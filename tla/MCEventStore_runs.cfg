CONSTANTS
  r1 = r1
  r2 = r2
  s1 = s1
  c1 = c1
  c2 = c2
  None = None
  Runs = {r1, r2}
  Steps = {s1}
  Conns = {c1, c2}
  Keys = {1, 2, 3, 4, 5, 6, 7, 8, 9}
  Ids = {1, 2, 3, 4, 5, 6, 7, 8, 9}
  Batches <- RunBatches
  Clock = {4}
  MaxQuarantine = 1
SPECIFICATION FairSpec
INVARIANTS
  SummaryIsExact
  RunTimesAreExact
  StepTimesAreExact
  RunEndHasCause
  EventsAreDistinct
PROPERTIES
  EndMovesEarlier
  DeleteReportIsExact
  ImplementsRunLog
  CallsReturn
