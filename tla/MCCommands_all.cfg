CONSTANTS
  Objects <- MCObjects
  Integrations <- MCIntegrations
  UserVersions <- MCVersions
  Absent = Absent
  Empty = Empty
  Seconds = 2
  Runs = {1, 2, 3}
  StepIds = {"s"}
  Events <- MCEvents
  Null = Null
  Policies <- MCPolicies
  Project <- MCProject
  PageSize = 1
  Exported = {1, 3}
  EventPage = 1
  ExportFiles = {"f"}
  Missing = Missing
  Torn = Torn
  FileOf <- MCFileOf
  h1 = h1
  h2 = h2
  server = server
  p1 = p1
  p2 = p2
  p3 = p3
  p4 = p4
  Server = server
  Hooks = {h1}
  Sources = {1, 2}
  Payloads = {p1, p2, p3, p4}
  Groups <- WithPair
  Size <- MixedSize
  Limit = 2
  LineMax = 1
  MaxAge = 0
  MaxTime = 1
SPECIFICATION AllSpec
INVARIANTS
  UsersVersionIsKept
  ForeignKeysSurvive
  ApplyIsOrdered
  StableRunsAreListedOnce
  DocumentsHoldTogether
  SweepTakesExactlyTheAged
  EveryPayloadIsAccountedFor
  CeilingHolds
PROPERTIES
  ExemptRunsStay
CHECK_DEADLOCK FALSE
