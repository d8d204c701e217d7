CONSTANTS
  None = None
  Requests <- MCRequests
  Off <- MCOff
  MaxEvents = 4
  MaxTime = 2
  Sessions = {"s1", "s2"}
  MaxEmitted = 3
SPECIFICATION AgentsSpec
INVARIANTS
  RunsEndWithTheirAgents
  ModelCallsFinish
  RetriesAddNothing
  BatchesAreDisjoint
CHECK_DEADLOCK FALSE
