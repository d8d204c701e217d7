CONSTANTS
  none = none
  None = none
  Times = {1, 2}
  SourceSequences = {}
  PageSize = 1
  MaxEvents = 2
  MaxRequests = 1
  MaxLosses = 0
SPECIFICATION PageSpec
INVARIANT CursorSkipsNothing
