CONSTANTS
  none = none
  None = none
  Times = {1}
  SourceSequences = {}
  PageSize = 1
  MaxEvents = 1
  MaxRequests = 1
  MaxLosses = 1
SPECIFICATION PageSpec
PROPERTY GapsStayReported
