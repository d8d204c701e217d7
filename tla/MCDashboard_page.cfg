CONSTANTS
  none = none
  None = none
  Times = {1}
  SourceSequences = {1}
  PageSize = 1
  MaxEvents = 3
  MaxRequests = 2
  MaxLosses = 1
SPECIFICATION PageFairSpec
INVARIANTS
  WholePageIsWhole
PROPERTIES
  ConnectionComesBack
