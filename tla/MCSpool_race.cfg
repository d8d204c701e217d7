CONSTANTS
  h1 = h1
  h2 = h2
  server = server
  p1 = p1
  p2 = p2
  p3 = p3
  p4 = p4
  Server = server
  Hooks = {h1}
  Sources = {1}
  Payloads = {p1, p2}
  Groups <- Singles
  Size <- MixedSize
  Limit = 4
  LineMax = 2
  MaxAge = 0
  MaxTime = 0
SPECIFICATION Spec
INVARIANTS
  NothingIsOverwritten
CHECK_DEADLOCK FALSE
