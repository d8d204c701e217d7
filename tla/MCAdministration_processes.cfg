CONSTANTS
  Procs = {p1, p2}
  Requests = {r1, r2}
  Modes = {detailed}
  Days = {7}
  NumFiles = 2
  MaxCommands = 3
  None = None
  n1 = n1
  n2 = n2
  Hooks = {h1, h2}
  Payloads = {n1, n2}
  Stamped = {n1}
  Bodied = {n1}
  Kind <- OneOdd
  TheRun = run
  Nil = Nil
SPECIFICATION ProcessesSpec
SYMMETRY Symmetry
INVARIANTS
  OneSetOfSecrets
  SchemaIsWhole
  SessionsFollowTokens
  NothingVanishes
  StoredOnce
PROPERTIES
  CaptureModeIsRespected
CHECK_DEADLOCK FALSE
