CONSTANTS
  Hooks = {h1}
  Payloads = {p1}
  Stamped = {p1}
  Bodied = {p1}
  Kind <- OneGood
  TheRun = run
  Nil = Nil
SPECIFICATION DeliverySpec
PROPERTIES
  BodiesAreWithheld
CHECK_DEADLOCK FALSE
