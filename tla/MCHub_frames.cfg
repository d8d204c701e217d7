CONSTANTS
  Publishers = {p1, p2}
  Conns = {c1, c2}
  Buffer = 1
  MaxFrames = 3
SPECIFICATION FairSpec
INVARIANTS
  NoSendOnClosedChannel
  EveryFrameHasAFate
  HolesShow
PROPERTIES
  GoroutinesProceed
