SPECIFICATION Spec
CONSTANTS
  NoConn = NoConn
  Emitter = {e1, e2}
  Conn = {c1, c2}
  ChanCap = 1
  BatchSize = 1
  WireCap = 1
  MaxSeq = 3
  MaxBreaks = 1
  Faults = TRUE
  Purging = TRUE
  MaxMishaps = 2
CHECK_DEADLOCK FALSE
CONSTRAINT Budget
SYMMETRY Symmetry
INVARIANTS
  CursorAccounted
  LiveConnectionRegistered
  NothingMissedDuringReplay
PROPERTIES
  SkipsOnlyAccounted
  ImplementsDelivery
