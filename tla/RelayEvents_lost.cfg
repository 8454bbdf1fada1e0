SPECIFICATION Spec
CONSTANTS
  NoConn = NoConn
  Emitter = {e1, e2}
  Conn = {c1, c2}
  ChanCap = 3
  BatchSize = 3
  WireCap = 1
  MaxSeq = 3
  MaxBreaks = 0
  Faults = FALSE
  Purging = FALSE
  MaxMishaps = 3
CHECK_DEADLOCK FALSE
INVARIANTS
  NoEventLost
