SPECIFICATION FairSpec
CONSTANTS
  NoConn = NoConn
  Emitter = {e1, e2}
  Conn = {c1, c2}
  ChanCap = 2
  BatchSize = 1
  WireCap = 1
  MaxSeq = 2
  MaxBreaks = 2
  Faults = FALSE
  Purging = FALSE
  MaxMishaps = 3
CHECK_DEADLOCK FALSE
PROPERTIES
  EveryEventSettles
