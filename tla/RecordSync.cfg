SPECIFICATION Spec
CONSTANTS
  Modes <- MCModes
  MaxRequests = 4
  MaxBackfills = 1
  MaxFaults = 1
CHECK_DEADLOCK FALSE
INVARIANTS
  RowBacked
  RecordMirrored
  LastWordKept
  RemovalKept
  UnshareDeletesEarlier
