SPECIFICATION Spec
CONSTANTS
  Logins = {l1, l2}
  MaxConfirms = 2
  TTL = 3
  MaxDelay = 1
  StartBy = 0
  MaxClock = 7
  Cost = 2
  DeviceRate = 1
  DeviceBurst = 4
  ConfirmRate = 2
  ConfirmBurst = 6
  MaxManual = 1
  MaxFaults = 1
INVARIANTS TokensAccounted AdmissionBounded EarlyApprovalServed
PROPERTY DecisionFinal
SYMMETRY Symmetry
CHECK_DEADLOCK FALSE
