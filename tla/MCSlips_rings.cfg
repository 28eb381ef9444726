CONSTANTS
  None = None
  NumSignals = 2
  MaxCount = 2
  Flaggable <- First
  Steps <- AroundLimits
  MaxEpochs = 4
  MaxDeliveries = 2
SPECIFICATION Spec
INVARIANTS
  TypeOK
  NoRingWithoutSlip
  EveryCountHasCause
CHECK_DEADLOCK FALSE
