SPECIFICATION Spec
CONSTANTS
  QuietPasses = 2
  UartRoom = 2
  SemMax = 2
  MaxStarts = 3
  MaxBytes = 4
INVARIANTS TypeOK NoWildSignal NoLeak OneProducer
PROPERTIES Ingested CallReturns
CHECK_DEADLOCK FALSE
