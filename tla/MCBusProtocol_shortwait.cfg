SPECIFICATION Spec
CONSTANTS
  Requests <- Some
  NoAnswer = "all"
  UsWrap = 8
  T35 = 1
  ReadTimeout = 2
  LateGrace = 1
  MaxFrame = 1
  DrainEscapeUs = 2
  Dedupe = 3
  TxUs = 1
  Rests = {5}
  MaxWrites = 2
  MaxReads = 2
  MaxStrays = 1
  MaxQueue = 2
  MaxRepeats = 1
  MaxTime = 10
INVARIANT FullWait
CHECK_DEADLOCK FALSE
