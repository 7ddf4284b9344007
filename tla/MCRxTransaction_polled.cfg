SPECIFICATION Spec
CONSTANTS
  UsWrap = 16
  T15 = 1
  T35 = 2
  MinFrame = 2
  MaxLen = 3
  MaxSafe = 7
  ReadTimeout = 1
  LateGrace = 1
  MaxFrame = 2
  DrainEscapeUs = 3
  Dedupe = 5
  Threaded = FALSE
  Room = 2
  UartRoom = 1
  Lag = 1
  Rests = {}
  Start = {13}
  MaxRest = 0
  MaxCalls = 1
  MaxBytes = 0
  Kinds = {"reply", "other"}
INVARIANTS TypeOK ReturnBounded SilentWait
PROPERTY Returns
CHECK_DEADLOCK FALSE
