SPECIFICATION Spec
CONSTANTS
  UsWrap = 16
  T15 = 1
  T35 = 2
  MinFrame = 2
  MaxLen = 3
  MaxSafe = 7
  ReadTimeout = 2
  LateGrace = 1
  MaxFrame = 3
  DrainEscapeUs = 3
  Dedupe = 5
  Threaded = TRUE
  Room = 2
  UartRoom = 1
  Lag = 1
  Rests = {4, 12}
  Start = {13}
  MaxRest = 16
  MaxCalls = 1
  MaxBytes = 4
  Kinds = {"reply", "other"}
INVARIANTS ReturnBounded WindowsAreCurrent
CHECK_DEADLOCK FALSE
