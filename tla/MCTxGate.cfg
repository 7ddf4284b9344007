CONSTANTS
  UsWrap = 32
  MsWrap = 32
  UsPerMs = 2
  MaxGate = 15
  T35 = 2
  BaseGap = 1
  NoReplyCap = 3
  IdleResetMs = 3
  EscapeUs = 4
  ProcUs = {1, 7}
  PreGaps = {20}
  PostGaps = {1}
  Rests = {1, 30}
  Lag = 2
  Start = {60}
  MaxTime = 96
SPECIFICATION Spec
INVARIANTS TypeOK NoEarlyStart NotRevived FrameSilence DriverOrder PreGapKept
