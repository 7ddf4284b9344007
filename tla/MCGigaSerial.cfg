SPECIFICATION Spec
CONSTANTS
  Ports = {bus, p1, p2}
  Bus = bus
  None = none
  Cap = 2
  Second = 8
  FastBaud = 6
  FixedTimers = TRUE
  FixedT15 = 17
  FixedT35 = 60
  MaxEnvelope = 14000
  LongestFrame = 256
  UsWrap = 256
  Start = {0, 200}
  SleepUs = 9
  ShortUs = 3
  WriteTimeoutUs = 15
  FlushTimeoutUs = 15
  TxRoom = 3
  Lag = 2
  Bauds = {4, 8}
  Formats <- RtuFormats
  Frames = {1, 4, 5}
INVARIANTS TypeOK SlotsAreLive FullIsFull LinkAgrees DrainCovers ReleasedInTime
PROPERTY AdmissionIsFinal
CHECK_DEADLOCK FALSE
