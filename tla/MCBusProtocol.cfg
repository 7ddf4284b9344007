SPECIFICATION Spec
CONSTANTS
  Requests <- Some
  NoAnswer = "all"
  UsWrap = 5
  T35 = 1
  ReadTimeout = 2
  LateGrace = 1
  MaxFrame = 1
  DrainEscapeUs = 2
  Dedupe = 3
  TxUs = 1
  Rests = {4}
  MaxWrites = 3
  MaxReads = 3
  MaxStrays = 1
  MaxQueue = 2
  MaxRepeats = 1
  MaxTime = 7
INVARIANTS TypeOK StaleIsDrained AnswersTheRequest NothingForNothing
PROPERTY GenuineIsTaken
CHECK_DEADLOCK FALSE
