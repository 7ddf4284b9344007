SPECIFICATION Spec
CONSTANTS
  UsWrap = 64
  T15 = 1
  T35 = 3
  MinFrame = 4
  MaxLen = 8
  Counted = {1, 2, 3, 4}
  Fixed = {5, 6, 15, 16}
  Exception = {131}
  CrcOf <- Check
  Bodies <- Replies
  Noise <- Garbage
  Begin = 60
  MaxQuiet = 4
  MaxRing = 13
  MaxBytes = 13
  MaxNoise = 4
INVARIANTS TypeOK Contract Delivered
CHECK_DEADLOCK FALSE
