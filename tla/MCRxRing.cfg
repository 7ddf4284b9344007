CONSTANTS
  Cap = 3
  Byte = {0, 1}
  Stamp = {0, 1}
  Arrival <- TwoEntries
  NoEntry = NoEntry
  CountMax = 1
SPECIFICATION Spec
INVARIANTS TypeOK NoSlotRace KnownIsThere
PROPERTY FifoSpec
