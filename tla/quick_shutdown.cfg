SPECIFICATION QuickSpec
CONSTANTS
  Producers = {p1, p2}
  MaxPush = 2
  Size = 2
  IndexMod = 4
  NoLine = NoLine
INVARIANTS ShutdownDrains
CHECK_DEADLOCK FALSE
