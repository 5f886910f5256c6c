SPECIFICATION QuickSpec
CONSTANTS
  Producers = {p1, p2}
  MaxPush = 2
  Size = 2
  IndexMod = 4
  NoLine = NoLine
INVARIANTS QuickTypeOK ShutdownKeepsAllUnlessLapped PoppedIsWritten
PROPERTIES EventuallyWrittenUnlessLapped AddReturns ShutdownEnds
CHECK_DEADLOCK FALSE
