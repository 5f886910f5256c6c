SPECIFICATION SafeSpec
CONSTANTS
  Producers = {p1, p2}
  MaxPush = 2
  Size = 2
  NoLine = NoLine
  AllocFaults = {"throw"}
  FreedOutcomes = {"intact"}
  RelaxedClaim = FALSE
  RollSize = 1
INVARIANTS SafeTypeOK ShutdownKeepsAll HandedIsSaved
PROPERTIES ImplementsBufferBase EventuallyWritten AddReturns ShutdownEnds
CHECK_DEADLOCK FALSE
