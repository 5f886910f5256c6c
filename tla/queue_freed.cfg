SPECIFICATION Spec
CONSTANTS
  Producers = {p1, p2}
  MaxPush = 2
  Size = 2
  NoLine = NoLine
  AllocFaults = {}
  FreedOutcomes = {"intact", "reused", "fault"}
  RelaxedClaim = FALSE
INVARIANTS NoUseAfterFree
CHECK_DEADLOCK FALSE
