SPECIFICATION Spec
CONSTANTS
  Producers = {p1, p2}
  MaxPush = 2
  Size = 2
  NoLine = NoLine
  AllocFaults = {}
  FreedOutcomes = {"intact"}
  RelaxedClaim = TRUE
INVARIANTS NothingLost
CHECK_DEADLOCK FALSE
