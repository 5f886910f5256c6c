SPECIFICATION Spec
CONSTANTS
  Producers = {p1, p2}
  MaxPush = 3
  Size = 2
  NoLine = NoLine
  AllocFaults = {"null", "throw"}
  FreedOutcomes = {"intact", "reused", "fault"}
  RelaxedClaim = FALSE
INVARIANTS TypeOK NothingLost BuffersReclaimed FullIsReplaced FlagGuardsQueue
PROPERTIES ResetSafely
CHECK_DEADLOCK FALSE
