SPECIFICATION DirSpec
CONSTANTS
  Lines <- RunLines
  Width <- LineWidth
  Widths <- LineWidths
  RollSize = 2
  Terminal = TRUE
  Faults = {"open", "stream"}
  MaxWrites = 5
  MaxRuns = 2
INVARIANTS DirTypeOK GaplessOnDisk RollsWhenDue TerminalAhead
PROPERTIES RolledFilesStay
CHECK_DEADLOCK FALSE
