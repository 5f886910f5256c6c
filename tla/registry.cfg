SPECIFICATION Spec
CONSTANTS
  Threads = {t1, t2}
  Names = {default, net}
  DefaultName = default
  MaxLevel = 1
  MaxLoggers = 2
  MaxCalls = 4
INVARIANTS TypeOK DefaultKnown QuietUnlessDisturbed
PROPERTIES ImplementsLoggerLife LevelTakesEffect CallsReturn
CHECK_DEADLOCK FALSE
