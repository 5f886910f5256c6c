SPECIFICATION Spec
CONSTANTS
  Threads = {t1, t2}
  Names = {default, net}
  DefaultName = default
  MaxLevel = 1
  MaxLoggers = 2
  MaxCalls = 4
PROPERTIES ClearsOnlyItself
CHECK_DEADLOCK FALSE
