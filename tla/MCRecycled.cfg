SPECIFICATION Spec
CONSTANTS
  ExitStatuses = {"0", "7"}
  UserSignals = {}
  CrashSignals = {}
  MaxSignals = 0
INVARIANT OnlyApplicationStruck
CHECK_DEADLOCK FALSE
