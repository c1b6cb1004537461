SPECIFICATION Spec
CONSTANTS
  ExitStatuses = {"0", "7"}
  UserSignals = {"SIGTSTP", "SIGCONT"}
  CrashSignals = {"SIGABRT"}
  MaxSignals = 2
INVARIANT SignalsForwarded
CHECK_DEADLOCK FALSE
