SPECIFICATION FairSpec
CONSTANTS
  ExitStatuses = {"0", "7"}
  UserSignals = {"SIGTERM", "SIGTSTP", "SIGCONT"}
  CrashSignals = {"SIGABRT", "SIGTERM"}
  MaxSignals = 3
INVARIANTS
  TypeOK
  ForwardsAgain
  EndsAsApplication
  OnlyOrphansKilled
  WaitInv
PROPERTY WaitEnds
CHECK_DEADLOCK FALSE
