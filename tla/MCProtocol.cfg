SPECIFICATION FairSpec
CONSTANTS
  StrLenMax = 2
  ArgMax = 3
  MaxVars = 3
  Requests <- MCRequests
  Buffer = 2
  MaxFaults = 2
INVARIANTS
  TypeOK
  ConversationInv
  AcceptedAsSent
  RefusedForCause
  Agreement
  NeverBothBlocked
PROPERTY ConversationEnds
CHECK_DEADLOCK FALSE
