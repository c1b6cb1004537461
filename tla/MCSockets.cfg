SPECIFICATION FairSpec
CONSTANTS
  Daemons = {d1, d2}
  Boosters = {b1, b2}
  Invokers = {i1, i2}
  None = None
  Backlog = 1
  MaxUpsets = 2
INVARIANTS
  TypeOK
  Reachable
  StaleFileReplaced
  SocketInv
  NobodyWaitsInVain
PROPERTY NobodyStranded
CHECK_DEADLOCK FALSE
