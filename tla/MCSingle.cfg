SPECIFICATION FairSpec
CONSTANTS
  Boosters = {b1, b2}
  Standalones = {s1}
  Invokers = {i1, i2}
  Names = {n1, n2}
  None = None
  MaxFaults = 1
INVARIANTS
  TypeOK
  SingleInstances
  SingleInv
  NobodyLeftAsking
PROPERTIES
  RequestAnswered
  OneInstanceSpec
CHECK_DEADLOCK FALSE
