SPECIFICATION FairSpec
CONSTANTS
  p1 = p1
  p2 = p2
  p3 = p3
  i1 = i1
  i2 = i2
  i3 = i3
  NoPid = NoPid
  NoInvoker = NoInvoker
  Pids = {p1, p2, p3}
  Invokers = {i1}
  WaitTerm = {i1}
  Interruptible = {i1}
  ExitStatuses = {"EXIT_SUCCESS"}
  AdminSignals = {"SIGUSR1", "SIGHUP"}
  MaxSignals = 1
  MaxFaults = 0
  MaxPipe = 2
CHECK_DEADLOCK FALSE
PROPERTIES
  EndReported
  RequestServed
