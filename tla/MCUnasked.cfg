SPECIFICATION Spec
CONSTANTS
  p1 = p1
  p2 = p2
  p3 = p3
  i1 = i1
  i2 = i2
  i3 = i3
  NoPid = NoPid
  NoInvoker = NoInvoker
  Pids = {p1, p2, p3}
  Invokers = {i1, i2}
  WaitTerm = {i1}
  Interruptible = {}
  ExitStatuses = {"EXIT_SUCCESS"}
  AdminSignals = {"SIGUSR1"}
  MaxSignals = 1
  MaxFaults = 0
  MaxPipe = 2
CHECK_DEADLOCK FALSE
INVARIANTS
  StopsOnlyWhenAsked
