SPECIFICATION Spec
CONSTANTS
  p1 = p1
  p2 = p2
  p3 = p3
  i1 = i1
  i2 = i2
  i3 = i3
  NoPid = NoPid
  NoInvoker = NoInvoker
  Pids = {p1, p2, p3}
  Invokers = {i1, i2}
  WaitTerm = {i1}
  Interruptible = {}
  ExitStatuses = {"EXIT_SUCCESS"}
  AdminSignals = {"SIGHUP"}
  MaxSignals = 1
  MaxFaults = 1
  MaxPipe = 2
CHECK_DEADLOCK FALSE
SYMMETRY PidSymmetry
VIEW Relevant
INVARIANTS
  TypeOK
  ConnectionsTracked
  InStep
  ChildInv
  InvokerInv
  RightOutcomeInStep
  NoAppKilledByInvoker
  NoWaiterForgotten
  BoosterToCome
PROPERTIES
  LaunchesInStep
