CONSTANTS
  p1 = p1
  p2 = p2
  h1 = h1
  h2 = h2
  None = None
  Blank = Blank
  Hosts <- MCHosts
  Procs <- MCProcs
  Args <- AllArgs
  MaxFaults = 1
SPECIFICATION MCSpec
INVARIANTS LockIsHeld BridgeHasOwner SessionKeepsBridge RetryDropsHost
PROPERTIES ConnectEnds
CHECK_DEADLOCK FALSE
