\* A restart on the same or another address while the first run is still winding
\* up, one accept failure and one invalid Start at any time.
SPECIFICATION FairSpec
CONSTANTS
  Ports = {p, q}
  Conns = {c1}
  MaxRuns = 2
  MaxAcceptErrors = 1
  MaxBadStarts = 1
  None = None
INVARIANTS
  StatusTruthful
  RouteTruthOwn
  ActiveCovers
  PortHeld
PROPERTIES
  StopFrees
  WatchdogReturns
CHECK_DEADLOCK FALSE
