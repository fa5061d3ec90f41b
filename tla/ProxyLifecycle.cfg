\* Two runs on one port, the second of which warms the pool up, with an accept
\* failure.  No dial of the pool succeeds: the run is about the listener.
SPECIFICATION FairLifeSpec
CONSTANTS
  Sockets = {}
  Callers = {c1}
  PoolSize = 1
  MaxCloses = 4
  MaxRuns = 2
  MaxAcceptErrors = 1
  WarmRuns = {2}
  None = None
INVARIANTS
  RunningIsBound
PROPERTIES
  RunReturns
  StopFreesPort
CHECK_DEADLOCK FALSE
