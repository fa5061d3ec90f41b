\* One CloseAll at any time: two sessions, a pool of two.
SPECIFICATION FairSpec
CONSTANTS
  Sockets = {w1, w2, w3, w4, w5}
  Callers = {c1, c2}
  PoolSize = 2
  MaxCloses = 1
  None = None
INVARIANTS
  HandedOutOnce
  GoroutinesBounded
PROPERTIES
  RefillFlagClears
