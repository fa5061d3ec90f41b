\* Two sessions of any kind over two Workers, whose quota outlasts a temporary
\* failure's cooldown by a tick; one retry of an open.
SPECIFICATION Spec
CONSTANTS
  Sessions = {s1, s2}
  Workers = {w1, w2}
  w1 = w1
  w2 = w2
  Configured <- MCConfigured
  RoundRobin = TRUE
  MaxAttempts = 2
  MaxRetries = 1
  Cooldown = 1
  QuotaReset = 2
INVARIANTS
  SocketsOwned
  IdleNotActive
PROPERTIES
  QuotaKept
  ConnectEnds
