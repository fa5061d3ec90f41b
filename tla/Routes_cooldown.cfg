\* Direct WS only, whose address rests after a timeout.
SPECIFICATION Spec
CONSTANTS
  Configs <- MCDirectOnly
  AwgPolicies <- MCNoAwg
  CooldownAfter = 2
  MaxChanges = 0
  MaxFailures = 2
  NoRoute = NoRoute
  Sessions = {s1}
  Connects = {m1}
  MaxClients = 1
PROPERTIES
  SkippedForAFallback
CHECK_DEADLOCK FALSE
