\* One client at a time, a SOCKS session or a connect of the MTProto frontend, among
\* clients that fail elsewhere; the settings or the AWG policy change once.
SPECIFICATION Spec
CONSTANTS
  Configs <- MCConfigs
  AwgPolicies <- MCAwgPolicies
  CooldownAfter = 1
  MaxChanges = 1
  MaxFailures = 2
  NoRoute = NoRoute
  Sessions = {s1}
  Connects = {m1}
  MaxClients = 1
INVARIANTS
  RestrictedKept
  RefusedExhausted
PROPERTIES
  PolicyHeld
  AttemptsEnd
CHECK_DEADLOCK FALSE
