\* The socket of SOCKS sessions, whose session is cancelled.
SPECIFICATION Spec
CONSTANTS
  Kinds = {"raw"}
  MaxFrag = 1
  None = None
PROPERTIES
  RawBridgeReturns
CHECK_DEADLOCK FALSE
