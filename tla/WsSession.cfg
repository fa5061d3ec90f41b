\* The three sockets, two fragments within the limit of a message.
SPECIFICATION Spec
CONSTANTS
  Kinds = {"raw", "safe", "flowseal"}
  MaxFrag = 2
  None = None
INVARIANTS
  Reassembled
PROPERTIES
  FramesWhole
  SendReturns
  BridgeEnds
CHECK_DEADLOCK FALSE
