\* Safety, refinement and liveness: a window that refills, two primary slots, one
\* retry, and Writes of one to four chunks in any split of the stream.
SPECIFICATION FairSpec
CONSTANTS
  Window = 2
  PrimarySlots = 2
  MaxRetries = 1
  MaxSeq = 4
INVARIANTS
  StreamIntact
  ConfirmedReceived
  HedgeOnlyOldest
PROPERTIES
  ImplementsReliableUpload
  WriteReturns
  JobsEnd
CHECK_DEADLOCK FALSE
