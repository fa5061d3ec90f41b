\* Four chunks of three pieces each, two retries.
SPECIFICATION FairSpec
CONSTANTS
  MaxSeq = 4
  Parts = 3
  MaxRetries = 2
INVARIANTS
  ForgottenIsDelivered
PROPERTIES
  ImplementsReliableDownload
  CloseEndsRead
