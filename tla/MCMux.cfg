CONSTANTS
  MaxCalls = 4
  MaxRequests = 4
SPECIFICATION FairSpec
INVARIANTS
  MuxTypeOK
  OneLegAtATime
PROPERTIES
  ImplementsRelay
  ExchangeEnds
CHECK_DEADLOCK FALSE
