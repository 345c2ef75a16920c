SPECIFICATION Spec
CONSTANTS
  Incidents = {i1}
  NoIncident = NoIncident
  MaxConnects = 2
  MaxMutes = 1
  MaxLate = 2
  MaxCalls = 1
  MaxWire = 1
  MaxStamp = 3
INVARIANT
  QuietQueueIsComplete
  StoreIsConsistent
PROPERTY
  PendingStaysUntilDecided
CHECK_DEADLOCK FALSE
