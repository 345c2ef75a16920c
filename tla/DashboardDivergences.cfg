SPECIFICATION Spec
CONSTANTS
  Incidents = {i1, i2}
  NoIncident = NoIncident
  MaxConnects = 1
  MaxMutes = 1
  MaxLate = 1
  MaxCalls = 1
  MaxWire = 1
  MaxStamp = 3
INVARIANT
  NoticeRemovesDecided
PROPERTY
  ConfirmedStaysConfirmed
CHECK_DEADLOCK FALSE
