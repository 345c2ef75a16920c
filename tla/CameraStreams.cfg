SPECIFICATION Spec
CONSTANTS
  Locations = {x}
  NULL = NULL
  QueueDepth = 2
  MaxGap = 2
  Threshold = 3
  Decay = 1
  MaxFaults = 1
  MaxEvents = 1
  MaxOrders = 1
  None = None
  HEARTBEAT_STALE_SECONDS = 2
  UNRESPONSIVE_AFTER_FAILURES = 3
  FPS_BAND_MIN = 10
  GPU_TEMP_CRITICAL_C = 85
  RAM_CRITICAL_PCT = 90
  DISK_WARNING_PCT = 85
  DISK_CRITICAL_PCT = 95
INVARIANTS
  EventsAreCorroborated
  EvidenceIsContinuous
  NotDeaf
