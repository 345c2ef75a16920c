SPECIFICATION Spec
CONSTANTS
  Cameras = {c1}
  Channels = {a}
  NULL = NULL
  MaxEvents = 1
  MaxChanges = 0
  MaxCrashes = 1
PROPERTY
  PendingHoldsPause
