SPECIFICATION Spec
CONSTANTS
  Cameras = {c1}
  Channels = {a}
  NULL = NULL
  MaxEvents = 2
  MaxChanges = 0
  MaxCrashes = 0
INVARIANT
  EarlierDetectionWins
