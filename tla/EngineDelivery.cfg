SPECIFICATION Spec
CONSTANTS
  Cameras = {c1}
  Channels = {a}
  NULL = NULL
  MaxEvents = 2
  MaxChanges = 1
  MaxCrashes = 1
SYMMETRY Symmetry
PROPERTY
  DeliverySpec
