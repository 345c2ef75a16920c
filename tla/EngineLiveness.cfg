SPECIFICATION FairSpec
CONSTANTS
  Cameras = {c1}
  Channels = {a, b}
  NULL = NULL
  MaxEvents = 1
  MaxChanges = 1
  MaxCrashes = 1
PROPERTY
  EveryEntryLeaves
  EngineFollowsBackend
