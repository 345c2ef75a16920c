SPECIFICATION FairSpec
CONSTANTS
  KeepReserves = 1
  MaxRequests = 2
  MaxAttempts = 3
  MaxCrashes = 2
  None = None
  BACKUP_INTERVAL = 3
  RESTORE_COORDINATOR_STALE_SECONDS = 1
  HEARTBEAT_STALE_SECONDS = 1
  MFA_ENCRYPTION_KEY = "key"
  ExpectedRevision = "head"
  KnownRevisions = {"head", "older"}
INVARIANT
  ReserveCoversSwap
  RolledBackIsBack
PROPERTY
  Lifecycle
  SwapOnlyOffline
  RequestIsAnswered
