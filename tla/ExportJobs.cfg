SPECIFICATION FairSpec
CONSTANTS
  Jobs = {j1, j2}
  Workers = {w1, w2}
  NoJob = NoJob
  Rerun = {j1}
  MaxRestores = 1
  None = None
  EXPORT_PDF_MAX_ROWS = 2
  EXPORT_CSV_MAX_ROWS = 3
  AUDIT_GROUP_GAP_SECONDS = 1
  Hour = 2
  DASHBOARD_CACHE_TTL_SECONDS = 2
  MaxCached = 2
INVARIANT
  PartIsNeverServed
  OneOutcome
  ExpiredIsGone
PROPERTY
  AcceptedEnds
