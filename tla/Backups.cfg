SPECIFICATION BackupsSpec
CONSTANTS
  Checkers = {"poll"}
  Selectable = {"protected", "degraded"}
  Daily = 1
  Manual = 1
  Interval = 1
  MaxPoints = 4
INVARIANT
  SelectedLocalStays
PROPERTY
  NewestIsKept
  NoBackupInsideRestore
