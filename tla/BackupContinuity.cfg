SPECIFICATION BackupsFairSpec
CONSTANTS
  Checkers = {"poll"}
  Selectable = {}
  Daily = 1
  Manual = 1
  Interval = 1
  MaxPoints = 3
PROPERTY
  ContinuityReturns
