SPECIFICATION Spec
CONSTANTS
  Cameras = {c1}
  Logs = {l1, l2}
  Events = {e1, e2}
  Users = {u1, u2}
  Threads = {t1, t2}
  Executors = {x1}
  NULL = NULL
  MaxEdits = 1
SYMMETRY Symmetry
INVARIANTS
  TypeOK
  IncidentsAreUnique
  SnoozeOnlyMutesUnverified
PROPERTIES
  LifecycleSpec
  SnoozeRunsItsTime
  FreshWriteAgrees
