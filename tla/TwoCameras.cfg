SPECIFICATION FairSpec
CONSTANTS
  Cameras = {c1, c2}
  Logs = {l1, l2}
  Events = {e1, e2}
  Users = {u1}
  Threads = {t1}
  Executors = {x1}
  NULL = NULL
  MaxEdits = 0
PROPERTIES
  CooldownEnds
  SnoozeReAlarms
