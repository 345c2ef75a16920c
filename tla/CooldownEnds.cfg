SPECIFICATION FairSpec
CONSTANTS
  Cameras = {c1}
  Logs = {l1, l2}
  Events = {e1, e2}
  Users = {u1}
  Threads = {t1}
  Executors = {x1}
  NULL = NULL
  MaxEdits = 1
PROPERTY
  CooldownEnds
