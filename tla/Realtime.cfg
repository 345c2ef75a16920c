SPECIFICATION FairSpec
CONSTANTS
  c1 = c1
  c2 = c2
  s1 = s1
  s2 = s2
  u1 = u1
  Conns = {c1, c2}
  Sessions = {s1, s2}
  Users = {u1}
  SessionOf <- MCSessionOf
  UserOf <- MCUserOf
  Threads = {t1}
  NoConn = NoConn
  QueueMax = 1
  MaxPerUser = 1
  MaxTotal = 2
  MaxEvents = 1
INVARIANT
  NoGap
  SendersFollowRegistry
  RevokedIsClosedOrLate
PROPERTY
  RevokedSocketCloses
  DeadSocketIsDropped
