SPECIFICATION Spec
CONSTANTS
  c1 = c1
  c2 = c2
  s1 = s1
  s2 = s2
  u1 = u1
  Conns = {c1, c2}
  Sessions = {s1, s2}
  Users = {u1}
  SessionOf <- MCSessionOf
  UserOf <- MCUserOf
  Threads = {t1}
  NoConn = NoConn
  QueueMax = 2
  MaxPerUser = 1
  MaxTotal = 2
  MaxEvents = 2
INVARIANT
  BroadcastReachesEveryone
