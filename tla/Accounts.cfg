SPECIFICATION Spec
SYMMETRY Symmetry
CONSTANTS
  a = a
  b = b
  r1 = r1
  r2 = r2
  k1 = k1
  k2 = k2
  Users = {a, b}
  NoUser = NoUser
  Initial = {a}
  Requests = {r1, r2}
  Codes = {k1}
  MaxAttempts = 1
  MaxToken = 3
  MaxServed = 6
  MaxStep = 2
  MaxPassword = 1
INVARIANT
  ActiveAdminRemains
  SessionsFollowAccount
  SessionsFollowFactor
  ProofsAreSpentOnce
  OvershootIsBounded
CHECK_DEADLOCK FALSE
