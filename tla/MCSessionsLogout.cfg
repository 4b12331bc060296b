SPECIFICATION Spec
CONSTANTS
  u1 = u1
  s1 = s1
  s2 = s2
  r1 = r1
  r2 = r2
  r3 = r3
  t0 = t0
  east = east
  west = west
  Users <- MCUsers
  Secrets <- OneSecret
  Requests <- ThreeRequests
  OldTokens <- MCOldTokens
  Edges <- MCEdges
  Inputs <- LogoutInputs
  NoUser = NoUser
  NoToken = NoToken
  NoSession = NoSession
  NoInput = NoInput
  NoAccess = NoAccess
  NotCached = NotCached
  AccessTtl = 1
  RefreshTtl = 2
  MaxTime = 0
SYMMETRY Symmetric
CHECK_DEADLOCK FALSE
INVARIANT
  LoggedOutIsRefused
