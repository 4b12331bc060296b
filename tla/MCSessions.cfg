SPECIFICATION Spec
CONSTANTS
  u1 = u1
  s1 = s1
  s2 = s2
  r1 = r1
  r2 = r2
  r3 = r3
  t0 = t0
  east = east
  west = west
  Users <- MCUsers
  Secrets <- MCSecrets
  Requests <- MCRequests
  OldTokens <- MCOldTokens
  Edges <- MCEdges
  Inputs <- MCInputs
  NoUser = NoUser
  NoToken = NoToken
  NoSession = NoSession
  NoInput = NoInput
  NoAccess = NoAccess
  NotCached = NotCached
  AccessTtl = 1
  RefreshTtl = 2
  MaxTime = 2
SYMMETRY Symmetric
CHECK_DEADLOCK FALSE
INVARIANTS
  TypeOK
  ServedWhileActive
  KnewThePassword
  RefusedSessionIsGone
PROPERTY
  LogoutIsFinal
