SPECIFICATION Spec
CONSTANTS
  u1 = u1
  u2 = u2
  c1 = c1
  c9 = c9
  a1 = a1
  a2 = a2
  r1 = r1
  m1 = m1
  Users <- MCUsers
  Customers <- MCCustomers
  CustomerIds <- MCCustomerIds
  Attempts = {a1, a2}
  RequestIds = {r1}
  Remarks = {m1}
  Inputs <- AllInputs
  Patches <- MCPatches
  NoUser = NoUser
  NoId = NoId
  NoRemark = NoRemark
  NoTime = NoTime
  Keep = Keep
  MaxTime = 3
  DayLength = 2
CHECK_DEADLOCK FALSE
INVARIANTS
  TypeOK
  OneLogPerRequest
  AcceptedIsLogged
  RetryIsNeverRefused
  SummaryTotalsMatchLogs
  SummaryTimesMatchLogs
PROPERTY
  ImplementsLedger
