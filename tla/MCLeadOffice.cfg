SPECIFICATION Spec
CONSTANTS
  mary = mary
  ulf = ulf
  c1 = c1
  a1 = a1
  a2 = a2
  o1 = o1
  o2 = o2
  q1 = q1
  r1 = r1
  Users <- MCUsers
  UserIds <- MCUsers
  Customers <- MCCustomers
  CustomerIds <- MCCustomers
  Attempts <- MCAttempts
  RequestIds = {q1}
  Inputs <- MCInputs
  Operations <- MCOperations
  Requests <- MCRequests
  UserRows <- MCUserRows
  Remarks = {r1}
  MaxAssign = 1
  MaxBatch = 1
  NoUser = NoUser
  NoRemark = NoRemark
  NoId = NoId
  NoTime = NoTime
  Keep = Keep
  MaxTime = 1
  DayLength = 1
SYMMETRY Symmetric
CHECK_DEADLOCK FALSE
INVARIANTS
  CallerWasAssigned
  StatusHasOrigin
PROPERTIES
  ReportsAsSpecified
  DeskAsSpecified
