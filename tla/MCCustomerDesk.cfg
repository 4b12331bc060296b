SPECIFICATION Spec
CONSTANTS
  mary = mary
  ulf = ulf
  nobody = nobody
  c1 = c1
  c2 = c2
  c9 = c9
  o1 = o1
  o2 = o2
  o3 = o3
  r1 = r1
  Users <- MCUsers
  UserIds <- MCUserIds
  Customers <- MCCustomers
  CustomerIds <- MCCustomerIds
  Operations <- MCOperations
  Requests <- AllRequests
  UserRows <- MCUserRows
  Outcomes <- MCOutcomes
  Remarks = {r1}
  MaxAssign = 2
  MaxBatch = 2
  NoUser = NoUser
  NoRemark = NoRemark
  Keep = Keep
SYMMETRY Symmetric
CHECK_DEADLOCK FALSE
INVARIANTS
  TypeOK
  OwnerIsLogged
  FromUserWasOwner
  CountIsLogged
PROPERTIES
  DeletedIsFinal
