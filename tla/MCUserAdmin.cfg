SPECIFICATION Spec
CONSTANTS
  o1 = o1
  o2 = o2
  o3 = o3
  root = root
  ann = ann
  bob = bob
  p1 = p1
  p2 = p2
  Operations <- MCOperations
  Requests <- MCRequests
  Usernames = {root, ann, bob}
  Passwords = {p1, p2}
  Deployments <- MCDeployments
  Keep = Keep
SYMMETRY Symmetric
CHECK_DEADLOCK FALSE
INVARIANT
  TypeOK
PROPERTIES
  ImplementsUniqueTable
  OnlyNamedColumnsChange
