SPECIFICATION Spec
CONSTANTS
  o1 = o1
  o2 = o2
  o3 = o3
  yes = yes
  later = later
  call = call
  Operations <- MCOperations
  Requests <- MCRequests
  Contents = {yes, later, call}
  Seeded <- MCSeeded
  Keep = Keep
SYMMETRY Symmetric
CHECK_DEADLOCK FALSE
INVARIANT
  TypeOK
PROPERTIES
  ImplementsUniqueTable
  DisabledUntilEnabled
