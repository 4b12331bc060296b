SPECIFICATION SpecDashboard
CONSTANTS
  u1 = u1
  u2 = u2
  c1 = c1
  c2 = c2
  a1 = a1
  a2 = a2
  a3 = a3
  m1 = m1
  Users <- MCUsers
  Customers <- MCCustomers
  CustomerIds <- MCCustomers
  Attempts <- MCAttempts
  RequestIds = {}
  Remarks = {m1}
  Inputs <- MCInputs
  Patches = {}
  NoUser = NoUser
  NoId = NoId
  NoRemark = NoRemark
  NoTime = NoTime
  Keep = Keep
  Office = Office
  FirstDays <- MCFirstDays
  BadDates <- MCBadDates
  BadMonths <- MCBadMonths
  MaxTime = 3
  DayLength = 2
SYMMETRY Symmetric
CHECK_DEADLOCK FALSE
INVARIANTS
  FiguresWithinWindow
  NoCallsNoCustomers
