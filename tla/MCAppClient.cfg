SPECIFICATION Spec
CONSTANTS
  a = a
  b = b
  Slots <- MCSlots
  None = None
  MaxChanges = 3
CHECK_DEADLOCK FALSE
INVARIANT
  SavedOnce
PROPERTIES
  CallSettles
  SteadyCallIsSaved
