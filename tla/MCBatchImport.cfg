SPECIFICATION Spec
CONSTANTS
  i1 = i1
  i2 = i2
  i3 = i3
  p1 = p1
  p2 = p2
  p3 = p3
  Imports <- MCImports
  Phones = {p1, p2, p3}
  NoPhone = NoPhone
  Spellings <- MCSpellings
  Trim <- MCTrim
  Names = {"Ann", "Bob"}
  Bodies <- MCBodies
  MaxRows = 4
SYMMETRY Symmetric
CHECK_DEADLOCK FALSE
INVARIANTS
  TypeOK
  AllOrNothing
  AnswerIsTrue
  CustomersHaveTheirBatch
  CustomersAreFirstRows
