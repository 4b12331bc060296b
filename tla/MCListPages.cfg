SPECIFICATION SpecWalk
CONSTANTS
  me = me
  u2 = u2
  Users <- MCUsers
  Me = me
  NoUser = NoUser
  Characters <- MCCharacters
  Lower <- MCLower
  Ids = {1, 2, 3, 4, 5}
  FirstTexts <- MCFirstTexts
  NewTexts <- MCNewTexts
  Needles <- MCNeedles
  Sizes = {0, 3}
  DefaultSize = 1
  MaxSize = 2
  MaxEdits = 2
CHECK_DEADLOCK FALSE
INVARIANTS
  ListMatchesFilter
  WalkSkipsNothing
