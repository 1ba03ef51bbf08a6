SPECIFICATION Spec
CONSTANTS
  r1 = r1
  r2 = r2
  u1 = u1
  u2 = u2
  s1 = s1
  None = None
  Requests <- MCRequests
  Users <- MCUsers
  Songs <- MCSongs
  MaxTokens = 2
  MaxClicks = 3
SYMMETRY Symmetry
CHECK_DEADLOCK FALSE
INVARIANTS TypeOK OneEffectPerClick TokenIsOfUser ShownIsOwn
PROPERTY ToggleTurnsOver
