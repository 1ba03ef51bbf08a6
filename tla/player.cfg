SPECIFICATION Spec
CONSTANTS
  s1 = s1
  s2 = s2
  s3 = s3
  None = None
  Songs <- MCSongs
  Lists <- MCLists
  MaxClicks = 4
  MaxFailures = 1
CHECK_DEADLOCK FALSE
INVARIANTS TypeOK PlaysWhereItPoints PanelFollows
PROPERTY SkippingEnds
