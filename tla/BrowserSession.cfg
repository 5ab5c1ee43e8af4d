SPECIFICATION FairSpec
CONSTANTS
  Tabs = {t1, t2}
  None = None
  MaxLogins = 2
  Bounds <- ThreeBounds
INVARIANTS
  TypeOK
  AskingQueried
PROPERTIES
  EndedSessionNoticed
  AskingEnds
CHECK_DEADLOCK FALSE
