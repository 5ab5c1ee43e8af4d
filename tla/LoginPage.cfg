SPECIFICATION FairSpec
CONSTANTS
  Tabs = {t1}
  None = None
  MaxLogins = 1
  Bounds <- OneBound
PROPERTIES
  LoginPageAfterError
CHECK_DEADLOCK FALSE
