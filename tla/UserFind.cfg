SPECIFICATION Spec
CONSTANTS
  Threads = {th1}
  Tokens = {t1}
  Users = {u1}
  None = None
  Timeout = 1
  MaxTime = 1
  MaxSecret = 0
PROPERTIES
  UserFindRenews
