SPECIFICATION Spec
CONSTANTS
  Threads = {th1, th2}
  Tokens = {t1, t2}
  Users = {u1}
  None = None
  Timeout = 1
  MaxTime = 0
  MaxSecret = 1
PROPERTY
  PasswordChangeIsFinal
