SPECIFICATION Spec
CONSTANTS
  Threads = {th1, th2}
  Tokens = {t1, t2}
  Users = {u1, u2}
  None = None
  Timeout = 0
  MaxTime = 1
  MaxSecret = 1
SYMMETRY Symmetric
INVARIANTS
  TypeOK
  UniqueTokens
PROPERTIES
  ClosedForGood
  OnlyEntitledConnect
  AcceptedWhileFresh
