SPECIFICATION FairSpec
CONSTANTS
  t1 = t1
  t2 = t2
  t3 = t3
  t4 = t4
  u1 = u1
  u2 = u2
  Threads = {th1, th2}
  Tokens = {t1, t2, t3, t4}
  Users = {u1, u2}
  None = None
  Records <- FewRecords
INVARIANT
  TypeOK
PROPERTIES
  ImplementsStore
  MutexReleased
