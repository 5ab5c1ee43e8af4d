SPECIFICATION FairSpec
CONSTANTS
  Requests = {r1, r2}
  Fds <- FewFds
  Rounds = 1
  None = None
CHECK_DEADLOCK FALSE
INVARIANTS
  TypeOK
  NoLeak
  DataOutlivesWatcher
PROPERTIES
  ClosedByOwner
  OwnConnectionWithTls
  AbandonedIsNoticed
  ReadyIsSent
