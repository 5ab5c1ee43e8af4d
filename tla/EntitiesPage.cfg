SPECIFICATION FairSpec
CONSTANTS
  Entities = {1, 2}
  Narrow = {1}
  Rows = 1
  Filters <- ThreeFilters
  None = None
  MaxCommands = 1
  MaxDisturbances = 1
INVARIANTS
  TypeOK
  LoadingIffRequested
  ReloadAlive
  ShowsLoadedFilter
PROPERTIES
  AnswersInOrder
  EventuallyCurrent
