SPECIFICATION FairSpec
CONSTANTS
  None = None
  Saved <- TwoRows
  Unparsable = Unparsable
  Hidden = {3}
  maxItemsPerRow = 3
  maxRows = 2
  MaxDisplays = 5
  MaxRequests = 2
  MaxDisturbances = 1
INVARIANTS
  TypeOK
  SoundRows
  LoadingIffRequested
PROPERTIES
  DragMovesOne
  EventuallyShown
CHECK_DEADLOCK FALSE
