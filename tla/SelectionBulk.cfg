SPECIFICATION Spec
CONSTANTS
  Entities = {1, 2, 3}
  Filters <- TwoFilters
  Rows = 2
  Clicks = {c1}
  None = None
  MaxLoads = 2
  MaxDisturbances = 0
PROPERTY UntickedIsSpared
