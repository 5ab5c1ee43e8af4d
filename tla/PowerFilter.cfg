SPECIFICATION Spec
CONSTANTS
  None = None
  Ids = {"default", "mine"}
  Default = "default"
  SavedTerms <- OneSaved
  Fields = {"name", "severity"}
  Criteria <- SomeCriteria
  Texts <- SomeTexts
  ChartTerms <- SomeChartTerms
  RowsPerPage = 2
  FirstChoices = {0}
  RowsChoices = {1}
  MaxEdits = 2
  MaxFirst = 2
  MaxTerms = 6
INVARIANTS
  TypeOK
  IdMeansTerms
  PagesReturn
PROPERTIES
  TextTellsFilter
  OneSortOrder
  SaveTakesEffect
