SPECIFICATION FairSpec
CONSTANTS
  Ids = {1, 2, 3, 4, 5}
  Stored <- MCStored
  Comes <- MCComes
  Captured = {3, 4}
  Before <- MCBefore
  Filters = {"any", "odd"}
  NoFilter = "any"
  Matches <- MCMatches
  AuditPageSize = 2
  PageSize = 1
  Visits <- MCVisits
  MaxPage = 1
  MaxClicks = 3
  MaxChanges = 1
  MaxEvents = 1
  None = None
  NoData = NoData
  Null = Null
  Character = {"a", "quote", "comma", "newline"}
  Refused = Refused
CHECK_DEADLOCK FALSE
INVARIANTS
  TypeOK
  RowsAnswerTheControls
  RevertIsOfItsStatement
  NothingFallsBetweenPages
  LastPageIsLast
  RefreshIsFresh
  EmptyMeansAnswered
  DownloadHoldsTheRows
PROPERTIES
  LoadingEnds
