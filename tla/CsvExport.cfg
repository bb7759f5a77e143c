CONSTANTS
  None = None
  Newest <- TheNewest
  Exports = {"export"}
  Requests <- TheRequests
  Pages = {"list"}
  Conns = 1
  RowCap = 1
  CsvCap = 1
  Untimed = FALSE
SPECIFICATION FairSpec
INVARIANTS
  RowsArrive
  AsTicked
  StopsForTheGone
PROPERTIES
  FreesConnection
  PageIsAnswered
CHECK_DEADLOCK FALSE
