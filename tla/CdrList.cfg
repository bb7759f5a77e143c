CONSTANTS
  None = None
  Order <- TheOrder
  Call <- TheCall
  Like <- TheLike
  Minute = 1
  Day = 2
  Lookback = 2
  DistinctLimit = 1
  DefaultPageSize = 1
  MaxPageSize = 2
  U32 = 4
  DefaultZone = 1
  DbZone <- TheDbZone
  ColumnType = "varbinary"
  Trimmed <- TheTrimmed
  Plussed <- ThePlussed
  Zones = {0}
  LastTime = 2
  Urls <- TheUrls
SPECIFICATION Spec
INVARIANTS
  RightDay
  NoneMissed
  LinksKeepSearch
  FormKeepsZone
CHECK_DEADLOCK FALSE
