CONSTANTS
  None = None
  Newest <- TheNewest
  Requests <- EveryRequest
  BatchMax = 3
  Huge = {3}
SPECIFICATION FairSpec
INVARIANTS
  TypeOK
  RightCdrs
  OnePlace
  NothingLeftOut
  NoTaskBlocks
PROPERTY ZipEnds
CHECK_DEADLOCK FALSE
