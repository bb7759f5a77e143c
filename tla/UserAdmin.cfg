CONSTANTS
  Uid = {1, 2}
  n1 = n1
  n2 = n2
  Name = {n1, n2}
  NoName = NoName
  Req = {r1, r2}
  Forms <- AdminForms
  None = None
SPECIFICATION Spec
SYMMETRY Symmetry
INVARIANT TypeOK
PROPERTIES
  LastAdminGoesOnlyByRace
  SelfLockoutOnlyByRace
  DeletedStaysDeleted
CHECK_DEADLOCK FALSE
