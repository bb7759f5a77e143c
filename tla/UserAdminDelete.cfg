CONSTANTS
  Uid = {1, 2}
  n1 = n1
  n2 = n2
  Name = {n1, n2}
  NoName = NoName
  Req = {r1, r2}
  Forms = {}
  None = None
SPECIFICATION Spec
SYMMETRY Symmetry
CHECK_DEADLOCK FALSE
PROPERTY DeleteKeepsAnAdmin
