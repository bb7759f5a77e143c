CONSTANTS
  c1 = c1
  c2 = c2
  User = {u1}
  Zone = {z1}
  Cdr = {c1}
  Tab = {a}
  Req = {r1, r2}
  Cap = 1
  Ttl = 2
  MaxTime = 2
  ScriptIds = {}
  Bad = Bad
  Keep = Keep
  None = None
SPECIFICATION Spec
SYMMETRY Symmetry
PROPERTIES
  IdleSessionsDie
  LostOnlyByOverlap
