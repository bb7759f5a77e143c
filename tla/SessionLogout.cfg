CONSTANTS
  c1 = c1
  c2 = c2
  User = {u1}
  Zone = {z1}
  Cdr = {c1}
  Tab = {a, b}
  Req = {r1, r2}
  Cap = 1
  Ttl = 1
  MaxTime = 1
  ScriptIds = {}
  Bad = Bad
  Keep = Keep
  None = None
SPECIFICATION Spec
INVARIANT LogoutIsFinal
