CONSTANTS
  c1 = c1
  c2 = c2
  User = {u1, u2}
  Zone = {z1}
  Cdr = {c1, c2}
  Tab = {a}
  Req = {r1}
  Cap = 1
  Ttl = 2
  MaxTime = 2
  ScriptIds <- Twice
  Bad = Bad
  Keep = Keep
  None = None
SPECIFICATION FairSpec
INVARIANT TypeOK
PROPERTIES
  ImplementsRegister
  NavigationEnds
