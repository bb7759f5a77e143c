CONSTANTS
  User = {u1, u2}
  Id = {t1, t2}
  Req = {r1, r2}
  None = None
  MinTtl = 1
  MaxTtl = 2
  AskedTtl = {0, 1, 3}
  MaxTime = 3
SPECIFICATION Spec
SYMMETRY Symmetry
INVARIANTS
  TypeOK
  FinishedIsFinal
  ActsAsIssuer
  LifetimeCapped
PROPERTIES
  LosesTokenOnlyToOwner
  ImplementsLifecycle
