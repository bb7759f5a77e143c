CONSTANTS
  None = None
  Bad = Bad
  Id = {0, 1}
  Traffic = {1}
  People = {"ann", "bob", "eve"}
  Administrators = {"ann", "bob"}
  SensorForms <- TheForms
SPECIFICATION SensorsSpec
INVARIANTS
  SavedIsKept
  TrafficIsListed
CHECK_DEADLOCK FALSE
