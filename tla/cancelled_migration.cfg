SPECIFICATION Spec
CONSTANTS
  Colls = {"c1", "c2"}
  NoColl = "none"
  MaxMigs = 1
  MaxFilter = 0
  MaxEvents = 0
PROPERTIES CancelledRetainsSource
CHECK_DEADLOCK FALSE
