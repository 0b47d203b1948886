SPECIFICATION Spec
CONSTANTS
  z1 = z1
  z2 = z2
  Zones = {z1, z2}
  NoZone = NoZone
  Overlap <- Nested
  Endpoints = {e1}
  Budget = 5
  UserActions = {"create", "retarget", "delete", "hold", "project"}
CHECK_DEADLOCK FALSE
INVARIANTS TypeOK CleanupOnlyOfDeletedZones RestMeansReconciled
