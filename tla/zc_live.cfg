SPECIFICATION FairSpec
CONSTANTS
  z1 = z1
  z2 = z2
  Zones = {z1, z2}
  NoZone = NoZone
  Overlap <- Disjoint
  Endpoints = {e1}
  Budget = 4
  UserActions = {"create", "retarget", "delete", "hold", "lost", "resync"}
CHECK_DEADLOCK FALSE
PROPERTIES ZoneDeletionCompletes ZonesBecomeHealthy
