SPECIFICATION FairSpec
CONSTANTS
  z1 = z1
  z2 = z2
  Zones = {z1}
  NoZone = NoZone
  Overlap <- Disjoint
  Endpoints = {e1}
  Budget = 3
  UserActions = {"project"}
CHECK_DEADLOCK FALSE
PROPERTY ZoneDeletionCompletes
