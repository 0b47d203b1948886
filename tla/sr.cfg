SPECIFICATION FairSpec
CONSTANTS
  n1 = n1
  n2 = n2
  za = za
  zb = zb
  Services = {s1}
  NoService = NoService
  DnsNames = {n1, n2}
  NoName = NoName
  Canonical <- Apart
  Specs <- Lists
  Routes = {"r1", "r2"}
  RecordTypes <- A
  Zones = {za, zb}
  NoZone = NoZone
  Covering <- Cover
  Length <- Lengths
  Webhooks = TRUE
  Budget = 5
  UserActions = {"zones", "delete", "own", "other"}
CHECK_DEADLOCK FALSE
INVARIANT RestMeansRouted
PROPERTIES OtherProjectsNotRewritten RoutesConverge RoutesFollowService
