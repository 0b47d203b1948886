SPECIFICATION Spec
CONSTANTS
  e1 = e1
  e2 = e2
  s1 = s1
  s2 = s2
  z1 = z1
  z2 = z2
  l1 = l1
  l2 = l2
  ns = ns
  p1 = p1
  p2 = p2
  com = com
  comDot = comDot
  star = star
  a = a
  A = A
  b = b
  Endpoints = {e1, e2}
  Services = {s1, s2}
  Zones = {z1, z2}
  Others = {l1, l2}
  Home <- InNs
  Projects <- TwoProjects
  Namespaced = FALSE
  TargetNamespace = ns
  CachingReconcilerEnabled = TRUE
  BlockedUpstreamTLDs <- Blocked
  DnsNames <- Names
  Canonical <- Spellings
  Dotted = {comDot}
  ValidNames <- ZoneNames
  Below <- Tree
  Addresses <- Numbers
  Records <- SomeRecords
  ServiceSpecs <- SomeServices
  ZoneSpecs <- SomeZones
  OtherSpecs <- SomeOthers
  InitialZones <- FirstZone
  Nothing = Nothing
  Budget = 3
CHECK_DEADLOCK FALSE
INVARIANTS TypeOK RecordsClashOnlyByRace HostsSharedOnlyByRace ZonesOverlapOnlyByRace ReferencesStayInProject RecordsLieInZone
