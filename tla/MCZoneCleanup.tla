--------------------------- MODULE MCZoneCleanup ---------------------------
(* Instances of ZoneCleanup for TLC.                                       *)
EXTENDS ZoneCleanup

CONSTANTS z1, z2

Disjoint == {}
Nested   == {{z1, z2}}
=============================================================================
