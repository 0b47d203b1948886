SPECIFICATION Spec
CONSTANTS
  Width = 4
  Most = 3
  Inputs <- Lists
CHECK_DEADLOCK FALSE
INVARIANTS TypeOK CoverageKept ResultIsReference
