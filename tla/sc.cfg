SPECIFICATION FairSpec
CONSTANTS
  Specs <- Origins
  Budget = 3
CHECK_DEADLOCK FALSE
INVARIANT RestMeansServed
PROPERTIES CachesConverge Settles DeletionCompletes NothingLeftBehind
