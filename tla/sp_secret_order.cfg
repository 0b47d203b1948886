SPECIFICATION Spec
CONSTANTS
  Specs <- AliasChange
  SecretsFirst = FALSE
  UserActions = {"renew"}
  Budget = 2
CHECK_DEADLOCK FALSE
INVARIANT RestMeansProvisioned
