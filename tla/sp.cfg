SPECIFICATION FairSpec
CONSTANTS
  Specs <- DomainChange
  SecretsFirst = TRUE
  UserActions = {"certificate", "delete", "renew"}
  Budget = 3
CHECK_DEADLOCK FALSE
INVARIANTS TypeOK RestMeansProvisioned OwnCertificate PresentedMeansSolver
PROPERTY EdgesGetCertificate
