SPECIFICATION FairSpec
CONSTANTS
  Keys <- OneKey
  Kinds <- OneKind
  KindOf <- KindOfOne
  Namespaces <- OneNamespace
  NamespaceOf <- NamespaceOfOne
  TargetNamespace = AllNamespaces
  AllNamespaces = AllNamespaces
  NoKey = NoKey
  NoSpec = NoSpec
  Specs = {s1, s2}
  Workers = {w1, w2}
  Budget = 4
  LocalActors = {}
  k1 = k1
  k2 = k2
  kindA = kindA
  kindB = kindB
  nsA = nsA
  nsB = nsB
CHECK_DEADLOCK FALSE
INVARIANTS TypeOK NoLostWork StaleReadIsRedone OneWorkerPerKey
PROPERTIES MirrorsMoveForward Converges ImplementsPromise
