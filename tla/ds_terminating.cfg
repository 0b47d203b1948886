SPECIFICATION FairSpec
CONSTANTS
  Keys <- OneKey
  Kinds <- OneKind
  KindOf <- KindOfOne
  Namespaces <- OneNamespace
  NamespaceOf <- NamespaceOfOne
  TargetNamespace = AllNamespaces
  AllNamespaces = AllNamespaces
  NoKey = NoKey
  NoSpec = NoSpec
  Specs = {s1}
  Workers = {w1}
  Budget = 4
  LocalActors = {"finalizer"}
  k1 = k1
  k2 = k2
  kindA = kindA
  kindB = kindB
  nsA = nsA
  nsB = nsB
CHECK_DEADLOCK FALSE
PROPERTIES Converges
