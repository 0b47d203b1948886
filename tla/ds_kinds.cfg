SPECIFICATION Spec
CONSTANTS
  Keys <- TwoKeys
  Kinds <- TwoKinds
  KindOf <- KindOfTwo
  Namespaces <- TwoNamespaces
  NamespaceOf <- NamespaceOfTwo
  TargetNamespace = nsA
  AllNamespaces = AllNamespaces
  NoKey = NoKey
  NoSpec = NoSpec
  Specs = {s1, s2}
  Workers = {w1}
  Budget = 3
  LocalActors = {"foreign", "takeover", "finalizer", "nsdelete"}
  k1 = k1
  k2 = k2
  kindA = kindA
  kindB = kindB
  nsA = nsA
  nsB = nsB
SYMMETRY SpecSymmetry
CHECK_DEADLOCK FALSE
PROPERTIES NoPruneOfLiveSource OutOfScopeUntouched ForeignUntouched LocalFieldsKept
