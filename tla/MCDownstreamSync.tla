-------------------------- MODULE MCDownstreamSync --------------------------
(* Instances of DownstreamSync for TLC.                                    *)
EXTENDS DownstreamSync, TLC

CONSTANTS k1, k2, kindA, kindB, nsA, nsB

OneKey   == {k1}
TwoKeys  == {k1, k2}

\* Two kinds, one object each: the kinds are synced and swept one by one.
OneKind      == {kindA}
TwoKinds     == {kindA, kindB}
KindOfOne    == [k \in OneKey |-> kindA]
KindOfTwo    == (k1 :> kindA) @@ (k2 :> kindB)

OneNamespace     == {nsA}
TwoNamespaces    == {nsA, nsB}
NamespaceOfOne   == [k \in OneKey |-> nsA]
NamespaceOfTwo   == (k1 :> nsA) @@ (k2 :> nsB)

\* Contents are only compared for equality.
SpecSymmetry == Permutations(Specs)

=============================================================================
