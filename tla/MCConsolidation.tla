-------------------------- MODULE MCConsolidation --------------------------
(* Instances of Consolidation for TLC.                                     *)
EXTENDS Consolidation

CONSTANT Most   \* bound on the number of prefixes given

\* All lists of 1 to Most prefixes, with any host bits.
Lists == {{f[i] : i \in 1 .. Most} : f \in [1 .. Most -> Prefix]}
=============================================================================
