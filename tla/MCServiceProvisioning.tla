----------------------- MODULE MCServiceProvisioning -----------------------
(* Instances of ServiceProvisioning for TLC: the service moves to another   *)
(* domain, with an alias and another cache, or only gets the alias.        *)
EXTENDS ServiceProvisioning

Plain   == [domain |-> "d1", aliases |-> {}, cache |-> "c1"]
Aliased == [domain |-> "d1", aliases |-> {"a1"}, cache |-> "c1"]
Moved   == [domain |-> "d2", aliases |-> {"a1"}, cache |-> "c2"]

AliasChange  == {Plain, Aliased}
DomainChange == {Plain, Moved}
=============================================================================
