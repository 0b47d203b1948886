--------------------------- MODULE MCServiceCache ---------------------------
(* Instances of ServiceCache for TLC: a static origin, with a certificate  *)
(* and an alias, and an S3 origin whose keys or domain may change.         *)
EXTENDS ServiceCache

Static == [origin |-> "static", upstream |-> "u1", domain |-> "d1", aliases |-> {"a1"}, cache |-> "c1", crt |-> 1]
S3     == [origin |-> "s3", upstream |-> "u2", domain |-> "d1", aliases |-> {}, cache |-> "c1", crt |-> 0]
S3Key  == [S3 EXCEPT !.upstream = "u3"]
S3Moved == [S3 EXCEPT !.domain = "d2"]

Origins == {Static, S3, S3Key, S3Moved}
=============================================================================
