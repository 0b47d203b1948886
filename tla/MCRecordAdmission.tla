------------------------- MODULE MCRecordAdmission -------------------------
(* Instances of RecordAdmission for TLC: one shared namespace, two projects. *)
EXTENDS RecordAdmission, TLC

CONSTANTS e1, e2, s1, s2, z1, z2, l1, l2, ns, p1, p2, com, comDot, a, A, b, star

AllObjects == {e1, e2, s1, s2, z1, z2, l1, l2}
InNs       == [x \in AllObjects |-> ns]
TwoProjects == {<<ns, p1>>, <<ns, p2>>}

\* a.com, also spelled A.com, b.com and *.com, below com, also spelled com.
\* with the final dot; no zone may be named *.com.
Names     == {com, comDot, a, A, b, star}
Spellings == (com :> com) @@ (comDot :> com) @@ (a :> a) @@ (A :> a) @@ (b :> b)
                 @@ (star :> star)
Numbers   == {"10.0.0.1"}
Tree      == {<<n, n>> : n \in {com, a, b, star}} \cup {<<n, com>> : n \in {a, b, star}}
ZoneNames == Names \ {star}

Record(n, t, ts, z) ==
    [name |-> n, type |-> t, policy |-> "Simple", selector |-> FALSE, targets |-> ts,
     zone |-> z, parses |-> TRUE, wellFormed |-> TRUE]

SomeRecords ==
    {Record(a, "CNAME", {b}, z1), Record(A, "A", {"10.0.0.1"}, z1), Record(b, "MX", {A}, z1),
     Record(star, "A", {"10.0.0.1"}, z1),
     \* refused: itself as target, a policy that wants a selector
     Record(a, "CNAME", {A}, z1),
     [Record(b, "A", {"10.0.0.1"}, z1) EXCEPT !.policy = "Weighted"]}

Blocked == {<<"local">>}
Public  == [form |-> "name", labels |-> <<"example", "org">>]
Local   == [form |-> "name", labels |-> <<"example", "local">>]
Origin(u) == {[upstream |-> u, hostHeader |-> Nothing]}

ServiceSpec(d, as, u) ==
    [domain |-> d, aliases |-> as, originType |-> "static", origins |-> Origin(u)]

SomeServices ==
    {ServiceSpec(b, {com}, Public), ServiceSpec(com, {com}, Public),
     ServiceSpec(com, {}, Local)}

SomeZones  == {com, comDot, a, star}
FirstZone  == (z1 :> [project |-> p1, spec |-> com])

SomeOthers == {[refs |-> {}, probes |-> {[interval |-> 5, timeout |-> 4]}],
               [refs |-> {l1}, probes |-> {}],
               [refs |-> {}, probes |-> {[interval |-> 5, timeout |-> 5]}]}
=============================================================================
