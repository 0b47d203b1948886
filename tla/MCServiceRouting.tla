-------------------------- MODULE MCServiceRouting --------------------------
(* Instances of ServiceRouting for TLC: two DNS names; za covers the first, *)
(* zb both.                                                                *)
EXTENDS ServiceRouting

CONSTANTS n1, n2, za, zb

Apart   == (n1 :> n1) @@ (n2 :> n2)
Lists   == {<<n1>>, <<n1, n2>>}
A       == <<"A">>
Cover   == (n1 :> {za, zb}) @@ (n2 :> {zb})
Lengths == (za :> 2) @@ (zb :> 1)
=============================================================================
