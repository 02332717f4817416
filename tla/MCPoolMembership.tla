-------------------------- MODULE MCPoolMembership --------------------------
(* Five connectors in three lists: one, three, one.  Distinct: the third      *)
(* list repeats an address of the second, but no list has one twice.          *)
(* Repeated: the second list has one twice.                                   *)
EXTENDS PoolMembership, TLC

CONSTANTS c1, c2, c3, c4, c5, a, b, d, e

Five         == {c1, c2, c3, c4, c5}
OneThreeOne  == (c1 :> 1) @@ (c2 :> 2) @@ (c3 :> 2) @@ (c4 :> 2) @@ (c5 :> 3)
DistinctAddr == (c1 :> a) @@ (c2 :> b) @@ (c3 :> d) @@ (c4 :> e) @@ (c5 :> b)
RepeatedAddr == (c1 :> a) @@ (c2 :> b) @@ (c3 :> b) @@ (c4 :> d) @@ (c5 :> a)
=============================================================================
