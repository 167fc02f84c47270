---------------------------- MODULE MCCheckRerun -----------------------------
(* Model checking CheckRerun: two logs, one of them with two sidecars that *)
(* differ in their spans only; three rule sets, of which the second finds  *)
(* nothing in the second log and the third was edited from the first       *)
(* without a new version; two crosswalks, of which the first has no entry  *)
(* for a rule of the second rule set, and the second disagrees with the    *)
(* edited one.                                                             *)
EXTENDS CheckRerun, TLC

CONSTANTS l1, l2, r1, r2, r3, i1, i2, i3, c1, c2, k1, v1, v2, a, b, d

MCVersion  == r1 :> v1 @@ r2 :> v2 @@ r3 :> v1
MCDetected == l1 :> (r1 :> <<a, b>> @@ r2 :> <<b>> @@ r3 :> <<a>>) @@
              l2 :> (r1 :> <<a, d>> @@ r2 :> << >> @@ r3 :> <<d>>)
MCBelongs  == {<<i1, l1>>, <<i2, l1>>, <<i3, l2>>}
MCMaps     == ({c1, c2} \X {r1, r3}) \cup {<<c2, r2>>}
MCAgrees   == MCMaps \ {<<c2, r3>>}
MCScattered == {<<i2, b>>}
=============================================================================
