---------------------------- MODULE MCSessionPool ----------------------------
(* Small instances of SessionPool for TLC: where the sessions connect. *)
EXTENDS SessionPool, TLC

CONSTANTS i1, i2, s1, s2

Apart == s1 :> i1 @@ s2 :> i2
One == s1 :> i1
=============================================================================
