----------------------------- MODULE MCUsagePool -----------------------------
(* Small instances of UsagePool for TLC: where the sessions connect. *)
EXTENDS UsagePool, TLC

CONSTANTS i1, i2, s1, s2

Apart == s1 :> i1 @@ s2 :> i2
=============================================================================
