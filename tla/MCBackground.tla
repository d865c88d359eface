---------------------------- MODULE MCBackground ----------------------------
(* Small instances of the work nobody waits for: automations and sub-agents. *)
(* They share no state: a behaviour exercises one and leaves the other in    *)
(* its initial state, in which nothing that fairness speaks of is enabled.   *)
EXTENDS Automations, Subagents

VARIABLE service

vars == <<service, autoVars, subVars>>

Init ==
    /\ service \in {"automations", "subagents"} /\ AutoInit /\ SubInit
    /\ service = "subagents" => ~postgres

Next ==
    /\ UNCHANGED service
    /\ \/ service = "automations" /\ AutoNext /\ UNCHANGED subVars
       \/ service = "subagents" /\ SubNext /\ UNCHANGED autoVars

Spec == Init /\ [][Next]_vars /\ AutoFairness /\ SubFairness
=============================================================================
