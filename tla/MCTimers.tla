------------------------------ MODULE MCTimers ------------------------------
(* Small instances of Timers for TLC: the timers of one chat and one user.  *)
EXTENDS Timers, TLC

CONSTANTS a, b, p1, u1

MCParentOf == [t \in Timer |-> p1]
MCOwnerOf == [t \in Timer |-> u1]

(* Timer a is cancelled by reading the chat, the others by nothing.         *)
MCCancelOn == [t \in Timer |-> IF t = a THEN {"chat.read"} ELSE {}]

(* Claim ids and instances are interchangeable. *)
Symmetric == Permutations(Claim) \cup Permutations(Instance)
=============================================================================
