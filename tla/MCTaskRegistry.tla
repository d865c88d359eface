--------------------------- MODULE MCTaskRegistry ---------------------------
(* Small instances of TaskRegistry for TLC. *)
EXTENDS TaskRegistry, TLC

CONSTANTS t1, t2, x1

(* Two tasks of one item: the cleanup of one races with the other's start.  *)
MCItemOf == t1 :> x1 @@ t2 :> x1

(* A single task. *)
MCItemOf1 == t1 :> x1

Symmetric == Permutations(Instance)
=============================================================================
