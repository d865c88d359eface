------------------------------ MODULE RedisLock ------------------------------
(***************************************************************************)
(* RedisLock (backend/open_webui/socket/utils.py): a key set with NX and   *)
(* EX whose value is the lock id of its holder, a UUID drawn when the      *)
(* process starts.  Every call is one Redis command or script, so one step.*)
(***************************************************************************)
CONSTANTS Instance,  \* server processes, standing for their lock ids
          None,      \* the key is absent
          Orphan     \* the lock id of a process that has died

VARIABLE lock        \* the value of the key

LockType == lock \in Instance \cup {None, Orphan}

(* SET NX EX: fails, and changes nothing, while the key exists. *)
aquire_lock(i) == lock = None /\ lock' = i

(* The script extends the expiry only for the id that is stored. *)
renew_lock(i) == lock = i

(* Deleting the key whoever holds it. *)
release_lock_Any(i) == lock' = None

(* The script deletes the key only if it still holds the caller's id. *)
release_lock(i) == lock' = IF lock = i THEN None ELSE lock

(* A key without an expiry. *)
Expire_Never == FALSE /\ lock' = None

(* The expiry of the key passes. *)
Expire == lock # None /\ lock' = None

(* The process dies; the one that replaces it draws another id. *)
Forget(i) == lock' = IF lock = i THEN Orphan ELSE lock
=============================================================================
