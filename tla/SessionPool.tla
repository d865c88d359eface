----------------------------- MODULE SessionPool -----------------------------
(***************************************************************************)
(* SESSION_POOL: which Socket.IO sessions exist, shared by all server      *)
(* processes through a Redis hash (backend/open_webui/socket/main.py), and *)
(* the loop that removes entries whose session stopped its heartbeats.     *)
(* RedisDict and RedisLock block: between two awaits a coroutine keeps the *)
(* event loop of its process, while other processes run between any two of *)
(* its Redis calls.  With one instance the module is also the in-memory    *)
(* deployment, whose lock functions always answer True.                    *)
(***************************************************************************)
EXTENDS Naturals, FiniteSets

CONSTANTS Instance,   \* server processes
          Session,    \* Socket.IO session ids; an id is used once
          Home,       \* [Session -> Instance]: the process a session is connected to
          None, Orphan,
          MaxFaults,  \* bound on crashes and on stalls that outlast the lock
          MaxRaises   \* bound on Redis calls that raise

ASSUME HomeAssumption == Home \in [Session -> Instance]
ASSUME BoundAssumption == MaxFaults \in Nat /\ MaxRaises \in Nat
ASSUME LockIdAssumption == None \notin Instance /\ Orphan \notin Instance /\ None # Orphan
ASSUME IdAssumption == None \notin Session

VARIABLES
    lock,     \* the session cleanup lock
    loop,     \* [Instance -> LoopStep]: where periodic_session_pool_cleanup is
    todo,     \* [Instance -> SUBSET Session]: what its HSCAN has not returned yet
    found,    \* [Instance -> SUBSET Session]: expired entries of the current batch
    lost,     \* history: instances whose lock expired since they acquired it
    seen,     \* [Session -> {"none", "fresh", "stale"}]: the entry and its last_seen_at
    conn,     \* [Session -> {"new", "up", "closing", "gone"}]
    joining,  \* sessions whose token a connect or user-join handler is verifying
    named,    \* sessions with a user in the local Socket.IO session store
    at,       \* [Instance -> Session \cup {None}]: disconnect about to delete the entry
    faults, raises

loopVars == <<lock, loop, todo, found, lost>>
sessionVars == <<seen, conn, joining, named, at>>
vars == <<loopVars, sessionVars, faults, raises>>

Lock == INSTANCE RedisLock

-----------------------------------------------------------------------------
(* The cleanup loop is suspended in these steps and dead after an exception *)
(* nobody catches; in the others it keeps the event loop of its process.    *)
Suspended == {"acquire", "next", "sleep", "dead"}
Running == {"renew", "scan", "reap", "release", "fail"}
LoopStep == Suspended \cup Running
Holding == {"renew", "scan", "reap", "next", "sleep", "release", "fail"}

(* No coroutine of process i is between two awaits. *)
Idle(i) == at[i] = None /\ loop[i] \notin Running

GoTo(i, step) == loop' = [loop EXCEPT ![i] = step]
SetEntry(s, e) == seen' = [seen EXCEPT ![s] = e]

Init ==
    /\ lock = None
    /\ loop = [i \in Instance |-> "acquire"]
    /\ todo = [i \in Instance |-> {}] /\ found = [i \in Instance |-> {}]
    /\ lost = {}
    /\ seen = [s \in Session |-> "none"]
    /\ conn = [s \in Session |-> "new"]
    /\ joining = {} /\ named = {}
    /\ at = [i \in Instance |-> None]
    /\ faults = 0 /\ raises = 0

-----------------------------------------------------------------------------
(* connect and user-join verify the token, which suspends them.             *)
connect(s) ==
    /\ conn[s] = "new" /\ Idle(Home[s])
    /\ conn' = [conn EXCEPT ![s] = "up"] /\ joining' = joining \cup {s}
    /\ UNCHANGED <<loopVars, seen, named, at, faults, raises>>

user_join(s) ==
    /\ conn[s] = "up" /\ Idle(Home[s]) /\ s \notin joining
    /\ joining' = joining \cup {s}
    /\ UNCHANGED <<loopVars, seen, conn, named, at, faults, raises>>

(* The entry is written even if the session went away meanwhile; the local  *)
(* store then rejects the user.                                             *)
Verified(s) ==
    /\ s \in joining /\ Idle(Home[s])
    /\ joining' = joining \ {s}
    /\ SetEntry(s, "fresh")
    /\ named' = IF conn[s] = "gone" THEN named ELSE named \cup {s}
    /\ UNCHANGED <<loopVars, conn, at, faults, raises>>

NotVerified(s) ==
    /\ s \in joining /\ Idle(Home[s])
    /\ joining' = joining \ {s}
    /\ UNCHANGED <<loopVars, seen, conn, named, at, faults, raises>>

(* A heartbeat also runs while the disconnect handler waits.                *)
heartbeat(s) ==
    /\ s \in named /\ Idle(Home[s])
    /\ SetEntry(s, "fresh")
    /\ UNCHANGED <<loopVars, conn, joining, named, at, faults, raises>>

(* SESSION_POOL_TIMEOUT passes without a heartbeat.                         *)
Age(s) ==
    /\ seen[s] = "fresh"
    /\ SetEntry(s, "stale")
    /\ UNCHANGED <<loopVars, conn, joining, named, at, faults, raises>>

(* disconnect: HEXISTS, then HDEL, which raises KeyError if another process *)
(* removed the entry between the two; then the usage pool and the documents.*)
Disconnect(s) ==
    LET i == Home[s] IN
    /\ conn[s] = "up" /\ Idle(i)
    /\ IF seen[s] = "none"
       THEN conn' = [conn EXCEPT ![s] = "gone"] /\ named' = named \ {s} /\ UNCHANGED at
       ELSE conn' = [conn EXCEPT ![s] = "closing"] /\ at' = [at EXCEPT ![i] = s] /\ UNCHANGED named
    /\ UNCHANGED <<loopVars, seen, joining, faults, raises>>

disconnect(i) ==
    LET s == at[i] IN
    /\ s # None
    /\ at' = [at EXCEPT ![i] = None]
    /\ SetEntry(s, "none")
    /\ IF seen[s] = "none"
       THEN conn' = [conn EXCEPT ![s] = "gone"] /\ named' = named \ {s}
       ELSE UNCHANGED <<conn, named>>
    /\ UNCHANGED <<loopVars, joining, faults, raises>>

(* The handler has awaited remove_user_from_all_documents: the session is   *)
(* forgotten by Socket.IO.                                                  *)
Disconnected(s) ==
    /\ conn[s] = "closing" /\ Idle(Home[s])
    /\ conn' = [conn EXCEPT ![s] = "gone"] /\ named' = named \ {s}
    /\ UNCHANGED <<loopVars, seen, joining, at, faults, raises>>

-----------------------------------------------------------------------------
(* periodic_session_pool_cleanup *)
Acquire(i) ==
    /\ loop[i] = "acquire" /\ Idle(i)
    /\ Lock!aquire_lock(i)
    /\ GoTo(i, "renew") /\ lost' = lost \ {i}
    /\ UNCHANGED <<todo, found, sessionVars, faults, raises>>

Renew(i) ==
    /\ loop[i] = "renew"
    /\ IF Lock!renew_lock(i)
       THEN GoTo(i, "scan") /\ todo' = [todo EXCEPT ![i] = Session]
       ELSE GoTo(i, "release") /\ UNCHANGED todo
    /\ UNCHANGED <<lock, found, lost, sessionVars, faults, raises>>

(* One batch of the HSCAN: entries that are there throughout are returned,  *)
(* ones written or deleted meanwhile may be.                                *)
Scan(i) ==
    /\ \/ loop[i] = "scan"
       \/ loop[i] = "next" /\ Idle(i)
    /\ todo[i] # {}
    /\ \E batch \in SUBSET todo[i] \ {{}} :
          LET expired == {s \in batch : seen[s] = "stale"} IN
          /\ todo' = [todo EXCEPT ![i] = @ \ batch]
          /\ found' = [found EXCEPT ![i] = expired]
          /\ GoTo(i, IF expired = {} THEN "next" ELSE "reap")
    /\ UNCHANGED <<lock, lost, sessionVars, faults, raises>>

(* delete_many, then sleep(0) *)
Reap(i) ==
    /\ loop[i] = "reap"
    /\ seen' = [s \in Session |-> IF s \in found[i] THEN "none" ELSE seen[s]]
    /\ found' = [found EXCEPT ![i] = {}]
    /\ GoTo(i, "next")
    /\ UNCHANGED <<lock, todo, lost, conn, joining, named, at, faults, raises>>

ScanEnds(i) ==
    /\ loop[i] = "next" /\ Idle(i) /\ todo[i] = {}
    /\ GoTo(i, "sleep")
    /\ UNCHANGED <<lock, todo, found, lost, sessionVars, faults, raises>>

(* The lock is renewed while the loop sleeps until the next sweep.          *)
SleepRenew(i) ==
    /\ loop[i] = "sleep" /\ Idle(i)
    /\ IF Lock!renew_lock(i)
       THEN \E step \in {"sleep", "renew"} : GoTo(i, step)
       ELSE GoTo(i, "release")
    /\ UNCHANGED <<lock, todo, found, lost, sessionVars, faults, raises>>

Release(i) ==
    /\ loop[i] \in {"release", "fail"}
    /\ Lock!release_lock(i)
    /\ GoTo(i, IF loop[i] = "fail" THEN "dead" ELSE "acquire")
    /\ UNCHANGED <<todo, found, lost, sessionVars, faults, raises>>

(* A Redis call of the loop raises: nothing catches it, so after the        *)
(* finally clause, whose own call may raise too, the task has ended.        *)
LoopRaises(i) ==
    /\ raises < MaxRaises /\ raises' = raises + 1
    /\ \/ loop[i] \in Running
       \/ loop[i] \in {"acquire", "next", "sleep"} /\ Idle(i)
    /\ GoTo(i, IF loop[i] \in {"acquire", "release", "fail"} THEN "dead" ELSE "fail")
    /\ todo' = [todo EXCEPT ![i] = {}] /\ found' = [found EXCEPT ![i] = {}]
    /\ UNCHANGED <<lock, lost, sessionVars, faults>>

periodic_session_pool_cleanup(i) ==
    Acquire(i) \/ Renew(i) \/ Scan(i) \/ Reap(i) \/ ScanEnds(i) \/ SleepRenew(i) \/ Release(i)

-----------------------------------------------------------------------------
(* WEBSOCKET_REDIS_LOCK_TIMEOUT passes for a lock nobody renews any more... *)
Abandoned == lock = Orphan \/ \E i \in Instance : lock = i /\ loop[i] \notin Holding
LockExpires ==
    /\ Abandoned
    /\ Lock!Expire
    /\ UNCHANGED <<loop, todo, found, lost, sessionVars, faults, raises>>

(* ... or, as a fault, for one whose holder is stalled.                     *)
LockOutlived(i) ==
    /\ lock = i /\ loop[i] \in Holding
    /\ faults < MaxFaults /\ faults' = faults + 1
    /\ Lock!Expire
    /\ lost' = lost \cup {i}
    /\ UNCHANGED <<loop, todo, found, sessionVars, raises>>

(* A process dies with its connections and is replaced.                     *)
Crash(i) ==
    LET mine == {s \in Session : Home[s] = i} IN
    /\ faults < MaxFaults /\ faults' = faults + 1
    /\ Lock!Forget(i)
    /\ GoTo(i, "acquire") /\ lost' = lost \ {i}
    /\ todo' = [todo EXCEPT ![i] = {}] /\ found' = [found EXCEPT ![i] = {}]
    /\ conn' = [s \in Session |-> IF s \in mine /\ conn[s] # "new" THEN "gone" ELSE conn[s]]
    /\ joining' = joining \ mine /\ named' = named \ mine
    /\ at' = [at EXCEPT ![i] = None]
    /\ UNCHANGED <<seen, raises>>

Next ==
    \/ \E s \in Session : \/ connect(s) \/ user_join(s) \/ Verified(s) \/ NotVerified(s)
                          \/ heartbeat(s) \/ Age(s) \/ Disconnect(s) \/ Disconnected(s)
    \/ \E i \in Instance : \/ disconnect(i) \/ periodic_session_pool_cleanup(i)
                           \/ LoopRaises(i) \/ LockOutlived(i) \/ Crash(i)
    \/ LockExpires

Spec == Init /\ [][Next]_vars

(* The event loop runs every task that is ready, Redis expires the key of a *)
(* dead holder, time passes, and a token check ends.  A handler that waits  *)
(* for an event loop that is busy again and again gets its turn in the end: *)
(* the ready queue of asyncio is first in, first out.                       *)
Fairness ==
    /\ \A i \in Instance : WF_vars(disconnect(i)) /\ WF_vars(periodic_session_pool_cleanup(i))
    /\ \A i \in Instance : WF_vars(SleepRenew(i) /\ loop'[i] # "sleep")
    /\ \A s \in Session : SF_vars(Verified(s) \/ NotVerified(s)) /\ SF_vars(Disconnected(s))
    /\ \A s \in Session : WF_vars(Age(s))
    /\ WF_vars(LockExpires)

LiveSpec == Spec /\ Fairness

-----------------------------------------------------------------------------
TypeOK ==
    /\ Lock!LockType
    /\ loop \in [Instance -> LoopStep]
    /\ todo \in [Instance -> SUBSET Session]
    /\ found \in [Instance -> SUBSET Session]
    /\ lost \subseteq Instance
    /\ seen \in [Session -> {"none", "fresh", "stale"}]
    /\ conn \in [Session -> {"new", "up", "closing", "gone"}]
    /\ joining \subseteq Session /\ named \subseteq Session
    /\ at \in [Instance -> Session \cup {None}]
    /\ faults \in 0..MaxFaults /\ raises \in 0..MaxRaises

(* One process sweeps at a time: of two that are inside the locked part of  *)
(* the loop, one has outlived its lock.  So a late release_lock does not    *)
(* take the lock of its successor away.                                     *)
SweepExclusive ==
    \A i, j \in Instance :
        i # j /\ loop[i] \in Holding /\ loop[j] \in Holding => i \in lost \/ j \in lost

(* What a process is about to reap of its own sessions is still expired:    *)
(* the entry cannot be refreshed between the HSCAN and the HDEL, nor while  *)
(* its disconnect handler is between HEXISTS and HDEL.                      *)
OwnReapStale ==
    \A i \in Instance : \A s \in found[i] : Home[s] = i => seen[s] # "fresh"

(* "Reap orphaned SESSION_POOL entries that missed heartbeats": the entry   *)
(* of a session that is gone is removed for good in the end, whatever       *)
(* process it belonged to and whatever handler wrote it last.               *)
OrphanReaped ==
    \A s \in Session : conn[s] = "gone" ~> [](seen[s] = "none")

(* Sweeping is sound (periodic_session_pool_cleanup): the values have their  *)
(* types, one instance sweeps at a time, and the sessions an instance keeps  *)
(* alive are not taken from it.                                              *)
SweepSound == TypeOK /\ SweepExclusive /\ OwnReapStale
=============================================================================
