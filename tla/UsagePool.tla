------------------------------ MODULE UsagePool ------------------------------
(***************************************************************************)
(* USAGE_POOL: which sessions use a model (backend/open_webui/socket/      *)
(* main.py).  The entry of a model is a dictionary that every writer reads *)
(* with one Redis call and writes back whole, or deletes, with another:    *)
(* the usage event, disconnect, and the loop that drops reports older than *)
(* TIMEOUT_DURATION.  RedisDict blocks, so a process is in at most one of  *)
(* these stretches at a time; other processes run between its calls.       *)
(* One model: the entries of different models are read and written apart.  *)
(***************************************************************************)
EXTENDS Naturals

CONSTANTS Instance, Session, Home, None, Orphan,
          MaxReports, \* bound on usage events
          MaxFaults,  \* bound on crashes, stalls and reaped session entries
          MaxRaises   \* bound on Redis calls that raise

ASSUME HomeAssumption == Home \in [Session -> Instance]
ASSUME BoundAssumption == MaxReports \in Nat /\ MaxFaults \in Nat /\ MaxRaises \in Nat
ASSUME IdAssumption == None \notin Instance \cup Session /\ Orphan \notin Instance /\ None # Orphan

VARIABLES
    lock,     \* the usage cleanup lock
    loop,     \* [Instance -> LoopStep]: where periodic_usage_pool_cleanup is
    use,      \* [Session -> {"none", "fresh", "stale"}]: the entry, absent if all "none"
    snap,     \* [Instance -> Entry]: what the stretch in progress has read of it
    at,       \* [Instance -> HandlerStep]: the handler that keeps the event loop
    who,      \* [Instance -> Session \cup {None}]: its session
    conn,     \* [Session -> {"up", "closing", "gone"}]
    docs,     \* sessions among the users of some document
    current,  \* history: sessions whose last report has neither expired nor been undone
    overlap,  \* history: a process read the entry while another was about to write it
    reports, faults, raises

loopVars == <<lock, loop>>
poolVars == <<use, snap>>
handlerVars == <<at, who, conn, docs>>
countVars == <<reports, faults, raises>>
vars == <<loopVars, poolVars, handlerVars, current, overlap, countVars>>

Lock == INSTANCE RedisLock

-----------------------------------------------------------------------------
Running == {"renew", "items", "write", "release"}
LoopStep == {"acquire", "sleep"} \cup Running
HandlerStep == {"none", "set", "items", "write"}
Absent == [s \in Session |-> "none"]

Idle(i) == at[i] = "none" /\ loop[i] \notin Running
Writing(i) == at[i] \in {"set", "write"} \/ loop[i] = "write"

GoTo(i, step) == loop' = [loop EXCEPT ![i] = step]
Handler(i, step, s) == at' = [at EXCEPT ![i] = step] /\ who' = [who EXCEPT ![i] = s]

(* HGET or HGETALL: process i now works on what it needs of the entry. *)
Read(i, copy) ==
    /\ snap' = [snap EXCEPT ![i] = copy]
    /\ overlap' = (overlap \/ \E j \in Instance \ {i} : Writing(j))
Wrote(i) == snap' = [snap EXCEPT ![i] = Absent]

Init ==
    /\ lock = None /\ loop = [i \in Instance |-> "acquire"]
    /\ use = Absent /\ snap = [i \in Instance |-> Absent]
    /\ at = [i \in Instance |-> "none"] /\ who = [i \in Instance |-> None]
    /\ conn = [s \in Session |-> "up"] /\ docs = Session
    /\ current = {} /\ overlap = FALSE
    /\ reports = 0 /\ faults = 0 /\ raises = 0

-----------------------------------------------------------------------------
(* The usage event of a session: read the entry, write it back with the     *)
(* session's report in it.                                                  *)
usage(s) ==
    /\ conn[s] # "gone" /\ Idle(Home[s])
    /\ reports < MaxReports /\ reports' = reports + 1
    /\ Read(Home[s], use)
    /\ Handler(Home[s], "set", s)
    /\ UNCHANGED <<loopVars, use, conn, docs, current, faults, raises>>

UsageSet(i) ==
    /\ at[i] = "set"
    /\ use' = [snap[i] EXCEPT ![who[i]] = "fresh"]
    /\ current' = current \cup {who[i]}
    /\ Wrote(i)
    /\ Handler(i, "none", None)
    /\ UNCHANGED <<loopVars, conn, docs, overlap, countVars>>

(* TIMEOUT_DURATION passes since the last report of a session. *)
Older(entry, s) == [entry EXCEPT ![s] = IF @ = "fresh" THEN "stale" ELSE @]
Age(s) ==
    /\ use[s] = "fresh" \/ s \in current
    /\ use' = Older(use, s)
    /\ snap' = [i \in Instance |-> Older(snap[i], s)]
    /\ current' = current \ {s}
    /\ UNCHANGED <<loopVars, handlerVars, overlap, countVars>>

(* disconnect, once the entry in SESSION_POOL has been found and deleted.   *)
disconnect(s) ==
    /\ conn[s] = "up" /\ Idle(Home[s])
    /\ conn' = [conn EXCEPT ![s] = "closing"]
    /\ Handler(Home[s], "items", s)
    /\ UNCHANGED <<loopVars, poolVars, docs, current, overlap, countVars>>

DisconnectItems(i) ==
    LET s == who[i] IN
    /\ at[i] = "items"
    /\ IF use[s] = "none"
       THEN Handler(i, "none", None) /\ UNCHANGED <<snap, overlap>>
       ELSE Handler(i, "write", s) /\ Read(i, use)
    /\ UNCHANGED <<loopVars, use, conn, docs, current, countVars>>

(* The rest is written back; if there is none the entry is deleted, which   *)
(* raises KeyError, and ends the handler, if it is not there any more.      *)
DisconnectWrite(i) ==
    LET s == who[i]
        rest == [snap[i] EXCEPT ![s] = "none"]
    IN
    /\ at[i] = "write"
    /\ use' = rest
    /\ current' = current \ {s}
    /\ conn' = IF rest = Absent /\ use = Absent THEN [conn EXCEPT ![s] = "gone"] ELSE conn
    /\ Wrote(i)
    /\ Handler(i, "none", None)
    /\ UNCHANGED <<loopVars, docs, overlap, countVars>>

(* remove_user_from_all_documents, awaited; Socket.IO forgets the session.  *)
Disconnected(s) ==
    /\ conn[s] = "closing" /\ Idle(Home[s])
    /\ docs' = docs \ {s}
    /\ conn' = [conn EXCEPT ![s] = "gone"]
    /\ current' = current \ {s}
    /\ UNCHANGED <<loopVars, poolVars, at, who, overlap, countVars>>

(* A session whose SESSION_POOL entry was reaped is not cleaned up after.   *)
DisconnectUnknown(s) ==
    /\ conn[s] = "up" /\ Idle(Home[s])
    /\ faults < MaxFaults /\ faults' = faults + 1
    /\ conn' = [conn EXCEPT ![s] = "gone"]
    /\ current' = current \ {s}
    /\ UNCHANGED <<loopVars, poolVars, at, who, docs, overlap, reports, raises>>

(* A Redis call of a handler raises, which ends the handler.                *)
HandlerRaises(i) ==
    /\ at[i] # "none"
    /\ raises < MaxRaises /\ raises' = raises + 1
    /\ conn' = IF at[i] = "set" THEN conn ELSE [conn EXCEPT ![who[i]] = "gone"]
    /\ current' = IF at[i] = "set" THEN current ELSE current \ {who[i]}
    /\ Wrote(i)
    /\ Handler(i, "none", None)
    /\ UNCHANGED <<loopVars, use, docs, overlap, reports, faults>>

-----------------------------------------------------------------------------
(* periodic_usage_pool_cleanup *)
Acquire(i) ==
    /\ loop[i] = "acquire" /\ Idle(i)
    /\ Lock!aquire_lock(i)
    /\ GoTo(i, "renew")
    /\ UNCHANGED <<poolVars, handlerVars, current, overlap, countVars>>

Renew(i) ==
    /\ \/ loop[i] = "renew"
       \/ loop[i] = "sleep" /\ Idle(i)
    /\ GoTo(i, IF Lock!renew_lock(i) THEN "items" ELSE "release")
    /\ UNCHANGED <<lock, poolVars, handlerVars, current, overlap, countVars>>

(* What has expired is dropped; nothing is written if nothing has. *)
Items(i) ==
    /\ loop[i] = "items"
    /\ IF \E s \in Session : use[s] = "stale"
       THEN GoTo(i, "write") /\ Read(i, [s \in Session |-> IF use[s] = "fresh" THEN "fresh" ELSE "none"])
       ELSE GoTo(i, "sleep") /\ UNCHANGED <<snap, overlap>>
    /\ UNCHANGED <<lock, use, handlerVars, current, countVars>>

(* Any expired report drops the whole entry. *)
Write_All(i) ==
    /\ loop[i] = "write"
    /\ use' = Absent
    /\ Wrote(i)
    /\ GoTo(i, "sleep")
    /\ UNCHANGED <<lock, handlerVars, current, overlap, countVars>>

(* The rest is written back, or the entry deleted if it is still there.     *)
Write(i) ==
    /\ loop[i] = "write"
    /\ use' = snap[i]
    /\ Wrote(i)
    /\ GoTo(i, "sleep")
    /\ UNCHANGED <<lock, handlerVars, current, overlap, countVars>>

Release(i) ==
    /\ loop[i] = "release"
    /\ Lock!release_lock(i)
    /\ GoTo(i, "acquire")
    /\ UNCHANGED <<poolVars, handlerVars, current, overlap, countVars>>

(* A Redis call of the loop raises: the lock is released, unless that is    *)
(* the call that raises, and the loop tries again.                          *)
LoopRaises(i) ==
    /\ raises < MaxRaises /\ raises' = raises + 1
    /\ \/ loop[i] \in Running
       \/ loop[i] = "sleep" /\ Idle(i)
    /\ GoTo(i, IF loop[i] = "release" THEN "acquire" ELSE "release")
    /\ Wrote(i)
    /\ UNCHANGED <<lock, use, handlerVars, current, overlap, reports, faults>>

periodic_usage_pool_cleanup(i) ==
    Acquire(i) \/ Renew(i) \/ Items(i) \/ Write(i) \/ Release(i)

-----------------------------------------------------------------------------
(* The lock expires once nobody renews it...                                *)
LockExpires ==
    /\ lock = Orphan \/ \E i \in Instance : lock = i /\ loop[i] = "acquire"
    /\ Lock!Expire
    /\ UNCHANGED <<loop, poolVars, handlerVars, current, overlap, countVars>>

(* ... or, as a fault, while its holder is stalled.                         *)
LockOutlived(i) ==
    /\ lock = i /\ loop[i] # "acquire"
    /\ faults < MaxFaults /\ faults' = faults + 1
    /\ Lock!Expire
    /\ UNCHANGED <<loop, poolVars, handlerVars, current, overlap, reports, raises>>

(* A process dies with its connections and is replaced.                     *)
Crash(i) ==
    LET mine == {s \in Session : Home[s] = i} IN
    /\ faults < MaxFaults /\ faults' = faults + 1
    /\ Lock!Forget(i)
    /\ GoTo(i, "acquire")
    /\ Wrote(i)
    /\ Handler(i, "none", None)
    /\ conn' = [s \in Session |-> IF s \in mine THEN "gone" ELSE conn[s]]
    /\ current' = current \ mine
    /\ UNCHANGED <<use, docs, overlap, reports, raises>>

Next ==
    \/ \E s \in Session : usage(s) \/ Age(s) \/ disconnect(s) \/ Disconnected(s) \/ DisconnectUnknown(s)
    \/ \E i \in Instance : \/ UsageSet(i) \/ DisconnectItems(i) \/ DisconnectWrite(i) \/ HandlerRaises(i)
                           \/ periodic_usage_pool_cleanup(i) \/ LoopRaises(i)
                           \/ LockOutlived(i) \/ Crash(i)
    \/ LockExpires

Spec == Init /\ [][Next]_vars

(* The event loop runs what is ready, time passes, and Redis expires keys.  *)
(* The end of disconnect waits for an event loop that the sweep takes again *)
(* and again; the ready queue of asyncio is first in, first out.            *)
Fairness ==
    /\ \A i \in Instance : /\ WF_vars(UsageSet(i)) /\ WF_vars(DisconnectItems(i)) /\ WF_vars(DisconnectWrite(i))
                           /\ WF_vars(periodic_usage_pool_cleanup(i))
    /\ \A s \in Session : WF_vars(Age(s)) /\ SF_vars(Disconnected(s))
    /\ WF_vars(LockExpires)

LiveSpec == Spec /\ Fairness

-----------------------------------------------------------------------------
Entry == [Session -> {"none", "fresh", "stale"}]
TypeOK ==
    /\ Lock!LockType
    /\ loop \in [Instance -> LoopStep]
    /\ use \in Entry /\ snap \in [Instance -> Entry]
    /\ at \in [Instance -> HandlerStep] /\ who \in [Instance -> Session \cup {None}]
    /\ conn \in [Session -> {"up", "closing", "gone"}]
    /\ docs \subseteq Session /\ current \subseteq Session
    /\ overlap \in BOOLEAN
    /\ reports \in 0..MaxReports /\ faults \in 0..MaxFaults /\ raises \in 0..MaxRaises

(* get_models_in_use says "List models that are currently in use": a report *)
(* is in the pool until it expires or its session disconnects.              *)
ReportsListed == \A s \in current : use[s] = "fresh"

(* No report is lost, whatever handlers, sweeps, crashes and exceptions     *)
(* there are, unless two processes read and write the entry at a time.      *)
UsageKept == overlap \/ ReportsListed

(* The reverse index of documents is kept "so disconnect cleanup can look   *)
(* up only the documents this session joined": a session that is gone is    *)
(* among the users of no document.                                          *)
DocumentsLeft == \A s \in Session : conn[s] = "gone" => s \notin docs

(* disconnect reaches the cleanup of the documents unless something fails   *)
(* or another process changes the entry under it.                           *)
DisconnectCompletes == overlap \/ faults + raises > 0 \/ DocumentsLeft

(* The reports of a session that is gone leave the pool for good, whatever  *)
(* process or Redis call fails, once the others have stopped reporting.     *)
UsageReclaimed == \A s \in Session : conn[s] = "gone" ~> [](use[s] = "none")

(* Usage is sound (usage, disconnect and periodic_usage_pool_cleanup): the   *)
(* values have their types, what a connected session reported is kept, and a *)
(* disconnect does all of its work.                                          *)
UsageSound == TypeOK /\ UsageKept /\ DisconnectCompletes
=============================================================================
