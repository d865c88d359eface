------------------------------- MODULE Timers -------------------------------
(***************************************************************************)
(* One-shot chat timers (backend/open_webui/utils/timers.py).  A timer is  *)
(* a row of the chat table that the scheduler loop of any instance claims  *)
(* when it is due and then executes: it posts the timer's prompt into the  *)
(* parent chat and starts a completion there.  Reading the chat or writing *)
(* to it cancels the timers that asked for it.                             *)
(* A database transaction is split into what it reads and its commit.  On  *)
(* PostgreSQL (RowLocks) claim_due_timers locks the rows it selects until  *)
(* it commits and a write to a locked row waits; on SQLite nothing is      *)
(* locked.  SQLAlchemy writes back what was read: no write re-checks it.   *)
(***************************************************************************)
EXTENDS Naturals, FiniteSets

CONSTANTS Timer,      \* timer chats
          Chat,       \* parent chats
          User,
          Instance,   \* server processes, each with a scheduler loop
          Claim,      \* claim ids (uuid4), one per claimed row and execution
          None,       \* no claim, timer or instance
          Canceller,  \* requests that cancel timers
          ParentOf,   \* a timer's parent chat
          OwnerOf,    \* a timer's user
          CancelOn,   \* the events that cancel a timer
          RowLocks,   \* TRUE on PostgreSQL, FALSE on SQLite
          ClaimLimit, \* claim_due_timers' limit
          MaxBusy,    \* bound on the responses started in the parent chats
          MaxFaults   \* bound on crashes and failing calls

Event == {"chat.read", "chat.user_message"}

ASSUME TimerAssumption ==
    /\ ParentOf \in [Timer -> Chat]
    /\ OwnerOf \in [Timer -> User]
    /\ CancelOn \in [Timer -> SUBSET Event]
ASSUME NoneAssumption == None \notin Claim \cup Timer \cup Instance
ASSUME BoundAssumption == MaxBusy \in Nat /\ MaxFaults \in Nat /\ ClaimLimit \in Nat
(* Several instances share one database only when it locks rows.            *)
ASSUME DeploymentAssumption == RowLocks \in BOOLEAN /\ (RowLocks \/ \A i, j \in Instance : i = j)

VARIABLES
    status,     \* [Timer -> Status]: meta.status
    timerAt,    \* timers whose timer_at column is set
    due,        \* timers whose time has come
    claimId,    \* [Timer -> Claim \cup {None}]: meta.timer_claim_id
    batch,      \* [Instance -> SUBSET Timer]: rows an open claim has selected
    at,         \* [Claim -> Step]: the call of execute_due_timer for a claim
    of,         \* [Claim -> Timer \cup {None}]: ... its timer
    where,      \* [Claim -> Instance \cup {None}]: ... the process it runs in
    seen,       \* claims whose execution found the timer's row
    cancelling, \* [Canceller -> SUBSET Timer]: rows an open cancel will write
    active,     \* chats with a response in progress
    busy,       \* responses started so far
    fired,      \* [Timer -> SUBSET Claim]: claims that posted the prompt
    faults,     \* faults so far
    revoked     \* history: timers that were cancelled while their row was still pending

rowVars == <<status, timerAt, claimId>>
execVars == <<at, of, where, seen>>
chatVars == <<active, busy>>
historyVars == <<revoked>>
vars == <<rowVars, due, batch, execVars, cancelling, chatVars, fired, faults, historyVars>>

-----------------------------------------------------------------------------
Status == {"none", "pending", "running", "cancelled", "completed", "error", "gone"}
(* start: before the status check; gate: before the parent's lock; inlock:  *)
(* in the process's lock, before the row's; rearm, fire: about to commit;   *)
(* post: committed, still in the process's lock; call: before the handler.  *)
Step == {"none", "start", "gate", "inlock", "rearm", "fire", "post", "call", "end"}

Unused == {c \in Claim : at[c] = "none"}
Alive(c) == at[c] \notin {"none", "end"}
Locked(t) == RowLocks /\ \E i \in Instance : t \in batch[i]

(* asyncio.Lock of the parent chat in one process, and the row lock that    *)
(* SELECT ... FOR UPDATE takes on the parent chat.                          *)
InParentLock(c) == at[c] \in {"inlock", "rearm", "fire", "post"}
InRowLock(c) == at[c] \in {"rearm", "fire"}
SameParent(c, d) == ParentOf[of[c]] = ParentOf[of[d]]

GoTo(c, step) == at' = [at EXCEPT ![c] = step] /\ UNCHANGED <<of, where, seen>>
Fault == faults < MaxFaults /\ faults' = faults + 1

-----------------------------------------------------------------------------
Init ==
    /\ status = [t \in Timer |-> "none"]
    /\ timerAt = {} /\ due = {}
    /\ claimId = [t \in Timer |-> None]
    /\ batch = [i \in Instance |-> {}]
    /\ at = [c \in Claim |-> "none"]
    /\ of = [c \in Claim |-> None]
    /\ where = [c \in Claim |-> None]
    /\ seen = {}
    /\ cancelling = [k \in Canceller |-> {}]
    /\ active = {} /\ busy = 0
    /\ fired = [t \in Timer |-> {}]
    /\ faults = 0
    /\ revoked = {}

create_timer(t) ==
    /\ status[t] = "none"
    /\ status' = [status EXCEPT ![t] = "pending"]
    /\ timerAt' = timerAt \cup {t}
    /\ UNCHANGED <<due, claimId, batch, execVars, cancelling, chatVars, fired, faults, historyVars>>

(* parse_timer_at only accepts a time in the future; now it has come.       *)
Tick(t) ==
    /\ status[t] # "none" /\ t \notin due
    /\ due' = due \cup {t}
    /\ UNCHANGED <<rowVars, batch, execVars, cancelling, chatVars, fired, faults, historyVars>>

(* The timer chat is deleted (with its parent, or by its owner). *)
DeleteTimer(t) ==
    /\ status[t] \notin {"none", "gone"}
    /\ ~Locked(t)
    /\ status' = [status EXCEPT ![t] = "gone"]
    /\ timerAt' = timerAt \ {t}
    /\ UNCHANGED <<due, claimId, batch, execVars, cancelling, chatVars, fired, faults, historyVars>>

-----------------------------------------------------------------------------
(* claim_due_timers: the SELECT, skipping locked rows. *)
Claimable == {t \in timerAt \cap due : status[t] = "pending" /\ ~Locked(t)}

ClaimSelect(i, rows) ==
    /\ batch[i] = {} /\ rows # {}
    /\ rows \subseteq Claimable
    /\ rows = Claimable \/ Cardinality(rows) = ClaimLimit
    /\ Cardinality(rows) <= ClaimLimit
    /\ Cardinality(rows) <= Cardinality(Unused)
    /\ batch' = [batch EXCEPT ![i] = rows]
    /\ UNCHANGED <<rowVars, due, execVars, cancelling, chatVars, fired, faults, historyVars>>

(* ... its commit, and one execute_due_timer task per claimed row.  A row   *)
(* deleted meanwhile makes the commit fail and leaves the others alone.     *)
ClaimFails(i) ==
    /\ \E t \in batch[i] : status[t] = "gone"
    /\ batch' = [batch EXCEPT ![i] = {}]
    /\ UNCHANGED <<rowVars, due, execVars, cancelling, chatVars, fired, faults, historyVars>>

claim_due_timers(i, id) ==
    /\ batch[i] # {}
    /\ \A t \in batch[i] : status[t] # "gone" /\ id[t] \in Unused
    /\ \A t, u \in batch[i] : id[t] = id[u] => t = u
    /\ batch' = [batch EXCEPT ![i] = {}]
    /\ status' = [t \in Timer |-> IF t \in batch[i] THEN "running" ELSE status[t]]
    /\ timerAt' = timerAt \ batch[i]
    /\ claimId' = [t \in Timer |-> IF t \in batch[i] THEN id[t] ELSE claimId[t]]
    /\ at' = [c \in Claim |-> IF \E t \in batch[i] : id[t] = c THEN "start" ELSE at[c]]
    /\ of' = [c \in Claim |-> IF \E t \in batch[i] : id[t] = c
                              THEN CHOOSE t \in batch[i] : id[t] = c ELSE of[c]]
    /\ where' = [c \in Claim |-> IF \E t \in batch[i] : id[t] = c THEN i ELSE where[c]]
    /\ UNCHANGED <<due, seen, cancelling, chatVars, fired, faults, historyVars>>

-----------------------------------------------------------------------------
(* cancel_timers_for_chat: the SELECT, which locks nothing. *)
CancelSelect(k, p, u, event) ==
    LET rows == {t \in timerAt : /\ status[t] = "pending"
                                 /\ ParentOf[t] = p /\ OwnerOf[t] = u
                                 /\ event \in CancelOn[t]}
    IN  /\ cancelling[k] = {} /\ rows # {}
        /\ cancelling' = [cancelling EXCEPT ![k] = rows]
        /\ UNCHANGED <<rowVars, due, batch, execVars, chatVars, fired, faults, historyVars>>

(* ... and its commit: the rows are written whatever they are by now.       *)
cancel_timers_for_chat(k) ==
    LET rows == cancelling[k]
        lost == \E t \in rows : status[t] = "gone"
    IN  /\ rows # {}
        /\ \A t \in rows : ~Locked(t)
        /\ cancelling' = [cancelling EXCEPT ![k] = {}]
        /\ status' = [t \in Timer |-> IF ~lost /\ t \in rows THEN "cancelled" ELSE status[t]]
        /\ timerAt' = IF lost THEN timerAt ELSE timerAt \ rows
        /\ revoked' = IF lost THEN revoked ELSE revoked \cup {t \in rows : status[t] = "pending"}
        /\ UNCHANGED <<due, claimId, batch, execVars, chatVars, fired, faults>>

-----------------------------------------------------------------------------
(* _set_timer_state on the row, if it still exists. *)
SetTimerState(t, s) ==
    /\ ~Locked(t)
    /\ status' = IF status[t] = "gone" THEN status ELSE [status EXCEPT ![t] = s]

(* execute_due_timer, in the lock of the timer: the claim must still hold.  *)
ExecCheck(c) ==
    /\ at[c] = "start"
    /\ ~ \E d \in Claim : of[d] = of[c] /\ where[d] = where[c] /\ at[d] \notin {"none", "start", "end"}
    /\ GoTo(c, IF status[of[c]] = "running" /\ claimId[of[c]] = c THEN "gate" ELSE "end")
    /\ UNCHANGED <<rowVars, due, batch, cancelling, chatVars, fired, faults, historyVars>>

(* The parent, the prompt, the user or the model is missing.  The parent is *)
(* looked up again under the lock.                                          *)
ExecError(c) ==
    /\ at[c] \in {"gate", "inlock"}
    /\ SetTimerState(of[c], "error")
    /\ GoTo(c, "end")
    /\ UNCHANGED <<timerAt, due, claimId, batch, cancelling, chatVars, fired, faults, historyVars>>

ExecEnterLock(c) ==
    /\ at[c] = "gate"
    /\ ~ \E d \in Claim : InParentLock(d) /\ where[d] = where[c] /\ SameParent(c, d)
    /\ GoTo(c, "inlock")
    /\ UNCHANGED <<rowVars, due, batch, cancelling, chatVars, fired, faults, historyVars>>

(* Mutant: the parent's row is read without FOR UPDATE. *)
ExecGate_NoRowLock(c) ==
    /\ at[c] = "inlock"
    /\ at' = [at EXCEPT ![c] = IF ParentOf[of[c]] \in active THEN "rearm" ELSE "fire"]
    /\ seen' = IF status[of[c]] # "gone" THEN seen \cup {c} ELSE seen
    /\ UNCHANGED <<of, where, rowVars, due, batch, cancelling, chatVars, fired, faults, historyVars>>

(* The parent's row is locked, has_active_tasks is asked and the timer's    *)
(* row is read; what is committed depends on the answer.                    *)
ExecGate(c) ==
    /\ at[c] = "inlock"
    /\ RowLocks => ~ \E d \in Claim : InRowLock(d) /\ SameParent(c, d)
    /\ at' = [at EXCEPT ![c] = IF ParentOf[of[c]] \in active THEN "rearm" ELSE "fire"]
    /\ seen' = IF status[of[c]] # "gone" THEN seen \cup {c} ELSE seen
    /\ UNCHANGED <<of, where, rowVars, due, batch, cancelling, chatVars, fired, faults, historyVars>>

(* Mutant: the execution goes on after it put the timer back. *)
ExecRearm_NoReturn(c) ==
    /\ at[c] = "rearm"
    /\ c \in seen /\ status[of[c]] # "gone" /\ ~Locked(of[c])
    /\ status' = [status EXCEPT ![of[c]] = "pending"]
    /\ timerAt' = timerAt \cup {of[c]}
    /\ claimId' = [claimId EXCEPT ![of[c]] = None]
    /\ GoTo(c, "fire")
    /\ UNCHANGED <<due, batch, cancelling, chatVars, fired, faults, historyVars>>

(* Mutant: the row stays "running". *)
ExecRearm_StaysRunning(c) ==
    /\ at[c] = "rearm"
    /\ c \in seen /\ status[of[c]] # "gone" /\ ~Locked(of[c])
    /\ timerAt' = timerAt \cup {of[c]}
    /\ claimId' = [claimId EXCEPT ![of[c]] = None]
    /\ GoTo(c, "end")
    /\ UNCHANGED <<status, due, batch, cancelling, chatVars, fired, faults, historyVars>>

(* Mutant: the original time is not restored. *)
ExecRearm_NoTime(c) ==
    /\ at[c] = "rearm"
    /\ c \in seen /\ status[of[c]] # "gone" /\ ~Locked(of[c])
    /\ status' = [status EXCEPT ![of[c]] = "pending"]
    /\ claimId' = [claimId EXCEPT ![of[c]] = None]
    /\ GoTo(c, "end")
    /\ UNCHANGED <<timerAt, due, batch, cancelling, chatVars, fired, faults, historyVars>>

(* Back to pending, with the original time. *)
ExecRearm(c) ==
    /\ at[c] = "rearm"
    /\ c \in seen /\ status[of[c]] # "gone" /\ ~Locked(of[c])
    /\ status' = [status EXCEPT ![of[c]] = "pending"]
    /\ timerAt' = timerAt \cup {of[c]}
    /\ claimId' = [claimId EXCEPT ![of[c]] = None]
    /\ GoTo(c, "end")
    /\ UNCHANGED <<due, batch, cancelling, chatVars, fired, faults, historyVars>>

(* The prompt and an empty answer are added to the parent chat; the timer   *)
(* is completed in the same transaction.  A timer whose row was not there   *)
(* when it was read fires without it.                                       *)
ExecFire(c) ==
    /\ at[c] = "fire"
    /\ c \in seen => status[of[c]] # "gone"
    /\ ~Locked(of[c])
    /\ fired' = [fired EXCEPT ![of[c]] = @ \cup {c}]
    /\ status' = IF c \in seen THEN [status EXCEPT ![of[c]] = "completed"] ELSE status
    /\ GoTo(c, "post")
    /\ UNCHANGED <<timerAt, due, claimId, batch, cancelling, chatVars, faults, historyVars>>

(* The row is gone: nothing to put back; a row deleted after it was read    *)
(* makes the commit fail, the parent's part included.                       *)
ExecRowGone(c) ==
    /\ at[c] = "rearm" \/ (at[c] = "fire" /\ c \in seen)
    /\ status[of[c]] = "gone"
    /\ GoTo(c, "end")
    /\ UNCHANGED <<rowVars, due, batch, cancelling, chatVars, fired, faults, historyVars>>

(* The chat_message rows are written and the process's lock is left. *)
ExecPost(c) ==
    /\ at[c] = "post"
    /\ GoTo(c, "call")
    /\ UNCHANGED <<rowVars, due, batch, cancelling, chatVars, fired, faults, historyVars>>

(* CHAT_COMPLETION_HANDLER starts the response, or raises. *)
ExecComplete(c) ==
    /\ at[c] = "call"
    /\ active' = active \cup {ParentOf[of[c]]}
    /\ GoTo(c, "end")
    /\ UNCHANGED <<rowVars, due, batch, cancelling, busy, fired, faults, historyVars>>

ExecHandlerRaises(c) ==
    /\ at[c] = "call"
    /\ SetTimerState(of[c], "error")
    /\ GoTo(c, "end")
    /\ UNCHANGED <<timerAt, due, claimId, batch, cancelling, chatVars, fired, faults, historyVars>>

(* A database or Redis call raises outside the handler's try. *)
ExecRaises(c) ==
    /\ Alive(c)
    /\ GoTo(c, "end")
    /\ Fault
    /\ UNCHANGED <<rowVars, due, batch, cancelling, chatVars, fired, historyVars>>

-----------------------------------------------------------------------------
(* Responses in the parent chats, as has_active_tasks shows them. *)
ResponseStarts(p) ==
    /\ p \notin active /\ busy < MaxBusy
    /\ active' = active \cup {p} /\ busy' = busy + 1
    /\ UNCHANGED <<rowVars, due, batch, execVars, cancelling, fired, faults, historyVars>>

ResponseEnds(p) ==
    /\ p \in active
    /\ active' = active \ {p}
    /\ UNCHANGED <<rowVars, due, batch, execVars, cancelling, busy, fired, faults, historyVars>>

(* An instance dies: its transaction is rolled back, its executions end.    *)
Crash(i) ==
    /\ batch' = [batch EXCEPT ![i] = {}]
    /\ at' = [c \in Claim |-> IF Alive(c) /\ where[c] = i THEN "end" ELSE at[c]]
    /\ Fault
    /\ UNCHANGED <<of, where, seen, rowVars, due, cancelling, chatVars, fired, historyVars>>

-----------------------------------------------------------------------------
ExecStep(c) == \/ ExecCheck(c) \/ ExecError(c) \/ ExecEnterLock(c) \/ ExecGate(c)
               \/ ExecRearm(c) \/ ExecFire(c) \/ ExecRowGone(c)
               \/ ExecPost(c) \/ ExecComplete(c) \/ ExecHandlerRaises(c)

Next ==
    \/ \E t \in Timer : create_timer(t) \/ Tick(t) \/ DeleteTimer(t)
    \/ \E i \in Instance : \/ \E rows \in SUBSET Timer : ClaimSelect(i, rows)
                           \/ \E id \in [batch[i] -> Unused] : claim_due_timers(i, id)
                           \/ ClaimFails(i)
                           \/ Crash(i)
    \/ \E k \in Canceller : \/ \E p \in Chat, u \in User, e \in Event : CancelSelect(k, p, u, e)
                            \/ cancel_timers_for_chat(k)
    \/ \E c \in Claim : ExecStep(c) \/ ExecRaises(c)
    \/ \E p \in Chat : ResponseStarts(p) \/ ResponseEnds(p)

Spec == Init /\ [][Next]_vars

(* Time passes, every scheduler loop keeps polling, asyncio runs what is    *)
(* ready, and a response ends.                                              *)
Fairness ==
    /\ \A t \in Timer : WF_vars(Tick(t))
    /\ \A i \in Instance :
          /\ WF_vars(\E rows \in SUBSET Timer : ClaimSelect(i, rows))
          /\ WF_vars(ClaimFails(i) \/ \E id \in [batch[i] -> Unused] : claim_due_timers(i, id))
    /\ \A k \in Canceller : WF_vars(cancel_timers_for_chat(k))
    /\ \A c \in Claim : WF_vars(ExecStep(c))
    /\ \A p \in Chat : WF_vars(ResponseEnds(p))

FairSpec == Spec /\ Fairness

-----------------------------------------------------------------------------
TypeOK ==
    /\ status \in [Timer -> Status]
    /\ timerAt \subseteq Timer /\ due \subseteq Timer
    /\ claimId \in [Timer -> Claim \cup {None}]
    /\ batch \in [Instance -> SUBSET Timer]
    /\ at \in [Claim -> Step]
    /\ of \in [Claim -> Timer \cup {None}]
    /\ where \in [Claim -> Instance \cup {None}]
    /\ seen \subseteq Claim
    /\ cancelling \in [Canceller -> SUBSET Timer]
    /\ active \subseteq Chat /\ busy \in 0..MaxBusy
    /\ fired \in [Timer -> SUBSET Claim]
    /\ faults \in 0..MaxFaults
    /\ revoked \subseteq Timer

(* One shot: however often a timer is claimed, put back and claimed again,  *)
(* by whichever instance, its prompt is posted at most once.                *)
FiresOnce == \A t \in Timer : \A c, d \in fired[t] : c = d

(* With row locks, a cancellation committed while the timer was pending is  *)
(* final: the timer never posts its prompt.                                 *)
RevokedNeverFires == RowLocks => \A t \in revoked : fired[t] = {}

(* A timer in state "running" is being executed: nothing but a crash or an  *)
(* exception leaves it in a state that no scheduler loop looks at.          *)
RunningIsExecuted ==
    faults = 0 => \A t \in Timer : status[t] = "running" => \E c \in Claim : of[c] = t /\ Alive(c)

(* Two executions never write to the same parent chat at the same time: its *)
(* history is read and written back as a whole.                             *)
ParentWriteExclusive ==
    \A c, d \in Claim : InRowLock(c) /\ InRowLock(d) /\ SameParent(c, d) => c = d

(* A due timer is settled: it fires, or is cancelled, deleted or refused -  *)
(* if nothing crashes or raises (and the bound on claims is not used up).   *)
DueTimerSettles ==
    \A t \in Timer : status[t] = "pending"
        ~> \/ fired[t] # {} \/ status[t] \in {"cancelled", "error", "gone"}
           \/ Unused = {} \/ faults > 0

(* Firing is sound (claim, _run_timer): the values have their types, a timer *)
(* fires once, and one that was cancelled before it was claimed never does.  *)
FiringSound == TypeOK /\ FiresOnce /\ RevokedNeverFires
=============================================================================
