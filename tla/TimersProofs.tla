---------------------------- MODULE TimersProofs ----------------------------
(***************************************************************************)
(* TLAPS proofs about Timers, for any number of timers, chats, instances,  *)
(* cancel requests, claims and faults, on PostgreSQL and on SQLite.        *)
(***************************************************************************)
EXTENDS Timers, TLAPS

BeforeFire == {"start", "gate", "inlock", "rearm", "fire"}

(* A claim id stands for one execution of one timer in one process, and two *)
(* executions of a timer are never alive together.                          *)
ExecInv ==
    /\ \A c \in Claim : at[c] # "none" => of[c] \in Timer /\ where[c] \in Instance
    /\ \A c \in Claim : at[c] = "none" => of[c] = None
    /\ \A c, d \in Claim : of[c] = of[d] /\ Alive(c) /\ Alive(d) => c = d

(* What a timer that waits, or that an open claim has selected, looks like. *)
WaitInv ==
    /\ \A t \in Timer : status[t] \in {"none", "pending"} =>
          fired[t] = {} /\ \A c \in Claim : of[c] = t => ~Alive(c)
    /\ \A i \in Instance : \A t \in batch[i] :
          /\ fired[t] = {} /\ \A c \in Claim : of[c] = t => ~Alive(c)
          /\ status[t] # "none"
          /\ RowLocks => status[t] = "pending"
    /\ \A i, j \in Instance : \A t \in batch[i] \cap batch[j] : i = j

(* What the row looks like to the execution that holds its claim.           *)
HoldInv ==
    \A c \in Claim :
        /\ at[c] \in BeforeFire => fired[of[c]] = {}
        /\ Alive(c) /\ status[of[c]] = "running" => claimId[of[c]] = c
        /\ at[c] \in {"post", "call"} => status[of[c]] # "running"
        /\ at[c] \in {"rearm", "fire"} /\ c \notin seen => status[of[c]] = "gone"

(* A timer revoked while it was pending is out of everyone's reach.         *)
RevokedInv ==
    RowLocks => \A t \in revoked :
        /\ status[t] \in {"cancelled", "gone"}
        /\ fired[t] = {}
        /\ \A c \in Claim : of[c] = t => ~Alive(c)

(* The lock of a parent chat in one process admits one execution.           *)
LockInv ==
    \A c, d \in Claim :
        InParentLock(c) /\ InParentLock(d) /\ where[c] = where[d] /\ SameParent(c, d) => c = d

IInv ==
    /\ TypeOK /\ ExecInv /\ WaitInv /\ HoldInv /\ RevokedInv /\ LockInv
    /\ FiresOnce /\ RunningIsExecuted /\ ParentWriteExclusive

-----------------------------------------------------------------------------
(* Initial states satisfy the inductive invariant. *)
LEMMA InitIInv == Init => IInv
<1> SUFFICES ASSUME Init PROVE IInv
    OBVIOUS
<1> USE BoundAssumption, NoneAssumption DEF Init
<1>1. TypeOK
    BY DEF TypeOK, Status, Step
<1>2. ExecInv /\ WaitInv /\ HoldInv
    BY DEF ExecInv, WaitInv, HoldInv, Alive, BeforeFire
<1>3. RevokedInv /\ LockInv /\ FiresOnce /\ RunningIsExecuted /\ ParentWriteExclusive
    BY DEF RevokedInv, LockInv, FiresOnce, RunningIsExecuted, ParentWriteExclusive, InParentLock, InRowLock
<1> QED BY <1>1, <1>2, <1>3 DEF IInv

(* Every step preserves the inductive invariant. *)
LEMMA NextIInv == IInv /\ [Next]_vars => IInv'
<1> SUFFICES ASSUME IInv, [Next]_vars PROVE IInv'
    OBVIOUS
<1> USE BoundAssumption, NoneAssumption, TimerAssumption, DeploymentAssumption
<1> USE DEF vars, rowVars, execVars, chatVars, historyVars, Alive
<1>1. ASSUME NEW t \in Timer, create_timer(t) PROVE IInv'
  <2>1. TypeOK'
      BY <1>1 DEF IInv, TypeOK, ExecInv, Status, Step, create_timer
  <2>2. ExecInv'
      BY <1>1 DEF IInv, TypeOK, ExecInv, WaitInv, create_timer
  <2>3. WaitInv'
      BY <1>1 DEF IInv, TypeOK, WaitInv, ExecInv, HoldInv, create_timer
  <2>4. HoldInv'
      BY <1>1 DEF IInv, TypeOK, HoldInv, WaitInv, ExecInv, BeforeFire, create_timer
  <2>5. RevokedInv'
      BY <1>1 DEF IInv, TypeOK, RevokedInv, WaitInv, ExecInv, create_timer
  <2>6. LockInv'
      BY <1>1 DEF IInv, TypeOK, LockInv, ExecInv, InParentLock, SameParent, create_timer
  <2>7. FiresOnce'
      BY <1>1 DEF IInv, TypeOK, FiresOnce, HoldInv, ExecInv, BeforeFire, create_timer
  <2>8. RunningIsExecuted'
      BY <1>1 DEF IInv, TypeOK, RunningIsExecuted, ExecInv, HoldInv, WaitInv, create_timer
  <2>9. ParentWriteExclusive'
      BY <1>1 DEF IInv, TypeOK, ParentWriteExclusive, LockInv, ExecInv, InRowLock, InParentLock, SameParent, create_timer
  <2> QED BY <2>1, <2>2, <2>3, <2>4, <2>5, <2>6, <2>7, <2>8, <2>9 DEF IInv
<1>2. ASSUME NEW t \in Timer, Tick(t) PROVE IInv'
  <2>1. TypeOK'
      BY <1>2 DEF IInv, TypeOK, ExecInv, Status, Step, Tick
  <2>2. ExecInv'
      BY <1>2 DEF IInv, TypeOK, ExecInv, WaitInv, Tick
  <2>3. WaitInv'
      BY <1>2 DEF IInv, TypeOK, WaitInv, ExecInv, HoldInv, Tick
  <2>4. HoldInv'
      BY <1>2 DEF IInv, TypeOK, HoldInv, WaitInv, ExecInv, BeforeFire, Tick
  <2>5. RevokedInv'
      BY <1>2 DEF IInv, TypeOK, RevokedInv, WaitInv, ExecInv, Tick
  <2>6. LockInv'
      BY <1>2 DEF IInv, TypeOK, LockInv, ExecInv, InParentLock, SameParent, Tick
  <2>7. FiresOnce'
      BY <1>2 DEF IInv, TypeOK, FiresOnce, HoldInv, ExecInv, BeforeFire, Tick
  <2>8. RunningIsExecuted'
      BY <1>2 DEF IInv, TypeOK, RunningIsExecuted, ExecInv, HoldInv, WaitInv, Tick
  <2>9. ParentWriteExclusive'
      BY <1>2 DEF IInv, TypeOK, ParentWriteExclusive, LockInv, ExecInv, InRowLock, InParentLock, SameParent, Tick
  <2> QED BY <2>1, <2>2, <2>3, <2>4, <2>5, <2>6, <2>7, <2>8, <2>9 DEF IInv
<1>3. ASSUME NEW t \in Timer, DeleteTimer(t) PROVE IInv'
  <2>1. TypeOK'
      BY <1>3 DEF IInv, TypeOK, ExecInv, Status, Step, DeleteTimer, Locked
  <2>2. ExecInv'
      BY <1>3 DEF IInv, TypeOK, ExecInv, WaitInv, DeleteTimer, Locked
  <2>3. WaitInv'
      BY <1>3 DEF IInv, TypeOK, WaitInv, ExecInv, HoldInv, DeleteTimer, Locked
  <2>4. HoldInv'
      BY <1>3 DEF IInv, TypeOK, HoldInv, WaitInv, ExecInv, BeforeFire, DeleteTimer, Locked
  <2>5. RevokedInv'
      BY <1>3 DEF IInv, TypeOK, RevokedInv, WaitInv, ExecInv, DeleteTimer, Locked
  <2>6. LockInv'
      BY <1>3 DEF IInv, TypeOK, LockInv, ExecInv, InParentLock, SameParent, DeleteTimer, Locked
  <2>7. FiresOnce'
      BY <1>3 DEF IInv, TypeOK, FiresOnce, HoldInv, ExecInv, BeforeFire, DeleteTimer, Locked
  <2>8. RunningIsExecuted'
      BY <1>3 DEF IInv, TypeOK, RunningIsExecuted, ExecInv, HoldInv, WaitInv, DeleteTimer, Locked
  <2>9. ParentWriteExclusive'
      BY <1>3 DEF IInv, TypeOK, ParentWriteExclusive, LockInv, ExecInv, InRowLock, InParentLock, SameParent, DeleteTimer, Locked
  <2> QED BY <2>1, <2>2, <2>3, <2>4, <2>5, <2>6, <2>7, <2>8, <2>9 DEF IInv
<1>4. ASSUME NEW i \in Instance, NEW rows \in SUBSET Timer, ClaimSelect(i, rows) PROVE IInv'
  <2>1. TypeOK'
      BY <1>4 DEF IInv, TypeOK, ExecInv, Status, Step, ClaimSelect, Claimable, Locked
  <2>2. ExecInv'
      BY <1>4 DEF IInv, TypeOK, ExecInv, WaitInv, ClaimSelect, Claimable, Locked
  <2>3. WaitInv'
      BY <1>4 DEF IInv, TypeOK, WaitInv, ExecInv, HoldInv, ClaimSelect, Claimable, Locked
  <2>4. HoldInv'
      BY <1>4 DEF IInv, TypeOK, HoldInv, WaitInv, ExecInv, BeforeFire, ClaimSelect, Claimable, Locked
  <2>5. RevokedInv'
      BY <1>4 DEF IInv, TypeOK, RevokedInv, WaitInv, ExecInv, ClaimSelect, Claimable, Locked
  <2>6. LockInv'
      BY <1>4 DEF IInv, TypeOK, LockInv, ExecInv, InParentLock, SameParent, ClaimSelect, Claimable, Locked
  <2>7. FiresOnce'
      BY <1>4 DEF IInv, TypeOK, FiresOnce, HoldInv, ExecInv, BeforeFire, ClaimSelect, Claimable, Locked
  <2>8. RunningIsExecuted'
      BY <1>4 DEF IInv, TypeOK, RunningIsExecuted, ExecInv, HoldInv, WaitInv, ClaimSelect, Claimable, Locked
  <2>9. ParentWriteExclusive'
      BY <1>4 DEF IInv, TypeOK, ParentWriteExclusive, LockInv, ExecInv, InRowLock, InParentLock, SameParent, ClaimSelect, Claimable, Locked
  <2> QED BY <2>1, <2>2, <2>3, <2>4, <2>5, <2>6, <2>7, <2>8, <2>9 DEF IInv
<1>5. ASSUME NEW i \in Instance, ClaimFails(i) PROVE IInv'
  <2>1. TypeOK'
      BY <1>5 DEF IInv, TypeOK, ExecInv, Status, Step, ClaimFails
  <2>2. ExecInv'
      BY <1>5 DEF IInv, TypeOK, ExecInv, WaitInv, ClaimFails
  <2>3. WaitInv'
      BY <1>5 DEF IInv, TypeOK, WaitInv, ExecInv, HoldInv, ClaimFails
  <2>4. HoldInv'
      BY <1>5 DEF IInv, TypeOK, HoldInv, WaitInv, ExecInv, BeforeFire, ClaimFails
  <2>5. RevokedInv'
      BY <1>5 DEF IInv, TypeOK, RevokedInv, WaitInv, ExecInv, ClaimFails
  <2>6. LockInv'
      BY <1>5 DEF IInv, TypeOK, LockInv, ExecInv, InParentLock, SameParent, ClaimFails
  <2>7. FiresOnce'
      BY <1>5 DEF IInv, TypeOK, FiresOnce, HoldInv, ExecInv, BeforeFire, ClaimFails
  <2>8. RunningIsExecuted'
      BY <1>5 DEF IInv, TypeOK, RunningIsExecuted, ExecInv, HoldInv, WaitInv, ClaimFails
  <2>9. ParentWriteExclusive'
      BY <1>5 DEF IInv, TypeOK, ParentWriteExclusive, LockInv, ExecInv, InRowLock, InParentLock, SameParent, ClaimFails
  <2> QED BY <2>1, <2>2, <2>3, <2>4, <2>5, <2>6, <2>7, <2>8, <2>9 DEF IInv
<1>6. ASSUME NEW i \in Instance, NEW id \in [batch[i] -> Unused], claim_due_timers(i, id) PROVE IInv'
  <2>0. /\ batch' = [batch EXCEPT ![i] = {}]
        /\ status' = [t \in Timer |-> IF t \in batch[i] THEN "running" ELSE status[t]]
        /\ timerAt' = timerAt \ batch[i]
        /\ claimId' = [t \in Timer |-> IF t \in batch[i] THEN id[t] ELSE claimId[t]]
        /\ UNCHANGED <<due, seen, cancelling, active, busy, fired, faults, revoked>>
      BY <1>6 DEF claim_due_timers
  <2>a. /\ batch[i] \subseteq Timer
        /\ \A t \in batch[i] : id[t] \in Claim /\ at[id[t]] = "none"
        /\ \A t, u \in batch[i] : id[t] = id[u] => t = u
      BY <1>6 DEF IInv, TypeOK, claim_due_timers, Unused
  <2>b. /\ at' \in [Claim -> Step] /\ of' \in [Claim -> Timer \cup {None}]
        /\ where' \in [Claim -> Instance \cup {None}]
        /\ \A c \in Claim : \/ /\ at'[c] = at[c] /\ of'[c] = of[c] /\ where'[c] = where[c]
                                /\ \A t \in batch[i] : id[t] # c
                             \/ /\ at[c] = "none" /\ at'[c] = "start" /\ where'[c] = i
                                /\ of'[c] \in batch[i] /\ id[of'[c]] = c
        /\ \A t \in batch[i] : at'[id[t]] = "start" /\ of'[id[t]] = t
    <3> DEFINE mine(c) == \E t \in batch[i] : id[t] = c
               row(c) == CHOOSE t \in batch[i] : id[t] = c
    <3>1. /\ at' = [c \in Claim |-> IF mine(c) THEN "start" ELSE at[c]]
          /\ of' = [c \in Claim |-> IF mine(c) THEN row(c) ELSE of[c]]
          /\ where' = [c \in Claim |-> IF mine(c) THEN i ELSE where[c]]
        BY <1>6 DEF claim_due_timers
    <3>2. \A c \in Claim : mine(c) => row(c) \in batch[i] /\ id[row(c)] = c
        OBVIOUS
    <3>3. \A t \in batch[i] : mine(id[t]) /\ row(id[t]) = t
        BY <2>a, <3>2
    <3>4. \A c \in Claim : ~mine(c) => \A t \in batch[i] : id[t] # c
        OBVIOUS
    <3> HIDE DEF mine, row
    <3>5. \A c \in Claim : mine(c) => at[c] = "none" /\ row(c) \in Timer
        BY <2>a, <3>2
    <3>6. at' \in [Claim -> Step] /\ of' \in [Claim -> Timer \cup {None}]
        BY <3>1, <3>5 DEF IInv, TypeOK, Step
    <3>7. where' \in [Claim -> Instance \cup {None}]
        BY <3>1 DEF IInv, TypeOK
    <3>8. \A t \in batch[i] : at'[id[t]] = "start" /\ of'[id[t]] = t
        BY <2>a, <3>1, <3>3
    <3>9. ASSUME NEW c \in Claim
          PROVE  \/ /\ at'[c] = at[c] /\ of'[c] = of[c] /\ where'[c] = where[c]
                    /\ \A t \in batch[i] : id[t] # c
                 \/ /\ at[c] = "none" /\ at'[c] = "start" /\ where'[c] = i
                    /\ of'[c] \in batch[i] /\ id[of'[c]] = c
        BY <3>1, <3>2, <3>4, <3>5
    <3> QED BY <3>6, <3>7, <3>8, <3>9
  <2>1. TypeOK'
      BY <2>0, <2>a, <2>b DEF IInv, TypeOK, ExecInv, Status, Step, WaitInv
  <2>2. ExecInv'
      BY <2>0, <2>a, <2>b DEF IInv, TypeOK, ExecInv, WaitInv
  <2>3. WaitInv'
      BY <2>0, <2>a, <2>b DEF IInv, TypeOK, WaitInv, ExecInv, HoldInv
  <2>4. HoldInv'
      BY <2>0, <2>a, <2>b DEF IInv, TypeOK, HoldInv, WaitInv, ExecInv, BeforeFire
  <2>5. RevokedInv'
      BY <2>0, <2>a, <2>b DEF IInv, TypeOK, RevokedInv, WaitInv, ExecInv
  <2>6. LockInv'
      BY <2>0, <2>a, <2>b DEF IInv, TypeOK, LockInv, ExecInv, InParentLock, SameParent, WaitInv
  <2>7. FiresOnce'
      BY <2>0, <2>a, <2>b DEF IInv, TypeOK, FiresOnce, HoldInv, ExecInv, BeforeFire, WaitInv
  <2>8. RunningIsExecuted'
      BY <2>0, <2>a, <2>b DEF IInv, TypeOK, RunningIsExecuted, ExecInv, HoldInv, WaitInv
  <2>9. ParentWriteExclusive'
      BY <2>0, <2>a, <2>b DEF IInv, TypeOK, ParentWriteExclusive, LockInv, ExecInv, InRowLock, InParentLock, SameParent, WaitInv
  <2> QED BY <2>1, <2>2, <2>3, <2>4, <2>5, <2>6, <2>7, <2>8, <2>9 DEF IInv
<1>7. ASSUME NEW i \in Instance, Crash(i) PROVE IInv'
  <2>1. TypeOK'
      BY <1>7 DEF IInv, TypeOK, ExecInv, Status, Step, Crash, Fault
  <2>2. ExecInv'
      BY <1>7 DEF IInv, TypeOK, ExecInv, WaitInv, Crash, Fault
  <2>3. WaitInv'
      BY <1>7 DEF IInv, TypeOK, WaitInv, ExecInv, HoldInv, Crash, Fault
  <2>4. HoldInv'
      BY <1>7 DEF IInv, TypeOK, HoldInv, WaitInv, ExecInv, BeforeFire, Crash, Fault
  <2>5. RevokedInv'
      BY <1>7 DEF IInv, TypeOK, RevokedInv, WaitInv, ExecInv, Crash, Fault
  <2>6. LockInv'
      BY <1>7 DEF IInv, TypeOK, LockInv, ExecInv, InParentLock, SameParent, Crash, Fault
  <2>7. FiresOnce'
      BY <1>7 DEF IInv, TypeOK, FiresOnce, HoldInv, ExecInv, BeforeFire, Crash, Fault
  <2>8. RunningIsExecuted'
      BY <1>7 DEF IInv, TypeOK, RunningIsExecuted, ExecInv, HoldInv, WaitInv, Crash, Fault
  <2>9. ParentWriteExclusive'
      BY <1>7 DEF IInv, TypeOK, ParentWriteExclusive, LockInv, ExecInv, InRowLock, InParentLock, SameParent, Crash, Fault
  <2> QED BY <2>1, <2>2, <2>3, <2>4, <2>5, <2>6, <2>7, <2>8, <2>9 DEF IInv
<1>8. ASSUME NEW k \in Canceller, NEW p \in Chat, NEW u \in User, NEW e \in Event, CancelSelect(k, p, u, e) PROVE IInv'
  <2>1. TypeOK'
      BY <1>8 DEF IInv, TypeOK, ExecInv, Status, Step, CancelSelect
  <2>2. ExecInv'
      BY <1>8 DEF IInv, TypeOK, ExecInv, WaitInv, CancelSelect
  <2>3. WaitInv'
      BY <1>8 DEF IInv, TypeOK, WaitInv, ExecInv, HoldInv, CancelSelect
  <2>4. HoldInv'
      BY <1>8 DEF IInv, TypeOK, HoldInv, WaitInv, ExecInv, BeforeFire, CancelSelect
  <2>5. RevokedInv'
      BY <1>8 DEF IInv, TypeOK, RevokedInv, WaitInv, ExecInv, CancelSelect
  <2>6. LockInv'
      BY <1>8 DEF IInv, TypeOK, LockInv, ExecInv, InParentLock, SameParent, CancelSelect
  <2>7. FiresOnce'
      BY <1>8 DEF IInv, TypeOK, FiresOnce, HoldInv, ExecInv, BeforeFire, CancelSelect
  <2>8. RunningIsExecuted'
      BY <1>8 DEF IInv, TypeOK, RunningIsExecuted, ExecInv, HoldInv, WaitInv, CancelSelect
  <2>9. ParentWriteExclusive'
      BY <1>8 DEF IInv, TypeOK, ParentWriteExclusive, LockInv, ExecInv, InRowLock, InParentLock, SameParent, CancelSelect
  <2> QED BY <2>1, <2>2, <2>3, <2>4, <2>5, <2>6, <2>7, <2>8, <2>9 DEF IInv
<1>9. ASSUME NEW k \in Canceller, cancel_timers_for_chat(k) PROVE IInv'
  <2>1. TypeOK'
      BY <1>9 DEF IInv, TypeOK, ExecInv, Status, Step, cancel_timers_for_chat, Locked
  <2>2. ExecInv'
      BY <1>9 DEF IInv, TypeOK, ExecInv, WaitInv, cancel_timers_for_chat, Locked
  <2>3. WaitInv'
      BY <1>9 DEF IInv, TypeOK, WaitInv, ExecInv, HoldInv, cancel_timers_for_chat, Locked
  <2>4. HoldInv'
      BY <1>9 DEF IInv, TypeOK, HoldInv, WaitInv, ExecInv, BeforeFire, cancel_timers_for_chat, Locked
  <2>5. RevokedInv'
      BY <1>9 DEF IInv, TypeOK, RevokedInv, WaitInv, ExecInv, cancel_timers_for_chat, Locked
  <2>6. LockInv'
      BY <1>9 DEF IInv, TypeOK, LockInv, ExecInv, InParentLock, SameParent, cancel_timers_for_chat, Locked
  <2>7. FiresOnce'
      BY <1>9 DEF IInv, TypeOK, FiresOnce, HoldInv, ExecInv, BeforeFire, cancel_timers_for_chat, Locked
  <2>8. RunningIsExecuted'
      BY <1>9 DEF IInv, TypeOK, RunningIsExecuted, ExecInv, HoldInv, WaitInv, cancel_timers_for_chat, Locked
  <2>9. ParentWriteExclusive'
      BY <1>9 DEF IInv, TypeOK, ParentWriteExclusive, LockInv, ExecInv, InRowLock, InParentLock, SameParent, cancel_timers_for_chat, Locked
  <2> QED BY <2>1, <2>2, <2>3, <2>4, <2>5, <2>6, <2>7, <2>8, <2>9 DEF IInv
<1>10. ASSUME NEW c \in Claim, ExecCheck(c) PROVE IInv'
  <2>1. TypeOK'
      BY <1>10 DEF IInv, TypeOK, ExecInv, Status, Step, ExecCheck, GoTo
  <2>2. ExecInv'
      BY <1>10 DEF IInv, TypeOK, ExecInv, WaitInv, ExecCheck, GoTo
  <2>3. WaitInv'
      BY <1>10 DEF IInv, TypeOK, WaitInv, ExecInv, HoldInv, ExecCheck, GoTo
  <2>4. HoldInv'
      BY <1>10 DEF IInv, TypeOK, HoldInv, WaitInv, ExecInv, BeforeFire, ExecCheck, GoTo
  <2>5. RevokedInv'
      BY <1>10 DEF IInv, TypeOK, RevokedInv, WaitInv, ExecInv, ExecCheck, GoTo
  <2>6. LockInv'
      BY <1>10 DEF IInv, TypeOK, LockInv, ExecInv, InParentLock, SameParent, ExecCheck, GoTo
  <2>7. FiresOnce'
      BY <1>10 DEF IInv, TypeOK, FiresOnce, HoldInv, ExecInv, BeforeFire, ExecCheck, GoTo
  <2>8. RunningIsExecuted'
      BY <1>10 DEF IInv, TypeOK, RunningIsExecuted, ExecInv, HoldInv, WaitInv, ExecCheck, GoTo
  <2>9. ParentWriteExclusive'
      BY <1>10 DEF IInv, TypeOK, ParentWriteExclusive, LockInv, ExecInv, InRowLock, InParentLock, SameParent, ExecCheck, GoTo
  <2> QED BY <2>1, <2>2, <2>3, <2>4, <2>5, <2>6, <2>7, <2>8, <2>9 DEF IInv
<1>11. ASSUME NEW c \in Claim, ExecError(c) PROVE IInv'
  <2>1. TypeOK'
      BY <1>11 DEF IInv, TypeOK, ExecInv, Status, Step, ExecError, SetTimerState, Locked, GoTo
  <2>2. ExecInv'
      BY <1>11 DEF IInv, TypeOK, ExecInv, WaitInv, ExecError, SetTimerState, Locked, GoTo
  <2>3. WaitInv'
      BY <1>11 DEF IInv, TypeOK, WaitInv, ExecInv, HoldInv, ExecError, SetTimerState, Locked, GoTo
  <2>4. HoldInv'
      BY <1>11 DEF IInv, TypeOK, HoldInv, WaitInv, ExecInv, BeforeFire, ExecError, SetTimerState, Locked, GoTo
  <2>5. RevokedInv'
      BY <1>11 DEF IInv, TypeOK, RevokedInv, WaitInv, ExecInv, ExecError, SetTimerState, Locked, GoTo
  <2>6. LockInv'
      BY <1>11 DEF IInv, TypeOK, LockInv, ExecInv, InParentLock, SameParent, ExecError, SetTimerState, Locked, GoTo
  <2>7. FiresOnce'
      BY <1>11 DEF IInv, TypeOK, FiresOnce, HoldInv, ExecInv, BeforeFire, ExecError, SetTimerState, Locked, GoTo
  <2>8. RunningIsExecuted'
      BY <1>11 DEF IInv, TypeOK, RunningIsExecuted, ExecInv, HoldInv, WaitInv, ExecError, SetTimerState, Locked, GoTo
  <2>9. ParentWriteExclusive'
      BY <1>11 DEF IInv, TypeOK, ParentWriteExclusive, LockInv, ExecInv, InRowLock, InParentLock, SameParent, ExecError, SetTimerState, Locked, GoTo
  <2> QED BY <2>1, <2>2, <2>3, <2>4, <2>5, <2>6, <2>7, <2>8, <2>9 DEF IInv
<1>12. ASSUME NEW c \in Claim, ExecEnterLock(c) PROVE IInv'
  <2>1. TypeOK'
      BY <1>12 DEF IInv, TypeOK, ExecInv, Status, Step, ExecEnterLock, GoTo
  <2>2. ExecInv'
      BY <1>12 DEF IInv, TypeOK, ExecInv, WaitInv, ExecEnterLock, GoTo
  <2>3. WaitInv'
      BY <1>12 DEF IInv, TypeOK, WaitInv, ExecInv, HoldInv, ExecEnterLock, GoTo
  <2>4. HoldInv'
      BY <1>12 DEF IInv, TypeOK, HoldInv, WaitInv, ExecInv, BeforeFire, ExecEnterLock, GoTo
  <2>5. RevokedInv'
      BY <1>12 DEF IInv, TypeOK, RevokedInv, WaitInv, ExecInv, ExecEnterLock, GoTo
  <2>6. LockInv'
      BY <1>12 DEF IInv, TypeOK, LockInv, ExecInv, InParentLock, SameParent, ExecEnterLock, GoTo
  <2>7. FiresOnce'
      BY <1>12 DEF IInv, TypeOK, FiresOnce, HoldInv, ExecInv, BeforeFire, ExecEnterLock, GoTo
  <2>8. RunningIsExecuted'
      BY <1>12 DEF IInv, TypeOK, RunningIsExecuted, ExecInv, HoldInv, WaitInv, ExecEnterLock, GoTo
  <2>9. ParentWriteExclusive'
      BY <1>12 DEF IInv, TypeOK, ParentWriteExclusive, LockInv, ExecInv, InRowLock, InParentLock, SameParent, ExecEnterLock, GoTo
  <2> QED BY <2>1, <2>2, <2>3, <2>4, <2>5, <2>6, <2>7, <2>8, <2>9 DEF IInv
<1>13. ASSUME NEW c \in Claim, ExecGate(c) PROVE IInv'
  <2>1. TypeOK'
      BY <1>13 DEF IInv, TypeOK, ExecInv, Status, Step, ExecGate
  <2>2. ExecInv'
      BY <1>13 DEF IInv, TypeOK, ExecInv, WaitInv, ExecGate
  <2>3. WaitInv'
      BY <1>13 DEF IInv, TypeOK, WaitInv, ExecInv, HoldInv, ExecGate
  <2>4. HoldInv'
      BY <1>13 DEF IInv, TypeOK, HoldInv, WaitInv, ExecInv, BeforeFire, ExecGate
  <2>5. RevokedInv'
      BY <1>13 DEF IInv, TypeOK, RevokedInv, WaitInv, ExecInv, ExecGate
  <2>6. LockInv'
      BY <1>13 DEF IInv, TypeOK, LockInv, ExecInv, InParentLock, SameParent, ExecGate
  <2>7. FiresOnce'
      BY <1>13 DEF IInv, TypeOK, FiresOnce, HoldInv, ExecInv, BeforeFire, ExecGate
  <2>8. RunningIsExecuted'
      BY <1>13 DEF IInv, TypeOK, RunningIsExecuted, ExecInv, HoldInv, WaitInv, ExecGate
  <2>9. ParentWriteExclusive'
      BY <1>13 DEF IInv, TypeOK, ParentWriteExclusive, LockInv, ExecInv, InRowLock, InParentLock, SameParent, ExecGate
  <2> QED BY <2>1, <2>2, <2>3, <2>4, <2>5, <2>6, <2>7, <2>8, <2>9 DEF IInv
<1>14. ASSUME NEW c \in Claim, ExecRearm(c) PROVE IInv'
  <2>1. TypeOK'
      BY <1>14 DEF IInv, TypeOK, ExecInv, Status, Step, ExecRearm, Locked, GoTo
  <2>2. ExecInv'
      BY <1>14 DEF IInv, TypeOK, ExecInv, WaitInv, ExecRearm, Locked, GoTo
  <2>3. WaitInv'
      BY <1>14 DEF IInv, TypeOK, WaitInv, ExecInv, HoldInv, ExecRearm, Locked, GoTo, BeforeFire
  <2>4. HoldInv'
      BY <1>14 DEF IInv, TypeOK, HoldInv, WaitInv, ExecInv, BeforeFire, ExecRearm, Locked, GoTo
  <2>5. RevokedInv'
      BY <1>14 DEF IInv, TypeOK, RevokedInv, WaitInv, ExecInv, ExecRearm, Locked, GoTo
  <2>6. LockInv'
      BY <1>14 DEF IInv, TypeOK, LockInv, ExecInv, InParentLock, SameParent, ExecRearm, Locked, GoTo
  <2>7. FiresOnce'
      BY <1>14 DEF IInv, TypeOK, FiresOnce, HoldInv, ExecInv, BeforeFire, ExecRearm, Locked, GoTo
  <2>8. RunningIsExecuted'
      BY <1>14 DEF IInv, TypeOK, RunningIsExecuted, ExecInv, HoldInv, WaitInv, ExecRearm, Locked, GoTo
  <2>9. ParentWriteExclusive'
      BY <1>14 DEF IInv, TypeOK, ParentWriteExclusive, LockInv, ExecInv, InRowLock, InParentLock, SameParent, ExecRearm, Locked, GoTo
  <2> QED BY <2>1, <2>2, <2>3, <2>4, <2>5, <2>6, <2>7, <2>8, <2>9 DEF IInv
<1>15. ASSUME NEW c \in Claim, ExecFire(c) PROVE IInv'
  <2>1. TypeOK'
      BY <1>15 DEF IInv, TypeOK, ExecInv, Status, Step, ExecFire, Locked, GoTo
  <2>2. ExecInv'
      BY <1>15 DEF IInv, TypeOK, ExecInv, WaitInv, ExecFire, Locked, GoTo
  <2>3. WaitInv'
      BY <1>15 DEF IInv, TypeOK, WaitInv, ExecInv, HoldInv, ExecFire, Locked, GoTo
  <2>4. HoldInv'
      BY <1>15 DEF IInv, TypeOK, HoldInv, WaitInv, ExecInv, BeforeFire, ExecFire, Locked, GoTo
  <2>5. RevokedInv'
      BY <1>15 DEF IInv, TypeOK, RevokedInv, WaitInv, ExecInv, ExecFire, Locked, GoTo
  <2>6. LockInv'
      BY <1>15 DEF IInv, TypeOK, LockInv, ExecInv, InParentLock, SameParent, ExecFire, Locked, GoTo
  <2>7. FiresOnce'
      BY <1>15 DEF IInv, TypeOK, FiresOnce, HoldInv, ExecInv, BeforeFire, ExecFire, Locked, GoTo
  <2>8. RunningIsExecuted'
      BY <1>15 DEF IInv, TypeOK, RunningIsExecuted, ExecInv, HoldInv, WaitInv, ExecFire, Locked, GoTo
  <2>9. ParentWriteExclusive'
      BY <1>15 DEF IInv, TypeOK, ParentWriteExclusive, LockInv, ExecInv, InRowLock, InParentLock, SameParent, ExecFire, Locked, GoTo
  <2> QED BY <2>1, <2>2, <2>3, <2>4, <2>5, <2>6, <2>7, <2>8, <2>9 DEF IInv
<1>16. ASSUME NEW c \in Claim, ExecRowGone(c) PROVE IInv'
  <2>1. TypeOK'
      BY <1>16 DEF IInv, TypeOK, ExecInv, Status, Step, ExecRowGone, GoTo
  <2>2. ExecInv'
      BY <1>16 DEF IInv, TypeOK, ExecInv, WaitInv, ExecRowGone, GoTo
  <2>3. WaitInv'
      BY <1>16 DEF IInv, TypeOK, WaitInv, ExecInv, HoldInv, ExecRowGone, GoTo
  <2>4. HoldInv'
      BY <1>16 DEF IInv, TypeOK, HoldInv, WaitInv, ExecInv, BeforeFire, ExecRowGone, GoTo
  <2>5. RevokedInv'
      BY <1>16 DEF IInv, TypeOK, RevokedInv, WaitInv, ExecInv, ExecRowGone, GoTo
  <2>6. LockInv'
      BY <1>16 DEF IInv, TypeOK, LockInv, ExecInv, InParentLock, SameParent, ExecRowGone, GoTo
  <2>7. FiresOnce'
      BY <1>16 DEF IInv, TypeOK, FiresOnce, HoldInv, ExecInv, BeforeFire, ExecRowGone, GoTo
  <2>8. RunningIsExecuted'
      BY <1>16 DEF IInv, TypeOK, RunningIsExecuted, ExecInv, HoldInv, WaitInv, ExecRowGone, GoTo
  <2>9. ParentWriteExclusive'
      BY <1>16 DEF IInv, TypeOK, ParentWriteExclusive, LockInv, ExecInv, InRowLock, InParentLock, SameParent, ExecRowGone, GoTo
  <2> QED BY <2>1, <2>2, <2>3, <2>4, <2>5, <2>6, <2>7, <2>8, <2>9 DEF IInv
<1>17. ASSUME NEW c \in Claim, ExecPost(c) PROVE IInv'
  <2>1. TypeOK'
      BY <1>17 DEF IInv, TypeOK, ExecInv, Status, Step, ExecPost, GoTo
  <2>2. ExecInv'
      BY <1>17 DEF IInv, TypeOK, ExecInv, WaitInv, ExecPost, GoTo
  <2>3. WaitInv'
      BY <1>17 DEF IInv, TypeOK, WaitInv, ExecInv, HoldInv, ExecPost, GoTo
  <2>4. HoldInv'
      BY <1>17 DEF IInv, TypeOK, HoldInv, WaitInv, ExecInv, BeforeFire, ExecPost, GoTo
  <2>5. RevokedInv'
      BY <1>17 DEF IInv, TypeOK, RevokedInv, WaitInv, ExecInv, ExecPost, GoTo
  <2>6. LockInv'
      BY <1>17 DEF IInv, TypeOK, LockInv, ExecInv, InParentLock, SameParent, ExecPost, GoTo
  <2>7. FiresOnce'
      BY <1>17 DEF IInv, TypeOK, FiresOnce, HoldInv, ExecInv, BeforeFire, ExecPost, GoTo
  <2>8. RunningIsExecuted'
      BY <1>17 DEF IInv, TypeOK, RunningIsExecuted, ExecInv, HoldInv, WaitInv, ExecPost, GoTo
  <2>9. ParentWriteExclusive'
      BY <1>17 DEF IInv, TypeOK, ParentWriteExclusive, LockInv, ExecInv, InRowLock, InParentLock, SameParent, ExecPost, GoTo
  <2> QED BY <2>1, <2>2, <2>3, <2>4, <2>5, <2>6, <2>7, <2>8, <2>9 DEF IInv
<1>18. ASSUME NEW c \in Claim, ExecComplete(c) PROVE IInv'
  <2>1. TypeOK'
      BY <1>18 DEF IInv, TypeOK, ExecInv, Status, Step, ExecComplete, GoTo
  <2>2. ExecInv'
      BY <1>18 DEF IInv, TypeOK, ExecInv, WaitInv, ExecComplete, GoTo
  <2>3. WaitInv'
      BY <1>18 DEF IInv, TypeOK, WaitInv, ExecInv, HoldInv, ExecComplete, GoTo
  <2>4. HoldInv'
      BY <1>18 DEF IInv, TypeOK, HoldInv, WaitInv, ExecInv, BeforeFire, ExecComplete, GoTo
  <2>5. RevokedInv'
      BY <1>18 DEF IInv, TypeOK, RevokedInv, WaitInv, ExecInv, ExecComplete, GoTo
  <2>6. LockInv'
      BY <1>18 DEF IInv, TypeOK, LockInv, ExecInv, InParentLock, SameParent, ExecComplete, GoTo
  <2>7. FiresOnce'
      BY <1>18 DEF IInv, TypeOK, FiresOnce, HoldInv, ExecInv, BeforeFire, ExecComplete, GoTo
  <2>8. RunningIsExecuted'
      BY <1>18 DEF IInv, TypeOK, RunningIsExecuted, ExecInv, HoldInv, WaitInv, ExecComplete, GoTo
  <2>9. ParentWriteExclusive'
      BY <1>18 DEF IInv, TypeOK, ParentWriteExclusive, LockInv, ExecInv, InRowLock, InParentLock, SameParent, ExecComplete, GoTo
  <2> QED BY <2>1, <2>2, <2>3, <2>4, <2>5, <2>6, <2>7, <2>8, <2>9 DEF IInv
<1>19. ASSUME NEW c \in Claim, ExecHandlerRaises(c) PROVE IInv'
  <2>1. TypeOK'
      BY <1>19 DEF IInv, TypeOK, ExecInv, Status, Step, ExecHandlerRaises, SetTimerState, Locked, GoTo
  <2>2. ExecInv'
      BY <1>19 DEF IInv, TypeOK, ExecInv, WaitInv, ExecHandlerRaises, SetTimerState, Locked, GoTo
  <2>3. WaitInv'
      BY <1>19 DEF IInv, TypeOK, WaitInv, ExecInv, HoldInv, ExecHandlerRaises, SetTimerState, Locked, GoTo
  <2>4. HoldInv'
      BY <1>19 DEF IInv, TypeOK, HoldInv, WaitInv, ExecInv, BeforeFire, ExecHandlerRaises, SetTimerState, Locked, GoTo
  <2>5. RevokedInv'
      BY <1>19 DEF IInv, TypeOK, RevokedInv, WaitInv, ExecInv, ExecHandlerRaises, SetTimerState, Locked, GoTo
  <2>6. LockInv'
      BY <1>19 DEF IInv, TypeOK, LockInv, ExecInv, InParentLock, SameParent, ExecHandlerRaises, SetTimerState, Locked, GoTo
  <2>7. FiresOnce'
      BY <1>19 DEF IInv, TypeOK, FiresOnce, HoldInv, ExecInv, BeforeFire, ExecHandlerRaises, SetTimerState, Locked, GoTo
  <2>8. RunningIsExecuted'
      BY <1>19 DEF IInv, TypeOK, RunningIsExecuted, ExecInv, HoldInv, WaitInv, ExecHandlerRaises, SetTimerState, Locked, GoTo
  <2>9. ParentWriteExclusive'
      BY <1>19 DEF IInv, TypeOK, ParentWriteExclusive, LockInv, ExecInv, InRowLock, InParentLock, SameParent, ExecHandlerRaises, SetTimerState, Locked, GoTo
  <2> QED BY <2>1, <2>2, <2>3, <2>4, <2>5, <2>6, <2>7, <2>8, <2>9 DEF IInv
<1>20. ASSUME NEW c \in Claim, ExecRaises(c) PROVE IInv'
  <2>1. TypeOK'
      BY <1>20 DEF IInv, TypeOK, ExecInv, Status, Step, ExecRaises, GoTo, Fault
  <2>2. ExecInv'
      BY <1>20 DEF IInv, TypeOK, ExecInv, WaitInv, ExecRaises, GoTo, Fault
  <2>3. WaitInv'
      BY <1>20 DEF IInv, TypeOK, WaitInv, ExecInv, HoldInv, ExecRaises, GoTo, Fault
  <2>4. HoldInv'
      BY <1>20 DEF IInv, TypeOK, HoldInv, WaitInv, ExecInv, BeforeFire, ExecRaises, GoTo, Fault
  <2>5. RevokedInv'
      BY <1>20 DEF IInv, TypeOK, RevokedInv, WaitInv, ExecInv, ExecRaises, GoTo, Fault
  <2>6. LockInv'
      BY <1>20 DEF IInv, TypeOK, LockInv, ExecInv, InParentLock, SameParent, ExecRaises, GoTo, Fault
  <2>7. FiresOnce'
      BY <1>20 DEF IInv, TypeOK, FiresOnce, HoldInv, ExecInv, BeforeFire, ExecRaises, GoTo, Fault
  <2>8. RunningIsExecuted'
      BY <1>20 DEF IInv, TypeOK, RunningIsExecuted, ExecInv, HoldInv, WaitInv, ExecRaises, GoTo, Fault
  <2>9. ParentWriteExclusive'
      BY <1>20 DEF IInv, TypeOK, ParentWriteExclusive, LockInv, ExecInv, InRowLock, InParentLock, SameParent, ExecRaises, GoTo, Fault
  <2> QED BY <2>1, <2>2, <2>3, <2>4, <2>5, <2>6, <2>7, <2>8, <2>9 DEF IInv
<1>21. ASSUME NEW p \in Chat, ResponseStarts(p) PROVE IInv'
  <2>1. TypeOK'
      BY <1>21 DEF IInv, TypeOK, ExecInv, Status, Step, ResponseStarts
  <2>2. ExecInv'
      BY <1>21 DEF IInv, TypeOK, ExecInv, WaitInv, ResponseStarts
  <2>3. WaitInv'
      BY <1>21 DEF IInv, TypeOK, WaitInv, ExecInv, HoldInv, ResponseStarts
  <2>4. HoldInv'
      BY <1>21 DEF IInv, TypeOK, HoldInv, WaitInv, ExecInv, BeforeFire, ResponseStarts
  <2>5. RevokedInv'
      BY <1>21 DEF IInv, TypeOK, RevokedInv, WaitInv, ExecInv, ResponseStarts
  <2>6. LockInv'
      BY <1>21 DEF IInv, TypeOK, LockInv, ExecInv, InParentLock, SameParent, ResponseStarts
  <2>7. FiresOnce'
      BY <1>21 DEF IInv, TypeOK, FiresOnce, HoldInv, ExecInv, BeforeFire, ResponseStarts
  <2>8. RunningIsExecuted'
      BY <1>21 DEF IInv, TypeOK, RunningIsExecuted, ExecInv, HoldInv, WaitInv, ResponseStarts
  <2>9. ParentWriteExclusive'
      BY <1>21 DEF IInv, TypeOK, ParentWriteExclusive, LockInv, ExecInv, InRowLock, InParentLock, SameParent, ResponseStarts
  <2> QED BY <2>1, <2>2, <2>3, <2>4, <2>5, <2>6, <2>7, <2>8, <2>9 DEF IInv
<1>22. ASSUME NEW p \in Chat, ResponseEnds(p) PROVE IInv'
  <2>1. TypeOK'
      BY <1>22 DEF IInv, TypeOK, ExecInv, Status, Step, ResponseEnds
  <2>2. ExecInv'
      BY <1>22 DEF IInv, TypeOK, ExecInv, WaitInv, ResponseEnds
  <2>3. WaitInv'
      BY <1>22 DEF IInv, TypeOK, WaitInv, ExecInv, HoldInv, ResponseEnds
  <2>4. HoldInv'
      BY <1>22 DEF IInv, TypeOK, HoldInv, WaitInv, ExecInv, BeforeFire, ResponseEnds
  <2>5. RevokedInv'
      BY <1>22 DEF IInv, TypeOK, RevokedInv, WaitInv, ExecInv, ResponseEnds
  <2>6. LockInv'
      BY <1>22 DEF IInv, TypeOK, LockInv, ExecInv, InParentLock, SameParent, ResponseEnds
  <2>7. FiresOnce'
      BY <1>22 DEF IInv, TypeOK, FiresOnce, HoldInv, ExecInv, BeforeFire, ResponseEnds
  <2>8. RunningIsExecuted'
      BY <1>22 DEF IInv, TypeOK, RunningIsExecuted, ExecInv, HoldInv, WaitInv, ResponseEnds
  <2>9. ParentWriteExclusive'
      BY <1>22 DEF IInv, TypeOK, ParentWriteExclusive, LockInv, ExecInv, InRowLock, InParentLock, SameParent, ResponseEnds
  <2> QED BY <2>1, <2>2, <2>3, <2>4, <2>5, <2>6, <2>7, <2>8, <2>9 DEF IInv
<1>23. CASE UNCHANGED vars
    BY <1>23 DEF IInv, vars, TypeOK, ExecInv, WaitInv, HoldInv, RevokedInv, LockInv, FiresOnce, RunningIsExecuted, ParentWriteExclusive, Status, Step, BeforeFire, InParentLock, InRowLock, SameParent
<1> QED BY <1>1, <1>2, <1>3, <1>4, <1>5, <1>6, <1>7, <1>8, <1>9, <1>10, <1>11, <1>12, <1>13, <1>14, <1>15, <1>16, <1>17, <1>18, <1>19, <1>20, <1>21, <1>22, <1>23 DEF Next, ExecStep

(* The inductive invariant holds in every reachable state. *)
THEOREM Invariance == Spec => []IInv
<1>1. Init => IInv
    BY InitIInv
<1>2. IInv /\ [Next]_vars => IInv'
    BY NextIInv
<1> QED BY <1>1, <1>2, PTL DEF Spec

(* The state of the timers is well typed. *)
THEOREM TypeCorrect == Spec => []TypeOK
<1>1. IInv => TypeOK
    BY DEF IInv
<1> QED BY <1>1, Invariance, PTL

(* execute_due_timer posts the prompt of a timer at most once. *)
THEOREM OneShot == Spec => []FiresOnce
<1>1. IInv => FiresOnce
    BY DEF IInv
<1> QED BY <1>1, Invariance, PTL

(* With row locks, cancel_timers_for_chat is final for a pending timer. *)
THEOREM CancelIsFinal == Spec => []RevokedNeverFires
<1>1. IInv => RevokedNeverFires
    BY DEF IInv, RevokedInv, RevokedNeverFires
<1> QED BY <1>1, Invariance, PTL

(* Without a crash or an exception, a claimed timer is being executed. *)
THEOREM NoStrandedTimer == Spec => []RunningIsExecuted
<1>1. IInv => RunningIsExecuted
    BY DEF IInv
<1> QED BY <1>1, Invariance, PTL

(* Executions write to a parent chat one at a time. *)
THEOREM ParentWritesExclude == Spec => []ParentWriteExclusive
<1>1. IInv => ParentWriteExclusive
    BY DEF IInv
<1> QED BY <1>1, Invariance, PTL

(* Timers fire soundly, for every instance of the system. *)
THEOREM FiringIsSound == Spec => []FiringSound
BY TypeCorrect, OneShot, CancelIsFinal, PTL DEF FiringSound
=============================================================================
