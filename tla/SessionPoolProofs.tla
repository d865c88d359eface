-------------------------- MODULE SessionPoolProofs --------------------------
(***************************************************************************)
(* TLAPS proofs about SessionPool and the RedisLock it uses, for any       *)
(* number of processes, sessions and faults, wherever sessions connect.    *)
(***************************************************************************)
EXTENDS SessionPool, TLAPS

(* A process inside the locked part of the loop that has not outlived its   *)
(* lock is the one whose id the key holds.                                  *)
HolderInv == \A i \in Instance : loop[i] \in Holding /\ i \notin lost => lock = i

(* Expired entries are known only between an HSCAN and its HDEL, and those  *)
(* of the process's own sessions are not refreshed meanwhile.               *)
FoundInv == \A i \in Instance : loop[i] # "reap" => found[i] = {}

IInv == TypeOK /\ HolderInv /\ FoundInv /\ OwnReapStale

-----------------------------------------------------------------------------
(* Initial states satisfy the inductive invariant. *)
LEMMA InitIInv == Init => IInv
<1> SUFFICES ASSUME Init PROVE IInv
    OBVIOUS
<1> USE BoundAssumption DEF Init
<1>1. TypeOK
    BY DEF TypeOK, LoopStep, Suspended, Running, Lock!LockType
<1>2. HolderInv /\ FoundInv /\ OwnReapStale
    BY DEF HolderInv, Holding, FoundInv, OwnReapStale
<1> QED BY <1>1, <1>2 DEF IInv

(* Every step preserves the inductive invariant. *)
LEMMA NextIInv == IInv /\ [Next]_vars => IInv'
<1> SUFFICES ASSUME IInv, [Next]_vars PROVE IInv'
    OBVIOUS
<1> USE BoundAssumption, HomeAssumption, LockIdAssumption, IdAssumption
<1> USE DEF vars, loopVars, sessionVars, Lock!aquire_lock, Lock!renew_lock, Lock!release_lock, Lock!Expire, Lock!Forget, Lock!LockType
<1>1. ASSUME NEW s \in Session, connect(s) PROVE IInv'
  <2>1. TypeOK'
      BY <1>1 DEF IInv, TypeOK, LoopStep, Suspended, Running, connect
  <2>2. HolderInv'
      BY <1>1 DEF IInv, TypeOK, HolderInv, Holding, connect
  <2>3. FoundInv'
      BY <1>1 DEF IInv, TypeOK, FoundInv, connect
  <2>4. OwnReapStale'
      BY <1>1 DEF IInv, TypeOK, OwnReapStale, FoundInv, Idle, Running, connect
  <2> QED BY <2>1, <2>2, <2>3, <2>4 DEF IInv
<1>2. ASSUME NEW s \in Session, user_join(s) PROVE IInv'
  <2>1. TypeOK'
      BY <1>2 DEF IInv, TypeOK, LoopStep, Suspended, Running, user_join
  <2>2. HolderInv'
      BY <1>2 DEF IInv, TypeOK, HolderInv, Holding, user_join
  <2>3. FoundInv'
      BY <1>2 DEF IInv, TypeOK, FoundInv, user_join
  <2>4. OwnReapStale'
      BY <1>2 DEF IInv, TypeOK, OwnReapStale, FoundInv, Idle, Running, user_join
  <2> QED BY <2>1, <2>2, <2>3, <2>4 DEF IInv
<1>3. ASSUME NEW s \in Session, Verified(s) PROVE IInv'
  <2>1. TypeOK'
      BY <1>3 DEF IInv, TypeOK, LoopStep, Suspended, Running, Verified, SetEntry
  <2>2. HolderInv'
      BY <1>3 DEF IInv, TypeOK, HolderInv, Holding, Verified, SetEntry
  <2>3. FoundInv'
      BY <1>3 DEF IInv, TypeOK, FoundInv, Verified, SetEntry
  <2>4. OwnReapStale'
      BY <1>3 DEF IInv, TypeOK, OwnReapStale, FoundInv, Idle, Running, Verified, SetEntry
  <2> QED BY <2>1, <2>2, <2>3, <2>4 DEF IInv
<1>4. ASSUME NEW s \in Session, NotVerified(s) PROVE IInv'
  <2>1. TypeOK'
      BY <1>4 DEF IInv, TypeOK, LoopStep, Suspended, Running, NotVerified
  <2>2. HolderInv'
      BY <1>4 DEF IInv, TypeOK, HolderInv, Holding, NotVerified
  <2>3. FoundInv'
      BY <1>4 DEF IInv, TypeOK, FoundInv, NotVerified
  <2>4. OwnReapStale'
      BY <1>4 DEF IInv, TypeOK, OwnReapStale, FoundInv, Idle, Running, NotVerified
  <2> QED BY <2>1, <2>2, <2>3, <2>4 DEF IInv
<1>5. ASSUME NEW s \in Session, heartbeat(s) PROVE IInv'
  <2>1. TypeOK'
      BY <1>5 DEF IInv, TypeOK, LoopStep, Suspended, Running, heartbeat, SetEntry
  <2>2. HolderInv'
      BY <1>5 DEF IInv, TypeOK, HolderInv, Holding, heartbeat, SetEntry
  <2>3. FoundInv'
      BY <1>5 DEF IInv, TypeOK, FoundInv, heartbeat, SetEntry
  <2>4. OwnReapStale'
      BY <1>5 DEF IInv, TypeOK, OwnReapStale, FoundInv, Idle, Running, heartbeat, SetEntry
  <2> QED BY <2>1, <2>2, <2>3, <2>4 DEF IInv
<1>6. ASSUME NEW s \in Session, Age(s) PROVE IInv'
  <2>1. TypeOK'
      BY <1>6 DEF IInv, TypeOK, LoopStep, Suspended, Running, Age, SetEntry
  <2>2. HolderInv'
      BY <1>6 DEF IInv, TypeOK, HolderInv, Holding, Age, SetEntry
  <2>3. FoundInv'
      BY <1>6 DEF IInv, TypeOK, FoundInv, Age, SetEntry
  <2>4. OwnReapStale'
      BY <1>6 DEF IInv, TypeOK, OwnReapStale, FoundInv, Idle, Running, Age, SetEntry
  <2> QED BY <2>1, <2>2, <2>3, <2>4 DEF IInv
<1>7. ASSUME NEW s \in Session, Disconnect(s) PROVE IInv'
  <2>1. TypeOK'
      BY <1>7 DEF IInv, TypeOK, LoopStep, Suspended, Running, Disconnect
  <2>2. HolderInv'
      BY <1>7 DEF IInv, TypeOK, HolderInv, Holding, Disconnect
  <2>3. FoundInv'
      BY <1>7 DEF IInv, TypeOK, FoundInv, Disconnect
  <2>4. OwnReapStale'
      BY <1>7 DEF IInv, TypeOK, OwnReapStale, FoundInv, Idle, Running, Disconnect
  <2> QED BY <2>1, <2>2, <2>3, <2>4 DEF IInv
<1>8. ASSUME NEW s \in Session, Disconnected(s) PROVE IInv'
  <2>1. TypeOK'
      BY <1>8 DEF IInv, TypeOK, LoopStep, Suspended, Running, Disconnected
  <2>2. HolderInv'
      BY <1>8 DEF IInv, TypeOK, HolderInv, Holding, Disconnected
  <2>3. FoundInv'
      BY <1>8 DEF IInv, TypeOK, FoundInv, Disconnected
  <2>4. OwnReapStale'
      BY <1>8 DEF IInv, TypeOK, OwnReapStale, FoundInv, Idle, Running, Disconnected
  <2> QED BY <2>1, <2>2, <2>3, <2>4 DEF IInv
<1>9. ASSUME NEW i \in Instance, disconnect(i) PROVE IInv'
  <2>1. TypeOK'
      BY <1>9 DEF IInv, TypeOK, LoopStep, Suspended, Running, disconnect, SetEntry
  <2>2. HolderInv'
      BY <1>9 DEF IInv, TypeOK, HolderInv, Holding, disconnect, SetEntry
  <2>3. FoundInv'
      BY <1>9 DEF IInv, TypeOK, FoundInv, disconnect, SetEntry
  <2>4. OwnReapStale'
      BY <1>9 DEF IInv, TypeOK, OwnReapStale, FoundInv, Idle, Running, disconnect, SetEntry
  <2> QED BY <2>1, <2>2, <2>3, <2>4 DEF IInv
<1>10. ASSUME NEW i \in Instance, Acquire(i) PROVE IInv'
  <2>1. TypeOK'
      BY <1>10 DEF IInv, TypeOK, LoopStep, Suspended, Running, Acquire, GoTo
  <2>2. HolderInv'
      BY <1>10 DEF IInv, TypeOK, HolderInv, Holding, Acquire, GoTo
  <2>3. FoundInv'
      BY <1>10 DEF IInv, TypeOK, FoundInv, Acquire, GoTo
  <2>4. OwnReapStale'
      BY <1>10 DEF IInv, TypeOK, OwnReapStale, FoundInv, Idle, Running, Acquire, GoTo
  <2> QED BY <2>1, <2>2, <2>3, <2>4 DEF IInv
<1>11. ASSUME NEW i \in Instance, Renew(i) PROVE IInv'
  <2>1. TypeOK'
      BY <1>11 DEF IInv, TypeOK, LoopStep, Suspended, Running, Renew, GoTo
  <2>2. HolderInv'
      BY <1>11 DEF IInv, TypeOK, HolderInv, Holding, Renew, GoTo
  <2>3. FoundInv'
      BY <1>11 DEF IInv, TypeOK, FoundInv, Renew, GoTo
  <2>4. OwnReapStale'
      BY <1>11 DEF IInv, TypeOK, OwnReapStale, FoundInv, Idle, Running, Renew, GoTo
  <2> QED BY <2>1, <2>2, <2>3, <2>4 DEF IInv
<1>12. ASSUME NEW i \in Instance, Scan(i) PROVE IInv'
  <2>1. TypeOK'
      BY <1>12 DEF IInv, TypeOK, LoopStep, Suspended, Running, Scan, GoTo
  <2>2. HolderInv'
      BY <1>12 DEF IInv, TypeOK, HolderInv, Holding, Scan, GoTo
  <2>3. FoundInv'
      BY <1>12 DEF IInv, TypeOK, FoundInv, Scan, GoTo
  <2>4. OwnReapStale'
      BY <1>12 DEF IInv, TypeOK, OwnReapStale, FoundInv, Idle, Running, Scan, GoTo
  <2> QED BY <2>1, <2>2, <2>3, <2>4 DEF IInv
<1>13. ASSUME NEW i \in Instance, Reap(i) PROVE IInv'
  <2>1. TypeOK'
      BY <1>13 DEF IInv, TypeOK, LoopStep, Suspended, Running, Reap, GoTo
  <2>2. HolderInv'
      BY <1>13 DEF IInv, TypeOK, HolderInv, Holding, Reap, GoTo
  <2>3. FoundInv'
      BY <1>13 DEF IInv, TypeOK, FoundInv, Reap, GoTo
  <2>4. OwnReapStale'
      BY <1>13 DEF IInv, TypeOK, OwnReapStale, FoundInv, Idle, Running, Reap, GoTo
  <2> QED BY <2>1, <2>2, <2>3, <2>4 DEF IInv
<1>14. ASSUME NEW i \in Instance, ScanEnds(i) PROVE IInv'
  <2>1. TypeOK'
      BY <1>14 DEF IInv, TypeOK, LoopStep, Suspended, Running, ScanEnds, GoTo
  <2>2. HolderInv'
      BY <1>14 DEF IInv, TypeOK, HolderInv, Holding, ScanEnds, GoTo
  <2>3. FoundInv'
      BY <1>14 DEF IInv, TypeOK, FoundInv, ScanEnds, GoTo
  <2>4. OwnReapStale'
      BY <1>14 DEF IInv, TypeOK, OwnReapStale, FoundInv, Idle, Running, ScanEnds, GoTo
  <2> QED BY <2>1, <2>2, <2>3, <2>4 DEF IInv
<1>15. ASSUME NEW i \in Instance, SleepRenew(i) PROVE IInv'
  <2>1. TypeOK'
      BY <1>15 DEF IInv, TypeOK, LoopStep, Suspended, Running, SleepRenew, GoTo
  <2>2. HolderInv'
      BY <1>15 DEF IInv, TypeOK, HolderInv, Holding, SleepRenew, GoTo
  <2>3. FoundInv'
      BY <1>15 DEF IInv, TypeOK, FoundInv, SleepRenew, GoTo
  <2>4. OwnReapStale'
      BY <1>15 DEF IInv, TypeOK, OwnReapStale, FoundInv, Idle, Running, SleepRenew, GoTo
  <2> QED BY <2>1, <2>2, <2>3, <2>4 DEF IInv
<1>16. ASSUME NEW i \in Instance, Release(i) PROVE IInv'
  <2>1. TypeOK'
      BY <1>16 DEF IInv, TypeOK, LoopStep, Suspended, Running, Release, GoTo
  <2>2. HolderInv'
      BY <1>16 DEF IInv, TypeOK, HolderInv, Holding, Release, GoTo
  <2>3. FoundInv'
      BY <1>16 DEF IInv, TypeOK, FoundInv, Release, GoTo
  <2>4. OwnReapStale'
      BY <1>16 DEF IInv, TypeOK, OwnReapStale, FoundInv, Idle, Running, Release, GoTo
  <2> QED BY <2>1, <2>2, <2>3, <2>4 DEF IInv
<1>17. ASSUME NEW i \in Instance, LoopRaises(i) PROVE IInv'
  <2>1. TypeOK'
      BY <1>17 DEF IInv, TypeOK, LoopStep, Suspended, Running, LoopRaises, GoTo
  <2>2. HolderInv'
      BY <1>17 DEF IInv, TypeOK, HolderInv, Holding, LoopRaises, GoTo, Running
  <2>3. FoundInv'
      BY <1>17 DEF IInv, TypeOK, FoundInv, LoopRaises, GoTo
  <2>4. OwnReapStale'
      BY <1>17 DEF IInv, TypeOK, OwnReapStale, FoundInv, Idle, Running, LoopRaises, GoTo
  <2> QED BY <2>1, <2>2, <2>3, <2>4 DEF IInv
<1>18. ASSUME NEW i \in Instance, LockOutlived(i) PROVE IInv'
  <2>1. TypeOK'
      BY <1>18 DEF IInv, TypeOK, LoopStep, Suspended, Running, LockOutlived
  <2>2. HolderInv'
      BY <1>18 DEF IInv, TypeOK, HolderInv, Holding, LockOutlived
  <2>3. FoundInv'
      BY <1>18 DEF IInv, TypeOK, FoundInv, LockOutlived
  <2>4. OwnReapStale'
      BY <1>18 DEF IInv, TypeOK, OwnReapStale, FoundInv, Idle, Running, LockOutlived
  <2> QED BY <2>1, <2>2, <2>3, <2>4 DEF IInv
<1>19. ASSUME NEW i \in Instance, Crash(i) PROVE IInv'
  <2>1. TypeOK'
      BY <1>19 DEF IInv, TypeOK, LoopStep, Suspended, Running, Crash, GoTo
  <2>2. HolderInv'
      BY <1>19 DEF IInv, TypeOK, HolderInv, Holding, Crash, GoTo
  <2>3. FoundInv'
      BY <1>19 DEF IInv, TypeOK, FoundInv, Crash, GoTo
  <2>4. OwnReapStale'
      BY <1>19 DEF IInv, TypeOK, OwnReapStale, FoundInv, Idle, Running, Crash, GoTo
  <2> QED BY <2>1, <2>2, <2>3, <2>4 DEF IInv
<1>20. ASSUME LockExpires PROVE IInv'
  <2>1. TypeOK'
      BY <1>20 DEF IInv, TypeOK, LoopStep, Suspended, Running, LockExpires, Abandoned
  <2>2. HolderInv'
      BY <1>20 DEF IInv, TypeOK, HolderInv, Holding, LockExpires, Abandoned
  <2>3. FoundInv'
      BY <1>20 DEF IInv, TypeOK, FoundInv, LockExpires, Abandoned
  <2>4. OwnReapStale'
      BY <1>20 DEF IInv, TypeOK, OwnReapStale, FoundInv, Idle, Running, LockExpires, Abandoned
  <2> QED BY <2>1, <2>2, <2>3, <2>4 DEF IInv
<1>21. CASE UNCHANGED vars
    BY <1>21 DEF IInv, vars, TypeOK, HolderInv, FoundInv, OwnReapStale, LoopStep, Suspended, Running, Holding
<1> QED BY <1>1, <1>2, <1>3, <1>4, <1>5, <1>6, <1>7, <1>8, <1>9, <1>10, <1>11, <1>12, <1>13, <1>14, <1>15, <1>16, <1>17, <1>18, <1>19, <1>20, <1>21 DEF Next, periodic_session_pool_cleanup

(* The inductive invariant holds in every reachable state. *)
THEOREM Invariance == Spec => []IInv
<1>1. Init => IInv
    BY InitIInv
<1>2. IInv /\ [Next]_vars => IInv'
    BY NextIInv
<1> QED BY <1>1, <1>2, PTL DEF Spec

(* The state of the session pool and of its cleanup is well typed. *)
THEOREM TypeCorrect == Spec => []TypeOK
<1>1. IInv => TypeOK
    BY DEF IInv
<1> QED BY <1>1, Invariance, PTL

(* RedisLock admits one sweep at a time, except for one that outlived its
   lock, for any number of processes that compete for it. *)
THEOREM OneSweeper == Spec => []SweepExclusive
<1>1. IInv => SweepExclusive
    BY LockIdAssumption DEF IInv, HolderInv, SweepExclusive
<1> QED BY <1>1, Invariance, PTL

(* A process never reaps an up-to-date entry of a session of its own. *)
THEOREM OwnSessionsKept == Spec => []OwnReapStale
<1>1. IInv => OwnReapStale
    BY DEF IInv
<1> QED BY <1>1, Invariance, PTL

(* Sweeps are sound, for every instance of the system. *)
THEOREM SweepIsSound == Spec => []SweepSound
BY TypeCorrect, OneSweeper, OwnSessionsKept, PTL DEF SweepSound
=============================================================================
