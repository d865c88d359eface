------------------------- MODULE TaskRegistryProofs -------------------------
(***************************************************************************)
(* TLAPS proofs about TaskRegistry, for any number of tasks, items,        *)
(* instances, stop requests and faults.                                    *)
(***************************************************************************)
EXTENDS TaskRegistry, TLAPS

(* A cleanup acts on its own task, and only once that task is past its      *)
(* work (its own cleanup, the callback) or was told to stop (stop_task).    *)
CleanerInv ==
    /\ \A t \in Task :
        /\ clean[Self(t)].pc \notin {"look", "publish"}
        /\ clean[Done(t)].pc \notin {"look", "publish"}
        /\ clean[Self(t)].pc # "off" => job[t] \in {"leaving", "done"}
        /\ clean[Done(t)].pc # "off" => job[t] = "done"
        /\ clean[Self(t)].pc \in {"remove", "card", "delete", "pop"} => clean[Self(t)].task = t
        /\ clean[Done(t)].pc \in {"remove", "card", "delete", "pop"} => clean[Done(t)].task = t
        /\ clean[Done(t)].pc = "remove" => clean[Done(t)].item = ItemOf[t]
    /\ \A s \in Stopper :
        /\ clean[Stop(s)].pc \in {"look", "publish"} => clean[Stop(s)].task \in Task
        /\ clean[Stop(s)].pc \in {"remove", "card", "delete", "pop"} => clean[Stop(s)].task \in told
    /\ \A c \in Cleaner : clean[c].pc \in {"card", "delete"} => clean[c].item \in Item

(* Nothing refers to a task before create_task made it. *)
CreatedInv ==
    \A t \in Task : job[t] = "none" =>
        /\ save[t] = "no"
        /\ t \notin told
        /\ \A x \in Item : t \notin rItem[x]
        /\ \A s \in Stopper : t \notin todo[s] /\ clean[Stop(s)].task # t

(* A running task is in the dictionary of the one instance that owns it. *)
OwnerInv ==
    /\ \A t \in Task : job[t] # "none" => \E i \in Instance : owner[t] = {i}
    /\ \A t \in Task : job[t] = "running" => \A i \in owner[t] : t \in tasks[i]

(* A task is only ever a member of its own item's set. *)
ItemInv == \A x \in Item : \A t \in rItem[x] : ItemOf[t] = x

(* From the removal by the done callback on, the task is gone from Redis,   *)
(* and no save of it is left that could bring it back.                      *)
ResidueInv ==
    \A t \in Task :
        /\ clean[Done(t)].pc \in {"card", "delete", "pop", "end"} /\ t \notin early =>
            /\ save[t] # "inflight"
            /\ t \notin rTasks
            /\ t \notin rStream
            /\ \A x \in Item : t \notin rItem[x]
        /\ clean[Done(t)].pc = "end" => \A i \in Instance : t \notin tasks[i]

IInv ==
    /\ TypeOK /\ CleanerInv /\ CreatedInv /\ OwnerInv /\ ItemInv /\ ResidueInv
    /\ ActiveTaskListed /\ StopReachesOwner
-----------------------------------------------------------------------------
(* The cleaners are distinct: the callers of redis_cleanup_task do not      *)
(* share a program counter.                                                 *)
LEMMA CleanerFacts ==
    /\ \A t \in Task : Self(t) \in Cleaner /\ Done(t) \in Cleaner
    /\ \A s \in Stopper : Stop(s) \in Cleaner
    /\ \A t \in Task, u \in Task : /\ Self(t) # Done(u)
                                  /\ t # u => Self(t) # Self(u) /\ Done(t) # Done(u)
    /\ \A t \in Task, s \in Stopper : Self(t) # Stop(s) /\ Done(t) # Stop(s)
    /\ \A r \in Stopper, s \in Stopper : r # s => Stop(r) # Stop(s)
    /\ \A c \in Cleaner : \/ c[1] # "stop" /\ \E t \in Task : c = Self(t) /\ c[2] = t
                          \/ c[1] # "stop" /\ \E t \in Task : c = Done(t) /\ c[2] = t
                          \/ c[1] = "stop" /\ \E s \in Stopper : c = Stop(s)
BY DEF Cleaner, Self, Done, Stop

(* Initial states satisfy the inductive invariant. *)
LEMMA InitIInv == Init => IInv
<1> SUFFICES ASSUME Init PROVE IInv
    OBVIOUS
<1>1. TypeOK
    BY MaxFaultsAssumption DEF Init, TypeOK, Job, Saving, CleanState, PC, Idle
<1>2. CleanerInv
    BY CleanerFacts DEF Init, CleanerInv, Idle
<1>3. CreatedInv /\ OwnerInv /\ ItemInv
    BY CleanerFacts, NoTaskAssumption DEF Init, CreatedInv, OwnerInv, ItemInv, Idle
<1>4. ResidueInv
    BY CleanerFacts DEF Init, ResidueInv, Idle
<1>5. ActiveTaskListed /\ StopReachesOwner
    BY DEF Init, ActiveTaskListed, StopReachesOwner
<1> QED BY <1>1, <1>2, <1>3, <1>4, <1>5 DEF IInv

(* Changing the program counter of a cleanup keeps the rest of it. *)
LEMMA PcUpdate ==
    ASSUME NEW r \in CleanState, NEW p \in PC
    PROVE  /\ [r EXCEPT !.pc = p] \in CleanState
           /\ [r EXCEPT !.pc = p].pc = p
BY DEF CleanState

(* GoTo moves one program counter and nothing else. *)
LEMMA GoToFacts ==
    ASSUME clean \in [Cleaner -> CleanState], NEW c \in Cleaner, NEW p \in PC, GoTo(c, p)
    PROVE  clean' \in [Cleaner -> CleanState]
BY PcUpdate DEF GoTo

(* Every step preserves the inductive invariant. *)
LEMMA NextIInv == IInv /\ [Next]_vars => IInv'
<1> SUFFICES ASSUME IInv, [Next]_vars PROVE IInv'
    OBVIOUS
<1> USE CleanerFacts, NoTaskAssumption, NoItemAssumption, ItemOfAssumption, MaxFaultsAssumption
<1> USE DEF vars, taskVars, redisVars, busVars, cleanVars, historyVars
<1>1. ASSUME NEW t \in Task, NEW i \in Instance, create_task(t, i) PROVE IInv'
  <2>1. TypeOK'
      BY <1>1 DEF IInv, TypeOK, CleanerInv, Job, Saving, CleanState, PC, create_task
  <2>2. CleanerInv'
      BY <1>1 DEF IInv, TypeOK, CleanerInv, CreatedInv, CleanState, create_task
  <2>3. CreatedInv'
      BY <1>1 DEF IInv, TypeOK, CreatedInv, CleanerInv, CleanState, create_task
  <2>4. OwnerInv'
    <3>1. ASSUME NEW u \in Task, job'[u] # "none" PROVE \E j \in Instance : owner'[u] = {j}
        BY <1>1, <3>1 DEF IInv, TypeOK, OwnerInv, create_task
    <3>2. ASSUME NEW u \in Task, job'[u] = "running", NEW j \in owner'[u] PROVE u \in tasks'[j]
        BY <1>1, <3>2 DEF IInv, TypeOK, OwnerInv, create_task
    <3> QED BY <3>1, <3>2 DEF OwnerInv
  <2>5. ItemInv'
      BY <1>1 DEF IInv, TypeOK, ItemInv, create_task
  <2>6. ResidueInv'
      BY <1>1 DEF IInv, TypeOK, ResidueInv, CleanerInv, ItemInv, CreatedInv, CleanState, create_task
  <2>7. ActiveTaskListed'
      BY <1>1 DEF IInv, TypeOK, ActiveTaskListed, CleanerInv, CreatedInv, list_tasks, create_task
  <2>8. StopReachesOwner'
      BY <1>1 DEF IInv, TypeOK, StopReachesOwner, OwnerInv, CreatedInv, CleanerInv, create_task
  <2> QED BY <2>1, <2>2, <2>3, <2>4, <2>5, <2>6, <2>7, <2>8 DEF IInv
<1>2. ASSUME NEW t \in Task, NEW i \in Instance, Receive(i, t) PROVE IInv'
  <2>1. TypeOK'
      BY <1>2 DEF IInv, TypeOK, CleanerInv, Job, Saving, CleanState, PC, Receive
  <2>2. CleanerInv'
      BY <1>2 DEF IInv, TypeOK, CleanerInv, CreatedInv, CleanState, Receive
  <2>3. CreatedInv'
      BY <1>2 DEF IInv, TypeOK, CreatedInv, CleanerInv, CleanState, Receive
  <2>4. OwnerInv'
      BY <1>2 DEF IInv, TypeOK, OwnerInv, CleanerInv, CreatedInv, Receive
  <2>5. ItemInv'
      BY <1>2 DEF IInv, TypeOK, ItemInv, Receive
  <2>6. ResidueInv'
      BY <1>2 DEF IInv, TypeOK, ResidueInv, CleanerInv, ItemInv, CreatedInv, CleanState, Receive
  <2>7. ActiveTaskListed'
      BY <1>2 DEF IInv, TypeOK, ActiveTaskListed, CleanerInv, CreatedInv, list_tasks, Receive
  <2>8. StopReachesOwner'
      BY <1>2 DEF IInv, TypeOK, StopReachesOwner, OwnerInv, CreatedInv, CleanerInv, Receive
  <2> QED BY <2>1, <2>2, <2>3, <2>4, <2>5, <2>6, <2>7, <2>8 DEF IInv
<1>3. ASSUME NEW t \in Task, redis_save_task(t) PROVE IInv'
  <2>1. TypeOK'
      BY <1>3 DEF IInv, TypeOK, CleanerInv, Job, Saving, CleanState, PC, redis_save_task
  <2>2. CleanerInv'
      BY <1>3 DEF IInv, TypeOK, CleanerInv, CreatedInv, CleanState, redis_save_task
  <2>3. CreatedInv'
      BY <1>3 DEF IInv, TypeOK, CreatedInv, CleanerInv, CleanState, redis_save_task
  <2>4. OwnerInv'
      BY <1>3 DEF IInv, TypeOK, OwnerInv, CleanerInv, CreatedInv, redis_save_task
  <2>5. ItemInv'
      BY <1>3 DEF IInv, TypeOK, ItemInv, redis_save_task
  <2>6. ResidueInv'
      BY <1>3 DEF IInv, TypeOK, ResidueInv, CleanerInv, ItemInv, CreatedInv, CleanState, redis_save_task
  <2>7. ActiveTaskListed'
      BY <1>3 DEF IInv, TypeOK, ActiveTaskListed, CleanerInv, CreatedInv, list_tasks, redis_save_task
  <2>8. StopReachesOwner'
      BY <1>3 DEF IInv, TypeOK, StopReachesOwner, OwnerInv, CreatedInv, CleanerInv, redis_save_task
  <2> QED BY <2>1, <2>2, <2>3, <2>4, <2>5, <2>6, <2>7, <2>8 DEF IInv
<1>4. ASSUME NEW t \in Task, SaveFails(t) PROVE IInv'
  <2>1. TypeOK'
      BY <1>4 DEF IInv, TypeOK, CleanerInv, Job, Saving, CleanState, PC, SaveFails, Fault
  <2>2. CleanerInv'
      BY <1>4 DEF IInv, TypeOK, CleanerInv, CreatedInv, CleanState, SaveFails, Fault
  <2>3. CreatedInv'
      BY <1>4 DEF IInv, TypeOK, CreatedInv, CleanerInv, CleanState, SaveFails, Fault
  <2>4. OwnerInv'
      BY <1>4 DEF IInv, TypeOK, OwnerInv, CleanerInv, CreatedInv, SaveFails, Fault
  <2>5. ItemInv'
      BY <1>4 DEF IInv, TypeOK, ItemInv, SaveFails, Fault
  <2>6. ResidueInv'
      BY <1>4 DEF IInv, TypeOK, ResidueInv, CleanerInv, ItemInv, CreatedInv, CleanState, SaveFails, Fault
  <2>7. ActiveTaskListed'
      BY <1>4 DEF IInv, TypeOK, ActiveTaskListed, CleanerInv, CreatedInv, list_tasks, SaveFails, Fault
  <2>8. StopReachesOwner'
      BY <1>4 DEF IInv, TypeOK, StopReachesOwner, OwnerInv, CreatedInv, CleanerInv, SaveFails, Fault
  <2> QED BY <2>1, <2>2, <2>3, <2>4, <2>5, <2>6, <2>7, <2>8 DEF IInv
<1>5. ASSUME NEW t \in Task, save_response_stream(t) PROVE IInv'
  <2>1. TypeOK'
      BY <1>5 DEF IInv, TypeOK, CleanerInv, Job, Saving, CleanState, PC, save_response_stream
  <2>2. CleanerInv'
      BY <1>5 DEF IInv, TypeOK, CleanerInv, CreatedInv, CleanState, save_response_stream
  <2>3. CreatedInv'
      BY <1>5 DEF IInv, TypeOK, CreatedInv, CleanerInv, CleanState, save_response_stream
  <2>4. OwnerInv'
      BY <1>5 DEF IInv, TypeOK, OwnerInv, CleanerInv, CreatedInv, save_response_stream
  <2>5. ItemInv'
      BY <1>5 DEF IInv, TypeOK, ItemInv, save_response_stream
  <2>6. ResidueInv'
      BY <1>5 DEF IInv, TypeOK, ResidueInv, CleanerInv, ItemInv, CreatedInv, CleanState, save_response_stream
  <2>7. ActiveTaskListed'
      BY <1>5 DEF IInv, TypeOK, ActiveTaskListed, CleanerInv, CreatedInv, list_tasks, save_response_stream
  <2>8. StopReachesOwner'
      BY <1>5 DEF IInv, TypeOK, StopReachesOwner, OwnerInv, CreatedInv, CleanerInv, save_response_stream
  <2> QED BY <2>1, <2>2, <2>3, <2>4, <2>5, <2>6, <2>7, <2>8 DEF IInv
<1>6. ASSUME NEW t \in Task, clear_response_stream(t) PROVE IInv'
  <2>1. TypeOK'
      BY <1>6 DEF IInv, TypeOK, CleanerInv, Job, Saving, CleanState, PC, clear_response_stream
  <2>2. CleanerInv'
      BY <1>6 DEF IInv, TypeOK, CleanerInv, CreatedInv, CleanState, clear_response_stream
  <2>3. CreatedInv'
      BY <1>6 DEF IInv, TypeOK, CreatedInv, CleanerInv, CleanState, clear_response_stream
  <2>4. OwnerInv'
      BY <1>6 DEF IInv, TypeOK, OwnerInv, CleanerInv, CreatedInv, clear_response_stream
  <2>5. ItemInv'
      BY <1>6 DEF IInv, TypeOK, ItemInv, clear_response_stream
  <2>6. ResidueInv'
      BY <1>6 DEF IInv, TypeOK, ResidueInv, CleanerInv, ItemInv, CreatedInv, CleanState, clear_response_stream
  <2>7. ActiveTaskListed'
      BY <1>6 DEF IInv, TypeOK, ActiveTaskListed, CleanerInv, CreatedInv, list_tasks, clear_response_stream
  <2>8. StopReachesOwner'
      BY <1>6 DEF IInv, TypeOK, StopReachesOwner, OwnerInv, CreatedInv, CleanerInv, clear_response_stream
  <2> QED BY <2>1, <2>2, <2>3, <2>4, <2>5, <2>6, <2>7, <2>8 DEF IInv
<1>7. ASSUME NEW t \in Task, Leave(t) PROVE IInv'
  <2>1. TypeOK'
      BY <1>7 DEF IInv, TypeOK, CleanerInv, Job, Saving, CleanState, PC, Leave, StartCleanup
  <2>2. CleanerInv'
    <3>1. /\ clean'[Self(t)] = [pc |-> "remove", task |-> t, item |-> ItemOf[t]]
          /\ \A d \in Cleaner : d # Self(t) => clean'[d] = clean[d]
        BY <1>7 DEF IInv, TypeOK, Leave, StartCleanup
    <3>2. job' = [job EXCEPT ![t] = "leaving"] /\ job[t] = "running" /\ told' = told
        BY <1>7 DEF Leave
    <3>3. \A u \in Task : /\ u # t => clean'[Self(u)] = clean[Self(u)]
                          /\ clean'[Done(u)] = clean[Done(u)]
        BY <3>1 DEF Self, Done, Cleaner
    <3>4. \A s \in Stopper : clean'[Stop(s)] = clean[Stop(s)]
        BY <3>1 DEF Self, Stop, Cleaner
    <3>5. \A c \in Cleaner : clean'[c].pc \in {"card", "delete"} => clean'[c].item \in Item
        BY <3>1 DEF IInv, CleanerInv
    <3> QED BY <3>1, <3>2, <3>3, <3>4, <3>5 DEF IInv, TypeOK, CleanerInv
  <2>3. CreatedInv'
      BY <1>7 DEF IInv, TypeOK, CreatedInv, CleanerInv, CleanState, Leave, StartCleanup
  <2>4. OwnerInv'
      BY <1>7 DEF IInv, TypeOK, OwnerInv, CleanerInv, CreatedInv, Leave, StartCleanup
  <2>5. ItemInv'
      BY <1>7 DEF IInv, TypeOK, ItemInv, Leave, StartCleanup
  <2>6. ResidueInv'
      BY <1>7 DEF IInv, TypeOK, ResidueInv, CleanerInv, ItemInv, CreatedInv, CleanState, Leave, StartCleanup
  <2>7. ActiveTaskListed'
      BY <1>7 DEF IInv, TypeOK, ActiveTaskListed, CleanerInv, CreatedInv, list_tasks, Leave, StartCleanup
  <2>8. StopReachesOwner'
      BY <1>7 DEF IInv, TypeOK, StopReachesOwner, OwnerInv, CreatedInv, CleanerInv, Leave, StartCleanup
  <2> QED BY <2>1, <2>2, <2>3, <2>4, <2>5, <2>6, <2>7, <2>8 DEF IInv
<1>8. ASSUME NEW t \in Task, Finish(t) PROVE IInv'
  <2>0. /\ clean' \in [Cleaner -> CleanState]
        /\ clean'[Self(t)].pc = "end"
        /\ clean'[Done(t)] = [pc |-> "remove", task |-> t, item |-> ItemOf[t]]
        /\ \A d \in Cleaner : d # Self(t) /\ d # Done(t) => clean'[d] = clean[d]
    <3>1. [pc |-> "remove", task |-> t, item |-> ItemOf[t]] \in CleanState
        BY DEF CleanState, PC
    <3>2. clean \in [Cleaner -> CleanState] /\ clean[Self(t)] \in CleanState /\ "end" \in PC
        BY DEF IInv, TypeOK, PC
    <3>3. /\ [clean[Self(t)] EXCEPT !.pc = "end"] \in CleanState
          /\ [clean[Self(t)] EXCEPT !.pc = "end"].pc = "end"
        BY <3>2, PcUpdate
    <3>4. clean' = [clean EXCEPT ![Self(t)] = [clean[Self(t)] EXCEPT !.pc = "end"],
                                 ![Done(t)] = [pc |-> "remove", task |-> t, item |-> ItemOf[t]]]
        BY <1>8, <3>2 DEF Finish
    <3>5. Self(t) \in Cleaner /\ Done(t) \in Cleaner /\ Self(t) # Done(t)
        BY DEF Self, Done, Cleaner
    <3> HIDE CleanerFacts
    <3> QED BY <3>1, <3>2, <3>3, <3>4, <3>5
  <2>1. TypeOK'
      BY <1>8, <2>0 DEF IInv, TypeOK, Finish, Job
  <2>2. CleanerInv'
    <3>1. job' = [job EXCEPT ![t] = "done"] /\ told' = told
        BY <1>8 DEF Finish
    <3>2. \A u \in Task : u # t => clean'[Self(u)] = clean[Self(u)] /\ clean'[Done(u)] = clean[Done(u)]
        BY <2>0 DEF Self, Done, Cleaner
    <3>3. \A s \in Stopper : clean'[Stop(s)] = clean[Stop(s)]
        BY <2>0 DEF Self, Done, Stop, Cleaner
    <3>4. \A c \in Cleaner : clean'[c].pc \in {"card", "delete"} => clean'[c].item \in Item
        BY <2>0 DEF IInv, CleanerInv
    <3> QED BY <2>0, <3>1, <3>2, <3>3, <3>4 DEF IInv, TypeOK, CleanerInv
  <2>3. CreatedInv'
      BY <1>8 DEF IInv, TypeOK, CreatedInv, CleanerInv, CleanState, Finish
  <2>4. OwnerInv'
      BY <1>8 DEF IInv, TypeOK, OwnerInv, CleanerInv, CreatedInv, Finish
  <2>5. ItemInv'
      BY <1>8 DEF IInv, TypeOK, ItemInv, Finish
  <2>6. ResidueInv'
    <3>1. \A u \in Task : u # t => clean'[Done(u)] = clean[Done(u)]
        BY <2>0 DEF Self, Done, Cleaner
    <3>2. UNCHANGED <<save, rTasks, rStream, rItem, tasks, early>>
        BY <1>8 DEF Finish
    <3> QED BY <2>0, <3>1, <3>2 DEF IInv, ResidueInv
  <2>7. ActiveTaskListed'
      BY <1>8 DEF IInv, TypeOK, ActiveTaskListed, CleanerInv, CreatedInv, list_tasks, Finish
  <2>8. StopReachesOwner'
      BY <1>8 DEF IInv, TypeOK, StopReachesOwner, OwnerInv, CreatedInv, CleanerInv, Finish
  <2> QED BY <2>1, <2>2, <2>3, <2>4, <2>5, <2>6, <2>7, <2>8 DEF IInv
<1>9. ASSUME NEW c \in Cleaner, RedisRemove(c) PROVE IInv'
  <2>1. TypeOK'
    <3>1. clean' \in [Cleaner -> CleanState]
        BY <1>9, GoToFacts DEF IInv, TypeOK, RedisRemove, PC
    <3> QED BY <1>9, <3>1 DEF IInv, TypeOK, CleanerInv, Job, Saving, RedisRemove
  <2>2. CleanerInv'
      BY <1>9 DEF IInv, TypeOK, CleanerInv, CreatedInv, CleanState, RedisRemove, GoTo
  <2>3. CreatedInv'
      BY <1>9 DEF IInv, TypeOK, CreatedInv, CleanerInv, CleanState, RedisRemove, GoTo
  <2>4. OwnerInv'
      BY <1>9 DEF IInv, TypeOK, OwnerInv, CleanerInv, CreatedInv, RedisRemove, GoTo
  <2>5. ItemInv'
      BY <1>9 DEF IInv, TypeOK, ItemInv, RedisRemove, GoTo
  <2>6. ResidueInv'
      BY <1>9 DEF IInv, TypeOK, ResidueInv, CleanerInv, ItemInv, CreatedInv, CleanState, RedisRemove, GoTo
  <2>7. ActiveTaskListed'
      BY <1>9 DEF IInv, TypeOK, ActiveTaskListed, CleanerInv, CreatedInv, list_tasks, RedisRemove, GoTo
  <2>8. StopReachesOwner'
      BY <1>9 DEF IInv, TypeOK, StopReachesOwner, OwnerInv, CreatedInv, CleanerInv, RedisRemove, GoTo
  <2> QED BY <2>1, <2>2, <2>3, <2>4, <2>5, <2>6, <2>7, <2>8 DEF IInv
<1>10. ASSUME NEW c \in Cleaner, RedisCard(c) PROVE IInv'
  <2>1. TypeOK'
    <3>1. clean' \in [Cleaner -> CleanState]
        BY <1>10, GoToFacts DEF IInv, TypeOK, RedisCard, PC
    <3> QED BY <1>10, <3>1 DEF IInv, TypeOK, CleanerInv, Job, Saving, RedisCard
  <2>2. CleanerInv'
      BY <1>10 DEF IInv, TypeOK, CleanerInv, CreatedInv, CleanState, RedisCard, GoTo
  <2>3. CreatedInv'
      BY <1>10 DEF IInv, TypeOK, CreatedInv, CleanerInv, CleanState, RedisCard, GoTo
  <2>4. OwnerInv'
      BY <1>10 DEF IInv, TypeOK, OwnerInv, CleanerInv, CreatedInv, RedisCard, GoTo
  <2>5. ItemInv'
      BY <1>10 DEF IInv, TypeOK, ItemInv, RedisCard, GoTo
  <2>6. ResidueInv'
      BY <1>10 DEF IInv, TypeOK, ResidueInv, CleanerInv, ItemInv, CreatedInv, CleanState, RedisCard, GoTo
  <2>7. ActiveTaskListed'
      BY <1>10 DEF IInv, TypeOK, ActiveTaskListed, CleanerInv, CreatedInv, list_tasks, RedisCard, GoTo
  <2>8. StopReachesOwner'
      BY <1>10 DEF IInv, TypeOK, StopReachesOwner, OwnerInv, CreatedInv, CleanerInv, RedisCard, GoTo
  <2> QED BY <2>1, <2>2, <2>3, <2>4, <2>5, <2>6, <2>7, <2>8 DEF IInv
<1>11. ASSUME NEW c \in Cleaner, RedisDelete(c) PROVE IInv'
  <2>1. TypeOK'
    <3>1. clean' \in [Cleaner -> CleanState]
        BY <1>11, GoToFacts DEF IInv, TypeOK, RedisDelete, PC
    <3> QED BY <1>11, <3>1 DEF IInv, TypeOK, CleanerInv, Job, Saving, RedisDelete
  <2>2. CleanerInv'
      BY <1>11 DEF IInv, TypeOK, CleanerInv, CreatedInv, CleanState, RedisDelete, GoTo
  <2>3. CreatedInv'
      BY <1>11 DEF IInv, TypeOK, CreatedInv, CleanerInv, CleanState, RedisDelete, GoTo
  <2>4. OwnerInv'
      BY <1>11 DEF IInv, TypeOK, OwnerInv, CleanerInv, CreatedInv, RedisDelete, GoTo
  <2>5. ItemInv'
      BY <1>11 DEF IInv, TypeOK, ItemInv, RedisDelete, GoTo
  <2>6. ResidueInv'
      BY <1>11 DEF IInv, TypeOK, ResidueInv, CleanerInv, ItemInv, CreatedInv, CleanState, RedisDelete, GoTo
  <2>7. ActiveTaskListed'
      BY <1>11 DEF IInv, TypeOK, ActiveTaskListed, CleanerInv, CreatedInv, list_tasks, RedisDelete, GoTo
  <2>8. StopReachesOwner'
      BY <1>11 DEF IInv, TypeOK, StopReachesOwner, OwnerInv, CreatedInv, CleanerInv, RedisDelete, GoTo
  <2> QED BY <2>1, <2>2, <2>3, <2>4, <2>5, <2>6, <2>7, <2>8 DEF IInv
<1>12. ASSUME NEW c \in Cleaner, cleanup_task(c) PROVE IInv'
  <2>1. TypeOK'
    <3>1. clean' \in [Cleaner -> CleanState]
      <4>1. CASE c[1] = "stop"
          BY <1>12, <4>1 DEF IInv, TypeOK, cleanup_task, CleanState, PC, Idle
      <4>2. CASE c[1] # "stop"
          BY <1>12, <4>2, GoToFacts DEF IInv, TypeOK, cleanup_task, GoTo, PC
      <4> QED BY <4>1, <4>2
    <3> QED BY <1>12, <3>1 DEF IInv, TypeOK, CleanerInv, cleanup_task
  <2>2. CleanerInv'
      BY <1>12 DEF IInv, TypeOK, CleanerInv, CreatedInv, CleanState, cleanup_task, Idle
  <2>3. CreatedInv'
      BY <1>12 DEF IInv, TypeOK, CreatedInv, CleanerInv, CleanState, cleanup_task, Idle
  <2>4. OwnerInv'
      BY <1>12 DEF IInv, TypeOK, OwnerInv, CleanerInv, CreatedInv, cleanup_task, Idle
  <2>5. ItemInv'
      BY <1>12 DEF IInv, TypeOK, ItemInv, cleanup_task, Idle
  <2>6. ResidueInv'
      BY <1>12 DEF IInv, TypeOK, ResidueInv, CleanerInv, ItemInv, CreatedInv, CleanState, cleanup_task, Idle
  <2>7. ActiveTaskListed'
      BY <1>12 DEF IInv, TypeOK, ActiveTaskListed, CleanerInv, CreatedInv, list_tasks, cleanup_task, Idle
  <2>8. StopReachesOwner'
      BY <1>12 DEF IInv, TypeOK, StopReachesOwner, OwnerInv, CreatedInv, CleanerInv, cleanup_task, Idle
  <2> QED BY <2>1, <2>2, <2>3, <2>4, <2>5, <2>6, <2>7, <2>8 DEF IInv
<1>13. ASSUME NEW c \in Cleaner, CleanupFails(c) PROVE IInv'
  <2>1. TypeOK'
    <3>1. clean' \in [Cleaner -> CleanState]
        BY <1>13, GoToFacts DEF IInv, TypeOK, CleanupFails, Fault, PC
    <3> QED BY <1>13, <3>1 DEF IInv, TypeOK, CleanerInv, Job, Saving, CleanupFails, Fault
  <2>2. CleanerInv'
      BY <1>13 DEF IInv, TypeOK, CleanerInv, CreatedInv, CleanState, CleanupFails, GoTo, Fault
  <2>3. CreatedInv'
      BY <1>13 DEF IInv, TypeOK, CreatedInv, CleanerInv, CleanState, CleanupFails, GoTo, Fault
  <2>4. OwnerInv'
      BY <1>13 DEF IInv, TypeOK, OwnerInv, CleanerInv, CreatedInv, CleanupFails, GoTo, Fault
  <2>5. ItemInv'
      BY <1>13 DEF IInv, TypeOK, ItemInv, CleanupFails, GoTo, Fault
  <2>6. ResidueInv'
      BY <1>13 DEF IInv, TypeOK, ResidueInv, CleanerInv, ItemInv, CreatedInv, CleanState, CleanupFails, GoTo, Fault
  <2>7. ActiveTaskListed'
      BY <1>13 DEF IInv, TypeOK, ActiveTaskListed, CleanerInv, CreatedInv, list_tasks, CleanupFails, GoTo, Fault
  <2>8. StopReachesOwner'
      BY <1>13 DEF IInv, TypeOK, StopReachesOwner, OwnerInv, CreatedInv, CleanerInv, CleanupFails, GoTo, Fault
  <2> QED BY <2>1, <2>2, <2>3, <2>4, <2>5, <2>6, <2>7, <2>8 DEF IInv
<1>14. ASSUME NEW s \in Stopper, NEW ids \in SUBSET Task, stop_item_tasks(s, ids) PROVE IInv'
  <2>1. TypeOK'
      BY <1>14 DEF IInv, TypeOK, CleanerInv, Job, Saving, CleanState, PC, stop_item_tasks, list_task_ids_by_item_id
  <2>2. CleanerInv'
      BY <1>14 DEF IInv, TypeOK, CleanerInv, CreatedInv, CleanState, stop_item_tasks, list_task_ids_by_item_id
  <2>3. CreatedInv'
      BY <1>14 DEF IInv, TypeOK, CreatedInv, CleanerInv, CleanState, stop_item_tasks, list_task_ids_by_item_id
  <2>4. OwnerInv'
      BY <1>14 DEF IInv, TypeOK, OwnerInv, CleanerInv, CreatedInv, stop_item_tasks, list_task_ids_by_item_id
  <2>5. ItemInv'
      BY <1>14 DEF IInv, TypeOK, ItemInv, stop_item_tasks, list_task_ids_by_item_id
  <2>6. ResidueInv'
      BY <1>14 DEF IInv, TypeOK, ResidueInv, CleanerInv, ItemInv, CreatedInv, CleanState, stop_item_tasks, list_task_ids_by_item_id
  <2>7. ActiveTaskListed'
      BY <1>14 DEF IInv, TypeOK, ActiveTaskListed, CleanerInv, CreatedInv, list_tasks, stop_item_tasks, list_task_ids_by_item_id
  <2>8. StopReachesOwner'
      BY <1>14 DEF IInv, TypeOK, StopReachesOwner, OwnerInv, CreatedInv, CleanerInv, stop_item_tasks, list_task_ids_by_item_id
  <2> QED BY <2>1, <2>2, <2>3, <2>4, <2>5, <2>6, <2>7, <2>8 DEF IInv
<1>15. ASSUME NEW s \in Stopper, NEW t \in Task, stop_task(s, t) PROVE IInv'
  <2>1. TypeOK'
      BY <1>15 DEF IInv, TypeOK, CleanerInv, Job, Saving, CleanState, PC, stop_task
  <2>2. CleanerInv'
      BY <1>15 DEF IInv, TypeOK, CleanerInv, CreatedInv, CleanState, stop_task
  <2>3. CreatedInv'
      BY <1>15 DEF IInv, TypeOK, CreatedInv, CleanerInv, CleanState, stop_task
  <2>4. OwnerInv'
      BY <1>15 DEF IInv, TypeOK, OwnerInv, CleanerInv, CreatedInv, stop_task
  <2>5. ItemInv'
      BY <1>15 DEF IInv, TypeOK, ItemInv, stop_task
  <2>6. ResidueInv'
      BY <1>15 DEF IInv, TypeOK, ResidueInv, CleanerInv, ItemInv, CreatedInv, CleanState, stop_task
  <2>7. ActiveTaskListed'
      BY <1>15 DEF IInv, TypeOK, ActiveTaskListed, CleanerInv, CreatedInv, list_tasks, stop_task
  <2>8. StopReachesOwner'
      BY <1>15 DEF IInv, TypeOK, StopReachesOwner, OwnerInv, CreatedInv, CleanerInv, stop_task
  <2> QED BY <2>1, <2>2, <2>3, <2>4, <2>5, <2>6, <2>7, <2>8 DEF IInv
<1>16. ASSUME NEW s \in Stopper, StopLooksUp(s) PROVE IInv'
  <2>1. TypeOK'
      BY <1>16 DEF IInv, TypeOK, CleanerInv, Job, Saving, CleanState, PC, StopLooksUp
  <2>2. CleanerInv'
      BY <1>16 DEF IInv, TypeOK, CleanerInv, CreatedInv, CleanState, StopLooksUp
  <2>3. CreatedInv'
      BY <1>16 DEF IInv, TypeOK, CreatedInv, CleanerInv, CleanState, StopLooksUp
  <2>4. OwnerInv'
      BY <1>16 DEF IInv, TypeOK, OwnerInv, CleanerInv, CreatedInv, StopLooksUp
  <2>5. ItemInv'
      BY <1>16 DEF IInv, TypeOK, ItemInv, StopLooksUp
  <2>6. ResidueInv'
      BY <1>16 DEF IInv, TypeOK, ResidueInv, CleanerInv, ItemInv, CreatedInv, CleanState, StopLooksUp
  <2>7. ActiveTaskListed'
      BY <1>16 DEF IInv, TypeOK, ActiveTaskListed, CleanerInv, CreatedInv, list_tasks, StopLooksUp
  <2>8. StopReachesOwner'
      BY <1>16 DEF IInv, TypeOK, StopReachesOwner, OwnerInv, CreatedInv, CleanerInv, StopLooksUp
  <2> QED BY <2>1, <2>2, <2>3, <2>4, <2>5, <2>6, <2>7, <2>8 DEF IInv
<1>17. ASSUME NEW s \in Stopper, redis_send_command(s) PROVE IInv'
  <2>1. TypeOK'
    <3>1. clean' \in [Cleaner -> CleanState]
        BY <1>17, GoToFacts DEF IInv, TypeOK, redis_send_command, PC
    <3> QED BY <1>17, <3>1 DEF IInv, TypeOK, CleanerInv, Job, Saving, redis_send_command
  <2>2. CleanerInv'
      BY <1>17 DEF IInv, TypeOK, CleanerInv, CreatedInv, CleanState, redis_send_command, GoTo
  <2>3. CreatedInv'
      BY <1>17 DEF IInv, TypeOK, CreatedInv, CleanerInv, CleanState, redis_send_command, GoTo
  <2>4. OwnerInv'
      BY <1>17 DEF IInv, TypeOK, OwnerInv, CleanerInv, CreatedInv, redis_send_command, GoTo
  <2>5. ItemInv'
      BY <1>17 DEF IInv, TypeOK, ItemInv, redis_send_command, GoTo
  <2>6. ResidueInv'
      BY <1>17 DEF IInv, TypeOK, ResidueInv, CleanerInv, ItemInv, CreatedInv, CleanState, redis_send_command, GoTo
  <2>7. ActiveTaskListed'
      BY <1>17 DEF IInv, TypeOK, ActiveTaskListed, CleanerInv, CreatedInv, list_tasks, redis_send_command, GoTo
  <2>8. StopReachesOwner'
    <3> SUFFICES ASSUME NEW u \in told' \ missed', job'[u] = "running"
                 PROVE  u \in cancelReq' \/ \E i \in owner'[u] : i \in sub' /\ u \in chan'[i]
        BY DEF StopReachesOwner
    <3>1. UNCHANGED <<job, owner, cancelReq, sub>> /\ chan \in [Instance -> SUBSET Task]
        BY <1>17 DEF IInv, TypeOK, redis_send_command
    <3>2. \A i \in Instance : chan[i] \subseteq chan'[i]
        BY <1>17, <3>1 DEF redis_send_command
    <3>3. u \in Task /\ \A i \in owner[u] : i \in Instance
        BY <1>17 DEF IInv, TypeOK, CleanerInv, redis_send_command
    <3>4. CASE u \in told
      <4>1. u \notin missed
          BY <1>17 DEF redis_send_command
      <4> QED BY <4>1, <3>1, <3>2, <3>3, <3>4 DEF IInv, StopReachesOwner
    <3>5. CASE u \notin told
      <4>1. u = clean[Stop(s)].task /\ owner[u] \subseteq sub
          BY <1>17, <3>5 DEF redis_send_command
      <4>2. PICK i \in Instance : owner[u] = {i}
          BY <3>1, <3>3 DEF IInv, OwnerInv
      <4>3. i \in sub /\ u \in chan'[i]
          BY <1>17, <4>1, <4>2 DEF redis_send_command
      <4> QED BY <3>1, <4>2, <4>3
    <3> QED BY <3>4, <3>5
  <2> QED BY <2>1, <2>2, <2>3, <2>4, <2>5, <2>6, <2>7, <2>8 DEF IInv
<1>18. ASSUME NEW s \in Stopper, StopFails(s) PROVE IInv'
  <2>1. TypeOK'
      BY <1>18 DEF IInv, TypeOK, CleanerInv, Job, Saving, CleanState, PC, StopFails, Fault, Idle
  <2>2. CleanerInv'
      BY <1>18 DEF IInv, TypeOK, CleanerInv, CreatedInv, CleanState, StopFails, Fault, Idle
  <2>3. CreatedInv'
      BY <1>18 DEF IInv, TypeOK, CreatedInv, CleanerInv, CleanState, StopFails, Fault, Idle
  <2>4. OwnerInv'
      BY <1>18 DEF IInv, TypeOK, OwnerInv, CleanerInv, CreatedInv, StopFails, Fault, Idle
  <2>5. ItemInv'
      BY <1>18 DEF IInv, TypeOK, ItemInv, StopFails, Fault, Idle
  <2>6. ResidueInv'
      BY <1>18 DEF IInv, TypeOK, ResidueInv, CleanerInv, ItemInv, CreatedInv, CleanState, StopFails, Fault, Idle
  <2>7. ActiveTaskListed'
      BY <1>18 DEF IInv, TypeOK, ActiveTaskListed, CleanerInv, CreatedInv, list_tasks, StopFails, Fault, Idle
  <2>8. StopReachesOwner'
      BY <1>18 DEF IInv, TypeOK, StopReachesOwner, OwnerInv, CreatedInv, CleanerInv, StopFails, Fault, Idle
  <2> QED BY <2>1, <2>2, <2>3, <2>4, <2>5, <2>6, <2>7, <2>8 DEF IInv
<1>19. ASSUME NEW i \in Instance, Subscribe(i) PROVE IInv'
  <2>1. TypeOK'
      BY <1>19 DEF IInv, TypeOK, CleanerInv, Job, Saving, CleanState, PC, Subscribe
  <2>2. CleanerInv'
      BY <1>19 DEF IInv, TypeOK, CleanerInv, CreatedInv, CleanState, Subscribe
  <2>3. CreatedInv'
      BY <1>19 DEF IInv, TypeOK, CreatedInv, CleanerInv, CleanState, Subscribe
  <2>4. OwnerInv'
      BY <1>19 DEF IInv, TypeOK, OwnerInv, CleanerInv, CreatedInv, Subscribe
  <2>5. ItemInv'
      BY <1>19 DEF IInv, TypeOK, ItemInv, Subscribe
  <2>6. ResidueInv'
      BY <1>19 DEF IInv, TypeOK, ResidueInv, CleanerInv, ItemInv, CreatedInv, CleanState, Subscribe
  <2>7. ActiveTaskListed'
      BY <1>19 DEF IInv, TypeOK, ActiveTaskListed, CleanerInv, CreatedInv, list_tasks, Subscribe
  <2>8. StopReachesOwner'
      BY <1>19 DEF IInv, TypeOK, StopReachesOwner, OwnerInv, CreatedInv, CleanerInv, Subscribe
  <2> QED BY <2>1, <2>2, <2>3, <2>4, <2>5, <2>6, <2>7, <2>8 DEF IInv
<1>20. ASSUME NEW i \in Instance, Disconnect(i) PROVE IInv'
  <2>1. TypeOK'
      BY <1>20 DEF IInv, TypeOK, CleanerInv, Job, Saving, CleanState, PC, Disconnect, Fault
  <2>2. CleanerInv'
      BY <1>20 DEF IInv, TypeOK, CleanerInv, CreatedInv, CleanState, Disconnect, Fault
  <2>3. CreatedInv'
      BY <1>20 DEF IInv, TypeOK, CreatedInv, CleanerInv, CleanState, Disconnect, Fault
  <2>4. OwnerInv'
      BY <1>20 DEF IInv, TypeOK, OwnerInv, CleanerInv, CreatedInv, Disconnect, Fault
  <2>5. ItemInv'
      BY <1>20 DEF IInv, TypeOK, ItemInv, Disconnect, Fault
  <2>6. ResidueInv'
      BY <1>20 DEF IInv, TypeOK, ResidueInv, CleanerInv, ItemInv, CreatedInv, CleanState, Disconnect, Fault
  <2>7. ActiveTaskListed'
      BY <1>20 DEF IInv, TypeOK, ActiveTaskListed, CleanerInv, CreatedInv, list_tasks, Disconnect, Fault
  <2>8. StopReachesOwner'
      BY <1>20 DEF IInv, TypeOK, StopReachesOwner, OwnerInv, CreatedInv, CleanerInv, Disconnect, Fault
  <2> QED BY <2>1, <2>2, <2>3, <2>4, <2>5, <2>6, <2>7, <2>8 DEF IInv
<1>21. ASSUME NEW i \in Instance, Crash(i) PROVE IInv'
  <2>0. /\ clean' \in [Cleaner -> CleanState]
        /\ \A d \in Cleaner : \/ clean'[d] = clean[d]
                              \/ /\ d[1] # "stop" /\ owner[d[2]] = {i} /\ clean'[d].pc = "failed"
    <3>1. (\A d \in Cleaner : clean[d] \in CleanState) /\ "failed" \in PC
        BY DEF IInv, TypeOK, PC
    <3>2. \A d \in Cleaner : /\ [clean[d] EXCEPT !.pc = "failed"] \in CleanState
                            /\ [clean[d] EXCEPT !.pc = "failed"].pc = "failed"
        BY <3>1, PcUpdate
    <3>3. \A d \in Cleaner : clean'[d] = clean[d] \/ (/\ d[1] # "stop" /\ owner[d[2]] = {i}
                                                     /\ clean'[d] = [clean[d] EXCEPT !.pc = "failed"])
        BY <1>21 DEF Crash
    <3>4. clean' = [d \in Cleaner |-> clean'[d]]
        BY <1>21 DEF Crash
    <3>5. \A d \in Cleaner : clean'[d] \in CleanState
        BY <3>1, <3>2, <3>3
    <3>6. clean' \in [Cleaner -> CleanState]
        BY <3>4, <3>5
    <3> QED BY <3>2, <3>3, <3>6
  <2>1. TypeOK'
      BY <1>21, <2>0 DEF IInv, TypeOK, Crash, Fault, Job, Saving
  <2>2. CleanerInv'
    <3>1. told' = told /\ \A t \in Task : job'[t] = IF owner[t] = {i} THEN "done" ELSE job[t]
        BY <1>21 DEF Crash
    <3>2. \A t \in Task : /\ clean'[Self(t)] = clean[Self(t)] \/ (owner[t] = {i} /\ clean'[Self(t)].pc = "failed")
                          /\ clean'[Done(t)] = clean[Done(t)] \/ (owner[t] = {i} /\ clean'[Done(t)].pc = "failed")
      <4> TAKE t \in Task
      <4>1. /\ Self(t) \in Cleaner /\ Self(t)[2] = t
            /\ Done(t) \in Cleaner /\ Done(t)[2] = t
          BY DEF Self, Done, Cleaner
      <4> QED BY <2>0, <4>1
    <3>3. \A s \in Stopper : clean'[Stop(s)] = clean[Stop(s)]
        BY <2>0 DEF Stop, Cleaner
    <3>4. \A c \in Cleaner : clean'[c].pc \in {"card", "delete"} => clean'[c].item \in Item
        BY <2>0 DEF IInv, CleanerInv
    <3> QED BY <3>1, <3>2, <3>3, <3>4 DEF IInv, CleanerInv
  <2>3. CreatedInv'
      BY <1>21 DEF IInv, TypeOK, CreatedInv, CleanerInv, CleanState, Crash, Fault
  <2>4. OwnerInv'
      BY <1>21 DEF IInv, TypeOK, OwnerInv, CleanerInv, CreatedInv, Crash, Fault
  <2>5. ItemInv'
      BY <1>21 DEF IInv, TypeOK, ItemInv, Crash, Fault
  <2>6. ResidueInv'
      BY <1>21 DEF IInv, TypeOK, ResidueInv, CleanerInv, ItemInv, CreatedInv, CleanState, Crash, Fault
  <2>7. ActiveTaskListed'
      BY <1>21 DEF IInv, TypeOK, ActiveTaskListed, CleanerInv, CreatedInv, list_tasks, Crash, Fault
  <2>8. StopReachesOwner'
      BY <1>21 DEF IInv, TypeOK, StopReachesOwner, OwnerInv, CreatedInv, CleanerInv, Crash, Fault
  <2> QED BY <2>1, <2>2, <2>3, <2>4, <2>5, <2>6, <2>7, <2>8 DEF IInv
<1>22. CASE UNCHANGED vars
    BY <1>22 DEF IInv, TypeOK, CleanerInv, CreatedInv, OwnerInv, ItemInv, ResidueInv, ActiveTaskListed, StopReachesOwner, CleanState, PC, Job, Saving, list_tasks
<1> QED BY <1>1, <1>2, <1>3, <1>4, <1>5, <1>6, <1>7, <1>8, <1>9, <1>10, <1>11, <1>12, <1>13, <1>14, <1>15, <1>16, <1>17, <1>18, <1>19, <1>20, <1>21, <1>22 DEF Next, Cleanup

(* In every reachable state the inductive invariant holds. *)
THEOREM Invariance == Spec => []IInv
<1>1. Init => IInv
    BY InitIInv
<1>2. IInv /\ [Next]_vars => IInv'
    BY NextIInv
<1> QED BY <1>1, <1>2, PTL DEF Spec

(* The registry's state is well typed. *)
THEOREM TypeCorrect == Spec => []TypeOK
<1>1. IInv => TypeOK
    BY DEF IInv
<1> QED BY <1>1, Invariance, PTL

(* list_tasks (tasks.py) shows every registered running task that nobody    *)
(* stopped, whatever other tasks, stop requests and crashes do.             *)
THEOREM ListingComplete == Spec => []ActiveTaskListed
<1>1. IInv => ActiveTaskListed
    BY DEF IInv
<1> QED BY <1>1, Invariance, PTL

(* A done callback that runs to its end after the registration leaves       *)
(* nothing of the task in Redis or in a local dictionary.                   *)
THEOREM CleanupComplete == Spec => []NoResidue
<1>1. IInv => NoResidue
    BY DEF IInv, ResidueInv, NoResidue, list_tasks, list_task_ids_by_item_id
<1> QED BY <1>1, Invariance, PTL

(* stop_task loses its command only to a listener that is not subscribed.   *)
THEOREM StopDelivered == Spec => []StopReachesOwner
<1>1. IInv => StopReachesOwner
    BY DEF IInv
<1> QED BY <1>1, Invariance, PTL

(* The listing is sound, for every instance of the system. *)
THEOREM ListingIsSound == Spec => []ListingSound
BY TypeCorrect, ListingComplete, CleanupComplete, PTL DEF ListingSound
=============================================================================
