---------------------------- MODULE TaskRegistry ----------------------------
(***************************************************************************)
(* The distributed registry of background tasks (backend/open_webui/       *)
(* tasks.py) with Redis configured.  Every server instance keeps the       *)
(* asyncio tasks it runs in process-local dictionaries; which task works   *)
(* on which item (a chat, a note) is shared through a Redis hash, one      *)
(* Redis set per item and a hash of partial responses.  A task is stopped  *)
(* from any instance by a pub/sub command that its owner's listener        *)
(* receives.                                                               *)
(*                                                                         *)
(* Every await of the code that reaches Redis is a step of its own, so a   *)
(* step of another actor can come between any two of them.  A pipeline is  *)
(* one MULTI/EXEC and hence one step.                                      *)
(***************************************************************************)
EXTENDS Naturals, FiniteSets

CONSTANTS Task,       \* task ids (uuid4, never reused)
          Item,       \* chat and document ids
          NoTask, NoItem,
          ItemOf,     \* the item each task is created for, NoItem for id=None
          ChatTask,   \* tasks that run process_chat; the others save notes or
                      \* run sub-agents
          Instance,   \* server processes
          Stopper,    \* requests that stop tasks
          MaxFaults   \* bound on lost connections, Redis errors and crashes

ASSUME NoItemAssumption == NoItem \notin Item
ASSUME NoTaskAssumption == NoTask \notin Task
ASSUME ChatTaskAssumption == ChatTask \subseteq Task
ASSUME ItemOfAssumption == ItemOf \in [Task -> Item \cup {NoItem}]
ASSUME MaxFaultsAssumption == MaxFaults \in Nat

VARIABLES
    job,        \* [Task -> Job]: the coroutine's own progress
    owner,      \* [Task -> SUBSET Instance]: the instance that runs it
    cancelReq,  \* tasks with task.cancel() called and not yet raised inside
    save,       \* [Task -> Saving]: create_task's call of redis_save_task
    tasks,      \* [Instance -> SUBSET Task]: the local `tasks` dictionary
    rTasks,     \* Redis hash :tasks
    rItem,      \* Redis sets :tasks:item:{id}
    rStream,    \* Redis hash :tasks:response_streams
    sub,        \* instances whose listener is subscribed
    chan,       \* [Instance -> SUBSET Task]: stop commands on their way
    clean,      \* [Cleaner -> CleanState]: calls of redis_cleanup_task
    todo,       \* [Stopper -> SUBSET Task]: ids stop_item_tasks has left
    faults,     \* faults so far
    told,       \* history: tasks for which a stop was published
    missed,     \* history: tasks whose stop their owner never received
    early       \* history: tasks cleaned up before their save ran

taskVars == <<job, owner, cancelReq, save, tasks>>
redisVars == <<rTasks, rItem, rStream>>
busVars == <<sub, chan>>
cleanVars == <<clean, todo>>
historyVars == <<told, missed, early>>
vars == <<taskVars, redisVars, busVars, cleanVars, faults, historyVars>>

-----------------------------------------------------------------------------
(* "leaving": the chat task is in the finally block of process_chat, where  *)
(* it deregisters itself before it ends.                                    *)
Job == {"none", "running", "leaving", "done"}
Saving == {"no", "inflight", "saved", "failed"}

(* The three callers of redis_cleanup_task: the task itself, the callback   *)
(* asyncio runs when it is done, and stop_task.                             *)
Self(t) == <<"self", t>>
Done(t) == <<"done", t>>
Stop(s) == <<"stop", s>>
Cleaner == ({"self", "done"} \X Task) \cup ({"stop"} \X Stopper)

PC == {"off", "look", "publish", "remove", "card", "delete", "pop", "end", "failed"}
CleanState == [pc : PC, task : Task \cup {NoTask}, item : Item \cup {NoItem}]
Idle == [pc |-> "off", task |-> NoTask, item |-> NoItem]

(* What the read operations answer. *)
list_tasks == rTasks
list_task_ids_by_item_id(x) == rItem[x]
has_active_tasks(x) == list_task_ids_by_item_id(x) # {}
get_response_streams_by_chat_id(x) == list_task_ids_by_item_id(x) \cap rStream

Fault == faults < MaxFaults /\ faults' = faults + 1

GoTo(c, label) == clean' = [clean EXCEPT ![c].pc = label]
StartCleanup(c, t) == clean' = [clean EXCEPT ![c] = [pc |-> "remove", task |-> t, item |-> ItemOf[t]]]

-----------------------------------------------------------------------------
Init ==
    /\ job = [t \in Task |-> "none"]
    /\ owner = [t \in Task |-> {}]
    /\ cancelReq = {}
    /\ save = [t \in Task |-> "no"]
    /\ tasks = [i \in Instance |-> {}]
    /\ rTasks = {} /\ rItem = [x \in Item |-> {}] /\ rStream = {}
    /\ sub = {} /\ chan = [i \in Instance |-> {}]
    /\ clean = [c \in Cleaner |-> Idle]
    /\ todo = [s \in Stopper |-> {}]
    /\ faults = 0
    /\ told = {} /\ missed = {} /\ early = {}

(* create_task up to its await: the coroutine is scheduled, the local       *)
(* dictionaries know it, redis_save_task is called.                         *)
create_task(t, i) ==
    /\ job[t] = "none"
    /\ job' = [job EXCEPT ![t] = "running"]
    /\ owner' = [owner EXCEPT ![t] = {i}]
    /\ tasks' = [tasks EXCEPT ![i] = @ \cup {t}]
    /\ save' = [save EXCEPT ![t] = "inflight"]
    /\ UNCHANGED <<cancelReq, redisVars, busVars, cleanVars, faults, historyVars>>

(* The pipeline of redis_save_task executes. *)
redis_save_task(t) ==
    /\ save[t] = "inflight"
    /\ save' = [save EXCEPT ![t] = "saved"]
    /\ rTasks' = rTasks \cup {t}
    /\ rItem' = [x \in Item |-> IF x = ItemOf[t] THEN rItem[x] \cup {t} ELSE rItem[x]]
    /\ UNCHANGED <<job, owner, cancelReq, tasks, rStream, busVars, cleanVars, faults, historyVars>>

(* The pipeline raises: create_task raises too, the task runs on. *)
SaveFails(t) ==
    /\ save[t] = "inflight"
    /\ save' = [save EXCEPT ![t] = "failed"]
    /\ Fault
    /\ UNCHANGED <<job, owner, cancelReq, tasks, redisVars, busVars, cleanVars, historyVars>>

save_response_stream(t) ==
    /\ t \in ChatTask
    /\ job[t] = "running"
    /\ rStream' = rStream \cup {t}
    /\ UNCHANGED <<taskVars, rTasks, rItem, busVars, cleanVars, faults, historyVars>>

(* clear_response_stream, or the field's HEXPIRE deadline. *)
clear_response_stream(t) ==
    /\ t \in rStream
    /\ rStream' = rStream \ {t}
    /\ UNCHANGED <<taskVars, rTasks, rItem, busVars, cleanVars, faults, historyVars>>

-----------------------------------------------------------------------------
(* A chat task reaches its finally block and deregisters itself. *)
Leave(t) ==
    /\ t \in ChatTask
    /\ job[t] = "running"
    /\ job' = [job EXCEPT ![t] = "leaving"]
    /\ cancelReq' = cancelReq \ {t}
    /\ StartCleanup(Self(t), t)
    /\ UNCHANGED <<owner, save, tasks, redisVars, busVars, todo, faults, historyVars>>

(* The coroutine ends: a task without that block from "running", a chat     *)
(* task after its own cleanup, or out of the middle of it when a            *)
(* CancelledError is raised there.  asyncio then runs the done callback.    *)
Finish(t) ==
    /\ \/ job[t] = "running" /\ t \notin ChatTask
       \/ job[t] = "leaving" /\ (clean[Self(t)].pc \in {"end", "failed"} \/ t \in cancelReq)
    /\ job' = [job EXCEPT ![t] = "done"]
    /\ cancelReq' = cancelReq \ {t}
    /\ clean' = [clean EXCEPT ![Self(t)].pc = "end",
                              ![Done(t)] = [pc |-> "remove", task |-> t, item |-> ItemOf[t]]]
    /\ UNCHANGED <<owner, save, tasks, redisVars, busVars, todo, faults, historyVars>>

(* The CancelledError reaches the coroutine. *)
Cancelled(t) == t \in cancelReq /\ (Leave(t) \/ Finish(t))

-----------------------------------------------------------------------------

(* Mutant: the set entry is only removed while the hash still has the task. *)
RedisRemove_OnlyIfListed(c) ==
    LET t == clean[c].task
        x == clean[c].item
    IN  /\ clean[c].pc = "remove"
        /\ rTasks' = rTasks \ {t}
        /\ rStream' = rStream \ {t}
        /\ rItem' = [y \in Item |-> IF y = x /\ t \in rTasks THEN rItem[y] \ {t} ELSE rItem[y]]
        /\ GoTo(c, IF x # NoItem THEN "card" ELSE "pop")
        /\ early' = IF c = Done(t) /\ save[t] = "inflight" THEN early \cup {t} ELSE early
        /\ UNCHANGED <<taskVars, busVars, todo, faults, told, missed>>

(* redis_cleanup_task: the pipeline. *)
RedisRemove(c) ==
    LET t == clean[c].task
        x == clean[c].item
    IN  /\ clean[c].pc = "remove"
        /\ rTasks' = rTasks \ {t}
        /\ rStream' = rStream \ {t}
        /\ rItem' = [y \in Item |-> IF y = x THEN rItem[y] \ {t} ELSE rItem[y]]
        /\ GoTo(c, IF x # NoItem THEN "card" ELSE "pop")
        /\ early' = IF c = Done(t) /\ save[t] = "inflight" THEN early \cup {t} ELSE early
        /\ UNCHANGED <<taskVars, busVars, todo, faults, told, missed>>

(* ... SCARD == 0 ... *)
RedisCard(c) ==
    /\ clean[c].pc = "card"
    /\ GoTo(c, IF rItem[clean[c].item] = {} THEN "delete" ELSE "pop")
    /\ UNCHANGED <<taskVars, redisVars, busVars, todo, faults, historyVars>>

(* ... and the DELETE of the set it was found to be. *)
RedisDelete(c) ==
    /\ clean[c].pc = "delete"
    /\ rItem' = [rItem EXCEPT ![clean[c].item] = {}]
    /\ GoTo(c, "pop")
    /\ UNCHANGED <<taskVars, rTasks, rStream, busVars, todo, faults, historyVars>>

(* The rest of cleanup_task: the local dictionaries.  stop_task, which      *)
(* calls redis_cleanup_task only, returns.                                  *)
cleanup_task(c) ==
    /\ clean[c].pc = "pop"
    /\ tasks' = IF c[1] = "stop" THEN tasks
                ELSE [i \in Instance |-> tasks[i] \ {clean[c].task}]
    /\ clean' = IF c[1] = "stop" THEN [clean EXCEPT ![c] = Idle] ELSE [clean EXCEPT ![c].pc = "end"]
    /\ UNCHANGED <<job, owner, cancelReq, save, redisVars, busVars, todo, faults, historyVars>>

(* A Redis call of a cleanup raises: what is left of it never runs.         *)
CleanupFails(c) ==
    /\ c[1] # "stop"
    /\ clean[c].pc \in {"remove", "card", "delete"}
    /\ GoTo(c, "failed")
    /\ Fault
    /\ UNCHANGED <<taskVars, redisVars, busVars, todo, historyVars>>

-----------------------------------------------------------------------------
(* stop_task called for one task, or by stop_item_tasks for the members the *)
(* item's set had when it was read.                                         *)
stop_item_tasks(s, ids) ==
    /\ clean[Stop(s)].pc = "off" /\ todo[s] = {}
    /\ ids # {}
    /\ \/ \E x \in Item : ids = list_task_ids_by_item_id(x)
       \/ \E t \in Task : job[t] # "none" /\ ids = {t}
    /\ todo' = [todo EXCEPT ![s] = ids]
    /\ UNCHANGED <<taskVars, redisVars, busVars, clean, faults, historyVars>>

stop_task(s, t) ==
    /\ clean[Stop(s)].pc = "off"
    /\ t \in todo[s]
    /\ todo' = [todo EXCEPT ![s] = @ \ {t}]
    /\ clean' = [clean EXCEPT ![Stop(s)] = [pc |-> "look", task |-> t, item |-> NoItem]]
    /\ UNCHANGED <<taskVars, redisVars, busVars, faults, historyVars>>

(* HGET of the task's item: nothing when the task is not registered.        *)
StopLooksUp(s) ==
    LET t == clean[Stop(s)].task
    IN  /\ clean[Stop(s)].pc = "look"
        /\ clean' = [clean EXCEPT ![Stop(s)] =
                        [pc |-> "publish", task |-> t, item |-> IF t \in rTasks THEN ItemOf[t] ELSE NoItem]]
        /\ UNCHANGED <<taskVars, redisVars, busVars, todo, faults, historyVars>>

(* Mutant: nothing is published for a task whose item was not found. *)
redis_send_command_IfFound(s) ==
    LET t == clean[Stop(s)].task
    IN  /\ clean[Stop(s)].pc = "publish"
        /\ chan' = [i \in Instance |-> IF i \in sub /\ clean[Stop(s)].item # NoItem
                                       THEN chan[i] \cup {t} ELSE chan[i]]
        /\ told' = told \cup {t}
        /\ missed' = IF owner[t] \subseteq sub THEN missed ELSE missed \cup {t}
        /\ GoTo(Stop(s), "remove")
        /\ UNCHANGED <<taskVars, redisVars, sub, todo, faults, early>>

(* The command reaches the instances that are subscribed at this moment.    *)
redis_send_command(s) ==
    LET t == clean[Stop(s)].task
    IN  /\ clean[Stop(s)].pc = "publish"
        /\ chan' = [i \in Instance |-> IF i \in sub THEN chan[i] \cup {t} ELSE chan[i]]
        /\ told' = told \cup {t}
        /\ missed' = IF owner[t] \subseteq sub THEN missed ELSE missed \cup {t}
        /\ GoTo(Stop(s), "remove")
        /\ UNCHANGED <<taskVars, redisVars, sub, todo, faults, early>>

(* A Redis call of the stop raises, or the instance handling it ends.       *)
StopFails(s) ==
    /\ clean[Stop(s)].pc # "off" \/ todo[s] # {}
    /\ clean' = [clean EXCEPT ![Stop(s)] = Idle]
    /\ todo' = [todo EXCEPT ![s] = {}]
    /\ Fault
    /\ UNCHANGED <<taskVars, redisVars, busVars, historyVars>>

-----------------------------------------------------------------------------
(* redis_task_command_listener *)
Subscribe(i) ==
    /\ i \notin sub
    /\ sub' = sub \cup {i}
    /\ UNCHANGED <<taskVars, redisVars, chan, cleanVars, faults, historyVars>>

(* Mutant: a command for a task that is not registered yet is ignored. *)
Receive_OnlySaved(i, t) ==
    /\ i \in sub /\ t \in chan[i]
    /\ chan' = [chan EXCEPT ![i] = @ \ {t}]
    /\ cancelReq' = IF t \in tasks[i] /\ save[t] = "saved" /\ job[t] \in {"running", "leaving"}
                    THEN cancelReq \cup {t} ELSE cancelReq
    /\ UNCHANGED <<job, owner, save, tasks, redisVars, sub, cleanVars, faults, historyVars>>

Receive(i, t) ==
    /\ i \in sub /\ t \in chan[i]
    /\ chan' = [chan EXCEPT ![i] = @ \ {t}]
    /\ cancelReq' = IF t \in tasks[i] /\ job[t] \in {"running", "leaving"} THEN cancelReq \cup {t} ELSE cancelReq
    /\ UNCHANGED <<job, owner, save, tasks, redisVars, sub, cleanVars, faults, historyVars>>

(* The connection breaks; what was on it is gone, and nothing is received   *)
(* until the listener has slept its backoff and subscribed again.           *)
Disconnect(i) ==
    /\ i \in sub
    /\ sub' = sub \ {i}
    /\ chan' = [chan EXCEPT ![i] = {}]
    /\ missed' = missed \cup {t \in chan[i] : owner[t] = {i}}
    /\ Fault
    /\ UNCHANGED <<taskVars, redisVars, cleanVars, told, early>>

(* An instance dies with its tasks and everything they were awaiting, and   *)
(* starts again with empty dictionaries.                                    *)
Crash(i) ==
    LET mine == {t \in Task : owner[t] = {i}}
    IN  /\ job' = [t \in Task |-> IF t \in mine THEN "done" ELSE job[t]]
        /\ cancelReq' = cancelReq \ mine
        /\ save' = [t \in Task |-> IF t \in mine /\ save[t] = "inflight" THEN "failed" ELSE save[t]]
        /\ tasks' = [tasks EXCEPT ![i] = {}]
        /\ clean' = [c \in Cleaner |->
                        IF c[1] # "stop" /\ c[2] \in mine /\ clean[c].pc # "end"
                        THEN [clean[c] EXCEPT !.pc = "failed"] ELSE clean[c]]
        /\ sub' = sub \ {i}
        /\ chan' = [chan EXCEPT ![i] = {}]
        /\ Fault
        /\ UNCHANGED <<owner, redisVars, todo, historyVars>>

-----------------------------------------------------------------------------
Cleanup(c) == RedisRemove(c) \/ RedisCard(c) \/ RedisDelete(c) \/ cleanup_task(c)

Next ==
    \/ \E t \in Task, i \in Instance : create_task(t, i) \/ Receive(i, t)
    \/ \E t \in Task : \/ redis_save_task(t) \/ SaveFails(t)
                       \/ save_response_stream(t) \/ clear_response_stream(t)
                       \/ Leave(t) \/ Finish(t)
    \/ \E c \in Cleaner : Cleanup(c) \/ CleanupFails(c)
    \/ \E s \in Stopper : \/ \E ids \in SUBSET Task : stop_item_tasks(s, ids)
                          \/ \E t \in Task : stop_task(s, t)
                          \/ StopLooksUp(s) \/ redis_send_command(s) \/ StopFails(s)
    \/ \E i \in Instance : Subscribe(i) \/ Disconnect(i) \/ Crash(i)

Spec == Init /\ [][Next]_vars

(* A listener that is subscribed reads what it was sent, and asyncio raises *)
(* a requested cancellation at the task's next await.                       *)
Fairness ==
    /\ \A t \in Task, i \in Instance : WF_vars(Receive(i, t))
    /\ \A t \in Task : WF_vars(Cancelled(t))

FairSpec == Spec /\ Fairness

-----------------------------------------------------------------------------
TypeOK ==
    /\ job \in [Task -> Job]
    /\ owner \in [Task -> SUBSET Instance]
    /\ cancelReq \subseteq Task
    /\ save \in [Task -> Saving]
    /\ tasks \in [Instance -> SUBSET Task]
    /\ rTasks \subseteq Task
    /\ rItem \in [Item -> SUBSET Task]
    /\ rStream \subseteq Task
    /\ sub \subseteq Instance
    /\ chan \in [Instance -> SUBSET Task]
    /\ clean \in [Cleaner -> CleanState]
    /\ todo \in [Stopper -> SUBSET Task]
    /\ faults \in 0..MaxFaults
    /\ told \subseteq Task /\ missed \subseteq Task /\ early \subseteq Task

(* list_tasks shows every task that is running, registered and not stopped: *)
(* no cleanup of another task and no failure removes its hash entry.        *)
ActiveTaskListed ==
    \A t \in Task : job[t] = "running" /\ save[t] = "saved" /\ t \notin told => t \in list_tasks

(* When the done callback has run to its end, no dictionary, hash or set    *)
(* still names the task, whatever stop requests raced with it - unless the  *)
(* task ended before create_task's own registration reached Redis.          *)
NoResidue ==
    \A t \in Task : clean[Done(t)].pc = "end" /\ t \notin early =>
        /\ t \notin list_tasks
        /\ t \notin rStream
        /\ \A x \in Item : t \notin list_task_ids_by_item_id(x)
        /\ \A i \in Instance : t \notin tasks[i]

(* stop_task answers "stopped" after publishing a command.  While the task  *)
(* still runs, the command is on its way to the instance that runs it or    *)
(* has become a cancellation there; only a listener that is down loses it.  *)
StopReachesOwner ==
    \A t \in told \ missed : job[t] = "running" =>
        t \in cancelReq \/ \E i \in owner[t] : i \in sub /\ t \in chan[i]

(* A stop that is not lost ends the task's work. *)
StoppedTaskEnds ==
    \A t \in Task : t \in told ~> (job[t] # "running" \/ t \in missed)

(* "Check if a chat has any active tasks": an item with a registered task   *)
(* that runs and that nobody stopped is seen to be active.                  *)
ActiveItemSeen ==
    \A t \in Task :
        job[t] = "running" /\ save[t] = "saved" /\ t \notin told /\ ItemOf[t] # NoItem
            => has_active_tasks(ItemOf[t])

(* The listing is sound (list_tasks, list_task_ids_by_item_id): the values   *)
(* have their types, a task at work is listed, and an ended one leaves       *)
(* nothing behind.                                                           *)
ListingSound == TypeOK /\ ActiveTaskListed /\ NoResidue
=============================================================================
