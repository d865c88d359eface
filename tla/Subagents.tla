----------------------------- MODULE Subagents -----------------------------
(***************************************************************************)
(* utils/subagents.py: sub-agents delegated by the responses of one parent *)
(* chat, the slots they hold, and the way the result of a background one   *)
(* gets back into the parent: stored under the lock of the process and the *)
(* row lock of the chat, answered when no task of the chat is active.      *)
(***************************************************************************)
EXTENDS Naturals, FiniteSets, Server

CONSTANTS Deleg,        \* calls of delegate
          Turn,         \* responses of the parent chat
          MaxAsync,     \* subagents.max_async
          Concurrency,  \* values subagents.max_concurrent takes
          MaxUserTurns, \* bound: responses the user asks for
          MaxCancels    \* bound: tasks that are cancelled

ASSUME SubagentsAssumption ==
    /\ MaxAsync \in Nat \ {0} /\ Concurrency \subseteq Nat \ {0}
    /\ MaxUserTurns \in Nat /\ MaxCancels \in Nat

VARIABLES semaphore,  \* per process: _foreground_semaphore, or None; with its size
          async,      \* per process: _background_active
          act,        \* per delegation and response: where it is, in which process
          inbox,      \* per delegation: its result in the history of the parent
          lock,       \* per process: holder of the parent's entry in _parent_locks
          lost,       \* delegations whose slot nobody gives back
          answers,    \* per delegation: responses its result was part of
          userTurns, cancels

subVars == <<semaphore, async, act, inbox, lock, lost, answers, userTurns, cancels>>

Actor == Deleg \cup Turn
Off == [step |-> "off", at |-> None, mode |-> "none"]
Active == {t \in Turn : act[t].step = "respond"}    \* has_active_tasks(parent)
At(a) == act[a].at
Move(a, step) == act' = [act EXCEPT ![a].step = step]
Holding == {"create", "begin", "run"}
Holders(p, mode) == {d \in Deleg : act[d].step \in Holding /\ At(d) = p /\ act[d].mode = mode}

SubInit ==
    /\ semaphore = [p \in Process |-> [size |-> None, free |-> 0]]
    /\ async = [p \in Process |-> {}]
    /\ act = [a \in Actor |-> Off]
    /\ inbox = [d \in Deleg |-> "none"]
    /\ lock = [p \in Process |-> None]
    /\ lost = {}
    /\ answers = [d \in Deleg |-> 0]
    /\ userTurns = 0 /\ cancels = 0

-----------------------------------------------------------------------------
(* Responses of the parent chat (main.py)                                   *)
user_turn(t, p) ==
    /\ userTurns < MaxUserTurns /\ userTurns' = userTurns + 1
    /\ act[t] = Off
    /\ act' = [act EXCEPT ![t] = [step |-> "respond", at |-> p, mode |-> "none"]]
    /\ UNCHANGED <<semaphore, async, inbox, lock, lost, answers, cancels>>

\* A response waits for the foreground sub-agents it started.  It ends by
\* taking itself off the registry; then it looks for results to answer.
process_chat_finally_NoLook(t) ==
    /\ act[t].step = "respond"
    /\ \A d \in Deleg : act[d].step # "off" => act[d].mode # "foreground" \/ act[d].step = "end"
    /\ Move(t, "end")
    /\ UNCHANGED <<semaphore, async, inbox, lock, lost, answers, userTurns, cancels>>
process_chat_finally(t) ==
    /\ act[t].step = "respond"
    /\ \A d \in Deleg : act[d].step # "off" => act[d].mode # "foreground" \/ act[d].step = "end"
    /\ Move(t, "check")
    /\ UNCHANGED <<semaphore, async, inbox, lock, lost, answers, userTurns, cancels>>

-----------------------------------------------------------------------------
(* delegate: a slot first                                                   *)
delegate_background(d, t) ==
    LET p == At(t) IN
    /\ act[d] = Off /\ act[t].step = "respond"
    /\ IF Cardinality(async[p]) >= MaxAsync
       THEN act' = [act EXCEPT ![d] = [step |-> "end", at |-> p, mode |-> "background"]] /\ UNCHANGED async
       ELSE /\ act' = [act EXCEPT ![d] = [step |-> "create", at |-> p, mode |-> "background"]]
            /\ async' = [async EXCEPT ![p] = @ \cup {d}]
    /\ UNCHANGED <<semaphore, inbox, lock, lost, answers, userTurns, cancels>>

\* The semaphore takes the limit of the first call and keeps it.
delegate_foreground(d, t, limit) ==
    LET p == At(t)
        sem == IF semaphore[p].size = None THEN [size |-> limit, free |-> limit] ELSE semaphore[p] IN
    /\ act[d] = Off /\ act[t].step = "respond"
    /\ semaphore' = [semaphore EXCEPT ![p] = IF sem.free > 0 THEN [sem EXCEPT !.free = @ - 1] ELSE sem]
    /\ act' = [act EXCEPT ![d] = [step |-> IF sem.free > 0 THEN "create" ELSE "acquire",
                                  at |-> p, mode |-> "foreground"]]
    /\ UNCHANGED <<async, inbox, lock, lost, answers, userTurns, cancels>>

acquire(d) ==
    /\ act[d].step = "acquire" /\ semaphore[At(d)].free > 0
    /\ semaphore' = [semaphore EXCEPT ![At(d)].free = @ - 1]
    /\ Move(d, "create")
    /\ UNCHANGED <<async, inbox, lock, lost, answers, userTurns, cancels>>

\* The release of every path: discard, or semaphore.release().
Release(d) ==
    IF act[d].mode = "background"
    THEN async' = [async EXCEPT ![At(d)] = @ \ {d}] /\ UNCHANGED semaphore
    ELSE semaphore' = [semaphore EXCEPT ![At(d)].free = @ + 1] /\ UNCHANGED async

\* The child chat is inserted and the task created, or one of them raises.
insert_new_chat(d, ok) ==
    /\ act[d].step = "create"
    /\ IF ok THEN Move(d, "begin") /\ UNCHANGED <<semaphore, async>>
             ELSE Move(d, "end") /\ Release(d)
    /\ UNCHANGED <<inbox, lock, lost, answers, userTurns, cancels>>

run_reserved(d) ==
    /\ act[d].step = "begin"
    /\ Move(d, "run")
    /\ UNCHANGED <<semaphore, async, inbox, lock, lost, answers, userTurns, cancels>>

\* The sub-agent ended, well or not; finally gives the slot back.
run_reserved_finally_Background(d) ==
    /\ act[d].step = "run"
    /\ Move(d, IF act[d].mode = "background" THEN "deliver" ELSE "end")
    /\ IF act[d].mode = "background" THEN Release(d) ELSE UNCHANGED <<semaphore, async>>
    /\ UNCHANGED <<inbox, lock, lost, answers, userTurns, cancels>>
run_reserved_finally(d) ==
    /\ act[d].step = "run"
    /\ Move(d, IF act[d].mode = "background" THEN "deliver" ELSE "end")
    /\ Release(d)
    /\ UNCHANGED <<inbox, lock, lost, answers, userTurns, cancels>>

\* A task is cancelled.  While it runs this is one more way for run_reserved to
\* end.  Before: "except Exception" does not see a cancellation during the
\* insert, and a task cancelled before its first step never enters its try.
cancel(d) ==
    /\ cancels < MaxCancels /\ cancels' = cancels + 1
    /\ act[d].step \in {"acquire", "create", "begin"}
    /\ lost' = IF act[d].step = "acquire" THEN lost ELSE lost \cup {d}
    /\ Move(d, "end")
    /\ UNCHANGED <<semaphore, async, inbox, lock, answers, userTurns>>

-----------------------------------------------------------------------------
(* run_background: the result goes into the history of the parent           *)
deliver_lock(d) ==
    /\ act[d].step = "deliver" /\ lock[At(d)] = None
    /\ lock' = [lock EXCEPT ![At(d)] = d]
    /\ Move(d, "store")
    /\ UNCHANGED <<semaphore, async, inbox, lost, answers, userTurns, cancels>>

\* One transaction on the locked row; "pending" while the parent is active.
store_result(d) ==
    /\ act[d].step = "store"
    /\ inbox' = [inbox EXCEPT ![d] = IF Active # {} THEN "pending" ELSE "fresh"]
    /\ lock' = [lock EXCEPT ![At(d)] = None]
    /\ Move(d, "check")
    /\ UNCHANGED <<semaphore, async, lost, answers, userTurns, cancels>>

\* Whoever delivered a result, or ended a response, answers what waits unless a
\* task of the chat is active: that one will look when it ends.
check_active(a) ==
    /\ act[a].step = "check"
    /\ Move(a, IF Active # {} THEN "end" ELSE "wait")
    /\ UNCHANGED <<semaphore, async, inbox, lock, lost, answers, userTurns, cancels>>

-----------------------------------------------------------------------------
(* process_pending_internal_messages                                        *)
Undelivered == {d \in Deleg : inbox[d] \in {"pending", "fresh"}}

wait_idle(a) ==
    /\ act[a].step = "wait" /\ Active = {}
    /\ Move(a, "lock")
    /\ UNCHANGED <<semaphore, async, inbox, lock, lost, answers, userTurns, cancels>>

take_lock(a) ==
    /\ act[a].step = "lock" /\ lock[At(a)] = None
    /\ IF Active # {}
       THEN Move(a, "end") /\ UNCHANGED lock
       ELSE Move(a, "commit") /\ lock' = [lock EXCEPT ![At(a)] = a]
    /\ UNCHANGED <<semaphore, async, inbox, lost, answers, userTurns, cancels>>

\* The transaction: the results with the parent and the model of the first
\* become one user message with an empty assistant message below it.
commit_batch(a, batch) ==
    /\ act[a].step = "commit"
    /\ batch \subseteq Undelivered /\ (batch = {} <=> Undelivered = {})
    /\ inbox' = [d \in Deleg |-> IF d \in batch THEN "answered" ELSE inbox[d]]
    /\ answers' = [d \in Deleg |-> IF d \in batch THEN answers[d] + 1 ELSE answers[d]]
    /\ IF batch = {} THEN Move(a, "end") /\ lock' = [lock EXCEPT ![At(a)] = None]
                     ELSE Move(a, "handler") /\ UNCHANGED lock
    /\ UNCHANGED <<semaphore, async, lost, userTurns, cancels>>

\* CHAT_COMPLETION_HANDLER registers the task of the response; the lock ends.
start_response(a, t) ==
    /\ act[a].step = "handler" /\ act[t] = Off
    /\ act' = [act EXCEPT ![a].step = "end", ![t] = [step |-> "respond", at |-> At(a), mode |-> "none"]]
    /\ lock' = [lock EXCEPT ![At(a)] = None]
    /\ UNCHANGED <<semaphore, async, inbox, lost, answers, userTurns, cancels>>

Process_pending(a) ==
    \/ check_active(a) \/ wait_idle(a) \/ take_lock(a)
    \/ \E batch \in SUBSET Deleg : commit_batch(a, batch)
    \/ \E t \in Turn : start_response(a, t)
Run(d) ==
    \/ acquire(d) \/ run_reserved(d) \/ run_reserved_finally(d)
    \/ deliver_lock(d) \/ store_result(d)
    \/ \E ok \in BOOLEAN : insert_new_chat(d, ok)

SubNext ==
    \/ \E t \in Turn :
          \/ \E p \in Process : user_turn(t, p)
          \/ process_chat_finally(t)
          \/ \E d \in Deleg : \/ delegate_background(d, t)
                              \/ \E l \in Concurrency : delegate_foreground(d, t, l)
    \/ \E d \in Deleg : Run(d) \/ cancel(d)
    \/ \E a \in Actor : Process_pending(a)

\* Tasks that can run do run, responses end.  (An actor takes a lock at
\* most twice, so weak fairness is enough for a lock that others hold.)
SubFairness ==
    /\ \A t \in Turn : WF_subVars(process_chat_finally(t))
    /\ \A d \in Deleg : WF_subVars(Run(d))
    /\ \A a \in Actor : WF_subVars(Process_pending(a))

-----------------------------------------------------------------------------
SubTypeOK ==
    /\ \A p \in Process : /\ async[p] \subseteq Deleg /\ lock[p] \in Actor \cup {None}
                          /\ semaphore[p].size \in Concurrency \cup {None}
    /\ lost \subseteq Deleg
    /\ inbox \in [Deleg -> {"none", "pending", "fresh", "answered"}]

\* Every slot taken is held by a sub-agent at work, or was lost to a
\* cancellation before its task began: no other path keeps one.
SlotsReturned ==
    \A p \in Process :
        /\ semaphore[p].size # None =>
              semaphore[p].size = semaphore[p].free + Cardinality(Holders(p, "foreground"))
                + Cardinality({d \in lost : act[d].mode = "foreground" /\ At(d) = p})
        /\ async[p] = Holders(p, "background") \cup {d \in lost : act[d].mode = "background" /\ At(d) = p}

\* A result is answered by one response only, although the sub-agent that
\* delivers it and the response that ends beside it both go looking, in two
\* processes whose locks do not know one another.
AnsweredOnce == \A d \in Deleg : answers[d] <= 1

\* A delivered result is answered in the end: the check after the delivery and
\* the check after a response never leave it to one another.
ResultAnswered == \A d \in Deleg : inbox[d] \in {"pending", "fresh"} ~> inbox[d] = "answered"

\* Delegation is sound (delegate, run_background): the values have their types,
\* every slot is accounted for, and a result is answered once.
DelegationSound == SubTypeOK /\ SlotsReturned /\ AnsweredOnce
=============================================================================
