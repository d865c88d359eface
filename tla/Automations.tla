---------------------------- MODULE Automations ----------------------------
(* Scheduled prompts: the handlers of routers/automations.py, the tables of *)
(* models/automations.py, and the scheduler of utils/automations.py, one in *)
(* every process, that claims what is due and executes it.  A recurrence    *)
(* rule is the set of its occurrences.  A handler that computes next_run_at *)
(* writes it in a later step; a claim selects rows and commits them in a    *)
(* later step, holding row locks on PostgreSQL.                             *)
EXTENDS Naturals, FiniteSets, FiniteSetsExt, Server

CONSTANTS
    Automation,     \* ids of automations
    Rules,          \* recurrence rules: sets of times
    Client,         \* concurrent requests of users
    Horizon,        \* bound: the clock stops here
    BatchLimit,     \* limit of claim_due
    AutoLimit,      \* automations.max_count
    MaxEdits,       \* bound: requests for an automation that is there
    MaxRuns,        \* bound: executions at a time
    MaxAutoFaults   \* bound: crashes of a process

ASSUME AutomationsAssumption ==
    /\ Horizon \in Nat /\ BatchLimit \in Nat \ {0} /\ AutoLimit \in Nat /\ MaxEdits \in Nat
    /\ MaxRuns \in Nat /\ MaxAutoFaults \in Nat
    /\ Rules \subseteq SUBSET (1..Horizon)
    /\ None \notin Nat /\ None \notin Automation

VARIABLES
    postgres,   \* the database has row locks
    now,        \* time
    autos,      \* the automation table
    batch,      \* rows selected by each process's open claim
    edit,       \* requests in progress
    jobs,       \* executions in progress: a bag of <<process, automation, step>>
    records,    \* automations with rows in automation_run
    edits, autoFaults,
    taken,      \* history: occurrences claimed
    rearmed,    \* history: occurrences an edit scheduled again after their claim
    doubled,    \* history: occurrences claimed twice
    crossed     \* history: automations with two writers at a time

autoVars == <<postgres, now, autos, batch, edit, jobs, records, edits, autoFaults, taken,
              rearmed, doubled, crossed>>

Time == 0..Horizon
JobStep == {"started", "chat"}
NoRow == [state |-> "unused", rule |-> {}, active |-> FALSE, next |-> None]
NoEdit == [op |-> "none", auto |-> None, rule |-> {}, active |-> FALSE, next |-> None]

(* next_run_ns: the first occurrence after the present. *)
next_run_ns(rule) == IF \E t \in rule : t > now THEN Min({t \in rule : t > now}) ELSE None

Stored(a) == autos[a].state = "stored"
Due(a) == Stored(a) /\ autos[a].active /\ autos[a].next # None /\ autos[a].next <= now
Selected(a) == \E p \in Process : \E row \in batch[p] : row.auto = a
Locked(a) == postgres /\ Selected(a)
Running == FoldSet(LAMBDA j, n : jobs[j] + n, 0, DOMAIN jobs)

AutoInit ==
    /\ postgres \in BOOLEAN
    /\ now = 0
    /\ autos = [a \in Automation |-> NoRow]
    /\ batch = [p \in Process |-> {}]
    /\ edit = [c \in Client |-> NoEdit]
    /\ jobs = [j \in Process \X Automation \X JobStep |-> 0]
    /\ records = {}
    /\ edits = 0 /\ autoFaults = 0
    /\ taken = {} /\ rearmed = {} /\ doubled = {} /\ crossed = {}

Begin(c, request) ==
    /\ edit[c] = NoEdit
    /\ request.op # "create" => edits < MaxEdits
    /\ edits' = IF request.op = "create" THEN edits ELSE edits + 1
    /\ edit' = [edit EXCEPT ![c] = request]
    /\ crossed' = IF (Selected(request.auto) /\ ~postgres) \/ \E d \in Client : edit[d].auto = request.auto
                  THEN crossed \cup {request.auto} ELSE crossed
    /\ UNCHANGED <<postgres, now, autos, batch, jobs, autoFaults, taken, rearmed, doubled>>

Commit(c) ==
    /\ edit' = [edit EXCEPT ![c] = NoEdit]
    /\ UNCHANGED <<postgres, now, batch, jobs, edits, autoFaults, taken, doubled, crossed>>

(* An edit that writes next_run_at; history: was that occurrence claimed?   *)
Rearm(a, next) ==
    rearmed' = IF <<a, next>> \in taken THEN rearmed \cup {<<a, next>>} ELSE rearmed

(* create_new_automation: validate_rrule wants a future occurrence, and     *)
(* check_automation_limits counts the user's automations before the insert. *)
create_new_automation(c, a, rule, active) ==
    /\ autos[a].state = "unused" /\ \A d \in Client : edit[d].auto # a
    /\ next_run_ns(rule) # None
    /\ Cardinality({b \in Automation : Stored(b)}) < AutoLimit
    /\ Begin(c, [op |-> "create", auto |-> a, rule |-> rule, active |-> active,
                 next |-> next_run_ns(rule)])
    /\ UNCHANGED records

insert(c) ==
    /\ edit[c].op = "create"
    /\ autos' = [autos EXCEPT ![edit[c].auto] =
          [state |-> "stored", rule |-> edit[c].rule, active |-> edit[c].active, next |-> edit[c].next]]
    /\ Commit(c) /\ UNCHANGED <<records, rearmed>>

(* update_automation_by_id: the row exists and the rule has a future. *)
update_automation_by_id(c, a, rule, active) ==
    /\ Stored(a) /\ next_run_ns(rule) # None
    /\ Begin(c, [op |-> "update", auto |-> a, rule |-> rule, active |-> active,
                 next |-> next_run_ns(rule)])
    /\ UNCHANGED records

update_by_id(c) ==
    LET e == edit[c] IN
    /\ e.op = "update" /\ ~Locked(e.auto)
    /\ IF Stored(e.auto)
       THEN /\ autos' = [autos EXCEPT ![e.auto].rule = e.rule, ![e.auto].active = e.active,
                                      ![e.auto].next = e.next]
            /\ Rearm(e.auto, e.next)
       ELSE UNCHANGED <<autos, rearmed>>
    /\ Commit(c) /\ UNCHANGED records

(* toggle_automation_by_id: next_run_at comes from the rule read first. *)
toggle_automation_by_id(c, a) ==
    /\ Stored(a)
    /\ Begin(c, [NoEdit EXCEPT !.op = "toggle", !.auto = a, !.next = next_run_ns(autos[a].rule)])
    /\ UNCHANGED records

toggle(c) ==
    LET e == edit[c]
        on == ~autos[e.auto].active
    IN
    /\ e.op = "toggle" /\ ~Locked(e.auto)
    /\ IF Stored(e.auto)
       THEN /\ autos' = [autos EXCEPT ![e.auto].active = on, ![e.auto].next = IF on THEN e.next ELSE None]
            /\ IF on THEN Rearm(e.auto, e.next) ELSE UNCHANGED rearmed
       ELSE UNCHANGED <<autos, rearmed>>
    /\ Commit(c) /\ UNCHANGED records

(* delete_automation_by_id: the runs go first, the row in a second commit. *)
delete_automation_by_id(c, a) ==
    /\ Stored(a)
    /\ Begin(c, [NoEdit EXCEPT !.op = "delete", !.auto = a])
    /\ records' = records \ {a}

delete(c) ==
    /\ edit[c].op = "delete" /\ ~Locked(edit[c].auto)
    /\ autos' = [autos EXCEPT ![edit[c].auto] = [NoRow EXCEPT !.state = "deleted"]]
    /\ Commit(c) /\ UNCHANGED <<records, rearmed>>

(* run_automation_by_id executes now, whatever the schedule says. *)
run_automation_by_id(p, a) ==
    /\ Stored(a) /\ Running < MaxRuns /\ edits < MaxEdits /\ edits' = edits + 1
    /\ jobs' = [jobs EXCEPT ![<<p, a, "started">>] = @ + 1]
    /\ UNCHANGED <<postgres, now, autos, batch, edit, records, autoFaults, taken, rearmed, doubled, crossed>>
-----------------------------------------------------------------------------
(* claim_due selects the rows due longest; FOR UPDATE SKIP LOCKED on        *)
(* PostgreSQL.  A database without row locks has one scheduler.             *)
ClaimFrom(p, free) ==
    /\ batch[p] = {} /\ (postgres \/ \A q \in Process : batch[q] = {})
    /\ \E b \in (SUBSET free) \ {{}} :
          /\ Cardinality(b) = Min({BatchLimit, Cardinality(free)})
          /\ \A x \in b, y \in free \ b : autos[x].next <= autos[y].next
          /\ batch' = [batch EXCEPT ![p] =
                {[auto |-> a, rule |-> autos[a].rule, next |-> autos[a].next] : a \in b}]
          /\ crossed' = crossed \cup {a \in b : ~postgres /\ \E c \in Client : edit[c].auto = a}
    /\ UNCHANGED <<postgres, now, autos, edit, jobs, records, edits, autoFaults, taken, rearmed, doubled>>

(* The rows another scheduler has locked are selected too. *)
ClaimSelect_NoSkip(p) == ClaimFrom(p, {a \in Automation : Due(a)})

ClaimSelect(p) == ClaimFrom(p, {a \in Automation : Due(a) /\ ~Locked(a)})

(* The commit schedules the next occurrence of the rule that was selected,  *)
(* and the scheduler starts one execution per row; if a row was deleted     *)
(* meanwhile the update raises and nothing is claimed.                      *)
Claimed(p, Next(_)) ==
    /\ batch[p] # {} /\ Running + Cardinality(batch[p]) <= MaxRuns
    /\ batch' = [batch EXCEPT ![p] = {}]
    /\ IF \A row \in batch[p] : Stored(row.auto)
       THEN LET occurrences == {<<row.auto, row.next>> : row \in batch[p]} IN
            /\ autos' = [a \in Automation |-> IF \E row \in batch[p] : row.auto = a
                            THEN [autos[a] EXCEPT !.next = Next(CHOOSE row \in batch[p] : row.auto = a)]
                            ELSE autos[a]]
            /\ jobs' = [j \in DOMAIN jobs |->
                  IF j[1] = p /\ j[3] = "started" /\ \E row \in batch[p] : row.auto = j[2]
                  THEN jobs[j] + 1 ELSE jobs[j]]
            /\ taken' = taken \cup occurrences
            /\ doubled' = doubled \cup (taken \cap occurrences)
       ELSE UNCHANGED <<autos, jobs, taken, doubled>>
    /\ UNCHANGED <<postgres, now, edit, records, edits, autoFaults, rearmed, crossed>>

(* A claim that fails is not rolled back. *)
claim_due_NoRollback(p) ==
    /\ \A row \in batch[p] : Stored(row.auto)
    /\ Claimed(p, LAMBDA row : next_run_ns(row.rule))

claim_due(p) == Claimed(p, LAMBDA row : next_run_ns(row.rule))

(* execute_automation: an owner who is gone or may not run automations any  *)
(* more, or a chat that cannot be created, ends in an error record ...      *)
Refused(p, a) ==
    /\ jobs[<<p, a, "started">>] > 0
    /\ jobs' = [jobs EXCEPT ![<<p, a, "started">>] = @ - 1]
    /\ records' = records \cup {a}
    /\ UNCHANGED <<postgres, now, autos, batch, edit, edits, autoFaults, taken, rearmed, doubled, crossed>>

(* ... or the chat, or the messages in the channel, are there ...           *)
execute_automation(p, a) ==
    /\ jobs[<<p, a, "started">>] > 0
    /\ jobs' = [jobs EXCEPT ![<<p, a, "started">>] = @ - 1, ![<<p, a, "chat">>] = @ + 1]
    /\ UNCHANGED <<postgres, now, autos, batch, edit, records, edits, autoFaults, taken, rearmed, doubled, crossed>>

(* ... the pipeline answers or raises, and one record says so. *)
record_run(p, a) ==
    /\ jobs[<<p, a, "chat">>] > 0
    /\ jobs' = [jobs EXCEPT ![<<p, a, "chat">>] = @ - 1]
    /\ records' = records \cup {a}
    /\ UNCHANGED <<postgres, now, autos, batch, edit, edits, autoFaults, taken, rearmed, doubled, crossed>>

(* A process dies: its open claim is rolled back, its executions are gone.  *)
ProcessDies(p) ==
    /\ autoFaults < MaxAutoFaults /\ autoFaults' = autoFaults + 1
    /\ batch' = [batch EXCEPT ![p] = {}]
    /\ jobs' = [j \in DOMAIN jobs |-> IF j[1] = p THEN 0 ELSE jobs[j]]
    /\ UNCHANGED <<postgres, now, autos, edit, records, edits, taken, rearmed, doubled, crossed>>

TimePasses ==
    /\ now < Horizon /\ now' = now + 1
    /\ UNCHANGED <<postgres, autos, batch, edit, jobs, records, edits, autoFaults, taken, rearmed, doubled, crossed>>

Execution == \E p \in Process, a \in Automation : Refused(p, a) \/ execute_automation(p, a) \/ record_run(p, a)

Write(c) == insert(c) \/ update_by_id(c) \/ toggle(c) \/ delete(c)

AutoNext ==
    \/ TimePasses \/ Execution
    \/ \E p \in Process : ClaimSelect(p) \/ claim_due(p) \/ ProcessDies(p)
    \/ \E p \in Process, a \in Automation : run_automation_by_id(p, a)
    \/ \E c \in Client, a \in Automation :
          \/ \E rule \in Rules, active \in BOOLEAN :
                create_new_automation(c, a, rule, active) \/ update_automation_by_id(c, a, rule, active)
          \/ toggle_automation_by_id(c, a) \/ delete_automation_by_id(c, a)
    \/ \E c \in Client : Write(c)

(* Each process's scheduler goes round, executions end, writes are committed. *)
AutoFairness ==
    /\ \A p \in Process : WF_autoVars(ClaimSelect(p)) /\ WF_autoVars(claim_due(p))
    /\ \A c \in Client : WF_autoVars(Write(c))
    /\ WF_autoVars(Execution)

AutoSpec == AutoInit /\ [][AutoNext]_autoVars /\ AutoFairness
-----------------------------------------------------------------------------
AutoTypeOK ==
    /\ postgres \in BOOLEAN /\ now \in Time
    /\ autos \in [Automation -> [state : {"unused", "stored", "deleted"}, rule : Rules \cup {{}},
                           active : BOOLEAN, next : Time \cup {None}]]
    /\ batch \in [Process -> SUBSET [auto : Automation, rule : Rules, next : Time]]
    /\ edit \in [Client -> [op : {"none", "create", "update", "toggle", "delete"}, auto : Automation \cup {None},
                            rule : Rules \cup {{}}, active : BOOLEAN, next : Time \cup {None}]]
    /\ DOMAIN jobs = Process \X Automation \X JobStep /\ \A j \in DOMAIN jobs : jobs[j] \in Nat
    /\ records \subseteq Automation
    /\ edits \in 0..MaxEdits /\ autoFaults \in 0..MaxAutoFaults
    /\ taken \subseteq Automation \X Time /\ rearmed \subseteq taken /\ doubled \subseteq taken /\ crossed \subseteq Automation

(* "Advances next_run_at immediately so the row can never be double-        *)
(* claimed": whatever schedulers, crashes, edits and deletions run, an      *)
(* occurrence is claimed twice only if an edit, whose next_run_at was       *)
(* computed before the first claim, is written after it.                    *)
OccurrenceClaimedOnce == doubled \subseteq rearmed

(* What is scheduled is an occurrence of the rule the row holds now, unless *)
(* two requests edited it at a time or, without row locks, a request and a  *)
(* claim did: the later write then carries the time of the older rule.      *)
ScheduleFollowsRule ==
    \A a \in Automation \ crossed : Stored(a) /\ autos[a].next # None => autos[a].next \in autos[a].rule

(* A due automation does not wait for ever: the rows due longest go first   *)
(* and a claim moves them on, so every other one has its turn, or it is     *)
(* edited, switched off or deleted.                                         *)
DueAutomationClaimed == \A a \in Automation : Due(a) ~> ~Due(a)

(* Claims are sound (Automations.claim_due): the values have their types, an *)
(* occurrence is claimed once, and what is scheduled follows the rule.       *)
ClaimsSound == AutoTypeOK /\ OccurrenceClaimedOnce /\ ScheduleFollowsRule
=============================================================================
