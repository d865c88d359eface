-------------------------- MODULE BackgroundProofs --------------------------
(***************************************************************************)
(* TLAPS proofs about the work nobody waits for: the claims of Automations *)
(* and the delegations of Subagents, for any number of automations,        *)
(* schedulers, requests, sub-agents, responses and processes, with and     *)
(* without row locks; calendars and their alerts, which the same scheduler *)
(* loop sends; the tool calls of a message, which go on after its          *)
(* response; and the calls to the vector stores, each in a thread of its   *)
(* own.  Calendars, tool calls and vector stores have specifications of    *)
(* their own.                                                              *)
(***************************************************************************)
EXTENDS MCBackground, Calendar, ToolLoop, VectorStores, FiniteSetTheorems, TLAPS

(* A non-empty set of naturals has a least element, and Min names it. *)
LEMMA MinIsLeast ==
    ASSUME NEW S \in SUBSET Nat, S # {}
    PROVE  Min(S) \in S /\ \A y \in S : Min(S) <= y
<1>1. IsWellFoundedOn({p \in Nat \X Nat : p[1] < p[2]}, Nat)
    BY NatLessThanWellFounded DEF OpToRel
<1>2. \E x \in S : \A y \in S : <<y, x>> \notin {p \in Nat \X Nat : p[1] < p[2]}
    BY <1>1, WFMin, Zenon
<1>3. PICK x \in S : \A y \in S : ~(y < x)
    BY <1>2
<1>4. \A y \in S : x <= y
    BY <1>3
<1>5. \E z \in S : \A y \in S : z <= y
    BY <1>4
<1> QED BY <1>5 DEF Min

-----------------------------------------------------------------------------
(* Automations                                                             *)

(* Rows: one that is there has a rule of its own, and one that was never    *)
(* there was never claimed.                                                 *)
RowInv ==
    \A a \in Automation :
        /\ Stored(a) => autos[a].rule \in Rules
        /\ autos[a].state = "unused" =>
              /\ \A t \in Time : <<a, t>> \notin taken
              /\ \A p \in Process : \A row \in batch[p] : row.auto # a

(* Only the past was claimed, or is selected for a claim.  What is scheduled *)
(* or selected was not claimed before, or an edit scheduled it again.        *)
ClaimInv ==
    /\ \A x \in taken : x[2] <= now
    /\ \A a \in Automation : Stored(a) /\ <<a, autos[a].next>> \in taken => <<a, autos[a].next>> \in rearmed
    /\ \A p \in Process : \A row \in batch[p] :
          /\ row.next <= now
          /\ <<row.auto, row.next>> \in taken => <<row.auto, row.next>> \in rearmed

(* A row is in one open claim.  With row locks nobody writes it meanwhile;   *)
(* without them there is one claim at a time.                               *)
BatchInv ==
    /\ \A p, q \in Process : \A r \in batch[p], s \in batch[q] : r.auto = s.auto => p = q /\ r = s
    /\ ~postgres => \A p, q \in Process : batch[p] # {} /\ batch[q] # {} => p = q
    /\ \A p \in Process : \A row \in batch[p] :
          row.auto \notin crossed =>
              /\ Stored(row.auto) => autos[row.auto].rule = row.rule
              /\ ~postgres => \A c \in Client : edit[c].auto # row.auto

(* What a request is about to write: a creation is alone with its automation, *)
(* and the time it carries is one of the rule the row will have.             *)
EditInv ==
    \A c \in Client :
        /\ edit[c].op # "none" => edit[c].auto \in Automation
        /\ edit[c].op = "none" => edit[c].auto = None
        /\ edit[c].op = "create" =>
              /\ autos[edit[c].auto].state = "unused"
              /\ \A d \in Client : edit[d].auto = edit[c].auto => d = c
        /\ edit[c].op \in {"create", "update"} =>
              edit[c].rule \in Rules /\ edit[c].next \in edit[c].rule
        /\ edit[c].op = "toggle" /\ edit[c].auto \notin crossed /\ edit[c].next # None /\ Stored(edit[c].auto) =>
              edit[c].next \in autos[edit[c].auto].rule
        /\ \A d \in Client : edit[c].auto = edit[d].auto /\ edit[c].auto \in Automation \ crossed => c = d

AutoIInv ==
    /\ AutoTypeOK /\ RowInv /\ ClaimInv /\ BatchInv /\ EditInv
    /\ OccurrenceClaimedOnce /\ ScheduleFollowsRule

(* The next occurrence of a rule lies in the rule and in the future. *)
LEMMA NextOccurrence ==
    ASSUME AutoTypeOK, NEW rule \in SUBSET (1..Horizon)
    PROVE  /\ next_run_ns(rule) \in Time \cup {None}
           /\ next_run_ns(rule) # None => next_run_ns(rule) \in rule /\ next_run_ns(rule) > now
<1> DEFINE later == {t \in rule : t > now}
<1>1. CASE \E t \in rule : t > now
  <2>1. later \in SUBSET Nat
    <3>1. \A t \in later : t \in 1..Horizon
        OBVIOUS
    <3>2. \A t \in later : t \in Nat
        BY <3>1
    <3> QED BY <3>2, Zenon
  <2>2. later # {}
      BY <1>1
  <2>3. Min(later) \in later
      BY <2>1, <2>2, MinIsLeast
  <2>4. next_run_ns(rule) = Min(later)
      BY <1>1 DEF next_run_ns
  <2>5. Min(later) \in 1..Horizon /\ Min(later) \in rule /\ Min(later) > now
      BY <2>3
  <2> QED BY <2>4, <2>5, AutomationsAssumption DEF Time
<1>2. CASE ~\E t \in rule : t > now
    BY <1>2 DEF next_run_ns
<1> QED BY <1>1, <1>2

LEMMA AutoInitIInv == AutoInit => AutoIInv
<1> SUFFICES ASSUME AutoInit PROVE AutoIInv
    OBVIOUS
<1> USE AutomationsAssumption DEF AutoInit
<1>1. AutoTypeOK
    BY DEF AutoTypeOK, NoRow, NoEdit, Time
<1>2. RowInv /\ ClaimInv /\ BatchInv /\ EditInv
    BY DEF RowInv, ClaimInv, BatchInv, EditInv, Stored, NoRow, NoEdit
<1>3. OccurrenceClaimedOnce /\ ScheduleFollowsRule
    BY DEF OccurrenceClaimedOnce, ScheduleFollowsRule, Stored, NoRow
<1> QED BY <1>1, <1>2, <1>3 DEF AutoIInv

EditType == [op : {"none", "create", "update", "toggle", "delete"}, auto : Automation \cup {None},
             rule : Rules \cup {{}}, active : BOOLEAN, next : Time \cup {None}]

(* A request that begins writes nothing but what it is about to write: it    *)
(* keeps the invariant if that is sound.                                    *)
LEMMA BeginKeeps ==
    ASSUME AutoIInv, NEW c \in Client, NEW request \in EditType, Begin(c, request), records' \subseteq Automation,
           request.op # "none", request.auto \in Automation,
           request.op = "create" => autos[request.auto].state = "unused" /\ \A d \in Client : edit[d].auto # request.auto,
           request.op # "create" => Stored(request.auto),
           request.op \in {"create", "update"} => request.rule \in Rules /\ request.next \in request.rule,
           request.op = "toggle" /\ request.next # None => request.next \in autos[request.auto].rule
    PROVE  AutoIInv'
<1>1. /\ AutoTypeOK /\ RowInv /\ ClaimInv /\ BatchInv /\ EditInv
      /\ OccurrenceClaimedOnce /\ ScheduleFollowsRule
    BY DEF AutoIInv
<1>2. /\ UNCHANGED <<postgres, now, autos, batch, jobs, autoFaults, taken, rearmed, doubled>>
      /\ edits' \in 0..MaxEdits
      /\ edit' = [edit EXCEPT ![c] = request]
      /\ crossed' = IF (Selected(request.auto) /\ ~postgres) \/ \E d \in Client : edit[d].auto = request.auto
                    THEN crossed \cup {request.auto} ELSE crossed
    BY <1>1, AutomationsAssumption DEF Begin, AutoTypeOK
<1>3. edit' \in [Client -> EditType] /\ edit'[c] = request /\ \A d \in Client \ {c} : edit'[d] = edit[d]
    BY <1>1, <1>2 DEF AutoTypeOK, EditType
<1>4. crossed \subseteq crossed' /\ crossed' \subseteq Automation
    BY <1>1, <1>2 DEF AutoTypeOK
<1>5. AutoTypeOK'
    BY <1>1, <1>2, <1>3, <1>4 DEF AutoTypeOK, EditType
<1>6. RowInv' /\ ClaimInv'
    BY <1>1, <1>2 DEF RowInv, ClaimInv, Stored
<1>7. BatchInv'
  <2>1. ASSUME NEW p \in Process, NEW row \in batch[p], row.auto \notin crossed'
        PROVE  /\ Stored(row.auto) => autos[row.auto].rule = row.rule
               /\ ~postgres => \A d \in Client : edit'[d].auto # row.auto
    <3>1. /\ Stored(row.auto) => autos[row.auto].rule = row.rule
          /\ ~postgres => \A d \in Client : edit[d].auto # row.auto
        BY <1>1, <1>4, <2>1 DEF BatchInv
    <3>2. ~postgres => request.auto # row.auto
        BY <1>2, <2>1 DEF Selected
    <3> QED BY <1>3, <3>1, <3>2
  <2> QED BY <1>1, <1>2, <2>1 DEF BatchInv, Stored
<1>8. EditInv'
  <2>1. ASSUME NEW d \in Client, edit'[d].auto = request.auto, d # c PROVE request.auto \in crossed'
      BY <1>2, <1>3, <2>1
  <2>2. ASSUME NEW d \in Client, NEW e \in Client, d # e,
               edit'[d].auto = edit'[e].auto, edit'[d].auto \in Automation \ crossed'
        PROVE  FALSE
      BY <1>1, <1>3, <1>4, <2>1, <2>2 DEF EditInv
  <2>3. ASSUME NEW d \in Client, edit'[d].op = "create", NEW e \in Client, edit'[e].auto = edit'[d].auto
        PROVE  e = d
    <3>1. CASE d = c
        BY <1>3, <2>3, <3>1
    <3>2. CASE e = c /\ d # c
      <4>1. edit[d].op = "create" /\ edit[d].auto = request.auto
          BY <1>3, <2>3, <3>2
      <4>2. autos[request.auto].state = "unused"
          BY <1>1, <4>1 DEF EditInv
      <4> QED BY <4>1, <4>2, <3>2 DEF Stored
    <3>3. CASE e # c /\ d # c
        BY <1>1, <1>3, <2>3, <3>3 DEF EditInv
    <3> QED BY <3>1, <3>2, <3>3
  <2> QED BY <1>1, <1>2, <1>3, <1>4, <2>2, <2>3 DEF EditInv, Stored
<1>9. OccurrenceClaimedOnce' /\ ScheduleFollowsRule'
    BY <1>1, <1>2, <1>4 DEF OccurrenceClaimedOnce, ScheduleFollowsRule, Stored
<1> QED BY <1>5, <1>6, <1>7, <1>8, <1>9 DEF AutoIInv

LEMMA AutoNextIInv == AutoIInv /\ [AutoNext]_autoVars => AutoIInv'
<1> SUFFICES ASSUME AutoIInv, [AutoNext]_autoVars PROVE AutoIInv'
    OBVIOUS
<1> USE AutomationsAssumption
<1>1. ASSUME TimePasses PROVE AutoIInv'
  <2>1. AutoTypeOK'
      BY <1>1 DEF AutoIInv, AutoTypeOK, TimePasses, Time
  <2>2. RowInv'
      BY <1>1 DEF AutoIInv, AutoTypeOK, RowInv, Stored, TimePasses, Time
  <2>3. ClaimInv'
      BY <1>1 DEF AutoIInv, AutoTypeOK, RowInv, ClaimInv, Stored, TimePasses, Time
  <2>4. BatchInv'
      BY <1>1 DEF AutoIInv, AutoTypeOK, BatchInv, Stored, TimePasses, Time
  <2>5. EditInv'
      BY <1>1 DEF AutoIInv, AutoTypeOK, EditInv, Stored, TimePasses, Time
  <2>6. OccurrenceClaimedOnce'
      BY <1>1 DEF AutoIInv, AutoTypeOK, OccurrenceClaimedOnce, TimePasses, Time
  <2>7. ScheduleFollowsRule'
      BY <1>1 DEF AutoIInv, AutoTypeOK, ScheduleFollowsRule, Stored, TimePasses, Time
  <2> QED BY <2>1, <2>2, <2>3, <2>4, <2>5, <2>6, <2>7 DEF AutoIInv
<1>2. ASSUME NEW p \in Process, NEW a \in Automation, Refused(p, a) PROVE AutoIInv'
  <2>1. AutoTypeOK'
      BY <1>2 DEF AutoIInv, AutoTypeOK, Refused, JobStep
  <2>2. RowInv'
      BY <1>2 DEF AutoIInv, AutoTypeOK, RowInv, Stored, Refused, JobStep
  <2>3. ClaimInv'
      BY <1>2 DEF AutoIInv, AutoTypeOK, RowInv, ClaimInv, Stored, Refused, JobStep
  <2>4. BatchInv'
      BY <1>2 DEF AutoIInv, AutoTypeOK, BatchInv, Stored, Refused, JobStep
  <2>5. EditInv'
      BY <1>2 DEF AutoIInv, AutoTypeOK, EditInv, Stored, Refused, JobStep
  <2>6. OccurrenceClaimedOnce'
      BY <1>2 DEF AutoIInv, AutoTypeOK, OccurrenceClaimedOnce, Refused, JobStep
  <2>7. ScheduleFollowsRule'
      BY <1>2 DEF AutoIInv, AutoTypeOK, ScheduleFollowsRule, Stored, Refused, JobStep
  <2> QED BY <2>1, <2>2, <2>3, <2>4, <2>5, <2>6, <2>7 DEF AutoIInv
<1>3. ASSUME NEW p \in Process, NEW a \in Automation, execute_automation(p, a) PROVE AutoIInv'
  <2>1. AutoTypeOK'
    <3>1. AutoTypeOK
        BY DEF AutoIInv
    <3>2. DOMAIN jobs' = Process \X Automation \X JobStep
        BY <1>3, <3>1 DEF execute_automation, AutoTypeOK
    <3>3. <<p, a, "started">> \in DOMAIN jobs /\ <<p, a, "chat">> \in DOMAIN jobs
          /\ <<p, a, "started">> # <<p, a, "chat">>
        BY <3>1 DEF AutoTypeOK, JobStep
    <3>4. ASSUME NEW j \in DOMAIN jobs PROVE jobs'[j] \in Nat
      <4>1. CASE j = <<p, a, "started">>
          BY <1>3, <3>1, <3>3, <4>1 DEF execute_automation, AutoTypeOK
      <4>2. CASE j = <<p, a, "chat">>
          BY <1>3, <3>1, <3>3, <4>2 DEF execute_automation, AutoTypeOK
      <4>3. CASE j # <<p, a, "started">> /\ j # <<p, a, "chat">>
          BY <1>3, <3>1, <4>3 DEF execute_automation, AutoTypeOK
      <4> QED BY <4>1, <4>2, <4>3
    <3>5. UNCHANGED <<postgres, now, autos, batch, edit, records, edits, autoFaults, taken, rearmed, doubled, crossed>>
        BY <1>3 DEF execute_automation
    <3> QED BY <3>1, <3>2, <3>4, <3>5 DEF AutoTypeOK
  <2>2. RowInv'
      BY <1>3 DEF AutoIInv, AutoTypeOK, RowInv, Stored, execute_automation, JobStep
  <2>3. ClaimInv'
      BY <1>3 DEF AutoIInv, AutoTypeOK, RowInv, ClaimInv, Stored, execute_automation, JobStep
  <2>4. BatchInv'
      BY <1>3 DEF AutoIInv, AutoTypeOK, BatchInv, Stored, execute_automation, JobStep
  <2>5. EditInv'
      BY <1>3 DEF AutoIInv, AutoTypeOK, EditInv, Stored, execute_automation, JobStep
  <2>6. OccurrenceClaimedOnce'
      BY <1>3 DEF AutoIInv, AutoTypeOK, OccurrenceClaimedOnce, execute_automation, JobStep
  <2>7. ScheduleFollowsRule'
      BY <1>3 DEF AutoIInv, AutoTypeOK, ScheduleFollowsRule, Stored, execute_automation, JobStep
  <2> QED BY <2>1, <2>2, <2>3, <2>4, <2>5, <2>6, <2>7 DEF AutoIInv
<1>4. ASSUME NEW p \in Process, NEW a \in Automation, record_run(p, a) PROVE AutoIInv'
  <2>1. AutoTypeOK'
      BY <1>4 DEF AutoIInv, AutoTypeOK, record_run, JobStep
  <2>2. RowInv'
      BY <1>4 DEF AutoIInv, AutoTypeOK, RowInv, Stored, record_run, JobStep
  <2>3. ClaimInv'
      BY <1>4 DEF AutoIInv, AutoTypeOK, RowInv, ClaimInv, Stored, record_run, JobStep
  <2>4. BatchInv'
      BY <1>4 DEF AutoIInv, AutoTypeOK, BatchInv, Stored, record_run, JobStep
  <2>5. EditInv'
      BY <1>4 DEF AutoIInv, AutoTypeOK, EditInv, Stored, record_run, JobStep
  <2>6. OccurrenceClaimedOnce'
      BY <1>4 DEF AutoIInv, AutoTypeOK, OccurrenceClaimedOnce, record_run, JobStep
  <2>7. ScheduleFollowsRule'
      BY <1>4 DEF AutoIInv, AutoTypeOK, ScheduleFollowsRule, Stored, record_run, JobStep
  <2> QED BY <2>1, <2>2, <2>3, <2>4, <2>5, <2>6, <2>7 DEF AutoIInv
<1>5. ASSUME NEW p \in Process, ClaimSelect(p) PROVE AutoIInv'
  <2>1. AutoTypeOK'
      BY <1>5 DEF AutoIInv, AutoTypeOK, ClaimSelect, ClaimFrom, Due, Stored, RowInv
  <2>2. RowInv'
      BY <1>5 DEF AutoIInv, AutoTypeOK, RowInv, Stored, ClaimSelect, ClaimFrom, Due
  <2>3. ClaimInv'
      BY <1>5 DEF AutoIInv, AutoTypeOK, RowInv, ClaimInv, Stored, ClaimSelect, ClaimFrom, Due
  <2>4. BatchInv'
      BY <1>5 DEF AutoIInv, AutoTypeOK, BatchInv, Stored, ClaimSelect, ClaimFrom, Due, Locked, Selected, EditInv
  <2>5. EditInv'
      BY <1>5 DEF AutoIInv, AutoTypeOK, EditInv, Stored, ClaimSelect, ClaimFrom, Due
  <2>6. OccurrenceClaimedOnce'
      BY <1>5 DEF AutoIInv, AutoTypeOK, OccurrenceClaimedOnce, ClaimSelect, ClaimFrom, Due, Stored
  <2>7. ScheduleFollowsRule'
      BY <1>5 DEF AutoIInv, AutoTypeOK, ScheduleFollowsRule, Stored, ClaimSelect, ClaimFrom, Due
  <2> QED BY <2>1, <2>2, <2>3, <2>4, <2>5, <2>6, <2>7 DEF AutoIInv
<1>6. ASSUME NEW p \in Process, claim_due(p) PROVE AutoIInv'
  <2>1. /\ AutoTypeOK /\ RowInv /\ ClaimInv /\ BatchInv /\ EditInv
        /\ OccurrenceClaimedOnce /\ ScheduleFollowsRule
      BY DEF AutoIInv
  <2>2. /\ batch[p] # {} /\ batch' = [batch EXCEPT ![p] = {}]
        /\ UNCHANGED <<postgres, now, edit, records, edits, autoFaults, rearmed, crossed>>
      BY <1>6 DEF claim_due, Claimed
  <2>3. CASE \A row \in batch[p] : Stored(row.auto)
    <3> DEFINE of(a) == CHOOSE row \in batch[p] : row.auto = a
               occurrences == {<<row.auto, row.next>> : row \in batch[p]}
    <3>1. /\ autos' = [a \in Automation |-> IF \E row \in batch[p] : row.auto = a
                          THEN [autos[a] EXCEPT !.next = next_run_ns(of(a).rule)] ELSE autos[a]]
          /\ jobs' = [j \in DOMAIN jobs |->
                IF j[1] = p /\ j[3] = "started" /\ \E row \in batch[p] : row.auto = j[2]
                THEN jobs[j] + 1 ELSE jobs[j]]
          /\ taken' = taken \cup occurrences
          /\ doubled' = doubled \cup (taken \cap occurrences)
        BY <1>6, <2>3 DEF claim_due, Claimed
    <3>2. \A row \in batch[p] : /\ row \in [auto : Automation, rule : Rules, next : Time]
                                /\ autos[row.auto].state = "stored" /\ autos[row.auto].rule \in Rules
        BY <2>1, <2>3 DEF AutoTypeOK, RowInv, Stored
    <3>3. \A row \in batch[p] : /\ next_run_ns(row.rule) \in Time \cup {None}
                                /\ next_run_ns(row.rule) # None => next_run_ns(row.rule) \in row.rule /\ next_run_ns(row.rule) > now
      <4>1. \A row \in batch[p] : row.rule \in SUBSET (1..Horizon)
          BY <3>2
      <4> QED BY <4>1, <2>1, NextOccurrence
    <3>4. \A a \in Automation :
             \/ autos'[a] = autos[a] /\ \A row \in batch[p] : row.auto # a
             \/ \E row \in batch[p] : row.auto = a /\ autos'[a] = [autos[a] EXCEPT !.next = next_run_ns(row.rule)]
      <4> SUFFICES ASSUME NEW a \in Automation, \E row \in batch[p] : row.auto = a
                   PROVE  \E row \in batch[p] : row.auto = a /\ autos'[a] = [autos[a] EXCEPT !.next = next_run_ns(row.rule)]
          BY <3>1
      <4>1. of(a) \in batch[p] /\ of(a).auto = a
          OBVIOUS
      <4> HIDE DEF of
      <4> QED BY <3>1, <4>1
    <3>5. \A a \in Automation :
             /\ autos'[a] \in [state : {"unused", "stored", "deleted"}, rule : Rules \cup {{}},
                               active : BOOLEAN, next : Time \cup {None}]
             /\ autos'[a].state = autos[a].state /\ autos'[a].rule = autos[a].rule
             /\ autos'[a].next # autos[a].next => autos'[a].next = None \/ autos'[a].next > now
      <4> SUFFICES ASSUME NEW a \in Automation, NEW row \in batch[p],
                          autos'[a] = [autos[a] EXCEPT !.next = next_run_ns(row.rule)]
                   PROVE  /\ autos'[a] \in [state : {"unused", "stored", "deleted"}, rule : Rules \cup {{}},
                                            active : BOOLEAN, next : Time \cup {None}]
                          /\ autos'[a].state = autos[a].state /\ autos'[a].rule = autos[a].rule
                          /\ autos'[a].next # autos[a].next => autos'[a].next = None \/ autos'[a].next > now
          BY <2>1, <3>4 DEF AutoTypeOK
      <4> QED BY <2>1, <3>3 DEF AutoTypeOK
    <3>6. AutoTypeOK'
      <4>1. autos' \in [Automation -> [state : {"unused", "stored", "deleted"}, rule : Rules \cup {{}},
                           active : BOOLEAN, next : Time \cup {None}]]
          BY <3>1, <3>5
      <4>2. batch' \in [Process -> SUBSET [auto : Automation, rule : Rules, next : Time]]
          BY <2>1, <2>2 DEF AutoTypeOK
      <4>3. DOMAIN jobs' = Process \X Automation \X JobStep /\ \A j \in DOMAIN jobs' : jobs'[j] \in Nat
          BY <2>1, <3>1 DEF AutoTypeOK
      <4>4. taken' \subseteq Automation \X Time /\ rearmed' \subseteq taken' /\ doubled' \subseteq taken'
          BY <2>1, <2>2, <3>1, <3>2 DEF AutoTypeOK
      <4> QED BY <2>1, <2>2, <4>1, <4>2, <4>3, <4>4 DEF AutoTypeOK, Time
    <3>7. RowInv'
        BY <2>1, <2>2, <3>1, <3>2, <3>5 DEF RowInv, Stored, AutoTypeOK
    <3>8. ClaimInv'
      <4>1. \A x \in taken' : x[2] <= now
          BY <2>1, <3>1 DEF ClaimInv
      <4>2. ASSUME NEW a \in Automation, Stored(a)', <<a, autos'[a].next>> \in taken'
            PROVE  <<a, autos'[a].next>> \in rearmed
        <5>1. CASE autos'[a] = autos[a] /\ \A row \in batch[p] : row.auto # a
            BY <2>1, <3>1, <4>2, <5>1 DEF ClaimInv, Stored
        <5>2. CASE \E row \in batch[p] : row.auto = a /\ autos'[a] = [autos[a] EXCEPT !.next = next_run_ns(row.rule)]
          <6>1. autos'[a].next <= now
              BY <4>1, <4>2
          <6>2. autos'[a].next \in Nat
              BY <3>6, <4>2 DEF AutoTypeOK, Time
          <6>3. PICK row \in batch[p] : autos'[a].next = next_run_ns(row.rule)
              BY <2>1, <5>2 DEF AutoTypeOK
          <6>4. autos'[a].next > now
              BY <3>3, <6>2, <6>3
          <6> QED BY <2>1, <6>1, <6>2, <6>4 DEF AutoTypeOK, Time
        <5> QED BY <3>4, <5>1, <5>2
      <4>3. \A q \in Process : \A row \in batch'[q] :
               row.next <= now /\ (<<row.auto, row.next>> \in taken' => <<row.auto, row.next>> \in rearmed)
        <5> SUFFICES ASSUME NEW q \in Process, NEW row \in batch'[q]
                     PROVE  row.next <= now /\ (<<row.auto, row.next>> \in taken' => <<row.auto, row.next>> \in rearmed)
            OBVIOUS
        <5>1. q # p /\ row \in batch[q]
            BY <2>1, <2>2 DEF AutoTypeOK
        <5>2. \A s \in batch[p] : s.auto # row.auto
            BY <2>1, <5>1 DEF BatchInv
        <5> QED BY <2>1, <3>1, <5>1, <5>2 DEF ClaimInv
      <4> QED BY <2>2, <4>1, <4>2, <4>3 DEF ClaimInv
    <3>9. BatchInv'
        BY <2>1, <2>2, <3>2, <3>5 DEF BatchInv, Stored, AutoTypeOK
    <3>10. EditInv'
        BY <2>1, <2>2, <3>5 DEF EditInv, Stored
    <3>11. OccurrenceClaimedOnce'
        BY <2>1, <2>2, <3>1 DEF OccurrenceClaimedOnce, ClaimInv
    <3>12. ScheduleFollowsRule'
      <4> SUFFICES ASSUME NEW a \in Automation \ crossed, Stored(a)', autos'[a].next # None
                   PROVE  autos'[a].next \in autos'[a].rule
          BY <2>2 DEF ScheduleFollowsRule
      <4>1. CASE autos'[a] = autos[a]
          BY <2>1, <4>1 DEF ScheduleFollowsRule, Stored
      <4>2. ASSUME NEW row \in batch[p], row.auto = a, autos'[a] = [autos[a] EXCEPT !.next = next_run_ns(row.rule)]
            PROVE  autos'[a].next \in autos'[a].rule
        <5>1. autos'[a].next = next_run_ns(row.rule) /\ Stored(a)
            BY <2>1, <3>2, <4>2 DEF AutoTypeOK, Stored
        <5>2. autos'[a].rule = row.rule
            BY <2>1, <3>5, <4>2, <5>1 DEF BatchInv
        <5> QED BY <3>3, <5>1, <5>2
      <4> QED BY <3>4, <4>1, <4>2
    <3> QED BY <3>6, <3>7, <3>8, <3>9, <3>10, <3>11, <3>12 DEF AutoIInv
  <2>4. CASE ~\A row \in batch[p] : Stored(row.auto)
    <3>1. UNCHANGED <<autos, jobs, taken, doubled>>
        BY <1>6, <2>4 DEF claim_due, Claimed
    <3>2. \A q \in Process : batch'[q] \subseteq batch[q]
        BY <2>1, <2>2 DEF AutoTypeOK
    <3>3. AutoTypeOK'
        BY <2>1, <2>2, <3>1 DEF AutoTypeOK
    <3>4. RowInv' /\ ClaimInv' /\ BatchInv' /\ EditInv'
        BY <2>1, <2>2, <3>1, <3>2 DEF RowInv, ClaimInv, BatchInv, EditInv, Stored
    <3>5. OccurrenceClaimedOnce' /\ ScheduleFollowsRule'
        BY <2>1, <2>2, <3>1 DEF OccurrenceClaimedOnce, ScheduleFollowsRule, Stored
    <3> QED BY <3>3, <3>4, <3>5 DEF AutoIInv
  <2> QED BY <2>3, <2>4
<1>7. ASSUME NEW p \in Process, ProcessDies(p) PROVE AutoIInv'
  <2>1. AutoTypeOK'
      BY <1>7 DEF AutoIInv, AutoTypeOK, ProcessDies, JobStep
  <2>2. RowInv'
      BY <1>7 DEF AutoIInv, AutoTypeOK, RowInv, Stored, ProcessDies, JobStep
  <2>3. ClaimInv'
      BY <1>7 DEF AutoIInv, AutoTypeOK, RowInv, ClaimInv, Stored, ProcessDies, JobStep
  <2>4. BatchInv'
      BY <1>7 DEF AutoIInv, AutoTypeOK, BatchInv, Stored, ProcessDies, JobStep
  <2>5. EditInv'
      BY <1>7 DEF AutoIInv, AutoTypeOK, EditInv, Stored, ProcessDies, JobStep
  <2>6. OccurrenceClaimedOnce'
      BY <1>7 DEF AutoIInv, AutoTypeOK, OccurrenceClaimedOnce, ProcessDies, JobStep
  <2>7. ScheduleFollowsRule'
      BY <1>7 DEF AutoIInv, AutoTypeOK, ScheduleFollowsRule, Stored, ProcessDies, JobStep
  <2> QED BY <2>1, <2>2, <2>3, <2>4, <2>5, <2>6, <2>7 DEF AutoIInv
<1>8. ASSUME NEW p \in Process, NEW a \in Automation, run_automation_by_id(p, a) PROVE AutoIInv'
  <2>1. AutoTypeOK'
      BY <1>8 DEF AutoIInv, AutoTypeOK, run_automation_by_id, JobStep
  <2>2. RowInv'
      BY <1>8 DEF AutoIInv, AutoTypeOK, RowInv, Stored, run_automation_by_id, JobStep
  <2>3. ClaimInv'
      BY <1>8 DEF AutoIInv, AutoTypeOK, RowInv, ClaimInv, Stored, run_automation_by_id, JobStep
  <2>4. BatchInv'
      BY <1>8 DEF AutoIInv, AutoTypeOK, BatchInv, Stored, run_automation_by_id, JobStep
  <2>5. EditInv'
      BY <1>8 DEF AutoIInv, AutoTypeOK, EditInv, Stored, run_automation_by_id, JobStep
  <2>6. OccurrenceClaimedOnce'
      BY <1>8 DEF AutoIInv, AutoTypeOK, OccurrenceClaimedOnce, run_automation_by_id, JobStep
  <2>7. ScheduleFollowsRule'
      BY <1>8 DEF AutoIInv, AutoTypeOK, ScheduleFollowsRule, Stored, run_automation_by_id, JobStep
  <2> QED BY <2>1, <2>2, <2>3, <2>4, <2>5, <2>6, <2>7 DEF AutoIInv
<1>9. ASSUME NEW c \in Client, NEW a \in Automation, NEW rule \in Rules, NEW active \in BOOLEAN, create_new_automation(c, a, rule, active) PROVE AutoIInv'
  <2> DEFINE request == [op |-> "create", auto |-> a, rule |-> rule, active |-> active, next |-> next_run_ns(rule)]
  <2>1. AutoTypeOK /\ rule \in SUBSET (1..Horizon)
      BY DEF AutoIInv
  <2>2. next_run_ns(rule) \in Time \cup {None} /\ next_run_ns(rule) # None
      BY <1>9, <2>1, NextOccurrence DEF create_new_automation
  <2>3. request \in EditType /\ request.next \in request.rule
      BY <2>1, <2>2, NextOccurrence DEF EditType
  <2>4. Begin(c, request) /\ records' \subseteq Automation
      BY <1>9, <2>1 DEF create_new_automation, AutoTypeOK
  <2>5. autos[a].state = "unused" /\ \A d \in Client : edit[d].auto # a
      BY <1>9 DEF create_new_automation
  <2> QED BY <2>3, <2>4, <2>5, BeginKeeps
<1>10. ASSUME NEW c \in Client, NEW a \in Automation, NEW rule \in Rules, NEW active \in BOOLEAN, update_automation_by_id(c, a, rule, active) PROVE AutoIInv'
  <2> DEFINE request == [op |-> "update", auto |-> a, rule |-> rule, active |-> active, next |-> next_run_ns(rule)]
  <2>1. AutoTypeOK /\ rule \in SUBSET (1..Horizon)
      BY DEF AutoIInv
  <2>2. next_run_ns(rule) \in Time \cup {None} /\ next_run_ns(rule) # None
      BY <1>10, <2>1, NextOccurrence DEF update_automation_by_id
  <2>3. request \in EditType /\ request.next \in request.rule
      BY <2>1, <2>2, NextOccurrence DEF EditType
  <2>4. Begin(c, request) /\ records' \subseteq Automation /\ Stored(a)
      BY <1>10, <2>1 DEF update_automation_by_id, AutoTypeOK
  <2> QED BY <2>3, <2>4, BeginKeeps
<1>11. ASSUME NEW c \in Client, NEW a \in Automation, toggle_automation_by_id(c, a) PROVE AutoIInv'
  <2> DEFINE request == [NoEdit EXCEPT !.op = "toggle", !.auto = a, !.next = next_run_ns(autos[a].rule)]
  <2>1. AutoTypeOK /\ autos[a].rule \in SUBSET (1..Horizon)
      BY DEF AutoIInv, AutoTypeOK
  <2>2. next_run_ns(autos[a].rule) \in Time \cup {None}
      BY <2>1, NextOccurrence
  <2>3. request \in EditType /\ request.op = "toggle" /\ request.auto = a
        /\ request.next = next_run_ns(autos[a].rule)
      BY <2>2 DEF EditType, NoEdit
  <2>4. request.next # None => request.next \in autos[a].rule
      BY <2>1, <2>3, NextOccurrence
  <2>5. Begin(c, request) /\ records' \subseteq Automation /\ Stored(a)
      BY <1>11, <2>1 DEF toggle_automation_by_id, AutoTypeOK
  <2> HIDE DEF request
  <2> QED BY <2>3, <2>4, <2>5, BeginKeeps
<1>12. ASSUME NEW c \in Client, NEW a \in Automation, delete_automation_by_id(c, a) PROVE AutoIInv'
  <2> DEFINE request == [NoEdit EXCEPT !.op = "delete", !.auto = a]
  <2>1. AutoTypeOK
      BY DEF AutoIInv
  <2>2. request \in EditType /\ request.op = "delete" /\ request.auto = a
      BY DEF EditType, NoEdit
  <2>3. Begin(c, request) /\ records' \subseteq Automation /\ Stored(a)
      BY <1>12, <2>1 DEF delete_automation_by_id, AutoTypeOK
  <2> HIDE DEF request
  <2> QED BY <2>2, <2>3, BeginKeeps
<1>13. ASSUME NEW c \in Client, insert(c) PROVE AutoIInv'
  <2>1. AutoTypeOK'
      BY <1>13 DEF AutoIInv, AutoTypeOK, insert, Commit, Rearm, NoEdit, NoRow, EditInv, Locked, Selected
  <2>2. RowInv'
      BY <1>13 DEF AutoIInv, AutoTypeOK, RowInv, Stored, insert, Commit, Rearm, NoEdit, NoRow, EditInv, Locked, Selected
  <2>3. ClaimInv'
      BY <1>13 DEF AutoIInv, AutoTypeOK, RowInv, ClaimInv, Stored, insert, Commit, Rearm, NoEdit, NoRow, EditInv, Locked, Selected
  <2>4. BatchInv'
      BY <1>13 DEF AutoIInv, AutoTypeOK, BatchInv, Stored, insert, Commit, Rearm, NoEdit, NoRow, RowInv, EditInv, Locked, Selected
  <2>5. EditInv'
      BY <1>13 DEF AutoIInv, AutoTypeOK, EditInv, Stored, insert, Commit, Rearm, NoEdit, NoRow
  <2>6. OccurrenceClaimedOnce'
      BY <1>13 DEF AutoIInv, AutoTypeOK, OccurrenceClaimedOnce, insert, Commit, Rearm, NoEdit, NoRow
  <2>7. ScheduleFollowsRule'
      BY <1>13 DEF AutoIInv, AutoTypeOK, ScheduleFollowsRule, Stored, insert, Commit, Rearm, NoEdit, NoRow, EditInv, Locked, Selected
  <2> QED BY <2>1, <2>2, <2>3, <2>4, <2>5, <2>6, <2>7 DEF AutoIInv
<1>14. ASSUME NEW c \in Client, update_by_id(c) PROVE AutoIInv'
  <2>1. AutoTypeOK'
    <3>1. edit[c] \in EditType /\ edit[c].auto \in Automation /\ AutoTypeOK
        BY <1>14 DEF AutoIInv, AutoTypeOK, EditInv, EditType, update_by_id
    <3>2. CASE Stored(edit[c].auto)
      <4>1. autos' \in [Automation -> [state : {"unused", "stored", "deleted"}, rule : Rules \cup {{}},
                           active : BOOLEAN, next : Time \cup {None}]]
          BY <1>14, <3>1, <3>2 DEF AutoTypeOK, EditType, update_by_id
      <4>2. edit' \in [Client -> EditType]
          BY <1>14, <3>1 DEF AutoTypeOK, EditType, update_by_id, Commit, NoEdit
      <4>3. rearmed' \subseteq taken' /\ taken' = taken
          BY <1>14, <3>1, <3>2 DEF AutoTypeOK, update_by_id, Commit, Rearm
      <4> QED BY <1>14, <3>1, <4>1, <4>2, <4>3 DEF AutoTypeOK, EditType, update_by_id, Commit
    <3>3. CASE ~Stored(edit[c].auto)
        BY <1>14, <3>1, <3>3 DEF AutoTypeOK, EditType, update_by_id, Commit, NoEdit
    <3> QED BY <3>2, <3>3
  <2>2. RowInv'
      BY <1>14 DEF AutoIInv, AutoTypeOK, RowInv, Stored, update_by_id, Commit, Rearm, NoEdit, NoRow, EditInv, Locked, Selected
  <2>3. ClaimInv'
      BY <1>14 DEF AutoIInv, AutoTypeOK, RowInv, ClaimInv, Stored, update_by_id, Commit, Rearm, NoEdit, NoRow, EditInv, Locked, Selected
  <2>4. BatchInv'
    <3>1. /\ AutoTypeOK /\ BatchInv /\ EditInv
          /\ edit[c].op = "update" /\ edit[c].auto \in Automation /\ ~Locked(edit[c].auto)
          /\ UNCHANGED <<postgres, batch, crossed>>
        BY <1>14 DEF AutoIInv, EditInv, update_by_id, Commit
    <3>2. \A a \in Automation : a # edit[c].auto => autos'[a] = autos[a]
        BY <1>14, <3>1 DEF AutoTypeOK, update_by_id
    <3>3. \A d \in Client : edit'[d].auto \in {edit[d].auto, None}
        BY <1>14, <3>1 DEF AutoTypeOK, update_by_id, Commit, NoEdit
    <3>4. ASSUME NEW q \in Process, NEW row \in batch[q], row.auto \notin crossed
          PROVE  /\ Stored(row.auto)' => autos'[row.auto].rule = row.rule
                 /\ ~postgres => \A d \in Client : edit'[d].auto # row.auto
      <4>1. row.auto \in Automation
          BY <3>1 DEF AutoTypeOK
      <4>2. row.auto # edit[c].auto
          BY <3>1, <3>4 DEF BatchInv, Locked, Selected
      <4>3. autos'[row.auto] = autos[row.auto]
          BY <3>2, <4>1, <4>2
      <4>4. ~postgres => \A d \in Client : edit[d].auto # row.auto
          BY <3>1, <3>4 DEF BatchInv
      <4>5. row.auto # None
          BY <4>1
      <4> QED BY <3>1, <3>3, <3>4, <4>3, <4>4, <4>5 DEF BatchInv, Stored
    <3> QED BY <3>1, <3>4 DEF BatchInv
  <2>5. EditInv'
      BY <1>14 DEF AutoIInv, AutoTypeOK, EditInv, Stored, update_by_id, Commit, Rearm, NoEdit, NoRow
  <2>6. OccurrenceClaimedOnce'
      BY <1>14 DEF AutoIInv, AutoTypeOK, OccurrenceClaimedOnce, update_by_id, Commit, Rearm, NoEdit, NoRow
  <2>7. ScheduleFollowsRule'
      BY <1>14 DEF AutoIInv, AutoTypeOK, ScheduleFollowsRule, Stored, update_by_id, Commit, Rearm, NoEdit, NoRow, EditInv, Locked, Selected
  <2> QED BY <2>1, <2>2, <2>3, <2>4, <2>5, <2>6, <2>7 DEF AutoIInv
<1>15. ASSUME NEW c \in Client, toggle(c) PROVE AutoIInv'
  <2>1. AutoTypeOK'
    <3>1. edit[c] \in EditType /\ edit[c].auto \in Automation /\ AutoTypeOK
        BY <1>15 DEF AutoIInv, AutoTypeOK, EditInv, EditType, toggle
    <3>2. CASE Stored(edit[c].auto)
      <4>1. autos' \in [Automation -> [state : {"unused", "stored", "deleted"}, rule : Rules \cup {{}},
                           active : BOOLEAN, next : Time \cup {None}]]
        <5> DEFINE e == edit[c].auto
                   on == ~autos[e].active
                   next == IF on THEN edit[c].next ELSE None
        <5>1. on \in BOOLEAN /\ next \in Time \cup {None}
            BY <3>1 DEF AutoTypeOK, EditType
        <5>2. autos' = [autos EXCEPT ![e].active = on, ![e].next = next]
            BY <1>15, <3>2 DEF toggle
        <5> HIDE DEF on, next
        <5> QED BY <3>1, <5>1, <5>2 DEF AutoTypeOK
      <4>2. edit' \in [Client -> EditType]
          BY <1>15, <3>1 DEF AutoTypeOK, EditType, toggle, Commit, NoEdit
      <4>3. rearmed' \subseteq taken' /\ taken' = taken
        <5>1. rearmed' \in {rearmed, rearmed \cup {<<edit[c].auto, edit[c].next>>}}
              /\ (rearmed' # rearmed => <<edit[c].auto, edit[c].next>> \in taken) /\ taken' = taken
            BY <1>15, <3>2 DEF toggle, Commit, Rearm
        <5> QED BY <3>1, <5>1 DEF AutoTypeOK
      <4> QED BY <1>15, <3>1, <4>1, <4>2, <4>3 DEF AutoTypeOK, EditType, toggle, Commit
    <3>3. CASE ~Stored(edit[c].auto)
        BY <1>15, <3>1, <3>3 DEF AutoTypeOK, EditType, toggle, Commit, NoEdit
    <3> QED BY <3>2, <3>3
  <2>2. RowInv'
    <3>1. \A a \in Automation : autos'[a].state = autos[a].state /\ autos'[a].rule = autos[a].rule
        BY <1>15 DEF AutoIInv, AutoTypeOK, EditInv, toggle
    <3>2. UNCHANGED <<taken, batch>>
        BY <1>15 DEF toggle, Commit
    <3> QED BY <3>1, <3>2 DEF AutoIInv, RowInv, Stored
  <2>3. ClaimInv'
      BY <1>15 DEF AutoIInv, AutoTypeOK, RowInv, ClaimInv, Stored, toggle, Commit, Rearm, NoEdit, NoRow, EditInv, Locked, Selected
  <2>4. BatchInv'
    <3>1. /\ AutoTypeOK /\ BatchInv /\ EditInv
          /\ edit[c].op = "toggle" /\ edit[c].auto \in Automation /\ ~Locked(edit[c].auto)
          /\ UNCHANGED <<postgres, batch, crossed>>
        BY <1>15 DEF AutoIInv, EditInv, toggle, Commit
    <3>2. \A a \in Automation : a # edit[c].auto => autos'[a] = autos[a]
        BY <1>15, <3>1 DEF AutoTypeOK, toggle
    <3>3. \A d \in Client : edit'[d].auto \in {edit[d].auto, None}
        BY <1>15, <3>1 DEF AutoTypeOK, toggle, Commit, NoEdit
    <3>4. ASSUME NEW q \in Process, NEW row \in batch[q], row.auto \notin crossed
          PROVE  /\ Stored(row.auto)' => autos'[row.auto].rule = row.rule
                 /\ ~postgres => \A d \in Client : edit'[d].auto # row.auto
      <4>1. row.auto \in Automation
          BY <3>1 DEF AutoTypeOK
      <4>2. row.auto # edit[c].auto
          BY <3>1, <3>4 DEF BatchInv, Locked, Selected
      <4>3. autos'[row.auto] = autos[row.auto]
          BY <3>2, <4>1, <4>2
      <4>4. ~postgres => \A d \in Client : edit[d].auto # row.auto
          BY <3>1, <3>4 DEF BatchInv
      <4>5. row.auto # None
          BY <4>1
      <4> QED BY <3>1, <3>3, <3>4, <4>3, <4>4, <4>5 DEF BatchInv, Stored
    <3> QED BY <3>1, <3>4 DEF BatchInv
  <2>5. EditInv'
      BY <1>15 DEF AutoIInv, AutoTypeOK, EditInv, Stored, toggle, Commit, Rearm, NoEdit, NoRow
  <2>6. OccurrenceClaimedOnce'
      BY <1>15 DEF AutoIInv, AutoTypeOK, OccurrenceClaimedOnce, toggle, Commit, Rearm, NoEdit, NoRow
  <2>7. ScheduleFollowsRule'
      BY <1>15 DEF AutoIInv, AutoTypeOK, ScheduleFollowsRule, Stored, toggle, Commit, Rearm, NoEdit, NoRow, EditInv, Locked, Selected
  <2> QED BY <2>1, <2>2, <2>3, <2>4, <2>5, <2>6, <2>7 DEF AutoIInv
<1>16. ASSUME NEW c \in Client, delete(c) PROVE AutoIInv'
  <2>1. AutoTypeOK'
      BY <1>16 DEF AutoIInv, AutoTypeOK, delete, Commit, Rearm, NoEdit, NoRow, EditInv, Locked, Selected
  <2>2. RowInv'
      BY <1>16 DEF AutoIInv, AutoTypeOK, RowInv, Stored, delete, Commit, Rearm, NoEdit, NoRow, EditInv, Locked, Selected
  <2>3. ClaimInv'
      BY <1>16 DEF AutoIInv, AutoTypeOK, RowInv, ClaimInv, Stored, delete, Commit, Rearm, NoEdit, NoRow, EditInv, Locked, Selected
  <2>4. BatchInv'
    <3>1. /\ AutoTypeOK /\ BatchInv /\ EditInv
          /\ edit[c].op = "delete" /\ edit[c].auto \in Automation /\ ~Locked(edit[c].auto)
          /\ UNCHANGED <<postgres, batch, crossed>>
        BY <1>16 DEF AutoIInv, EditInv, delete, Commit
    <3>2. \A a \in Automation : a # edit[c].auto => autos'[a] = autos[a]
        BY <1>16, <3>1 DEF AutoTypeOK, delete
    <3>3. \A d \in Client : edit'[d].auto \in {edit[d].auto, None}
        BY <1>16, <3>1 DEF AutoTypeOK, delete, Commit, NoEdit
    <3>4. ASSUME NEW q \in Process, NEW row \in batch[q], row.auto \notin crossed
          PROVE  /\ Stored(row.auto)' => autos'[row.auto].rule = row.rule
                 /\ ~postgres => \A d \in Client : edit'[d].auto # row.auto
      <4>1. row.auto \in Automation
          BY <3>1 DEF AutoTypeOK
      <4>2. row.auto # edit[c].auto
          BY <3>1, <3>4 DEF BatchInv, Locked, Selected
      <4>3. autos'[row.auto] = autos[row.auto]
          BY <3>2, <4>1, <4>2
      <4>4. ~postgres => \A d \in Client : edit[d].auto # row.auto
          BY <3>1, <3>4 DEF BatchInv
      <4>5. row.auto # None
          BY <4>1
      <4> QED BY <3>1, <3>3, <3>4, <4>3, <4>4, <4>5 DEF BatchInv, Stored
    <3> QED BY <3>1, <3>4 DEF BatchInv
  <2>5. EditInv'
      BY <1>16 DEF AutoIInv, AutoTypeOK, EditInv, Stored, delete, Commit, Rearm, NoEdit, NoRow
  <2>6. OccurrenceClaimedOnce'
      BY <1>16 DEF AutoIInv, AutoTypeOK, OccurrenceClaimedOnce, delete, Commit, Rearm, NoEdit, NoRow
  <2>7. ScheduleFollowsRule'
      BY <1>16 DEF AutoIInv, AutoTypeOK, ScheduleFollowsRule, Stored, delete, Commit, Rearm, NoEdit, NoRow, EditInv, Locked, Selected
  <2> QED BY <2>1, <2>2, <2>3, <2>4, <2>5, <2>6, <2>7 DEF AutoIInv
<1>17. ASSUME UNCHANGED autoVars PROVE AutoIInv'
    BY <1>17 DEF AutoIInv, autoVars, AutoTypeOK, RowInv, ClaimInv, BatchInv, EditInv, OccurrenceClaimedOnce, ScheduleFollowsRule, Stored
<1> QED BY <1>1, <1>2, <1>3, <1>4, <1>5, <1>6, <1>7, <1>8, <1>9, <1>10, <1>11, <1>12, <1>13, <1>14, <1>15, <1>16, <1>17 DEF AutoNext, Execution, Write

-----------------------------------------------------------------------------
(* Sub-agents                                                              *)

(* The slots of the semaphore of a process: at work, and lost. *)
AtWork(p) == Holders(p, "foreground")
Gone(p) == {d \in lost : act[d].mode = "foreground" /\ At(d) = p}

SubSteps == {"off", "respond", "create", "acquire", "begin", "run", "deliver", "store", "check",
             "wait", "lock", "commit", "handler", "end"}

ActType == [step : SubSteps, at : Process \cup {None}, mode : {"none", "foreground", "background"}]

SubTypes ==
    /\ semaphore \in [Process -> [size : Concurrency \cup {None}, free : Nat]]
    /\ async \in [Process -> SUBSET Deleg]
    /\ act \in [Actor -> ActType]
    /\ inbox \in [Deleg -> {"none", "pending", "fresh", "answered"}]
    /\ lock \in [Process -> Actor \cup {None}]
    /\ lost \subseteq Deleg
    /\ answers \in [Deleg -> Nat]

(* Who has left "off" is in a process; who waits for a slot, has one or lost  *)
(* one was started by delegate, and nobody comes back from losing it.        *)
ActInv ==
    \A a \in Actor :
        /\ act[a].step # "off" => act[a].at \in Process
        /\ act[a].step = "acquire" => act[a].mode = "foreground"
        /\ act[a].step \in Holding => act[a].mode \in {"foreground", "background"}
        /\ a \in lost => act[a].step = "end"

(* Every slot is accounted for; a semaphore nobody made yet has none. *)
SlotInv ==
    /\ SlotsReturned
    /\ \A p \in Process : /\ IsFiniteSet(AtWork(p)) /\ IsFiniteSet(Gone(p))
                          /\ semaphore[p].size = None => AtWork(p) = {} /\ Gone(p) = {} /\ semaphore[p].free = 0

(* A result is there after it was stored, and it was answered when it says so. *)
AnswerInv ==
    \A d \in Deleg :
        /\ act[d].step \in {"off", "acquire", "create", "begin", "run", "deliver", "store"} => inbox[d] = "none"
        /\ inbox[d] # "answered" => answers[d] = 0
        /\ inbox[d] = "answered" => answers[d] = 1

SubIInv == SubTypes /\ ActInv /\ SlotInv /\ AnswerInv

LEMMA SubInitIInv == SubInit => SubIInv
<1> SUFFICES ASSUME SubInit PROVE SubIInv
    OBVIOUS
<1> USE DEF SubInit
<1>1. SubTypes
    BY DEF SubTypes, ActType, Actor, Off, SubSteps
<1>2. ActInv
    BY DEF ActInv, Off, Holding, Actor
<1>3. \A p \in Process : AtWork(p) = {} /\ Holders(p, "background") = {} /\ Gone(p) = {}
    BY DEF AtWork, Holders, Gone, Holding, Off, Actor
<1>4. SlotInv
  <2>1. {d \in lost : act[d].mode = "background"} = {}
      OBVIOUS
  <2>2. \A p \in Process : {d \in lost : act[d].mode = "background" /\ At(d) = p} = {}
      OBVIOUS
  <2> QED BY <1>3, <2>2, FS_EmptySet DEF SlotInv, SlotsReturned
<1>5. AnswerInv
    BY DEF AnswerInv
<1> QED BY <1>1, <1>2, <1>4, <1>5 DEF SubIInv

(* Move changes the step of one actor. *)
LEMMA Moved ==
    ASSUME SubTypes, NEW a \in Actor, NEW step \in SubSteps, Move(a, step)
    PROVE  /\ act' \in [Actor -> ActType] /\ act'[a] = [act[a] EXCEPT !.step = step]
           /\ \A b \in Actor \ {a} : act'[b] = act[b]
BY DEF SubTypes, ActType, Move

(* A step that moves nobody in or out of a slot, and touches no slot. *)
LEMMA SlotsKept ==
    ASSUME SlotInv, UNCHANGED <<semaphore, async, lost>>,
           \A d \in Deleg :
              \/ act[d].step \notin Holding /\ act'[d].step \notin Holding /\ d \notin lost
              \/ /\ act'[d].at = act[d].at /\ act'[d].mode = act[d].mode
                 /\ act'[d].step \in Holding <=> act[d].step \in Holding,
           lost \subseteq Deleg
    PROVE  SlotInv'
<1>1. \A p \in Process : /\ AtWork(p)' = AtWork(p) /\ Gone(p)' = Gone(p)
                         /\ Holders(p, "background")' = Holders(p, "background")
    BY DEF AtWork, Holders, Gone, At
<1>2. \A p \in Process : {d \in lost : act[d].mode = "background" /\ At(d) = p}'
                         = {d \in lost : act[d].mode = "background" /\ At(d) = p}
    BY DEF At
<1> QED BY <1>1, <1>2 DEF SlotInv, SlotsReturned, AtWork, Gone

(* A slot is taken of the list of background sub-agents ... *)
LEMMA BackgroundTaken ==
    ASSUME SubTypes, ActInv, SlotInv, NEW d \in Deleg, NEW p \in Process, act[d].step \notin Holding, d \notin lost,
           act' = [act EXCEPT ![d] = [step |-> "create", at |-> p, mode |-> "background"]],
           async' = [async EXCEPT ![p] = @ \cup {d}], UNCHANGED <<semaphore, lost>>
    PROVE  SlotInv'
<1>1. d \in Actor /\ act'[d] = [step |-> "create", at |-> p, mode |-> "background"]
      /\ \A e \in Deleg \ {d} : act'[e] = act[e]
    BY DEF SubTypes, ActType, Actor
<1>2. \A q \in Process : AtWork(q)' = AtWork(q) /\ Gone(q)' = Gone(q)
    BY <1>1 DEF AtWork, Holders, Gone, At, SubTypes, ActType
<1>3. \A q \in Process : Holders(q, "background")' = Holders(q, "background") \cup (IF q = p THEN {d} ELSE {})
    BY <1>1 DEF Holders, At, Holding
<1>4. \A q \in Process : {e \in lost : act[e].mode = "background" /\ At(e) = q}'
                         = {e \in lost : act[e].mode = "background" /\ At(e) = q}
    BY <1>1 DEF At, SubTypes, ActType
<1>5. \A q \in Process : async'[q] = async[q] \cup (IF q = p THEN {d} ELSE {})
    BY DEF SubTypes, ActType
<1> QED BY <1>2, <1>3, <1>4, <1>5 DEF SlotInv, SlotsReturned, AtWork, Gone

(* ... or of the semaphore, which the first call makes. *)
LEMMA ForegroundTaken ==
    ASSUME SubTypes, ActInv, SlotInv, NEW d \in Deleg, NEW p \in Process, act[d].step \notin Holding, d \notin lost,
           NEW size \in Concurrency, NEW free \in Nat \ {0},
           semaphore[p] = [size |-> size, free |-> free] \/ (semaphore[p].size = None /\ free = size),
           act' = [act EXCEPT ![d] = [step |-> "create", at |-> p, mode |-> "foreground"]],
           semaphore' = [semaphore EXCEPT ![p] = [size |-> size, free |-> free - 1]], UNCHANGED <<async, lost>>
    PROVE  SlotInv'
<1>1. d \in Actor /\ act'[d] = [step |-> "create", at |-> p, mode |-> "foreground"]
      /\ \A e \in Deleg \ {d} : act'[e] = act[e]
    BY DEF SubTypes, ActType, Actor
<1>2. \A q \in Process : AtWork(q)' = AtWork(q) \cup (IF q = p THEN {d} ELSE {}) /\ Gone(q)' = Gone(q)
    BY <1>1 DEF AtWork, Holders, Gone, At, SubTypes, ActType, Holding
<1>3. \A q \in Process : Holders(q, "background")' = Holders(q, "background")
    BY <1>1 DEF Holders, At, Holding
<1>4. \A q \in Process : {e \in lost : act[e].mode = "background" /\ At(e) = q}'
                         = {e \in lost : act[e].mode = "background" /\ At(e) = q}
    BY <1>1 DEF At, SubTypes, ActType
<1>5. d \notin AtWork(p)
    BY DEF AtWork, Holders
<1>6. \A q \in Process \ {p} : AtWork(q)' = AtWork(q) /\ semaphore'[q] = semaphore[q]
  <2>1. \A q \in Process \ {p} : AtWork(q)' = AtWork(q) \cup {}
      BY <1>2
  <2>2. \A q \in Process \ {p} : AtWork(q)' = AtWork(q)
      BY <2>1
  <2>3. \A q \in Process \ {p} : semaphore'[q] = semaphore[q]
      BY DEF SubTypes, ActType
  <2> QED BY <2>2, <2>3
<1>7. AtWork(p)' = AtWork(p) \cup {d} /\ semaphore'[p] = [size |-> size, free |-> free - 1]
    BY <1>2 DEF SubTypes, ActType
<1>8. /\ IsFiniteSet(AtWork(p)) /\ IsFiniteSet(Gone(p))
      /\ Cardinality(AtWork(p)) \in Nat /\ Cardinality(Gone(p)) \in Nat
    BY FS_CardinalityType DEF SlotInv
<1>9. IsFiniteSet(AtWork(p)') /\ Cardinality(AtWork(p)') = Cardinality(AtWork(p)) + 1
    BY <1>5, <1>7, <1>8, FS_AddElement
<1>10. size \in Nat /\ size # None
    BY SubagentsAssumption, AutomationsAssumption
<1>11. size = free + Cardinality(AtWork(p)) + Cardinality(Gone(p))
  <2>1. CASE semaphore[p] = [size |-> size, free |-> free]
      BY <1>10, <2>1 DEF SlotInv, SlotsReturned, AtWork, Gone
  <2>2. CASE semaphore[p].size = None /\ free = size
    <3>1. AtWork(p) = {} /\ Gone(p) = {}
        BY <2>2 DEF SlotInv
    <3> QED BY <2>2, <3>1, <1>10, FS_EmptySet
  <2> QED BY <2>1, <2>2
<1>12. semaphore'[p].size = semaphore'[p].free + Cardinality(AtWork(p)') + Cardinality(Gone(p)')
    BY <1>2, <1>7, <1>8, <1>9, <1>10, <1>11
<1>13. \A q \in Process :
          /\ semaphore'[q].size # None =>
                semaphore'[q].size = semaphore'[q].free + Cardinality(AtWork(q)') + Cardinality(Gone(q)')
          /\ IsFiniteSet(AtWork(q)') /\ IsFiniteSet(Gone(q)')
          /\ semaphore'[q].size = None => AtWork(q)' = {} /\ Gone(q)' = {} /\ semaphore'[q].free = 0
  <2>1. /\ semaphore'[p].size # None =>
              semaphore'[p].size = semaphore'[p].free + Cardinality(AtWork(p)') + Cardinality(Gone(p)')
        /\ IsFiniteSet(AtWork(p)') /\ IsFiniteSet(Gone(p)')
        /\ semaphore'[p].size = None => AtWork(p)' = {} /\ Gone(p)' = {} /\ semaphore'[p].free = 0
    <3>1. Gone(p)' = Gone(p)
        BY <1>2
    <3>2. semaphore'[p].size # None
        BY <1>7, <1>10
    <3> QED BY <1>8, <1>9, <1>12, <3>1, <3>2
  <2>2. ASSUME NEW q \in Process, q # p
        PROVE  /\ semaphore'[q].size # None =>
                     semaphore'[q].size = semaphore'[q].free + Cardinality(AtWork(q)') + Cardinality(Gone(q)')
               /\ IsFiniteSet(AtWork(q)') /\ IsFiniteSet(Gone(q)')
               /\ semaphore'[q].size = None => AtWork(q)' = {} /\ Gone(q)' = {} /\ semaphore'[q].free = 0
      BY <1>2, <1>6, <2>2 DEF SlotInv, SlotsReturned, AtWork, Gone
  <2>3. ASSUME NEW q \in Process
        PROVE  /\ semaphore'[q].size # None =>
                     semaphore'[q].size = semaphore'[q].free + Cardinality(AtWork(q)') + Cardinality(Gone(q)')
               /\ IsFiniteSet(AtWork(q)') /\ IsFiniteSet(Gone(q)')
               /\ semaphore'[q].size = None => AtWork(q)' = {} /\ Gone(q)' = {} /\ semaphore'[q].free = 0
    <3>1. CASE q = p
        BY <2>1, <3>1, Zenon
    <3>2. CASE q # p
        BY <2>2, <3>2, Zenon
    <3> QED BY <3>1, <3>2
  <2> QED BY <2>3
<1> QED BY <1>3, <1>4, <1>13 DEF SlotInv, SlotsReturned, AtWork, Gone

(* A slot is given back. *)
LEMMA SlotGiven ==
    ASSUME SubTypes, ActInv, SlotInv, NEW d \in Deleg, act[d].step \in Holding, Release(d), lost' = lost,
           NEW step \in SubSteps \ Holding, act' = [act EXCEPT ![d].step = step]
    PROVE  SlotInv' /\ semaphore' \in [Process -> [size : Concurrency \cup {None}, free : Nat]]
           /\ async' \in [Process -> SUBSET Deleg]
<1> PICK p \in Process : p = At(d)
    BY DEF ActInv, At, Holding, SubTypes, ActType, Actor
<1>1. d \in Actor /\ act'[d] = [act[d] EXCEPT !.step = step] /\ \A e \in Deleg \ {d} : act'[e] = act[e]
    BY DEF SubTypes, ActType, Actor
<1>2. /\ p \in Process /\ act[d].mode \in {"foreground", "background"} /\ d \notin lost
      /\ act'[d].at = p /\ act'[d].mode = act[d].mode /\ act'[d].step \notin Holding
    BY <1>1 DEF ActInv, SubTypes, ActType, Holding, At
<1>3. \A q \in Process, m \in {"foreground", "background"} :
          Holders(q, m)' = IF q = p /\ m = act[d].mode THEN Holders(q, m) \ {d} ELSE Holders(q, m)
  <2>1. ASSUME NEW q \in Process, NEW m \in {"foreground", "background"}, NEW e \in Deleg
        PROVE  e \in Holders(q, m)' <=> e \in (IF q = p /\ m = act[d].mode THEN Holders(q, m) \ {d} ELSE Holders(q, m))
    <3>1. CASE e = d
        BY <1>2, <3>1 DEF Holders, At
    <3>2. CASE e # d
        BY <1>1, <3>2 DEF Holders, At
    <3> QED BY <3>1, <3>2
  <2>2. \A q \in Process, m \in {"foreground", "background"} : Holders(q, m)' \subseteq Deleg /\ Holders(q, m) \subseteq Deleg
      BY DEF Holders
  <2>3. ASSUME NEW q \in Process, NEW m \in {"foreground", "background"}
        PROVE  Holders(q, m)' = IF q = p /\ m = act[d].mode THEN Holders(q, m) \ {d} ELSE Holders(q, m)
    <3> DEFINE after == Holders(q, m)'
               before == Holders(q, m)
    <3>1. after \subseteq Deleg /\ before \subseteq Deleg
        BY <2>2
    <3>2. \A e \in Deleg : e \in after <=> e \in (IF q = p /\ m = act[d].mode THEN before \ {d} ELSE before)
        BY <2>1
    <3> HIDE DEF after, before
    <3>3. after = IF q = p /\ m = act[d].mode THEN before \ {d} ELSE before
        BY <3>1, <3>2
    <3> QED BY <3>3 DEF after, before
  <2> QED BY <2>3
<1>4. \A q \in Process : /\ Gone(q)' = Gone(q)
                         /\ {e \in lost : act[e].mode = "background" /\ At(e) = q}'
                            = {e \in lost : act[e].mode = "background" /\ At(e) = q}
    BY <1>1, <1>2 DEF Gone, At, SubTypes, ActType
<1>5. \A q \in Process : q # p => AtWork(q)' = AtWork(q)
    BY <1>3 DEF AtWork
<1>6. CASE act[d].mode = "background"
  <2>1. async' = [async EXCEPT ![p] = @ \ {d}] /\ semaphore' = semaphore
      BY <1>6 DEF Release
  <2>2. \A q \in Process : async'[q] = (IF q = p THEN async[q] \ {d} ELSE async[q])
      BY <2>1 DEF SubTypes, ActType
  <2>3. d \notin {e \in lost : act[e].mode = "background" /\ At(e) = p}
      BY <1>2
  <2>4. \A q \in Process : AtWork(q)' = AtWork(q)
      BY <1>3, <1>6 DEF AtWork
  <2>5. \A q \in Process :
           async'[q] = Holders(q, "background")' \cup {e \in lost : act[e].mode = "background" /\ At(e) = q}'
    <3>1. ASSUME NEW q \in Process, q # p
          PROVE  async'[q] = Holders(q, "background")' \cup {e \in lost : act[e].mode = "background" /\ At(e) = q}'
      <4>1. Holders(q, "background")' = Holders(q, "background") /\ async'[q] = async[q]
          BY <1>3, <2>2, <3>1
      <4> QED BY <1>4, <4>1 DEF SlotInv, SlotsReturned
    <3>2. async'[p] = Holders(p, "background")' \cup {e \in lost : act[e].mode = "background" /\ At(e) = p}'
      <4>1. Holders(p, "background")' = Holders(p, "background") \ {d} /\ async'[p] = async[p] \ {d}
          BY <1>3, <1>6, <2>2
      <4>2. async[p] = Holders(p, "background") \cup {e \in lost : act[e].mode = "background" /\ At(e) = p}
          BY DEF SlotInv, SlotsReturned
      <4> QED BY <1>4, <2>3, <4>1, <4>2
    <3>3. ASSUME NEW q \in Process
          PROVE  async'[q] = Holders(q, "background")' \cup {e \in lost : act[e].mode = "background" /\ At(e) = q}'
      <4>1. CASE q = p
          BY <3>2, <4>1, Zenon
      <4> QED BY <3>1, <4>1, Zenon
    <3> QED BY <3>3
  <2>6. SlotInv'
    <3>1. ASSUME NEW q \in Process
          PROVE  /\ semaphore'[q].size # None =>
                       semaphore'[q].size = semaphore'[q].free + Cardinality(AtWork(q)') + Cardinality(Gone(q)')
                 /\ IsFiniteSet(AtWork(q)') /\ IsFiniteSet(Gone(q)')
                 /\ semaphore'[q].size = None => AtWork(q)' = {} /\ Gone(q)' = {} /\ semaphore'[q].free = 0
      <4>1. AtWork(q)' = AtWork(q) /\ Gone(q)' = Gone(q) /\ semaphore' = semaphore
          BY <1>4, <2>1, <2>4
      <4> QED BY <4>1 DEF SlotInv, SlotsReturned, AtWork, Gone
    <3> QED BY <2>5, <3>1 DEF SlotInv, SlotsReturned, AtWork, Gone
  <2> QED BY <2>1, <2>6 DEF SubTypes, ActType
<1>7. CASE act[d].mode = "foreground"
  <2>1. semaphore' = [semaphore EXCEPT ![p].free = @ + 1] /\ async' = async
      BY <1>7 DEF Release
  <2>2. d \in AtWork(p) /\ AtWork(p)' = AtWork(p) \ {d}
      BY <1>2, <1>3, <1>7 DEF AtWork, Holders, At
  <2>3. /\ semaphore[p].free \in Nat /\ semaphore[p].size # None /\ semaphore[p].size \in Nat
        /\ semaphore'[p] = [semaphore[p] EXCEPT !.free = @ + 1]
      BY <1>2, <2>1, <2>2, SubagentsAssumption DEF SlotInv, SubTypes, ActType
  <2>4. semaphore'[p].size = semaphore[p].size /\ semaphore'[p].free = semaphore[p].free + 1
        /\ semaphore' \in [Process -> [size : Concurrency \cup {None}, free : Nat]]
      BY <1>2, <2>1, <2>3 DEF SubTypes, ActType
  <2>5. /\ IsFiniteSet(AtWork(p)) /\ IsFiniteSet(Gone(p))
        /\ Cardinality(AtWork(p)) \in Nat /\ Cardinality(Gone(p)) \in Nat
      BY <1>2, FS_CardinalityType DEF SlotInv
  <2>6. IsFiniteSet(AtWork(p)') /\ Cardinality(AtWork(p)') = Cardinality(AtWork(p)) - 1
    <3>1. IsFiniteSet(AtWork(p) \ {d}) /\ Cardinality(AtWork(p) \ {d}) = Cardinality(AtWork(p)) - 1
        BY <2>2, <2>5, FS_RemoveElement
    <3> QED BY <2>2, <3>1, Zenon
  <2>7. semaphore[p].size = semaphore[p].free + Cardinality(AtWork(p)) + Cardinality(Gone(p))
      BY <1>2, <2>3 DEF SlotInv, SlotsReturned, AtWork, Gone
  <2>8. semaphore'[p].size = semaphore'[p].free + Cardinality(AtWork(p)') + Cardinality(Gone(p)')
    <3>1. Gone(p)' = Gone(p)
        BY <1>4
    <3>2. Cardinality(AtWork(p)') + Cardinality(Gone(p)') + 1 = Cardinality(AtWork(p)) + Cardinality(Gone(p))
        BY <2>5, <2>6, <3>1
    <3> DEFINE c == Cardinality(AtWork(p)')
               g == Cardinality(Gone(p)')
               f == semaphore[p].free
    <3>3. c \in Int /\ g \in Int /\ f \in Nat
        BY <2>3, <2>5, <2>6, <3>1
    <3> QED BY <2>3, <2>4, <2>5, <2>7, <3>2, <3>3
  <2>9. \A q \in Process \ {p} : semaphore'[q] = semaphore[q]
      BY <2>1 DEF SubTypes, ActType
  <2>10. ASSUME NEW q \in Process
         PROVE  /\ semaphore'[q].size # None =>
                      semaphore'[q].size = semaphore'[q].free + Cardinality(AtWork(q)') + Cardinality(Gone(q)')
                /\ IsFiniteSet(AtWork(q)') /\ IsFiniteSet(Gone(q)')
                /\ semaphore'[q].size = None => AtWork(q)' = {} /\ Gone(q)' = {} /\ semaphore'[q].free = 0
    <3>1. CASE q = p
      <4>1. Gone(p)' = Gone(p) /\ semaphore'[p].size # None
          BY <1>4, <2>3, <2>4
      <4> QED BY <2>5, <2>6, <2>8, <3>1, <4>1, Zenon
    <3>2. CASE q # p
        BY <1>4, <1>5, <2>9, <3>2 DEF SlotInv, SlotsReturned, AtWork, Gone
    <3> QED BY <3>1, <3>2
  <2>11. \A q \in Process :
           async'[q] = Holders(q, "background")' \cup {e \in lost : act[e].mode = "background" /\ At(e) = q}'
      BY <1>3, <1>4, <1>7, <2>1 DEF SlotInv, SlotsReturned
  <2>12. SlotInv'
      BY <2>10, <2>11, <1>2, lost' = lost DEF SlotInv, SlotsReturned, AtWork, Gone
  <2> QED BY <2>1, <2>4, <2>12 DEF SubTypes, ActType
<1> QED BY <1>2, <1>6, <1>7

(* A task that is cancelled before it began keeps its slot, among the lost. *)
LEMMA SlotLost ==
    ASSUME SubTypes, ActInv, SlotInv, NEW d \in Deleg, act[d].step \in {"create", "begin"}, lost' = lost \cup {d},
           act' = [act EXCEPT ![d].step = "end"], UNCHANGED <<semaphore, async>>
    PROVE  SlotInv'
<1> PICK p \in Process : p = At(d)
    BY DEF ActInv, At, Holding, SubTypes, ActType, Actor
<1>1. d \in Actor /\ act'[d] = [act[d] EXCEPT !.step = "end"] /\ \A e \in Deleg \ {d} : act'[e] = act[e]
    BY DEF SubTypes, ActType, Actor
<1>2. /\ act[d].step \in Holding /\ d \notin lost /\ act'[d].at = p /\ act'[d].mode = act[d].mode
      /\ act'[d].step \notin Holding /\ act[d].at = p
    BY <1>1 DEF ActInv, SubTypes, ActType, Holding, At
<1>3. \A q \in Process, e \in Deleg :
         /\ e \in AtWork(q)' <=> e \in AtWork(q) /\ e # d
         /\ e \in Gone(q)' <=> e \in Gone(q) \/ (e = d /\ q = p /\ act[d].mode = "foreground")
         /\ e \in Holders(q, "background")' <=> e \in Holders(q, "background") /\ e # d
    BY <1>1, <1>2 DEF AtWork, Holders, Gone, At
<1>4. \A q \in Process : /\ AtWork(q) \subseteq Deleg /\ Gone(q) \subseteq Deleg
                         /\ AtWork(q)' \subseteq Deleg /\ Gone(q)' \subseteq Deleg
    BY DEF AtWork, Holders, Gone, SubTypes, ActType
<1>5. \A q \in Process : q # p \/ act[d].mode # "foreground" => AtWork(q)' = AtWork(q) /\ Gone(q)' = Gone(q)
  <2> SUFFICES ASSUME NEW q \in Process, q # p \/ act[d].mode # "foreground"
               PROVE  AtWork(q)' = AtWork(q) /\ Gone(q)' = Gone(q)
      BY Zenon
  <2>1. d \notin AtWork(q)
      BY <1>2 DEF AtWork, Holders, At
  <2> DEFINE w == AtWork(q)
             g == Gone(q)
             wn == AtWork(q)'
             gn == Gone(q)'
  <2>2. \A e \in Deleg : (e \in wn <=> e \in w) /\ (e \in gn <=> e \in g)
      BY <1>3, <2>1
  <2>3. w \subseteq Deleg /\ g \subseteq Deleg /\ wn \subseteq Deleg /\ gn \subseteq Deleg
      BY <1>4
  <2> HIDE DEF w, g, wn, gn
  <2>4. wn = w /\ gn = g
      BY <2>2, <2>3
  <2> QED BY <2>4 DEF w, g, wn, gn
<1>6. act[d].mode = "foreground" => /\ AtWork(p)' = AtWork(p) \ {d} /\ d \in AtWork(p)
                                    /\ Gone(p)' = Gone(p) \cup {d} /\ d \notin Gone(p)
  <2> SUFFICES ASSUME act[d].mode = "foreground"
               PROVE  /\ AtWork(p)' = AtWork(p) \ {d} /\ d \in AtWork(p)
                      /\ Gone(p)' = Gone(p) \cup {d} /\ d \notin Gone(p)
      OBVIOUS
  <2>1. d \in AtWork(p) /\ d \notin Gone(p)
      BY <1>2 DEF AtWork, Holders, Gone, At
  <2> DEFINE w == AtWork(p)
             g == Gone(p)
             wn == AtWork(p)'
             gn == Gone(p)'
  <2>2. \A e \in Deleg : (e \in wn <=> e \in w /\ e # d) /\ (e \in gn <=> e \in g \/ e = d)
      BY <1>3
  <2>3. w \subseteq Deleg /\ g \subseteq Deleg /\ wn \subseteq Deleg /\ gn \subseteq Deleg
      BY <1>4
  <2> HIDE DEF w, g, wn, gn
  <2>4. wn = w \ {d} /\ gn = g \cup {d}
      BY <2>2, <2>3
  <2> QED BY <2>1, <2>4 DEF w, g, wn, gn
<1>7. ASSUME NEW q \in Process
      PROVE  /\ semaphore'[q].size # None =>
                   semaphore'[q].size = semaphore'[q].free + Cardinality(AtWork(q)') + Cardinality(Gone(q)')
             /\ IsFiniteSet(AtWork(q)') /\ IsFiniteSet(Gone(q)')
             /\ semaphore'[q].size = None => AtWork(q)' = {} /\ Gone(q)' = {} /\ semaphore'[q].free = 0
  <2>1. CASE q # p \/ act[d].mode # "foreground"
    <3>1. AtWork(q)' = AtWork(q) /\ Gone(q)' = Gone(q) /\ semaphore' = semaphore
        BY <1>5, <2>1
    <3> QED BY <3>1 DEF SlotInv, SlotsReturned, AtWork, Gone
  <2>2. CASE q = p /\ act[d].mode = "foreground"
    <3>1. /\ IsFiniteSet(AtWork(p)) /\ IsFiniteSet(Gone(p)) /\ semaphore[p].size # None
          /\ Cardinality(AtWork(p)) \in Nat /\ Cardinality(Gone(p)) \in Nat
          /\ semaphore[p].size = semaphore[p].free + Cardinality(AtWork(p)) + Cardinality(Gone(p))
          /\ semaphore[p].free \in Nat
      <4>1. AtWork(p) # {}
          BY <1>6, <2>2
      <4> QED BY <4>1, FS_CardinalityType DEF SlotInv, SlotsReturned, AtWork, Gone, SubTypes, ActType
    <3>2. IsFiniteSet(AtWork(p) \ {d}) /\ Cardinality(AtWork(p) \ {d}) = Cardinality(AtWork(p)) - 1
        BY <1>6, <2>2, <3>1, FS_RemoveElement
    <3>3. IsFiniteSet(Gone(p) \cup {d}) /\ Cardinality(Gone(p) \cup {d}) = Cardinality(Gone(p)) + 1
        BY <1>6, <2>2, <3>1, FS_AddElement
    <3>4. semaphore[p].size = semaphore[p].free + Cardinality(AtWork(p) \ {d}) + Cardinality(Gone(p) \cup {d})
        BY <3>1, <3>2, <3>3
    <3>5. AtWork(p)' = AtWork(p) \ {d} /\ Gone(p)' = Gone(p) \cup {d}
        BY <1>6, <2>2
    <3> QED BY <2>2, <3>1, <3>2, <3>3, <3>4, <3>5, Zenon
  <2> QED BY <2>1, <2>2
<1>8. ASSUME NEW q \in Process
      PROVE  async'[q] = Holders(q, "background")' \cup {e \in lost : act[e].mode = "background" /\ At(e) = q}'
  <2> DEFINE h == Holders(q, "background")
             hn == Holders(q, "background")'
             g == {e \in lost : act[e].mode = "background" /\ At(e) = q}
             gn == {e \in lost : act[e].mode = "background" /\ At(e) = q}'
  <2>1. \A e \in Deleg : (e \in hn <=> e \in h /\ e # d) /\ h \subseteq Deleg /\ hn \subseteq Deleg
      BY <1>3 DEF Holders
  <2>2. \A e \in Deleg : (e \in gn <=> e \in g \/ (e = d /\ q = p /\ act[d].mode = "background"))
      BY <1>1, <1>2 DEF At
  <2>3. g \subseteq Deleg /\ gn \subseteq Deleg
      BY DEF SubTypes, ActType
  <2>4. d \in h <=> (q = p /\ act[d].mode = "background")
      BY <1>2 DEF Holders, At
  <2>5. async'[q] = h \cup g
      BY DEF SlotInv, SlotsReturned
  <2> HIDE DEF h, hn, g, gn
  <2>6. async'[q] = hn \cup gn
      BY <2>1, <2>2, <2>3, <2>4, <2>5
  <2> QED BY <2>6 DEF hn, gn
<1> QED BY <1>7, <1>8 DEF SlotInv, SlotsReturned, AtWork, Gone

LEMMA SubNextIInv == SubIInv /\ [SubNext]_subVars => SubIInv'
<1> SUFFICES ASSUME SubIInv, [SubNext]_subVars PROVE SubIInv'
    OBVIOUS
<1> USE SubagentsAssumption
<1>1. ASSUME NEW t \in Turn, NEW p \in Process, user_turn(t, p) PROVE SubIInv'
  <2>1. SubTypes'
      BY <1>1 DEF SubIInv, SubTypes, ActType, user_turn, Move, Off, Holding, Actor, SubSteps
  <2>2. ActInv'
      BY <1>1 DEF SubIInv, SubTypes, ActType, ActInv, user_turn, Move, Off, Holding, Actor, SubSteps
  <2>3. SlotInv'
    <3>1. /\ UNCHANGED <<semaphore, async, lost>> /\ SlotInv /\ lost \subseteq Deleg
          /\ \A d_1 \in Deleg :
                \/ act[d_1].step \notin Holding /\ act'[d_1].step \notin Holding /\ d_1 \notin lost
                \/ /\ act'[d_1].at = act[d_1].at /\ act'[d_1].mode = act[d_1].mode
                   /\ act'[d_1].step \in Holding <=> act[d_1].step \in Holding
        BY <1>1 DEF SubIInv, SubTypes, ActType, ActInv, Holding, Actor, Move, user_turn, Off
    <3> QED BY <3>1, SlotsKept
  <2>4. AnswerInv'
      BY <1>1 DEF SubIInv, SubTypes, ActType, ActInv, AnswerInv, user_turn, Move, Off, Holding, Actor, SubSteps
  <2> QED BY <2>1, <2>2, <2>3, <2>4 DEF SubIInv
<1>2. ASSUME NEW t \in Turn, process_chat_finally(t) PROVE SubIInv'
  <2>1. SubTypes'
      BY <1>2 DEF SubIInv, SubTypes, ActType, process_chat_finally, Move, Off, Holding, Actor, SubSteps
  <2>2. ActInv'
      BY <1>2 DEF SubIInv, SubTypes, ActType, ActInv, process_chat_finally, Move, Off, Holding, Actor, SubSteps
  <2>3. SlotInv'
    <3>1. /\ UNCHANGED <<semaphore, async, lost>> /\ SlotInv /\ lost \subseteq Deleg
          /\ \A d_1 \in Deleg :
                \/ act[d_1].step \notin Holding /\ act'[d_1].step \notin Holding /\ d_1 \notin lost
                \/ /\ act'[d_1].at = act[d_1].at /\ act'[d_1].mode = act[d_1].mode
                   /\ act'[d_1].step \in Holding <=> act[d_1].step \in Holding
        BY <1>2 DEF SubIInv, SubTypes, ActType, ActInv, Holding, Actor, Move, process_chat_finally
    <3> QED BY <3>1, SlotsKept
  <2>4. AnswerInv'
      BY <1>2 DEF SubIInv, SubTypes, ActType, ActInv, AnswerInv, process_chat_finally, Move, Off, Holding, Actor, SubSteps
  <2> QED BY <2>1, <2>2, <2>3, <2>4 DEF SubIInv
<1>3. ASSUME NEW t \in Turn, NEW d \in Deleg, delegate_background(d, t) PROVE SubIInv'
  <2>1. /\ SubTypes /\ ActInv /\ SlotInv /\ AnswerInv /\ lost \subseteq Deleg
        /\ act[d] = Off /\ d \notin lost /\ d \in Actor /\ act[d].step \notin Holding
        /\ UNCHANGED <<semaphore, inbox, lock, lost, answers>>
      BY <1>3 DEF SubIInv, SubTypes, ActInv, Actor, delegate_background, Off, Holding
  <2> PICK p \in Process : p = At(t)
      BY <1>3 DEF SubIInv, ActInv, Actor, delegate_background, At
  <2>2. CASE act' = [act EXCEPT ![d] = [step |-> "create", at |-> p, mode |-> "background"]]
             /\ async' = [async EXCEPT ![p] = @ \cup {d}]
    <3>1. SlotInv'
        BY <2>1, <2>2, BackgroundTaken
    <3>2. SubTypes' /\ ActInv' /\ AnswerInv'
        BY <2>1, <2>2 DEF SubTypes, ActType, ActInv, AnswerInv, SubSteps, Holding, Actor, Off
    <3> QED BY <3>1, <3>2 DEF SubIInv
  <2>3. CASE act' = [act EXCEPT ![d] = [step |-> "end", at |-> p, mode |-> "background"]] /\ UNCHANGED async
    <3>1. \A e \in Deleg :
             \/ act[e].step \notin Holding /\ act'[e].step \notin Holding /\ e \notin lost
             \/ /\ act'[e].at = act[e].at /\ act'[e].mode = act[e].mode
                /\ act'[e].step \in Holding <=> act[e].step \in Holding
        BY <2>1, <2>3 DEF SubTypes, Holding, Actor
    <3>2. SlotInv'
        BY <2>1, <2>3, <3>1, SlotsKept
    <3>3. SubTypes' /\ ActInv' /\ AnswerInv'
        BY <2>1, <2>3 DEF SubTypes, ActType, ActInv, AnswerInv, SubSteps, Holding, Actor, Off
    <3> QED BY <3>2, <3>3 DEF SubIInv
  <2> QED
    <3>1. CASE Cardinality(async[p]) >= MaxAsync
        BY <1>3, <2>3, <3>1 DEF delegate_background
    <3>2. CASE ~(Cardinality(async[p]) >= MaxAsync)
        BY <1>3, <2>2, <3>2 DEF delegate_background
    <3> QED BY <3>1, <3>2
<1>4. ASSUME NEW t \in Turn, NEW d \in Deleg, NEW l \in Concurrency, delegate_foreground(d, t, l) PROVE SubIInv'
  <2>1. /\ SubTypes /\ ActInv /\ SlotInv /\ AnswerInv /\ lost \subseteq Deleg
        /\ act[d] = Off /\ d \notin lost /\ d \in Actor /\ act[d].step \notin Holding
        /\ UNCHANGED <<async, inbox, lock, lost, answers>>
      BY <1>4 DEF SubIInv, SubTypes, ActInv, Actor, delegate_foreground, Off, Holding
  <2> PICK p \in Process : p = At(t)
      BY <1>4 DEF SubIInv, ActInv, Actor, delegate_foreground, At
  <2>2. PICK sem : sem = IF semaphore[p].size = None THEN [size |-> l, free |-> l] ELSE semaphore[p]
      OBVIOUS
  <2>3. sem.size \in Concurrency /\ sem.free \in Nat /\ (sem.free = 0 => sem = semaphore[p])
        /\ sem = [size |-> sem.size, free |-> sem.free]
    <3>1. semaphore[p] \in [size : Concurrency \cup {None}, free : Nat]
        BY <2>1 DEF SubTypes
    <3> QED BY <2>2, <3>1
  <2>4. /\ semaphore' = [semaphore EXCEPT ![p] = IF sem.free > 0 THEN [sem EXCEPT !.free = @ - 1] ELSE sem]
        /\ act' = [act EXCEPT ![d] = [step |-> IF sem.free > 0 THEN "create" ELSE "acquire",
                                    at |-> p, mode |-> "foreground"]]
      BY <1>4, <2>2 DEF delegate_foreground
  <2>5. CASE sem.free > 0
    <3>1. semaphore[p] = [size |-> sem.size, free |-> sem.free] \/ (semaphore[p].size = None /\ sem.free = sem.size)
        BY <2>2, <2>3
    <3>2. [sem EXCEPT !.free = @ - 1] = [size |-> sem.size, free |-> sem.free - 1]
        BY <2>3
    <3>3. semaphore' = [semaphore EXCEPT ![p] = [size |-> sem.size, free |-> sem.free - 1]]
        BY <2>4, <2>5, <3>2
    <3>4. act' = [act EXCEPT ![d] = [step |-> "create", at |-> p, mode |-> "foreground"]]
        BY <2>4, <2>5
    <3>5. sem.free \in Nat \ {0} /\ sem.free - 1 \in Nat
        BY <2>3, <2>5
    <3>6. SlotInv'
        BY <2>1, <2>3, <3>1, <3>3, <3>4, <3>5, ForegroundTaken
    <3>7. semaphore' \in [Process -> [size : Concurrency \cup {None}, free : Nat]]
        BY <2>1, <2>3, <3>3, <3>5 DEF SubTypes
    <3>8. SubTypes' /\ ActInv' /\ AnswerInv'
        BY <2>1, <3>4, <3>7 DEF SubTypes, ActType, ActInv, AnswerInv, SubSteps, Holding, Actor, Off
    <3> QED BY <3>6, <3>8 DEF SubIInv
  <2>6. CASE ~(sem.free > 0)
    <3>1. sem = semaphore[p]
        BY <2>3, <2>6
    <3>2. semaphore' = semaphore
        BY <2>1, <2>4, <2>6, <3>1 DEF SubTypes
    <3>3. act' = [act EXCEPT ![d] = [step |-> "acquire", at |-> p, mode |-> "foreground"]]
        BY <2>4, <2>6
    <3>4. \A e \in Deleg :
             \/ act[e].step \notin Holding /\ act'[e].step \notin Holding /\ e \notin lost
             \/ /\ act'[e].at = act[e].at /\ act'[e].mode = act[e].mode
                /\ act'[e].step \in Holding <=> act[e].step \in Holding
        BY <2>1, <3>3 DEF SubTypes, Holding, Actor
    <3>5. SlotInv'
        BY <2>1, <3>2, <3>4, SlotsKept
    <3>6. SubTypes' /\ ActInv' /\ AnswerInv'
        BY <2>1, <3>2, <3>3 DEF SubTypes, ActType, ActInv, AnswerInv, SubSteps, Holding, Actor, Off
    <3> QED BY <3>5, <3>6 DEF SubIInv
  <2> QED BY <2>5, <2>6
<1>5. ASSUME NEW d \in Deleg, acquire(d) PROVE SubIInv'
  <2>1. /\ SubTypes /\ ActInv /\ SlotInv /\ AnswerInv /\ act[d].step = "acquire" /\ act[d].mode = "foreground"
        /\ d \notin lost /\ d \in Actor /\ act[d].step \notin Holding
        /\ UNCHANGED <<async, inbox, lock, lost, answers>>
      BY <1>5 DEF SubIInv, ActInv, Actor, acquire, Holding
  <2> PICK p \in Process : p = At(d)
      BY <2>1 DEF ActInv, At
  <2> PICK size, free : size = semaphore[p].size /\ free = semaphore[p].free
      OBVIOUS
  <2>2. free \in Nat \ {0} /\ free - 1 \in Nat /\ size \in Concurrency /\ semaphore[p] = [size |-> size, free |-> free]
    <3>1. semaphore[p] \in [size : Concurrency \cup {None}, free : Nat]
        BY <2>1 DEF SubTypes
    <3>2. free > 0
        BY <1>5 DEF acquire
    <3>3. size # None
        BY <2>1, <3>2 DEF SlotInv
    <3> QED BY <3>1, <3>2, <3>3
  <2>3. semaphore' = [semaphore EXCEPT ![p] = [size |-> size, free |-> free - 1]]
    <3>1. semaphore' = [semaphore EXCEPT ![p].free = @ - 1]
        BY <1>5 DEF acquire
    <3>2. [semaphore[p] EXCEPT !.free = @ - 1] = [size |-> size, free |-> free - 1]
        BY <2>2
    <3> QED BY <2>1, <3>1, <3>2 DEF SubTypes
  <2>4. act' = [act EXCEPT ![d] = [step |-> "create", at |-> p, mode |-> "foreground"]]
    <3>1. act[d] = [step |-> "acquire", at |-> p, mode |-> "foreground"]
        BY <2>1 DEF SubTypes, ActType, At
    <3>2. [act[d] EXCEPT !.step = "create"] = [step |-> "create", at |-> p, mode |-> "foreground"]
        BY <3>1
    <3>3. act' = [act EXCEPT ![d].step = "create"]
        BY <1>5 DEF acquire, Move
    <3> QED BY <2>1, <3>2, <3>3 DEF SubTypes
  <2>5. SlotInv'
      BY <2>1, <2>2, <2>3, <2>4, ForegroundTaken
  <2>6. semaphore' \in [Process -> [size : Concurrency \cup {None}, free : Nat]]
      BY <2>1, <2>2, <2>3 DEF SubTypes
  <2>7. SubTypes' /\ ActInv' /\ AnswerInv'
      BY <2>1, <2>4, <2>6 DEF SubTypes, ActType, ActInv, AnswerInv, SubSteps, Holding, Actor
  <2> QED BY <2>5, <2>7 DEF SubIInv
<1>6. ASSUME NEW d \in Deleg, NEW ok \in BOOLEAN, insert_new_chat(d, ok) PROVE SubIInv'
  <2>1. /\ SubTypes /\ ActInv /\ SlotInv /\ AnswerInv /\ act[d].step = "create" /\ lost' = lost
        /\ UNCHANGED <<inbox, lock, lost, answers>>
      BY <1>6 DEF SubIInv, insert_new_chat
  <2>2. CASE act' = [act EXCEPT ![d].step = "begin"] /\ UNCHANGED <<semaphore, async>>
    <3>1. \A e \in Deleg : /\ act'[e].at = act[e].at /\ act'[e].mode = act[e].mode
                            /\ act'[e].step \in Holding <=> act[e].step \in Holding
        BY <2>1, <2>2 DEF SubTypes, ActType, Holding, Actor
    <3>2. SlotInv'
        BY <2>1, <2>2, <3>1, SlotsKept DEF SubTypes, ActType
    <3>3. SubTypes' /\ ActInv' /\ AnswerInv'
        BY <2>1, <2>2 DEF SubTypes, ActType, ActInv, AnswerInv, SubSteps, Holding, Actor
    <3> QED BY <3>2, <3>3 DEF SubIInv
  <2>3. CASE act' = [act EXCEPT ![d].step = "end"] /\ Release(d)
    <3>1. "end" \in SubSteps \ Holding /\ act[d].step \in Holding
        BY <2>1 DEF SubSteps, Holding
    <3>2. /\ SlotInv' /\ semaphore' \in [Process -> [size : Concurrency \cup {None}, free : Nat]]
          /\ async' \in [Process -> SUBSET Deleg]
        BY <2>1, <2>3, <3>1, SlotGiven
    <3>3. SubTypes' /\ ActInv' /\ AnswerInv'
        BY <2>1, <2>3, <3>2 DEF SubTypes, ActType, ActInv, AnswerInv, SubSteps, Holding, Actor
    <3> QED BY <3>2, <3>3 DEF SubIInv
  <2> QED BY <1>6, <2>2, <2>3 DEF insert_new_chat, Move
<1>7. ASSUME NEW d \in Deleg, run_reserved(d) PROVE SubIInv'
  <2>1. SubTypes'
      BY <1>7 DEF SubIInv, SubTypes, ActType, run_reserved, Move, Off, Holding, Actor, SubSteps
  <2>2. ActInv'
      BY <1>7 DEF SubIInv, SubTypes, ActType, ActInv, run_reserved, Move, Off, Holding, Actor, SubSteps
  <2>3. SlotInv'
    <3>1. /\ UNCHANGED <<semaphore, async, lost>> /\ SlotInv /\ lost \subseteq Deleg
          /\ \A d_1 \in Deleg :
                \/ act[d_1].step \notin Holding /\ act'[d_1].step \notin Holding /\ d_1 \notin lost
                \/ /\ act'[d_1].at = act[d_1].at /\ act'[d_1].mode = act[d_1].mode
                   /\ act'[d_1].step \in Holding <=> act[d_1].step \in Holding
        BY <1>7 DEF SubIInv, SubTypes, ActType, ActInv, Holding, Actor, Move, run_reserved
    <3> QED BY <3>1, SlotsKept
  <2>4. AnswerInv'
      BY <1>7 DEF SubIInv, SubTypes, ActType, ActInv, AnswerInv, run_reserved, Move, Off, Holding, Actor, SubSteps
  <2> QED BY <2>1, <2>2, <2>3, <2>4 DEF SubIInv
<1>8. ASSUME NEW d \in Deleg, run_reserved_finally(d) PROVE SubIInv'
  <2> DEFINE next == IF act[d].mode = "background" THEN "deliver" ELSE "end"
  <2>1. /\ SubTypes /\ ActInv /\ SlotInv /\ AnswerInv /\ act[d].step = "run"
        /\ UNCHANGED <<inbox, lock, lost, answers>> /\ Release(d) /\ act' = [act EXCEPT ![d].step = next]
      BY <1>8 DEF SubIInv, run_reserved_finally, Move
  <2>2. next \in {"deliver", "end"}
      OBVIOUS
  <2> HIDE DEF next
  <2>3. next \in SubSteps \ Holding /\ act[d].step \in Holding
      BY <2>1, <2>2 DEF SubSteps, Holding
  <2>4. /\ SlotInv' /\ semaphore' \in [Process -> [size : Concurrency \cup {None}, free : Nat]]
        /\ async' \in [Process -> SUBSET Deleg]
      BY <2>1, <2>3, SlotGiven
  <2>5. SubTypes' /\ ActInv' /\ AnswerInv'
      BY <2>1, <2>2, <2>4 DEF SubTypes, ActType, ActInv, AnswerInv, SubSteps, Holding, Actor
  <2> QED BY <2>4, <2>5 DEF SubIInv
<1>9. ASSUME NEW d \in Deleg, cancel(d) PROVE SubIInv'
  <2>1. SubTypes'
      BY <1>9 DEF SubIInv, SubTypes, ActType, cancel, Move, SubSteps, Holding, Actor
  <2>2. ActInv'
      BY <1>9 DEF SubIInv, SubTypes, ActType, ActInv, cancel, Move, SubSteps, Holding, Actor
  <2>3. SlotInv'
    <3>1. /\ SubTypes /\ ActInv /\ SlotInv /\ act' = [act EXCEPT ![d].step = "end"]
          /\ UNCHANGED <<semaphore, async>>
        BY <1>9 DEF SubIInv, cancel, Move
    <3>2. CASE act[d].step = "acquire"
      <4>1. lost' = lost /\ lost \subseteq Deleg
          BY <1>9, <3>1, <3>2 DEF cancel, SubTypes, ActType
      <4>2. \A e \in Deleg : /\ act'[e].at = act[e].at /\ act'[e].mode = act[e].mode
                              /\ act'[e].step \in Holding <=> act[e].step \in Holding
          BY <3>1, <3>2 DEF SubTypes, ActType, Holding, Actor
      <4> QED BY <3>1, <4>1, <4>2, SlotsKept
    <3>3. CASE act[d].step \in {"create", "begin"}
      <4>1. lost' = lost \cup {d}
          BY <1>9, <3>3 DEF cancel
      <4> QED BY <3>1, <3>3, <4>1, SlotLost
    <3> QED BY <1>9, <3>2, <3>3 DEF cancel
  <2>4. AnswerInv'
      BY <1>9 DEF SubIInv, SubTypes, ActType, ActInv, AnswerInv, cancel, Move, SubSteps, Holding, Actor
  <2> QED BY <2>1, <2>2, <2>3, <2>4 DEF SubIInv
<1>10. ASSUME NEW d \in Deleg, deliver_lock(d) PROVE SubIInv'
  <2>1. SubTypes'
    <3> PICK next \in SubSteps : Move(d, next)
        BY <1>10 DEF deliver_lock, SubSteps
    <3>1. SubTypes
        BY DEF SubIInv
    <3>2. act' \in [Actor -> ActType]
        BY <3>1, Moved DEF Actor
    <3>3. UNCHANGED <<semaphore, async, lost>>
        BY <1>10 DEF deliver_lock
    <3>4. lock' \in [Process -> Actor \cup {None}]
        BY <1>10, <3>1 DEF deliver_lock, SubTypes, Actor, At
    <3>5. inbox' \in [Deleg -> {"none", "pending", "fresh", "answered"}] /\ answers' \in [Deleg -> Nat]
        BY <1>10, <3>1 DEF deliver_lock, SubTypes
    <3> QED BY <3>1, <3>2, <3>3, <3>4, <3>5 DEF SubTypes
  <2>2. ActInv'
      BY <1>10 DEF SubIInv, SubTypes, ActType, ActInv, deliver_lock, Move, Off, Holding, Actor, SubSteps, At
  <2>3. SlotInv'
    <3>1. /\ UNCHANGED <<semaphore, async, lost>> /\ SlotInv /\ lost \subseteq Deleg
          /\ \A d_1 \in Deleg :
                \/ act[d_1].step \notin Holding /\ act'[d_1].step \notin Holding /\ d_1 \notin lost
                \/ /\ act'[d_1].at = act[d_1].at /\ act'[d_1].mode = act[d_1].mode
                   /\ act'[d_1].step \in Holding <=> act[d_1].step \in Holding
        BY <1>10 DEF SubIInv, SubTypes, ActType, ActInv, Holding, Actor, Move, deliver_lock, At
    <3> QED BY <3>1, SlotsKept
  <2>4. AnswerInv'
      BY <1>10 DEF SubIInv, SubTypes, ActType, ActInv, AnswerInv, deliver_lock, Move, Off, Holding, Actor, SubSteps, At
  <2> QED BY <2>1, <2>2, <2>3, <2>4 DEF SubIInv
<1>11. ASSUME NEW d \in Deleg, store_result(d) PROVE SubIInv'
  <2>1. SubTypes'
      BY <1>11 DEF SubIInv, SubTypes, ActType, store_result, Move, Off, Holding, Actor, SubSteps, At
  <2>2. ActInv'
      BY <1>11 DEF SubIInv, SubTypes, ActType, ActInv, store_result, Move, Off, Holding, Actor, SubSteps, At
  <2>3. SlotInv'
    <3>1. /\ UNCHANGED <<semaphore, async, lost>> /\ SlotInv /\ lost \subseteq Deleg
          /\ \A d_1 \in Deleg :
                \/ act[d_1].step \notin Holding /\ act'[d_1].step \notin Holding /\ d_1 \notin lost
                \/ /\ act'[d_1].at = act[d_1].at /\ act'[d_1].mode = act[d_1].mode
                   /\ act'[d_1].step \in Holding <=> act[d_1].step \in Holding
        BY <1>11 DEF SubIInv, SubTypes, ActType, ActInv, Holding, Actor, Move, store_result, At
    <3> QED BY <3>1, SlotsKept
  <2>4. AnswerInv'
      BY <1>11 DEF SubIInv, SubTypes, ActType, ActInv, AnswerInv, store_result, Move, Off, Holding, Actor, SubSteps, At
  <2> QED BY <2>1, <2>2, <2>3, <2>4 DEF SubIInv
<1>12. ASSUME NEW a \in Actor, check_active(a) PROVE SubIInv'
  <2>1. SubTypes'
    <3> PICK next \in SubSteps : Move(a, next)
        BY <1>12 DEF check_active, SubSteps
    <3>1. SubTypes
        BY DEF SubIInv
    <3>2. act' \in [Actor -> ActType]
        BY <3>1, Moved
    <3>3. UNCHANGED <<semaphore, async, lost>>
        BY <1>12 DEF check_active
    <3>4. lock' \in [Process -> Actor \cup {None}]
        BY <1>12, <3>1 DEF check_active, SubTypes, Actor, At
    <3>5. inbox' \in [Deleg -> {"none", "pending", "fresh", "answered"}] /\ answers' \in [Deleg -> Nat]
        BY <1>12, <3>1 DEF check_active, SubTypes
    <3> QED BY <3>1, <3>2, <3>3, <3>4, <3>5 DEF SubTypes
  <2>2. ActInv'
      BY <1>12 DEF SubIInv, SubTypes, ActType, ActInv, check_active, Move, Off, Holding, Actor, SubSteps
  <2>3. SlotInv'
    <3>1. /\ UNCHANGED <<semaphore, async, lost>> /\ SlotInv /\ lost \subseteq Deleg
          /\ \A d_1 \in Deleg :
                \/ act[d_1].step \notin Holding /\ act'[d_1].step \notin Holding /\ d_1 \notin lost
                \/ /\ act'[d_1].at = act[d_1].at /\ act'[d_1].mode = act[d_1].mode
                   /\ act'[d_1].step \in Holding <=> act[d_1].step \in Holding
        BY <1>12 DEF SubIInv, SubTypes, ActType, ActInv, Holding, Actor, Move, check_active
    <3> QED BY <3>1, SlotsKept
  <2>4. AnswerInv'
      BY <1>12 DEF SubIInv, SubTypes, ActType, ActInv, AnswerInv, check_active, Move, Off, Holding, Actor, SubSteps
  <2> QED BY <2>1, <2>2, <2>3, <2>4 DEF SubIInv
<1>13. ASSUME NEW a \in Actor, wait_idle(a) PROVE SubIInv'
  <2>1. SubTypes'
      BY <1>13 DEF SubIInv, SubTypes, ActType, wait_idle, Move, Off, Holding, Actor, SubSteps
  <2>2. ActInv'
      BY <1>13 DEF SubIInv, SubTypes, ActType, ActInv, wait_idle, Move, Off, Holding, Actor, SubSteps
  <2>3. SlotInv'
    <3>1. /\ UNCHANGED <<semaphore, async, lost>> /\ SlotInv /\ lost \subseteq Deleg
          /\ \A d_1 \in Deleg :
                \/ act[d_1].step \notin Holding /\ act'[d_1].step \notin Holding /\ d_1 \notin lost
                \/ /\ act'[d_1].at = act[d_1].at /\ act'[d_1].mode = act[d_1].mode
                   /\ act'[d_1].step \in Holding <=> act[d_1].step \in Holding
        BY <1>13 DEF SubIInv, SubTypes, ActType, ActInv, Holding, Actor, Move, wait_idle
    <3> QED BY <3>1, SlotsKept
  <2>4. AnswerInv'
      BY <1>13 DEF SubIInv, SubTypes, ActType, ActInv, AnswerInv, wait_idle, Move, Off, Holding, Actor, SubSteps
  <2> QED BY <2>1, <2>2, <2>3, <2>4 DEF SubIInv
<1>14. ASSUME NEW a \in Actor, take_lock(a) PROVE SubIInv'
  <2>1. SubTypes'
    <3> PICK next \in SubSteps : Move(a, next)
        BY <1>14 DEF take_lock, SubSteps
    <3>1. SubTypes
        BY DEF SubIInv
    <3>2. act' \in [Actor -> ActType]
        BY <3>1, Moved
    <3>3. UNCHANGED <<semaphore, async, lost>>
        BY <1>14 DEF take_lock
    <3>4. lock' \in [Process -> Actor \cup {None}]
        BY <1>14, <3>1 DEF take_lock, SubTypes, Actor, At
    <3>5. inbox' \in [Deleg -> {"none", "pending", "fresh", "answered"}] /\ answers' \in [Deleg -> Nat]
        BY <1>14, <3>1 DEF take_lock, SubTypes
    <3> QED BY <3>1, <3>2, <3>3, <3>4, <3>5 DEF SubTypes
  <2>2. ActInv'
      BY <1>14 DEF SubIInv, SubTypes, ActType, ActInv, take_lock, Move, Off, Holding, Actor, SubSteps, At
  <2>3. SlotInv'
    <3>1. /\ UNCHANGED <<semaphore, async, lost>> /\ SlotInv /\ lost \subseteq Deleg
          /\ \A d_1 \in Deleg :
                \/ act[d_1].step \notin Holding /\ act'[d_1].step \notin Holding /\ d_1 \notin lost
                \/ /\ act'[d_1].at = act[d_1].at /\ act'[d_1].mode = act[d_1].mode
                   /\ act'[d_1].step \in Holding <=> act[d_1].step \in Holding
        BY <1>14 DEF SubIInv, SubTypes, ActType, ActInv, Holding, Actor, Move, take_lock, At
    <3> QED BY <3>1, SlotsKept
  <2>4. AnswerInv'
    <3>1. AnswerInv /\ UNCHANGED <<inbox, answers>>
        BY <1>14 DEF SubIInv, take_lock
    <3>2. \A d \in Deleg : act'[d].step = act[d].step \/ act'[d].step \in {"end", "commit"}
        BY <1>14 DEF SubIInv, SubTypes, ActType, take_lock, Move, Actor
    <3> QED BY <3>1, <3>2 DEF AnswerInv
  <2> QED BY <2>1, <2>2, <2>3, <2>4 DEF SubIInv
<1>15. ASSUME NEW a \in Actor, NEW batch_1 \in SUBSET Deleg, commit_batch(a, batch_1) PROVE SubIInv'
  <2>1. SubTypes'
    <3> PICK next \in SubSteps : Move(a, next)
        BY <1>15 DEF commit_batch, SubSteps
    <3>1. SubTypes
        BY DEF SubIInv
    <3>2. act' \in [Actor -> ActType]
        BY <3>1, Moved
    <3>3. UNCHANGED <<semaphore, async, lost>>
        BY <1>15 DEF commit_batch
    <3>4. lock' \in [Process -> Actor \cup {None}]
        BY <1>15, <3>1 DEF commit_batch, SubTypes, Actor, At
    <3>5. inbox' \in [Deleg -> {"none", "pending", "fresh", "answered"}] /\ answers' \in [Deleg -> Nat]
        BY <1>15, <3>1 DEF commit_batch, SubTypes
    <3> QED BY <3>1, <3>2, <3>3, <3>4, <3>5 DEF SubTypes
  <2>2. ActInv'
      BY <1>15 DEF SubIInv, SubTypes, ActType, ActInv, commit_batch, Move, Off, Holding, Actor, SubSteps, At, Undelivered
  <2>3. SlotInv'
    <3>1. /\ UNCHANGED <<semaphore, async, lost>> /\ SlotInv /\ lost \subseteq Deleg
          /\ \A d_1 \in Deleg :
                \/ act[d_1].step \notin Holding /\ act'[d_1].step \notin Holding /\ d_1 \notin lost
                \/ /\ act'[d_1].at = act[d_1].at /\ act'[d_1].mode = act[d_1].mode
                   /\ act'[d_1].step \in Holding <=> act[d_1].step \in Holding
        BY <1>15 DEF SubIInv, SubTypes, ActType, ActInv, Holding, Actor, Move, commit_batch, At, Undelivered
    <3> QED BY <3>1, SlotsKept
  <2>4. AnswerInv'
      BY <1>15 DEF SubIInv, SubTypes, ActType, ActInv, AnswerInv, commit_batch, Move, Off, Holding, Actor, SubSteps, At, Undelivered
  <2> QED BY <2>1, <2>2, <2>3, <2>4 DEF SubIInv
<1>16. ASSUME NEW a \in Actor, NEW t \in Turn, start_response(a, t) PROVE SubIInv'
  <2>1. SubTypes'
      BY <1>16 DEF SubIInv, SubTypes, ActType, start_response, Move, Off, Holding, Actor, SubSteps, At
  <2>2. ActInv'
    <3>1. /\ SubTypes /\ ActInv /\ act[a].step = "handler" /\ act[t] = Off /\ lost' = lost /\ t \in Actor
          /\ act' = [act EXCEPT ![a].step = "end", ![t] = [step |-> "respond", at |-> At(a), mode |-> "none"]]
        BY <1>16 DEF SubIInv, start_response, Actor
    <3>2. a # t /\ a \notin lost /\ t \notin lost /\ At(a) \in Process
        BY <3>1 DEF ActInv, Off, At
    <3>3. /\ act'[t] = [step |-> "respond", at |-> At(a), mode |-> "none"]
          /\ act'[a].step = "end" /\ act'[a].at = act[a].at
          /\ \A b \in Actor : b # a /\ b # t => act'[b] = act[b]
        BY <3>1, <3>2 DEF SubTypes, ActType, At
    <3>4. ASSUME NEW b \in Actor
          PROVE  /\ act'[b].step # "off" => act'[b].at \in Process
                 /\ act'[b].step = "acquire" => act'[b].mode = "foreground"
                 /\ act'[b].step \in Holding => act'[b].mode \in {"foreground", "background"}
                 /\ b \in lost => act'[b].step = "end"
      <4>1. CASE b = a
          BY <3>1, <3>2, <3>3, <4>1 DEF ActInv, Holding, At
      <4>2. CASE b = t
          BY <3>2, <3>3, <4>2 DEF Holding
      <4>3. CASE b # a /\ b # t
          BY <3>1, <3>3, <4>3 DEF ActInv
      <4> QED BY <4>1, <4>2, <4>3
    <3> QED BY <3>1, <3>4 DEF ActInv
  <2>3. SlotInv'
    <3>1. /\ UNCHANGED <<semaphore, async, lost>> /\ SlotInv /\ lost \subseteq Deleg
          /\ \A d_1 \in Deleg :
                \/ act[d_1].step \notin Holding /\ act'[d_1].step \notin Holding /\ d_1 \notin lost
                \/ /\ act'[d_1].at = act[d_1].at /\ act'[d_1].mode = act[d_1].mode
                   /\ act'[d_1].step \in Holding <=> act[d_1].step \in Holding
        BY <1>16 DEF SubIInv, SubTypes, ActType, ActInv, Holding, Actor, Move, start_response, At, Off
    <3> QED BY <3>1, SlotsKept
  <2>4. AnswerInv'
      BY <1>16 DEF SubIInv, SubTypes, ActType, ActInv, AnswerInv, start_response, Move, Off, Holding, Actor, SubSteps, At
  <2> QED BY <2>1, <2>2, <2>3, <2>4 DEF SubIInv
<1>17. ASSUME UNCHANGED subVars PROVE SubIInv'
  <2>1. SubTypes /\ ActInv /\ SlotInv /\ AnswerInv
      BY DEF SubIInv
  <2>2. UNCHANGED <<semaphore, async, act, inbox, lock, lost, answers>>
      BY <1>17 DEF subVars
  <2>3. lost \subseteq Deleg
      BY <2>1 DEF SubTypes
  <2>4. SlotInv'
      BY <2>1, <2>2, <2>3, SlotsKept
  <2>5. SubTypes' /\ ActInv' /\ AnswerInv'
      BY <2>1, <2>2 DEF SubTypes, ActInv, AnswerInv
  <2> QED BY <2>4, <2>5 DEF SubIInv
<1> QED BY <1>1, <1>2, <1>3, <1>4, <1>5, <1>6, <1>7, <1>8, <1>9, <1>10, <1>11, <1>12, <1>13, <1>14, <1>15, <1>16, <1>17 DEF SubNext, Run, Process_pending

-----------------------------------------------------------------------------
(* Calendars                                                               *)

(* A request in progress is about ids that exist.  As long as no two         *)
(* conflicting ones ran together, nothing else changes what it has checked:  *)
(* the defaults are those a new default clears, and the calendar an event is *)
(* put into stays.                                                           *)
CalReqInv ==
    \A r \in CalClient :
        /\ calReq[r].op \in {"defaults", "default", "delete", "create", "update"} => calReq[r].cal \in Cal
        /\ calReq[r].op \in {"create", "update", "remove"} => calReq[r].event \in Event
        /\ ~together =>
              /\ calReq[r].op = "defaults" => Defaults = {}
              /\ calReq[r].op = "default" /\ calReq[r].step = "read" => Defaults \subseteq calReq[r].old
              /\ calReq[r].op \in {"create", "update"} => calReq[r].cal \in OfUser
              /\ \A q \in CalClient : q # r => ~Conflict(calReq[q].op, calReq[r].op)

CalTableInv ==
    ~together => /\ \A c, d \in Defaults : c = d
                 /\ \A e \in Event : Kept(e) => events[e].cal \in OfUser

(* A poll has alerted nothing of what it has still to do, and what was       *)
(* alerted is marked or about to be.                                         *)
PollInv ==
    /\ \A p \in Process : /\ poll[p].step = "idle" => poll[p].todo = {}
                          /\ poll[p].step = "mark" => poll[p].event \in Event
    /\ ~shared => \A p, q \in Process : poll[p].step # "idle" /\ poll[q].step # "idle" => p = q
    /\ \A e \in Event : events[e].state = "unused" => sent[e] = 0 /\ \A p \in Process : e \notin poll[p].todo
    /\ ~shared /\ markFails = 0 =>
          \A e \in Event :
              /\ sent[e] <= 1
              /\ \A p \in Process : e \in poll[p].todo => sent[e] = 0
              /\ Kept(e) /\ sent[e] # 0 =>
                    events[e].alerted \/ \E p \in Process : poll[p].step = "mark" /\ poll[p].event = e

CalIInv == CalTypeOK /\ CalReqInv /\ CalTableInv /\ PollInv

(* The rows of the tables, and a request's record. *)
EventRow == [state : {"unused", "stored", "deleted"}, cal : Cal \cup {None},
             near : BOOLEAN, alerted : BOOLEAN, rsvp : Rsvp]
CalOps == {"none", "defaults", "default", "delete", "create", "update", "remove"}
CalReqRow == [op : CalOps, step : {"none", "checked", "read"}, cal : Cal \cup {None},
              event : Event \cup {None}, old : SUBSET Cal, rsvp : Rsvp]

\* An unused event and an idle request are rows of their tables.
LEMMA CalRows == NoEvent \in EventRow /\ NoCalReq \in CalReqRow
BY DEF NoEvent, NoCalReq, EventRow, CalReqRow, CalOps, Rsvp

\* Whether two requests conflict does not depend on their order.
LEMMA ConflictIsSymmetric == \A a, b : Conflict(a, b) <=> Conflict(b, a)
BY DEF Conflict

\* The calendars start with nothing stored and nobody at work.
LEMMA CalInitIInv == CalInit => CalIInv
<1> SUFFICES ASSUME CalInit PROVE CalIInv
    OBVIOUS
<1> USE CalendarAssumption DEF CalInit
<1>1. CalTypeOK
  <2>1. events \in [Event -> EventRow] /\ calReq \in [CalClient -> CalReqRow]
      BY CalRows
  <2>2. calendars \in [Cal -> {"unused", "plain", "default", "deleted"}]
        /\ sent \in [Event -> Nat] /\ shared \in BOOLEAN /\ together \in BOOLEAN
      OBVIOUS
  <2>3. poll \in [Process -> [step : {"idle", "next", "mark"}, todo : SUBSET Event, event : Event \cup {None}]]
      BY DEF IdlePoll
  <2>4. calRequests \in 0..MaxCalRequests /\ polls \in 0..MaxPolls /\ markFails \in 0..MaxMarkFails
      OBVIOUS
  <2> QED BY <2>1, <2>2, <2>3, <2>4 DEF CalTypeOK, EventRow, CalReqRow, CalOps
<1>2. CalReqInv
    BY DEF CalReqInv, NoCalReq, Defaults, Conflict
<1>3. CalTableInv
    BY DEF CalTableInv, Defaults, Kept, NoEvent
<1>4. PollInv
    BY DEF PollInv, IdlePoll, Kept, NoEvent
<1> QED BY <1>1, <1>2, <1>3, <1>4 DEF CalIInv

(* Checks keep what they have found for the request they begin.              *)
LEMMA CheckedKeeps ==
    ASSUME CalTypeOK, CalReqInv, NEW r \in CalClient, NEW op \in CalOps \ {"none"},
           NEW c \in Cal \cup {None}, NEW e \in Event \cup {None}, Checked(r, op, c, e),
           op # "remove" => c \in Cal,
           op \in {"create", "update", "remove"} => e \in Event,
           op = "defaults" => Defaults = {},
           op \in {"create", "update"} => c \in OfUser
    PROVE  CalTypeOK' /\ CalReqInv'
<1> DEFINE n == [op |-> op, step |-> "checked", cal |-> c, event |-> e, old |-> {}, rsvp |-> "none"]
           clash == \E q \in CalClient : Conflict(calReq[q].op, op)
<1>1. /\ n \in CalReqRow /\ n.op = op /\ n.step = "checked" /\ n.cal = c /\ n.event = e
    BY DEF CalReqRow, CalOps, Rsvp
<1>2. clash \in BOOLEAN
    OBVIOUS
<1>3. calReq' = [calReq EXCEPT ![r] = n] /\ together' = (together \/ clash)
    BY DEF Checked
<1>4. calReq \in [CalClient -> CalReqRow] /\ together \in BOOLEAN
    BY DEF CalTypeOK, CalReqRow, CalOps
<1> HIDE DEF n
<1>5. calReq' \in [CalClient -> CalReqRow] /\ calReq'[r] = n /\ \A q \in CalClient \ {r} : calReq'[q] = calReq[q]
    BY <1>1, <1>3, <1>4
<1>6. together' \in BOOLEAN /\ (~together' => ~together /\ ~clash)
    BY <1>2, <1>3, <1>4
<1>7. calRequests' \in 0..MaxCalRequests
    BY CalendarAssumption DEF Checked, CalTypeOK
<1>8. CalTypeOK'
    BY <1>5, <1>6, <1>7 DEF CalTypeOK, Checked, CalReqRow, CalOps
<1>9. CalReqInv'
  <2> SUFFICES ASSUME NEW q \in CalClient
               PROVE  /\ (calReq'[q].op \in {"defaults", "default", "delete", "create", "update"} => calReq'[q].cal \in Cal)
                      /\ (calReq'[q].op \in {"create", "update", "remove"} => calReq'[q].event \in Event)
                      /\ (~together' =>
                            /\ calReq'[q].op = "defaults" => Defaults = {}
                            /\ calReq'[q].op = "default" /\ calReq'[q].step = "read" => Defaults \subseteq calReq'[q].old
                            /\ calReq'[q].op \in {"create", "update"} => calReq'[q].cal \in OfUser
                            /\ \A s \in CalClient : s # q => ~Conflict(calReq'[s].op, calReq'[q].op))
      BY DEF CalReqInv, Checked, Defaults, OfUser
  <2> HIDE DEF clash
  <2>a. ~clash => \A s \in CalClient : ~Conflict(calReq[s].op, op) /\ ~Conflict(op, calReq[s].op)
      BY ConflictIsSymmetric DEF clash
  <2>1. CASE q = r
      BY <2>1, <2>a, <1>1, <1>5, <1>6 DEF CalReqInv
  <2>2. CASE q # r
      BY <2>2, <2>a, <1>1, <1>5, <1>6 DEF CalReqInv
  <2> QED BY <2>1, <2>2
<1> QED BY <1>8, <1>9

\* A request that only reads or checks leaves the tables as they are.
LEMMA ReadsKeeps ==
    ASSUME CalTypeOK, CalReqInv, NEW r \in CalClient, NEW op \in CalOps, NEW was \in SUBSET Cal,
           NEW answer \in Rsvp, Reads(r, op, was, answer), op = "default" => Defaults \subseteq was
    PROVE  CalTypeOK' /\ CalReqInv'
<1> DEFINE n == [calReq[r] EXCEPT !.step = "read", !.old = was, !.rsvp = answer]
<1>1. calReq \in [CalClient -> CalReqRow] /\ calReq[r].op = op
    BY DEF CalTypeOK, CalReqRow, CalOps, Reads
<1>2. /\ n \in CalReqRow /\ n.op = op /\ n.old = was /\ n.cal = calReq[r].cal /\ n.event = calReq[r].event
    BY <1>1 DEF CalReqRow, Rsvp
<1>3. calReq' = [calReq EXCEPT ![r] = n]
    BY <1>1 DEF Reads, CalReqRow
<1> HIDE DEF n
<1>5. calReq' \in [CalClient -> CalReqRow] /\ calReq'[r] = n /\ \A q \in CalClient \ {r} : calReq'[q] = calReq[q]
    BY <1>1, <1>2, <1>3
<1>8. CalTypeOK'
    BY <1>5 DEF CalTypeOK, Reads, CalReqRow, CalOps
<1>9. CalReqInv'
  <2> SUFFICES ASSUME NEW q \in CalClient
               PROVE  /\ (calReq'[q].op \in {"defaults", "default", "delete", "create", "update"} => calReq'[q].cal \in Cal)
                      /\ (calReq'[q].op \in {"create", "update", "remove"} => calReq'[q].event \in Event)
                      /\ (~together =>
                            /\ calReq'[q].op = "defaults" => Defaults = {}
                            /\ calReq'[q].op = "default" /\ calReq'[q].step = "read" => Defaults \subseteq calReq'[q].old
                            /\ calReq'[q].op \in {"create", "update"} => calReq'[q].cal \in OfUser
                            /\ \A s \in CalClient : s # q => ~Conflict(calReq'[s].op, calReq'[q].op))
      BY DEF CalReqInv, Reads, Defaults, OfUser
  <2>1. CASE q = r
      BY <2>1, <1>1, <1>2, <1>5 DEF CalReqInv
  <2>2. CASE q # r
      BY <2>2, <1>1, <1>2, <1>5 DEF CalReqInv
  <2> QED BY <2>1, <2>2
<1> QED BY <1>8, <1>9

\* Every request, poll and failure of calendars keeps the invariant.
LEMMA CalNextIInv == CalIInv /\ [CalNext]_calVars => CalIInv'
<1> SUFFICES ASSUME CalIInv, [CalNext]_calVars PROVE CalIInv'
    OBVIOUS
<1> USE CalendarAssumption
<1>1. ASSUME NEW r \in CalClient, NEW c \in Cal, get_or_create_defaults(r, c) PROVE CalIInv'
  <2>1. Checked(r, "defaults", c, None)
      BY <1>1 DEF get_or_create_defaults
  <2>2. CalTypeOK' /\ CalReqInv'
      BY <1>1, <2>1, CheckedKeeps DEF CalIInv, get_or_create_defaults, CalOps, OfUser, Defaults
  <2>3. CalTypeOK'
      BY <2>2
  <2>4. CalReqInv'
      BY <2>2
  <2>5. CalTableInv'
      BY <1>1 DEF CalIInv, CalTypeOK, CalReqInv, CalTableInv, Defaults, OfUser, Kept, Conflict, get_or_create_defaults, Checked, CalFree
  <2>6. PollInv'
      BY <1>1 DEF CalIInv, CalTypeOK, CalReqInv, PollInv, Kept, NoEvent, IdlePoll, get_or_create_defaults, Checked, CalFree
  <2> QED BY <2>3, <2>4, <2>5, <2>6 DEF CalIInv
<1>2. ASSUME NEW r \in CalClient, NEW c \in Cal, set_default_calendar(r, c) PROVE CalIInv'
  <2>1. Checked(r, "default", c, None)
      BY <1>2 DEF set_default_calendar
  <2>2. CalTypeOK' /\ CalReqInv'
      BY <1>2, <2>1, CheckedKeeps DEF CalIInv, set_default_calendar, CalOps, OfUser, Defaults
  <2>3. CalTypeOK'
      BY <2>2
  <2>4. CalReqInv'
      BY <2>2
  <2>5. CalTableInv'
      BY <1>2 DEF CalIInv, CalTypeOK, CalReqInv, CalTableInv, Defaults, OfUser, Kept, Conflict, set_default_calendar, Checked, CalFree
  <2>6. PollInv'
      BY <1>2 DEF CalIInv, CalTypeOK, CalReqInv, PollInv, Kept, NoEvent, IdlePoll, set_default_calendar, Checked, CalFree
  <2> QED BY <2>3, <2>4, <2>5, <2>6 DEF CalIInv
<1>3. ASSUME NEW r \in CalClient, NEW c \in Cal, delete_calendar(r, c) PROVE CalIInv'
  <2>1. Checked(r, "delete", c, None)
      BY <1>3 DEF delete_calendar
  <2>2. CalTypeOK' /\ CalReqInv'
      BY <1>3, <2>1, CheckedKeeps DEF CalIInv, delete_calendar, CalOps, OfUser, Defaults
  <2>3. CalTypeOK'
      BY <2>2
  <2>4. CalReqInv'
      BY <2>2
  <2>5. CalTableInv'
      BY <1>3 DEF CalIInv, CalTypeOK, CalReqInv, CalTableInv, Defaults, OfUser, Kept, Conflict, delete_calendar, Checked, CalFree
  <2>6. PollInv'
      BY <1>3 DEF CalIInv, CalTypeOK, CalReqInv, PollInv, Kept, NoEvent, IdlePoll, delete_calendar, Checked, CalFree
  <2> QED BY <2>3, <2>4, <2>5, <2>6 DEF CalIInv
<1>4. ASSUME NEW r \in CalClient, NEW c \in Cal, insert_new_calendar(r, c) PROVE CalIInv'
  <2>1. CalTypeOK'
      BY <1>4 DEF CalIInv, CalTypeOK, CalReqInv, Rsvp, NoCalReq, NoEvent, IdlePoll, insert_new_calendar, CalFree
  <2>2. CalReqInv'
      BY <1>4 DEF CalIInv, CalTypeOK, CalReqInv, CalTableInv, Defaults, OfUser, Conflict, Kept, NoCalReq, insert_new_calendar, CalFree
  <2>3. CalTableInv'
      BY <1>4 DEF CalIInv, CalTypeOK, CalReqInv, CalTableInv, Defaults, OfUser, Kept, Conflict, insert_new_calendar, CalFree
  <2>4. PollInv'
      BY <1>4 DEF CalIInv, CalTypeOK, CalReqInv, PollInv, Kept, NoEvent, IdlePoll, insert_new_calendar, CalFree
  <2> QED BY <2>1, <2>2, <2>3, <2>4 DEF CalIInv
<1>5. ASSUME NEW r \in CalClient, NEW c \in Cal, NEW e \in Event, create_event(r, c, e) PROVE CalIInv'
  <2>1. Checked(r, "create", c, e)
      BY <1>5 DEF create_event
  <2>2. CalTypeOK' /\ CalReqInv'
      BY <1>5, <2>1, CheckedKeeps DEF CalIInv, create_event, CalOps, OfUser, Defaults
  <2>3. CalTypeOK'
      BY <2>2
  <2>4. CalReqInv'
      BY <2>2
  <2>5. CalTableInv'
      BY <1>5 DEF CalIInv, CalTypeOK, CalReqInv, CalTableInv, Defaults, OfUser, Kept, Conflict, create_event, Checked, CalFree
  <2>6. PollInv'
      BY <1>5 DEF CalIInv, CalTypeOK, CalReqInv, PollInv, Kept, NoEvent, IdlePoll, create_event, Checked, CalFree
  <2> QED BY <2>3, <2>4, <2>5, <2>6 DEF CalIInv
<1>6. ASSUME NEW r \in CalClient, NEW c \in Cal, NEW e \in Event, update_event(r, c, e) PROVE CalIInv'
  <2>1. Checked(r, "update", c, e)
      BY <1>6 DEF update_event
  <2>2. CalTypeOK' /\ CalReqInv'
      BY <1>6, <2>1, CheckedKeeps DEF CalIInv, update_event, CalOps, OfUser, Defaults
  <2>3. CalTypeOK'
      BY <2>2
  <2>4. CalReqInv'
      BY <2>2
  <2>5. CalTableInv'
      BY <1>6 DEF CalIInv, CalTypeOK, CalReqInv, CalTableInv, Defaults, OfUser, Kept, Conflict, update_event, Checked, CalFree
  <2>6. PollInv'
      BY <1>6 DEF CalIInv, CalTypeOK, CalReqInv, PollInv, Kept, NoEvent, IdlePoll, update_event, Checked, CalFree
  <2> QED BY <2>3, <2>4, <2>5, <2>6 DEF CalIInv
<1>7. ASSUME NEW r \in CalClient, NEW e \in Event, delete_event(r, e) PROVE CalIInv'
  <2>1. Checked(r, "remove", None, e)
      BY <1>7 DEF delete_event
  <2>2. CalTypeOK' /\ CalReqInv'
      BY <1>7, <2>1, CheckedKeeps DEF CalIInv, delete_event, CalOps, OfUser, Defaults
  <2>3. CalTypeOK'
      BY <2>2
  <2>4. CalReqInv'
      BY <2>2
  <2>5. CalTableInv'
      BY <1>7 DEF CalIInv, CalTypeOK, CalReqInv, CalTableInv, Defaults, OfUser, Kept, Conflict, delete_event, Checked, CalFree
  <2>6. PollInv'
      BY <1>7 DEF CalIInv, CalTypeOK, CalReqInv, PollInv, Kept, NoEvent, IdlePoll, delete_event, Checked, CalFree
  <2> QED BY <2>3, <2>4, <2>5, <2>6 DEF CalIInv
<1>8. ASSUME NEW r \in CalClient, AddDefault(r) PROVE CalIInv'
  <2>1. CalTypeOK'
      BY <1>8 DEF CalIInv, CalTypeOK, CalReqInv, Rsvp, NoCalReq, NoEvent, IdlePoll, AddDefault, Writes
  <2>2. CalReqInv'
      BY <1>8 DEF CalIInv, CalTypeOK, CalReqInv, CalTableInv, Defaults, OfUser, Conflict, Kept, NoCalReq, AddDefault, Writes
  <2>3. CalTableInv'
      BY <1>8 DEF CalIInv, CalTypeOK, CalReqInv, CalTableInv, Defaults, OfUser, Kept, Conflict, AddDefault, Writes
  <2>4. PollInv'
      BY <1>8 DEF CalIInv, CalTypeOK, CalReqInv, PollInv, Kept, NoEvent, IdlePoll, AddDefault, Writes
  <2> QED BY <2>1, <2>2, <2>3, <2>4 DEF CalIInv
<1>9. ASSUME NEW r \in CalClient, SetDefault(r) PROVE CalIInv'
  <2>1. CalTypeOK'
      BY <1>9 DEF CalIInv, CalTypeOK, CalReqInv, Rsvp, NoCalReq, NoEvent, IdlePoll, SetDefault, Writes
  <2>2. CalReqInv'
      BY <1>9 DEF CalIInv, CalTypeOK, CalReqInv, CalTableInv, Defaults, OfUser, Conflict, Kept, NoCalReq, SetDefault, Writes
  <2>3. CalTableInv'
      BY <1>9 DEF CalIInv, CalTypeOK, CalReqInv, CalTableInv, Defaults, OfUser, Kept, Conflict, SetDefault, Writes
  <2>4. PollInv'
      BY <1>9 DEF CalIInv, CalTypeOK, CalReqInv, PollInv, Kept, NoEvent, IdlePoll, SetDefault, Writes
  <2> QED BY <2>1, <2>2, <2>3, <2>4 DEF CalIInv
<1>10. ASSUME NEW r \in CalClient, delete_calendar_by_id(r) PROVE CalIInv'
  <2>1. CalTypeOK'
      BY <1>10 DEF CalIInv, CalTypeOK, CalReqInv, Rsvp, NoCalReq, NoEvent, IdlePoll, delete_calendar_by_id, Writes
  <2>2. CalReqInv'
      <3>1. \A q \in CalClient : q # r => calReq'[q] = calReq[q]
          BY <1>10 DEF delete_calendar_by_id, Writes, CalIInv, CalTypeOK
      <3>2. calReq'[r] = NoCalReq /\ together' = together
          BY <1>10 DEF delete_calendar_by_id, Writes, CalIInv, CalTypeOK
      <3>3. Defaults' \subseteq Defaults
          BY <1>10 DEF delete_calendar_by_id, CalIInv, CalTypeOK, Defaults
      <3>4. ~together => \A q \in CalClient : q # r => calReq[q].op \notin {"create", "update"}
          BY <1>10 DEF delete_calendar_by_id, Writes, CalIInv, CalReqInv, Conflict
      <3>5. \A q, s \in CalClient : Conflict(calReq'[s].op, calReq'[q].op) /\ s # q =>
                                      Conflict(calReq[s].op, calReq[q].op)
          BY <3>1, <3>2 DEF NoCalReq, Conflict
      <3> QED BY <3>1, <3>2, <3>3, <3>4, <3>5 DEF CalIInv, CalReqInv, NoCalReq
  <2>3. CalTableInv'
      BY <1>10 DEF CalIInv, CalTypeOK, CalReqInv, CalTableInv, Defaults, OfUser, Kept, Conflict, delete_calendar_by_id, Writes
  <2>4. PollInv'
      BY <1>10 DEF CalIInv, CalTypeOK, CalReqInv, PollInv, Kept, NoEvent, IdlePoll, delete_calendar_by_id, Writes
  <2> QED BY <2>1, <2>2, <2>3, <2>4 DEF CalIInv
<1>11. ASSUME NEW r \in CalClient, insert_new_event(r) PROVE CalIInv'
  <2>1. CalTypeOK'
      BY <1>11 DEF CalIInv, CalTypeOK, CalReqInv, Rsvp, NoCalReq, NoEvent, IdlePoll, insert_new_event, Writes
  <2>2. CalReqInv'
      BY <1>11 DEF CalIInv, CalTypeOK, CalReqInv, CalTableInv, Defaults, OfUser, Conflict, Kept, NoCalReq, insert_new_event, Writes
  <2>3. CalTableInv'
      BY <1>11 DEF CalIInv, CalTypeOK, CalReqInv, CalTableInv, Defaults, OfUser, Kept, Conflict, insert_new_event, Writes
  <2>4. PollInv'
      BY <1>11 DEF CalIInv, CalTypeOK, CalReqInv, PollInv, Kept, NoEvent, IdlePoll, insert_new_event, Writes
  <2> QED BY <2>1, <2>2, <2>3, <2>4 DEF CalIInv
<1>12. ASSUME NEW r \in CalClient, update_event_by_id(r) PROVE CalIInv'
  <2>1. CalTypeOK'
      <3> DEFINE e == calReq[r].event
                 n == [events[e] EXCEPT !.cal = calReq[r].cal, !.near = FALSE, !.rsvp = calReq[r].rsvp]
      <3>1. e \in Event /\ events \in [Event -> EventRow] /\ calReq \in [CalClient -> CalReqRow]
          BY <1>12 DEF CalIInv, CalTypeOK, CalReqInv, update_event_by_id, Writes, EventRow, CalReqRow, CalOps
      <3>2. n \in EventRow
        <4>1. events[e] \in EventRow /\ calReq[r].cal \in Cal \cup {None} /\ calReq[r].rsvp \in Rsvp
            BY <3>1 DEF CalReqRow
        <4>2. \A f \in BOOLEAN : [events[e] EXCEPT !.cal = calReq[r].cal, !.near = f, !.rsvp = calReq[r].rsvp] \in EventRow
            BY <4>1 DEF EventRow
        <4> QED BY <4>2
      <3>3. events' = events \/ events' = [events EXCEPT ![e] = n]
          BY <1>12, <3>1 DEF update_event_by_id, EventRow
      <3> HIDE DEF n
      <3>4. events' \in [Event -> EventRow]
          BY <3>1, <3>2, <3>3
      <3>5. calReq' \in [CalClient -> CalReqRow]
          BY <1>12, <3>1, CalRows DEF update_event_by_id, Writes
      <3>6. sent' \in [Event -> Nat]
          BY <1>12 DEF CalIInv, CalTypeOK, update_event_by_id
      <3> QED BY <1>12, <3>4, <3>5, <3>6 DEF CalIInv, CalTypeOK, update_event_by_id, Writes, EventRow, CalReqRow, CalOps
  <2>2. CalReqInv'
      BY <1>12 DEF CalIInv, CalTypeOK, CalReqInv, CalTableInv, Defaults, OfUser, Conflict, Kept, NoCalReq, update_event_by_id, Writes
  <2>3. CalTableInv'
      BY <1>12 DEF CalIInv, CalTypeOK, CalReqInv, CalTableInv, Defaults, OfUser, Kept, Conflict, update_event_by_id, Writes
  <2>4. PollInv'
      BY <1>12 DEF CalIInv, CalTypeOK, CalReqInv, PollInv, Kept, NoEvent, IdlePoll, update_event_by_id, Writes
  <2> QED BY <2>1, <2>2, <2>3, <2>4 DEF CalIInv
<1>13. ASSUME NEW r \in CalClient, delete_event_by_id(r) PROVE CalIInv'
  <2>1. CalTypeOK'
      BY <1>13 DEF CalIInv, CalTypeOK, CalReqInv, Rsvp, NoCalReq, NoEvent, IdlePoll, delete_event_by_id, Writes
  <2>2. CalReqInv'
      BY <1>13 DEF CalIInv, CalTypeOK, CalReqInv, CalTableInv, Defaults, OfUser, Conflict, Kept, NoCalReq, delete_event_by_id, Writes
  <2>3. CalTableInv'
      BY <1>13 DEF CalIInv, CalTypeOK, CalReqInv, CalTableInv, Defaults, OfUser, Kept, Conflict, delete_event_by_id, Writes
  <2>4. PollInv'
      BY <1>13 DEF CalIInv, CalTypeOK, CalReqInv, PollInv, Kept, NoEvent, IdlePoll, delete_event_by_id, Writes
  <2> QED BY <2>1, <2>2, <2>3, <2>4 DEF CalIInv
<1>14. ASSUME NEW r \in CalClient, ClearDefaults(r) PROVE CalIInv'
  <2>1. CalTypeOK' /\ CalReqInv'
      BY <1>14, ReadsKeeps DEF CalIInv, ClearDefaults, CalOps, Defaults, Rsvp
  <2>2. CalTypeOK'
      BY <2>1
  <2>3. CalReqInv'
      BY <2>1
  <2>4. CalTableInv'
      BY <1>14 DEF CalIInv, CalTypeOK, CalReqInv, CalTableInv, Defaults, OfUser, Kept, Conflict, ClearDefaults, Reads
  <2>5. PollInv'
      BY <1>14 DEF CalIInv, CalTypeOK, CalReqInv, PollInv, Kept, NoEvent, IdlePoll, ClearDefaults, Reads
  <2> QED BY <2>2, <2>3, <2>4, <2>5 DEF CalIInv
<1>15. ASSUME NEW r \in CalClient, DeleteSelect(r) PROVE CalIInv'
  <2>1. CalTypeOK' /\ CalReqInv'
      <3> DEFINE was == {c \in Cal : c = calReq[r].cal /\ calendars[c] = "plain"}
      <3>1. Reads(r, "delete", was, "none") /\ was \in SUBSET Cal
          BY <1>15 DEF DeleteSelect
      <3> HIDE DEF was
      <3> QED BY <3>1, ReadsKeeps DEF CalIInv, CalOps, Rsvp
  <2>2. CalTypeOK'
      BY <2>1
  <2>3. CalReqInv'
      BY <2>1
  <2>4. CalTableInv'
      BY <1>15 DEF CalIInv, CalTypeOK, CalReqInv, CalTableInv, Defaults, OfUser, Kept, Conflict, DeleteSelect, Reads
  <2>5. PollInv'
      BY <1>15 DEF CalIInv, CalTypeOK, CalReqInv, PollInv, Kept, NoEvent, IdlePoll, DeleteSelect, Reads
  <2> QED BY <2>2, <2>3, <2>4, <2>5 DEF CalIInv
<1>16. ASSUME NEW r \in CalClient, UpdateSelect(r) PROVE CalIInv'
  <2>1. CalTypeOK' /\ CalReqInv'
      <3> DEFINE was == {c \in Cal : c = calReq[r].cal /\ Kept(calReq[r].event)}
                 answer == events[calReq[r].event].rsvp
      <3>1. Reads(r, "update", was, answer) /\ was \in SUBSET Cal
          BY <1>16 DEF UpdateSelect
      <3>2. calReq[r].event \in Event
          BY <3>1 DEF CalIInv, CalReqInv, Reads
      <3>3. answer \in Rsvp
          BY <3>2 DEF CalIInv, CalTypeOK
      <3> HIDE DEF was, answer
      <3> QED BY <3>1, <3>3, ReadsKeeps DEF CalIInv, CalOps
  <2>2. CalTypeOK'
      BY <2>1
  <2>3. CalReqInv'
      BY <2>1
  <2>4. CalTableInv'
      BY <1>16 DEF CalIInv, CalTypeOK, CalReqInv, CalTableInv, Defaults, OfUser, Kept, Conflict, UpdateSelect, Reads
  <2>5. PollInv'
      BY <1>16 DEF CalIInv, CalTypeOK, CalReqInv, PollInv, Kept, NoEvent, IdlePoll, UpdateSelect, Reads
  <2> QED BY <2>2, <2>3, <2>4, <2>5 DEF CalIInv
<1>17. ASSUME NEW e \in Event, rsvp_event(e) PROVE CalIInv'
  <2>1. CalTypeOK'
      <3> DEFINE n == [events[e] EXCEPT !.rsvp = "accepted"]
      <3>1. events \in [Event -> EventRow]
          BY DEF CalIInv, CalTypeOK, EventRow
      <3>2. n \in EventRow
          BY <3>1 DEF EventRow, Rsvp
      <3>3. events' = [events EXCEPT ![e] = n]
          BY <1>17, <3>1 DEF rsvp_event, EventRow
      <3> HIDE DEF n
      <3>4. events' \in [Event -> EventRow]
          BY <3>1, <3>2, <3>3
      <3>5. calRequests' \in 0..MaxCalRequests
          BY <1>17 DEF CalIInv, CalTypeOK, rsvp_event
      <3> QED BY <1>17, <3>4, <3>5 DEF CalIInv, CalTypeOK, rsvp_event, EventRow
  <2>2. CalReqInv'
      BY <1>17 DEF CalIInv, CalTypeOK, CalReqInv, CalTableInv, Defaults, OfUser, Conflict, Kept, NoCalReq, rsvp_event
  <2>3. CalTableInv'
      BY <1>17 DEF CalIInv, CalTypeOK, CalReqInv, CalTableInv, Defaults, OfUser, Kept, Conflict, rsvp_event
  <2>4. PollInv'
      BY <1>17 DEF CalIInv, CalTypeOK, CalReqInv, PollInv, Kept, NoEvent, IdlePoll, rsvp_event
  <2> QED BY <2>1, <2>2, <2>3, <2>4 DEF CalIInv
<1>18. ASSUME NEW e \in Event, Nears(e) PROVE CalIInv'
  <2>1. CalTypeOK'
      <3> DEFINE n == [events[e] EXCEPT !.near = TRUE]
      <3>1. events \in [Event -> EventRow]
          BY DEF CalIInv, CalTypeOK, EventRow
      <3>2. n \in EventRow
          BY <3>1 DEF EventRow, Rsvp
      <3>3. events' = [events EXCEPT ![e] = n]
          BY <1>18, <3>1 DEF Nears, EventRow
      <3> HIDE DEF n
      <3>4. events' \in [Event -> EventRow]
          BY <3>1, <3>2, <3>3
      <3>5. calRequests' \in 0..MaxCalRequests
          BY <1>18 DEF CalIInv, CalTypeOK, Nears
      <3> QED BY <1>18, <3>4, <3>5 DEF CalIInv, CalTypeOK, Nears, EventRow
  <2>2. CalReqInv'
      BY <1>18 DEF CalIInv, CalTypeOK, CalReqInv, CalTableInv, Defaults, OfUser, Conflict, Kept, NoCalReq, Nears
  <2>3. CalTableInv'
      BY <1>18 DEF CalIInv, CalTypeOK, CalReqInv, CalTableInv, Defaults, OfUser, Kept, Conflict, Nears
  <2>4. PollInv'
      BY <1>18 DEF CalIInv, CalTypeOK, CalReqInv, PollInv, Kept, NoEvent, IdlePoll, Nears
  <2> QED BY <2>1, <2>2, <2>3, <2>4 DEF CalIInv
<1>19. ASSUME NEW p \in Process, get_upcoming_events(p) PROVE CalIInv'
  <2>1. CalTypeOK'
      BY <1>19 DEF CalIInv, CalTypeOK, CalReqInv, Rsvp, NoCalReq, NoEvent, IdlePoll, get_upcoming_events
  <2>2. CalReqInv'
      BY <1>19 DEF CalIInv, CalTypeOK, CalReqInv, CalTableInv, Defaults, OfUser, Conflict, Kept, NoCalReq, get_upcoming_events
  <2>3. CalTableInv'
      BY <1>19 DEF CalIInv, CalTypeOK, CalReqInv, CalTableInv, Defaults, OfUser, Kept, Conflict, get_upcoming_events
  <2>4. PollInv'
      <3> DEFINE found == {e \in Event : Kept(e) /\ events[e].near /\ ~events[e].alerted}
                 n == [step |-> "next", event |-> None, todo |-> found]
                 busy == \E q \in Process : poll[q].step # "idle"
      <3>1. poll' = [poll EXCEPT ![p] = n] /\ shared' = (shared \/ busy) /\ busy \in BOOLEAN
          BY <1>19 DEF get_upcoming_events
      <3>2. n.step = "next" /\ n.todo = found
          OBVIOUS
      <3> HIDE DEF n, found
      <3>3. poll'[p] = n /\ \A q \in Process \ {p} : poll'[q] = poll[q]
          BY <3>1 DEF CalIInv, CalTypeOK
      <3>4. ~shared' => ~shared /\ \A q \in Process : poll[q].step = "idle" /\ poll[q].todo = {}
          BY <3>1 DEF CalIInv, CalTypeOK, PollInv
      <3>5. UNCHANGED <<events, sent, markFails>>
          BY <1>19 DEF get_upcoming_events
      <3>6. \A e \in found : e \in Event /\ events[e].state = "stored" /\ ~events[e].alerted
          BY DEF found, Kept
      <3>7. ~shared' /\ markFails' = 0 =>
              \A e \in Event :
                  /\ sent[e] <= 1
                  /\ \A q \in Process : e \in poll'[q].todo => sent[e] = 0
                  /\ Kept(e) /\ sent[e] # 0 => events[e].alerted
          BY <3>2, <3>3, <3>4, <3>5, <3>6 DEF CalIInv, PollInv, CalTypeOK, Kept
      <3>8. \A e \in Event : events[e].state = "unused" => sent[e] = 0 /\ \A q \in Process : e \notin poll'[q].todo
          BY <3>2, <3>3, <3>6 DEF CalIInv, PollInv
      <3>9. ~shared' => \A q, s \in Process : poll'[q].step # "idle" /\ poll'[s].step # "idle" => q = s
          BY <3>2, <3>3, <3>4
      <3>10. \A q \in Process : (poll'[q].step = "idle" => poll'[q].todo = {}) /\ (poll'[q].step = "mark" => poll'[q].event \in Event)
          BY <3>2, <3>3 DEF CalIInv, PollInv
      <3> QED BY <3>5, <3>7, <3>8, <3>9, <3>10 DEF PollInv, Kept
  <2> QED BY <2>1, <2>2, <2>3, <2>4 DEF CalIInv
<1>20. ASSUME NEW p \in Process, Mark(p) PROVE CalIInv'
  <2>1. CalTypeOK'
      <3> DEFINE PollRow == [step : {"idle", "next", "mark"}, todo : SUBSET Event, event : Event \cup {None}]
                 n == [poll[p] EXCEPT !.step = "next", !.event = None]
      <3>1. poll \in [Process -> PollRow] /\ events \in [Event -> EventRow]
          BY DEF CalIInv, CalTypeOK, EventRow
      <3>2. n \in PollRow /\ poll' = [poll EXCEPT ![p] = n]
          BY <1>20, <3>1 DEF Mark
      <3>3. poll' \in [Process -> PollRow]
          BY <3>1, <3>2
      <3> DEFINE e == poll[p].event
                 m == [events[e] EXCEPT !.alerted = TRUE]
      <3>4. e \in Event
          BY <1>20 DEF CalIInv, PollInv, Mark
      <3>5. m \in EventRow
          BY <3>1, <3>4 DEF EventRow
      <3>6. events' = events \/ events' = [events EXCEPT ![e] = m]
          BY <1>20, <3>1, <3>4 DEF Mark, EventRow
      <3> HIDE DEF m
      <3>7. events' \in [Event -> EventRow]
          BY <3>1, <3>5, <3>6
      <3> QED BY <1>20, <3>3, <3>7 DEF CalIInv, CalTypeOK, Mark, EventRow
  <2>2. CalReqInv'
      BY <1>20 DEF CalIInv, CalTypeOK, CalReqInv, CalTableInv, Defaults, OfUser, Conflict, Kept, NoCalReq, Mark
  <2>3. CalTableInv'
      BY <1>20 DEF CalIInv, CalTypeOK, CalReqInv, CalTableInv, Defaults, OfUser, Kept, Conflict, Mark
  <2>4. PollInv'
      BY <1>20 DEF CalIInv, CalTypeOK, CalReqInv, PollInv, Kept, NoEvent, IdlePoll, Mark
  <2> QED BY <2>1, <2>2, <2>3, <2>4 DEF CalIInv
<1>21. ASSUME NEW p \in Process, MarkFails(p) PROVE CalIInv'
  <2>1. CalTypeOK'
      <3> DEFINE PollRow == [step : {"idle", "next", "mark"}, todo : SUBSET Event, event : Event \cup {None}]
                 n == [poll[p] EXCEPT !.step = "next", !.event = None]
      <3>1. poll \in [Process -> PollRow] /\ events \in [Event -> EventRow]
          BY DEF CalIInv, CalTypeOK, EventRow
      <3>2. n \in PollRow /\ poll' = [poll EXCEPT ![p] = n]
          BY <1>21, <3>1 DEF MarkFails
      <3>3. poll' \in [Process -> PollRow]
          BY <3>1, <3>2
      <3>7. events' \in [Event -> EventRow] /\ markFails' \in 0..MaxMarkFails
          BY <1>21, <3>1 DEF MarkFails, CalIInv, CalTypeOK
      <3> QED BY <1>21, <3>3, <3>7 DEF CalIInv, CalTypeOK, MarkFails, EventRow
  <2>2. CalReqInv'
      BY <1>21 DEF CalIInv, CalTypeOK, CalReqInv, CalTableInv, Defaults, OfUser, Conflict, Kept, NoCalReq, MarkFails
  <2>3. CalTableInv'
      BY <1>21 DEF CalIInv, CalTypeOK, CalReqInv, CalTableInv, Defaults, OfUser, Kept, Conflict, MarkFails
  <2>4. PollInv'
      BY <1>21 DEF CalIInv, CalTypeOK, CalReqInv, PollInv, Kept, NoEvent, IdlePoll, MarkFails
  <2> QED BY <2>1, <2>2, <2>3, <2>4 DEF CalIInv
<1>22. ASSUME NEW p \in Process, PollEnds(p) PROVE CalIInv'
  <2>1. CalTypeOK'
      BY <1>22 DEF CalIInv, CalTypeOK, CalReqInv, Rsvp, NoCalReq, NoEvent, IdlePoll, PollEnds
  <2>2. CalReqInv'
      BY <1>22 DEF CalIInv, CalTypeOK, CalReqInv, CalTableInv, Defaults, OfUser, Conflict, Kept, NoCalReq, PollEnds
  <2>3. CalTableInv'
      BY <1>22 DEF CalIInv, CalTypeOK, CalReqInv, CalTableInv, Defaults, OfUser, Kept, Conflict, PollEnds
  <2>4. PollInv'
      BY <1>22 DEF CalIInv, CalTypeOK, CalReqInv, PollInv, Kept, NoEvent, IdlePoll, PollEnds
  <2> QED BY <2>1, <2>2, <2>3, <2>4 DEF CalIInv
<1>23. ASSUME NEW p \in Process, NEW e \in Event, Emit(p, e) PROVE CalIInv'
  <2>1. CalTypeOK'
      BY <1>23 DEF CalIInv, CalTypeOK, CalReqInv, Rsvp, NoCalReq, NoEvent, IdlePoll, Emit
  <2>2. CalReqInv'
      BY <1>23 DEF CalIInv, CalTypeOK, CalReqInv, CalTableInv, Defaults, OfUser, Conflict, Kept, NoCalReq, Emit
  <2>3. CalTableInv'
      BY <1>23 DEF CalIInv, CalTypeOK, CalReqInv, CalTableInv, Defaults, OfUser, Kept, Conflict, Emit
  <2>4. PollInv'
      BY <1>23 DEF CalIInv, CalTypeOK, CalReqInv, PollInv, Kept, NoEvent, IdlePoll, Emit
  <2> QED BY <2>1, <2>2, <2>3, <2>4 DEF CalIInv
<1>24. ASSUME UNCHANGED calVars PROVE CalIInv'
    BY <1>24 DEF CalIInv, calVars, CalTypeOK, CalReqInv, CalTableInv, PollInv, Defaults, OfUser, Kept, Conflict
<1> QED BY <1>1, <1>2, <1>3, <1>4, <1>5, <1>6, <1>7, <1>8, <1>9, <1>10, <1>11, <1>12, <1>13, <1>14, <1>15, <1>16, <1>17, <1>18, <1>19, <1>20, <1>21, <1>22, <1>23, <1>24 DEF CalNext

(* What the run checks of calendars follows: the defaults are equal in       *)
(* pairs, so there is at most one.                                           *)
LEMMA CalendarSound == CalIInv => CalTypeOK /\ AlertNotRepeated /\ CalendarsConsistent
<1> SUFFICES ASSUME CalIInv PROVE CalTypeOK /\ AlertNotRepeated /\ CalendarsConsistent
    OBVIOUS
<1>1. CalTypeOK
    BY DEF CalIInv
<1>2. AlertNotRepeated
  <2> SUFFICES ASSUME NEW e \in Event, ~shared, ~(markFails > 0) PROVE sent[e] <= 1
      BY DEF AlertNotRepeated
  <2>1. markFails = 0
      BY CalendarAssumption DEF CalIInv, CalTypeOK
  <2> QED BY <2>1 DEF CalIInv, PollInv
<1>3. ASSUME ~together PROVE Cardinality(Defaults) <= 1
  <2>1. CASE Defaults = {}
      BY <2>1, FS_EmptySet
  <2>2. CASE Defaults # {}
    <3>1. PICK c : c \in Defaults
        BY <2>2
    <3>2. \A d \in Defaults : d = c
        BY <1>3, <3>1 DEF CalIInv, CalTableInv
    <3>3. Defaults = {c}
        BY <3>1, <3>2
    <3> QED BY <3>3, FS_Singleton
  <2> QED BY <2>1, <2>2
<1>4. CalendarsConsistent
    BY <1>3 DEF CalIInv, CalTableInv, CalendarsConsistent, Kept
<1> QED BY <1>1, <1>2, <1>4

-----------------------------------------------------------------------------
(* The tool calls of a message                                             *)

Steps == {"idle", "call", "resolve", "drain", "execute", "stream", "tools", "begin", "finish"}
WorkRow == [step : Steps, out : [Calls -> Item], todo : SUBSET Calls, rounds : Nat]
StoredRow == [out : [Calls -> Item], done : BOOLEAN, error : BOOLEAN, asked : BOOLEAN]
Decisions == {"approve", "reject", "answer"}

ToolTypes ==
    /\ mode \in {"ask", "full"}
    /\ stored \in StoredRow
    /\ work \in [Worker -> WorkRow]
    /\ ran \in [Calls -> Nat] /\ decided \in [Calls -> SUBSET Decisions]
    /\ alone \in BOOLEAN /\ stops \in Nat

(* Any copy of the output: the calls made are the first ones, ask_user is    *)
(* never queued nor in progress, and what is in progress has no result.      *)
InOrder(out) ==
    /\ \E k \in 0..MaxCalls : CallsMade(out) = 1..k
    /\ \A i \in Calls :
          /\ out[i].st = "none" => ~out[i].ask /\ ~out[i].approved /\ ~out[i].res
          /\ out[i].st \in {"queued", "in_progress"} => ~out[i].ask
          /\ out[i].st = "in_progress" => ~out[i].res

(* What a worker has still to do is open in the copy it holds.               *)
RowOK(n) ==
    /\ InOrder(n.out)
    /\ n.step \notin {"execute", "tools", "begin"} => n.todo = {}
    /\ n.step = "execute" => n.todo = ApprovedCalls(n.out)
    /\ n.step \in {"tools", "begin"} =>
          \A i \in n.todo : n.out[i].st \in {"completed", "in_progress"} /\ ~n.out[i].res
HeldInv == InOrder(stored.out) /\ \A w \in Worker : RowOK(work[w])

(* While nothing was stopped, calls in progress are those being worked on,   *)
(* and without approvals nothing is queued but what the user approved.       *)
Tidy(out, todo) ==
    /\ \A i \in Calls \ todo : out[i].st # "in_progress"
    /\ mode = "full" => \A i \in Calls : out[i].st = "queued" /\ ~out[i].res => out[i].approved
RowTidy(n) == Tidy(n.out, IF n.step = "finish" THEN Calls ELSE n.todo)
TidyInv == stops = 0 => Tidy(stored.out, {}) /\ \A w \in Worker : RowTidy(work[w])

(* Approved in a copy means approved by the user, and in "ask" mode only     *)
(* that runs.                                                                *)
ApprovedIn(out) == \A i \in Calls : out[i].approved => "approve" \in decided[i]
ApprovedInv == ApprovedIn(stored.out) /\ (\A w \in Worker : ApprovedIn(work[w].out)) /\ RunsOnlyApproved

(* While one worker at a time is at work, the copy in use knows every call   *)
(* that ran or was rejected.                                                 *)
HasCopy == {"resolve", "execute", "stream", "tools", "begin", "finish"}
Knows(out) ==
    \A i \in Calls : /\ ran[i] > 0 => ran[i] = 1 /\ out[i].res
                     /\ "reject" \in decided[i] => ran[i] = 0 /\ out[i].res
CurrentInv ==
    alone /\ stops = 0 =>
        /\ \A w, v \in Worker : Busy(w) /\ Busy(v) => w = v
        /\ (\A w \in Worker : work[w].step \notin HasCopy) => Knows(stored.out)
        /\ \A w \in Worker : work[w].step \in HasCopy => Knows(work[w].out)

ToolIInv == ToolTypes /\ HeldInv /\ TidyInv /\ ApprovedInv /\ CurrentInv /\ NeverStuck

\* The smallest of some calls is one of them.
LEMMA MinInSet ==
    ASSUME NEW S \in SUBSET Calls, S # {}
    PROVE  Min(S) \in S
<1>1. S \in SUBSET Nat
    BY ToolLoopAssumption DEF Calls
<1> QED BY <1>1, MinIsLeast

(* The three ways an item changes.                                           *)
Restated(x, st) == [x EXCEPT !.st = st]
Answered(x, st, b) == [x EXCEPT !.st = st, !.res = b]
Allowed(x) == [x EXCEPT !.st = "queued", !.approved = TRUE]
States == {"none", "in_progress", "completed", "failed", "rejected", "pending", "queued"}

\* A new status leaves the rest of an item.
LEMMA ItemMoved ==
    \A x \in Item, st \in States :
        /\ Restated(x, st) \in Item /\ Restated(x, st).st = st
        /\ Restated(x, st).ask = x.ask /\ Restated(x, st).approved = x.approved /\ Restated(x, st).res = x.res
BY DEF Item, Waiting, Restated, States

\* A result is recorded beside the status.
LEMMA ItemAnswered ==
    \A x \in Item, st \in States, b \in BOOLEAN :
        /\ Answered(x, st, b) \in Item /\ Answered(x, st, b).st = st /\ (Answered(x, st, b).res <=> b)
        /\ Answered(x, st, b).ask = x.ask /\ Answered(x, st, b).approved = x.approved
BY DEF Item, Waiting, Answered, States

\* The two ways a question of the model is staged.
LEMMA ItemStaged ==
    \A x \in Item :
        /\ Answered(x, "completed", TRUE) \in Item /\ Answered(x, "completed", TRUE).st = "completed"
        /\ Answered(x, "completed", TRUE).res /\ (Answered(x, "completed", TRUE).ask <=> x.ask)
        /\ (Answered(x, "completed", TRUE).approved <=> x.approved)
        /\ Answered(x, "pending", FALSE) \in Item /\ Answered(x, "pending", FALSE).st = "pending"
        /\ ~Answered(x, "pending", FALSE).res /\ (Answered(x, "pending", FALSE).ask <=> x.ask)
        /\ (Answered(x, "pending", FALSE).approved <=> x.approved)
BY DEF Item, Waiting, Answered

\* An approval queues the call.
LEMMA ItemAllowed ==
    \A x \in Item :
        /\ Allowed(x) \in Item /\ Allowed(x).st = "queued" /\ Allowed(x).approved = TRUE
        /\ Allowed(x).ask = x.ask /\ Allowed(x).res = x.res
<1> TAKE x \in Item
<1>1. \A b \in BOOLEAN : [x EXCEPT !.st = "queued", !.approved = b] \in Item
    BY DEF Item, Waiting
<1>2. /\ Allowed(x).st = "queued" /\ Allowed(x).approved = TRUE
      /\ Allowed(x).ask = x.ask /\ Allowed(x).res = x.res
    BY DEF Item, Allowed
<1> QED BY <1>1, <1>2 DEF Allowed

(* Copies that make the same calls have them in the same order.              *)
LEMMA SameCalls ==
    ASSUME NEW a \in [Calls -> Item], NEW b \in [Calls -> Item], InOrder(a),
           \A i \in Calls : b[i].st = "none" <=> a[i].st = "none",
           \A i \in Calls : /\ b[i].st = "none" => ~b[i].ask /\ ~b[i].approved /\ ~b[i].res
                            /\ b[i].st \in {"queued", "in_progress"} => ~b[i].ask
                            /\ b[i].st = "in_progress" => ~b[i].res
    PROVE  InOrder(b)
<1>1. CallsMade(b) = CallsMade(a)
    BY DEF CallsMade
<1> QED BY <1>1 DEF InOrder

(* Pausing offers the first open call and leaves nothing in progress.        *)
LEMMA PauseOffers ==
    ASSUME NEW out \in [Calls -> Item], InOrder(out)
    PROVE  /\ Pause(out) \in [Calls -> Item] /\ InOrder(Pause(out))
           /\ \A i \in Calls :
                 /\ Pause(out)[i].ask = out[i].ask /\ Pause(out)[i].approved = out[i].approved
                 /\ Pause(out)[i].res = out[i].res /\ Pause(out)[i].st # "in_progress"
                 /\ Pause(out)[i].st = "queued" => out[i].st \in {"queued", "in_progress"}
           /\ Open(out) # {} => \E i \in Calls : Pause(out)[i].st = "pending" /\ ~Pause(out)[i].res
<1> DEFINE n(i) == IF i = Min(Open(out)) THEN "pending" ELSE IF out[i].st = "in_progress" THEN "queued" ELSE out[i].st
           p == [i \in Calls |-> IF i \in Open(out) THEN Restated(out[i], n(i)) ELSE out[i]]
<1>1. Pause(out) = p
    BY DEF Pause, Item, Restated
<1>2. \A i \in Calls : n(i) \in States
    BY DEF Item, Waiting, States
<1>3. Open(out) \subseteq Calls /\ \A i \in Open(out) : out[i].st # "none" /\ ~out[i].res
    BY DEF Open, CallsMade
<1>4. \A i \in Calls : /\ p[i] \in Item /\ p[i].ask = out[i].ask /\ p[i].approved = out[i].approved
                       /\ p[i].res = out[i].res
                       /\ p[i].st = IF i \in Open(out) THEN n(i) ELSE out[i].st
  <2> TAKE i \in Calls
  <2> HIDE DEF n
  <2>1. CASE i \in Open(out)
      BY <2>1, <1>2, ItemMoved
  <2>2. CASE i \notin Open(out)
      BY <2>2
  <2> QED BY <2>1, <2>2
<1>5. p \in [Calls -> Item]
    BY <1>4
<1>6. \A i \in Calls : out[i].st = "in_progress" => i \in Open(out)
    BY DEF InOrder, Open, CallsMade
<1>7. \A i \in Calls : p[i].st # "in_progress" /\ (p[i].st = "queued" => out[i].st \in {"queued", "in_progress"})
    BY <1>4, <1>6
<1>8. \A i \in Calls : p[i].st = "none" <=> out[i].st = "none"
    BY <1>3, <1>4
<1> HIDE DEF p
<1>9. InOrder(p)
    BY <1>4, <1>5, <1>7, <1>8, SameCalls DEF InOrder
<1>10. ASSUME Open(out) # {} PROVE \E i \in Calls : p[i].st = "pending" /\ ~p[i].res
    BY <1>3, <1>4, <1>10, MinInSet
<1> QED BY <1>1, <1>4, <1>5, <1>7, <1>9, <1>10

(* A decision is made on a call that waits.                                  *)
LEMMA DecideIsApplied ==
    ASSUME NEW out \in [Calls -> Item], InOrder(out), NEW i \in Calls, NEW action \in Decisions,
           out[i].st \in Waiting, ~out[i].res, action = "approve" => ~out[i].ask
    PROVE  /\ Decide(i, action, out) \in [Calls -> Item] /\ InOrder(Decide(i, action, out))
           /\ \A j \in Calls : j # i => Decide(i, action, out)[j] = out[j]
           /\ Decide(i, action, out)[i].st # "in_progress"
           /\ Decide(i, action, out)[i].approved => out[i].approved \/ action = "approve"
           /\ (Decide(i, action, out)[i].res <=> action # "approve")
           /\ Decide(i, action, out)[i].st = "queued" => Decide(i, action, out)[i].approved
<1> DEFINE st == IF action = "approve" THEN "queued" ELSE IF action = "reject" THEN "rejected" ELSE "completed"
           n == IF action = "approve" THEN Allowed(out[i]) ELSE Answered(out[i], st, TRUE)
<1>1. Decide(i, action, out) = [out EXCEPT ![i] = n]
    BY DEF Decide, Decisions, Item, Allowed, Answered
<1>2. /\ n \in Item /\ n.st = st /\ n.ask = out[i].ask /\ (n.res <=> action # "approve")
      /\ (n.approved <=> (out[i].approved \/ action = "approve"))
  <2>1. CASE action = "approve"
    <3>1. n = Allowed(out[i]) /\ st = "queued" /\ out[i] \in Item
        BY <2>1
    <3> HIDE DEF n, st
    <3>2. n \in Item /\ n.st = st /\ n.ask = out[i].ask /\ n.res = out[i].res /\ n.approved = TRUE
        BY <3>1, ItemAllowed, Zenon
    <3> QED BY <3>1, <3>2, <2>1
  <2>2. CASE action # "approve"
    <3>1. n = Answered(out[i], st, TRUE) /\ st \in States /\ out[i] \in Item /\ TRUE \in BOOLEAN
        BY <2>2 DEF Decisions, States
    <3> HIDE DEF n, st
    <3>2. n \in Item /\ n.st = st /\ n.ask = out[i].ask /\ n.res /\ n.approved = out[i].approved
        BY <3>1, ItemAnswered, Zenon
    <3> QED BY <3>2, <2>2
  <2> QED BY <2>1, <2>2
<1> DEFINE d == [out EXCEPT ![i] = n]
<1>3. d \in [Calls -> Item] /\ d[i] = n /\ \A j \in Calls : j # i => d[j] = out[j]
  <2> HIDE DEF n
  <2> QED BY <1>2
<1>4. st \notin {"none", "in_progress"} /\ (st = "queued" <=> action = "approve")
    OBVIOUS
<1> HIDE DEF d, n, st
<1>5. InOrder(d)
    BY <1>2, <1>3, <1>4, SameCalls DEF InOrder, Waiting
<1> QED BY <1>1, <1>2, <1>3, <1>4, <1>5 DEF d

(* A tool that was run leaves its result.                                    *)
Recorded(out, i, status) == [out EXCEPT ![i].st = status, ![i].res = TRUE]

\* Only the item of the call that ran changes, and it has its result.
LEMMA RunIsRecorded ==
    ASSUME NEW out \in [Calls -> Item], InOrder(out), NEW i \in Calls, NEW status \in {"completed", "failed"},
           out[i].st # "none"
    PROVE  LET out2 == Recorded(out, i, status) IN
           /\ out2 \in [Calls -> Item] /\ InOrder(out2)
           /\ \A j \in Calls : j # i => out2[j] = out[j]
           /\ out2[i].st = status /\ out2[i].res /\ out2[i].approved = out[i].approved
<1> DEFINE n == Answered(out[i], status, TRUE)
           g == [out EXCEPT ![i] = n]
<1>1. Recorded(out, i, status) = g
    BY DEF Item, Answered, Recorded
<1>2. n \in Item /\ n.st = status /\ n.res /\ n.ask = out[i].ask /\ n.approved = out[i].approved
  <2>1. out[i] \in Item /\ status \in States /\ TRUE \in BOOLEAN
      BY DEF States
  <2> QED BY <2>1, ItemAnswered, Zenon
<1> HIDE DEF n
<1>3. g \in [Calls -> Item] /\ g[i] = n /\ \A j \in Calls : j # i => g[j] = out[j]
    BY <1>2
<1> HIDE DEF g
<1>4. \A j \in Calls : g[j].st = "none" <=> out[j].st = "none"
    BY <1>2, <1>3
<1>5. InOrder(g)
  <2>1. \A j \in Calls : /\ g[j].st = "none" => ~g[j].ask /\ ~g[j].approved /\ ~g[j].res
                         /\ g[j].st \in {"queued", "in_progress"} => ~g[j].ask
                         /\ g[j].st = "in_progress" => ~g[j].res
      BY <1>2, <1>3 DEF InOrder
  <2> QED BY <1>3, <1>4, <2>1, SameCalls
<1> QED BY <1>1, <1>2, <1>3, <1>5

(* An answer of the model appends its calls behind those made before.        *)
Streamed(out, n, split, ask) ==
    LET first == Cardinality(CallsMade(out)) + 1
        fresh == first..(first + n - 1)
    IN [i \in Calls |->
          IF i \notin fresh THEN out[i]
          ELSE [Uncalled EXCEPT !.st = IF split /\ i # first THEN "in_progress" ELSE "completed",
                                !.ask = ask /\ i = first]]

Opened(out, n) == (Cardinality(CallsMade(out)) + 1)..(Cardinality(CallsMade(out)) + 1 + n - 1)

\* The new calls follow those made before and have neither result nor approval.
LEMMA StreamAppends ==
    ASSUME NEW out \in [Calls -> Item], InOrder(out), NEW n \in 0..2, NEW split \in BOOLEAN, NEW ask \in BOOLEAN,
           Opened(out, n) \subseteq Calls
    PROVE  /\ Streamed(out, n, split, ask) \in [Calls -> Item] /\ InOrder(Streamed(out, n, split, ask))
           /\ \A i \in Calls \ Opened(out, n) : Streamed(out, n, split, ask)[i] = out[i]
           /\ \A i \in Opened(out, n) :
                 /\ out[i].st = "none" /\ Streamed(out, n, split, ask)[i].st \in {"completed", "in_progress"}
                 /\ ~Streamed(out, n, split, ask)[i].res /\ ~Streamed(out, n, split, ask)[i].approved
           /\ n = 0 => Opened(out, n) = {}
<1>a. PICK first : first = Cardinality(CallsMade(out)) + 1
    OBVIOUS
<1>b. PICK fresh : fresh = Opened(out, n)
    OBVIOUS
<1>c. fresh = first..(first + n - 1) /\ fresh \subseteq Calls
    BY <1>a, <1>b DEF Opened
<1> DEFINE m(i) == [Uncalled EXCEPT !.st = IF split /\ i # first THEN "in_progress" ELSE "completed", !.ask = ask /\ i = first]
           a == [i \in Calls |-> IF i \notin fresh THEN out[i] ELSE m(i)]
<1>1. Streamed(out, n, split, ask) = a
    BY <1>a, <1>c DEF Streamed
<1>2. PICK k \in 0..MaxCalls : CallsMade(out) = 1..k
    BY DEF InOrder
<1>3. first = k + 1
  <2>1. Cardinality(1..k) = k
      BY FS_Interval, ToolLoopAssumption
  <2> QED BY <1>2, <2>1, <1>a
<1>4. \A i \in fresh : i \in Calls /\ i \notin CallsMade(out)
    BY <1>2, <1>3, <1>c, ToolLoopAssumption DEF Calls
<1>5. \A i \in fresh : out[i].st = "none"
    BY <1>4 DEF CallsMade
<1>6. ASSUME NEW i \in Calls
      PROVE  /\ m(i) \in Item /\ m(i).st = (IF split /\ i # first THEN "in_progress" ELSE "completed")
             /\ (m(i).ask <=> (ask /\ i = first)) /\ ~m(i).approved /\ ~m(i).res
  <2> DEFINE st == IF split /\ i # first THEN "in_progress" ELSE "completed"
             b == ask /\ i = first
  <2>1. st \in {"in_progress", "completed"} /\ b \in BOOLEAN
      OBVIOUS
  <2> HIDE DEF st, b
  <2>2. [Uncalled EXCEPT !.st = st, !.ask = b] \in Item
      BY <2>1 DEF Uncalled, Item, Waiting
  <2>3. /\ [Uncalled EXCEPT !.st = st, !.ask = b].st = st
        /\ ([Uncalled EXCEPT !.st = st, !.ask = b].ask <=> b)
        /\ ~[Uncalled EXCEPT !.st = st, !.ask = b].approved /\ ~[Uncalled EXCEPT !.st = st, !.ask = b].res
      BY <2>1 DEF Uncalled
  <2> QED BY <2>2, <2>3 DEF st, b
<1> HIDE DEF m
<1>7. \A i \in Calls : a[i] = IF i \notin fresh THEN out[i] ELSE m(i)
    OBVIOUS
<1>8. a \in [Calls -> Item]
    BY <1>6
<1> HIDE DEF a
<1>9. k + n \in 0..MaxCalls
  <2>1. n = 0 \/ k + n \in Calls
      BY <1>2, <1>3, <1>c
  <2> QED BY <1>2, <2>1, ToolLoopAssumption DEF Calls
<1>10. CallsMade(a) = 1..(k + n)
  <2>1. \A i \in Calls : a[i].st # "none" <=> i \in CallsMade(out) \/ i \in fresh
      BY <1>6, <1>7 DEF CallsMade
  <2>2. fresh = (k + 1)..(k + n)
      BY <1>2, <1>3, <1>c
  <2>3. \A i \in Calls : a[i].st # "none" <=> i \in 1..(k + n)
      BY <1>2, <2>1, <2>2, ToolLoopAssumption DEF Calls
  <2>4. 1..(k + n) \subseteq Calls
      BY <1>2, <1>9, ToolLoopAssumption DEF Calls
  <2> QED BY <2>3, <2>4 DEF CallsMade
<1>11. \A i \in Calls : /\ a[i].st = "none" => ~a[i].ask /\ ~a[i].approved /\ ~a[i].res
                        /\ a[i].st \in {"queued", "in_progress"} => ~a[i].ask
                        /\ a[i].st = "in_progress" => ~a[i].res
    BY <1>6, <1>7 DEF InOrder
<1>12. InOrder(a)
    BY <1>9, <1>10, <1>11 DEF InOrder
<1>13. n = 0 => fresh = {}
    BY <1>2, <1>3, <1>c
<1> QED BY <1>b, <1>1, <1>5, <1>6, <1>7, <1>8, <1>12, <1>13

(* The questions of an answer are answered with an error or offered.         *)
Staged(out, asks, error) ==
    [i \in Calls |-> IF i \notin asks THEN out[i]
                     ELSE [out[i] EXCEPT !.st = IF error THEN "completed" ELSE "pending", !.res = error]]

\* Only the questions of the answer change.
LEMMA AnswersStaged ==
    ASSUME NEW out \in [Calls -> Item], InOrder(out), NEW asks \in SUBSET Calls, NEW error \in BOOLEAN,
           \A i \in asks : out[i].st # "none"
    PROVE  LET staged == Staged(out, asks, error) IN
           /\ staged \in [Calls -> Item] /\ InOrder(staged)
           /\ \A i \in Calls \ asks : staged[i] = out[i]
           /\ \A i \in asks : /\ staged[i].st = (IF error THEN "completed" ELSE "pending")
                              /\ (staged[i].res <=> error) /\ (staged[i].approved <=> out[i].approved)
<1> DEFINE n(i) == IF error THEN Answered(out[i], "completed", TRUE) ELSE Answered(out[i], "pending", FALSE)
           g == [i \in Calls |-> IF i \notin asks THEN out[i] ELSE n(i)]
<1>1. Staged(out, asks, error) = g
  <2>1. CASE error
      BY <2>1 DEF Answered, Staged
  <2>2. CASE ~error
      BY <2>2 DEF Answered, Staged
  <2> QED BY <2>1, <2>2
<1>2. \A i \in Calls :
          /\ n(i) \in Item /\ n(i).st = (IF error THEN "completed" ELSE "pending") /\ (n(i).res <=> error)
          /\ (n(i).ask <=> out[i].ask) /\ (n(i).approved <=> out[i].approved)
  <2>1. CASE error
      BY <2>1, ItemStaged
  <2>2. CASE ~error
      BY <2>2, ItemStaged
  <2> QED BY <2>1, <2>2
<1> HIDE DEF n
<1>3. g \in [Calls -> Item] /\ \A i \in Calls : g[i] = IF i \notin asks THEN out[i] ELSE n(i)
    BY <1>2
<1> HIDE DEF g
<1>4. /\ \A i \in Calls \ asks : g[i] = out[i]
      /\ \A i \in asks : /\ g[i].st = (IF error THEN "completed" ELSE "pending")
                         /\ (g[i].res <=> error) /\ (g[i].approved <=> out[i].approved)
    BY <1>2, <1>3
<1>5. \A i \in Calls : g[i].st = "none" <=> out[i].st = "none"
    BY <1>4
<1>6. \A i \in Calls : /\ g[i].st = "none" => ~g[i].ask /\ ~g[i].approved /\ ~g[i].res
                       /\ g[i].st \in {"queued", "in_progress"} => ~g[i].ask
                       /\ g[i].st = "in_progress" => ~g[i].res
    BY <1>4 DEF InOrder
<1>7. InOrder(g)
    BY <1>3, <1>5, <1>6, SameCalls
<1> QED BY <1>1, <1>3, <1>4, <1>7

(* A response that ends counts what is in progress as completed.             *)
Ended(out) == [i \in Calls |-> [out[i] EXCEPT !.st = IF @ = "in_progress" THEN "completed" ELSE @]]

\* Ending changes neither results nor approvals.
LEMMA EndedInOrder ==
    ASSUME NEW out \in [Calls -> Item], InOrder(out)
    PROVE  LET end == Ended(out) IN
           /\ end \in [Calls -> Item] /\ InOrder(end)
           /\ \A i \in Calls : /\ end[i].st # "in_progress" /\ (end[i].res <=> out[i].res)
                               /\ (end[i].approved <=> out[i].approved)
                               /\ end[i].st = "queued" => out[i].st = "queued"
<1> DEFINE st(i) == IF out[i].st = "in_progress" THEN "completed" ELSE out[i].st
           g == [i \in Calls |-> Restated(out[i], st(i))]
<1>1. Ended(out) = g
    BY DEF Restated, Item, Ended
<1>2. \A i \in Calls : st(i) \in States
    BY DEF Item, Waiting, States
<1>3. \A i \in Calls : st(i) # "in_progress" /\ (st(i) = "none" <=> out[i].st = "none") /\ (st(i) = "queued" => out[i].st = "queued")
    OBVIOUS
<1> HIDE DEF st
<1>4. \A i \in Calls : LET x == Restated(out[i], st(i))
                       IN x \in Item /\ x.st = st(i) /\ (x.res <=> out[i].res) /\ (x.ask <=> out[i].ask) /\ (x.approved <=> out[i].approved)
    BY <1>2, ItemMoved
<1>5. g \in [Calls -> Item] /\ \A i \in Calls : g[i] = Restated(out[i], st(i))
    BY <1>4
<1> HIDE DEF g
<1>6. \A i \in Calls : g[i].st = st(i) /\ (g[i].res <=> out[i].res) /\ (g[i].ask <=> out[i].ask) /\ (g[i].approved <=> out[i].approved)
    BY <1>4, <1>5
<1>7. \A i \in Calls : /\ g[i].st = "none" => ~g[i].ask /\ ~g[i].approved /\ ~g[i].res
                       /\ g[i].st \in {"queued", "in_progress"} => ~g[i].ask
                       /\ g[i].st = "in_progress" => ~g[i].res
    BY <1>3, <1>6 DEF InOrder
<1>8. \A i \in Calls : g[i].st = "none" <=> out[i].st = "none"
    BY <1>3, <1>6
<1>9. InOrder(g)
    BY <1>5, <1>7, <1>8, SameCalls
<1> QED BY <1>1, <1>3, <1>5, <1>6, <1>9

Offers(out) == \E i \in Calls : out[i].st = "pending" /\ ~out[i].res

(* A step of one worker changes its own row and the stored message.          *)
LEMMA StepKeeps ==
    ASSUME ToolIInv, NEW w \in Worker, NEW n \in WorkRow, NEW s \in StoredRow,
           work' = [work EXCEPT ![w] = n], stored' = s, mode' = mode,
           ran' \in [Calls -> Nat], decided' \in [Calls -> SUBSET Decisions], alone' \in BOOLEAN,
           stops' \in Nat, stops' = 0 => stops = 0,
           InOrder(s.out), RowOK(n),
           stops' = 0 => Tidy(s.out, {}) /\ RowTidy(n),
           \A i \in Calls : decided[i] \subseteq decided'[i],
           ApprovedIn(s.out)', ApprovedIn(n.out)', RunsOnlyApproved',
           alone' /\ stops' = 0 =>
               /\ \A v \in Worker : v # w => ~Busy(v)
               /\ n.step \in HasCopy => Knows(n.out)'
               /\ n.step \notin HasCopy => Knows(s.out)',
           n.step # "idle" \/ stops' # 0 \/ s.done \/ s.error \/ Offers(s.out)
    PROVE  ToolIInv'
<1>1. /\ work' \in [Worker -> WorkRow] /\ work'[w] = n
      /\ \A v \in Worker : v # w => work'[v] = work[v]
    BY DEF ToolIInv, ToolTypes
<1>2. ToolTypes'
    BY <1>1 DEF ToolIInv, ToolTypes
<1>3. HeldInv'
  <2>1. \A v \in Worker : RowOK(work'[v])
      BY <1>1 DEF ToolIInv, HeldInv
  <2> QED BY <2>1 DEF HeldInv, RowOK, InOrder, CallsMade, ApprovedCalls
<1>4. TidyInv'
  <2>1. ASSUME stops' = 0 PROVE \A v \in Worker : RowTidy(work'[v])
      BY <1>1, <2>1 DEF ToolIInv, TidyInv
  <2> QED BY <2>1 DEF TidyInv, RowTidy, Tidy
<1>5. ApprovedInv'
  <2>1. ASSUME NEW v \in Worker, NEW i \in Calls, work'[v].out[i].approved PROVE "approve" \in decided'[i]
    <3>1. CASE v = w
        BY <2>1, <3>1, <1>1 DEF ApprovedIn
    <3>2. CASE v # w
        BY <2>1, <3>2, <1>1 DEF ToolIInv, ApprovedInv, ApprovedIn
    <3> QED BY <3>1, <3>2
  <2>2. \A v \in Worker : ApprovedIn(work[v].out)'
      BY <2>1 DEF ApprovedIn
  <2>3. ApprovedIn(stored.out)'
      BY DEF ApprovedIn
  <2> QED BY <2>2, <2>3 DEF ApprovedInv
<1>6. CurrentInv'
  <2> SUFFICES ASSUME alone', stops' = 0
               PROVE  /\ \A a, b \in Worker : Busy(a)' /\ Busy(b)' => a = b
                      /\ (\A v \in Worker : work'[v].step \notin HasCopy) => Knows(s.out)'
                      /\ \A v \in Worker : work'[v].step \in HasCopy => Knows(work[v].out)'
      BY DEF CurrentInv, Knows
  <2>1. \A v \in Worker : v # w => work'[v].step = "idle" /\ ~Busy(v)'
      BY <1>1 DEF Busy
  <2>2. \A v \in Worker : work'[v].step \in HasCopy => v = w
      BY <2>1 DEF HasCopy
  <2>3. n.step \in HasCopy => Knows(work[w].out)'
      BY <1>1 DEF Knows
  <2> QED BY <1>1, <2>1, <2>2, <2>3
<1>7. NeverStuck'
    BY <1>1 DEF NeverStuck, Busy, Offers
<1> QED BY <1>2, <1>3, <1>4, <1>5, <1>6, <1>7 DEF ToolIInv

\* The one worker at work holds, or finds stored, what is known of every call.
LEMMA Working ==
    ASSUME ToolIInv, NEW w \in Worker, alone, stops = 0, Busy(w)
    PROVE  /\ \A v \in Worker : v # w => ~Busy(v)
           /\ work[w].step \in HasCopy => Knows(work[w].out)
           /\ work[w].step \notin HasCopy => Knows(stored.out)
<1>1. \A v \in Worker : v # w => ~Busy(v)
    BY DEF ToolIInv, CurrentInv
<1>2. work[w].step \notin HasCopy => \A v \in Worker : work[v].step \notin HasCopy
    BY <1>1 DEF Busy, HasCopy
<1> QED BY <1>1, <1>2 DEF ToolIInv, CurrentInv

\* With nobody at work the stored output knows every call.
LEMMA AtRest ==
    ASSUME ToolIInv, alone, stops = 0, \A v \in Worker : ~Busy(v)
    PROVE  Knows(stored.out)
BY DEF ToolIInv, CurrentInv, Busy, HasCopy

(* A worker's row and the message, as the actions find them.                 *)
LEMMA RowFacts ==
    ASSUME ToolIInv, NEW w \in Worker
    PROVE  /\ work[w] \in WorkRow /\ work[w].out \in [Calls -> Item] /\ InOrder(work[w].out)
           /\ work[w].todo \subseteq Calls /\ RowOK(work[w]) /\ ApprovedIn(work[w].out)
           /\ stops = 0 => RowTidy(work[w])
           /\ stored \in StoredRow /\ stored.out \in [Calls -> Item] /\ InOrder(stored.out)
           /\ ApprovedIn(stored.out) /\ (stops = 0 => Tidy(stored.out, {}))
BY DEF ToolIInv, ToolTypes, WorkRow, StoredRow, HeldInv, RowOK, ApprovedInv, TidyInv

\* An idle worker holds nothing.
LEMMA IdleRow ==
    /\ Idle \in WorkRow /\ Idle.step = "idle" /\ Idle.todo = {} /\ Idle.rounds = 0
    /\ Idle.out \in [Calls -> Item] /\ InOrder(Idle.out) /\ RowOK(Idle)
    /\ \A i \in Calls : Idle.out[i].st = "none" /\ ~Idle.out[i].approved /\ ~Idle.out[i].res
<1>1. Uncalled \in Item
    BY DEF Uncalled, Item
<1>2. /\ Idle.out = [i \in Calls |-> Uncalled] /\ Idle.step = "idle" /\ Idle.todo = {} /\ Idle.rounds = 0
    BY DEF Idle
<1>3. Idle \in WorkRow
    BY <1>1 DEF Idle, WorkRow, Steps
<1>4. \A i \in Calls : Idle.out[i] = Uncalled
    BY <1>2
<1>5. CallsMade(Idle.out) = 1..0
    BY <1>4 DEF CallsMade, Uncalled
<1>6. InOrder(Idle.out)
    BY <1>4, <1>5, ToolLoopAssumption DEF InOrder, Uncalled
<1> QED BY <1>1, <1>2, <1>3, <1>4, <1>6 DEF RowOK, Uncalled

\* Nothing is approved, queued or in progress in what it holds.
LEMMA IdleIsFine == ApprovedIn(Idle.out) /\ RowTidy(Idle) /\ Tidy(Idle.out, {})
BY IdleRow DEF ApprovedIn, RowTidy, Tidy

\* A message starts with no call and nobody at work on it.
LEMMA ToolInitIInv == ToolInit => ToolIInv
<1> SUFFICES ASSUME ToolInit PROVE ToolIInv
    OBVIOUS
<1> USE ToolLoopAssumption DEF ToolInit
<1>1. /\ stored.out = Idle.out /\ ~stored.asked /\ stored \in StoredRow
      /\ \A w \in Worker : work[w] = Idle
    BY IdleRow DEF StoredRow, Idle
<1>2. ToolTypes
    BY <1>1, IdleRow DEF ToolTypes
<1>3. HeldInv
    BY <1>1, IdleRow DEF HeldInv
<1>4. TidyInv
    BY <1>1, IdleIsFine DEF TidyInv
<1>5. ApprovedInv
    BY <1>1, IdleIsFine DEF ApprovedInv, RunsOnlyApproved
<1>6. CurrentInv
    BY <1>1, IdleRow DEF CurrentInv, Busy, HasCopy, Knows
<1>7. NeverStuck
    BY <1>1 DEF NeverStuck
<1> QED BY <1>2, <1>3, <1>4, <1>5, <1>6, <1>7 DEF ToolIInv

\* SaveOutput replaces the output and the done flag of the message.
LEMMA Saves ==
    ASSUME ToolIInv, NEW out \in [Calls -> Item], NEW done \in BOOLEAN, SaveOutput(out, done)
    PROVE  \E s \in StoredRow : stored' = s /\ s.out = out /\ (done => s.done)
<1>1. stored \in StoredRow
    BY RowFacts DEF ToolIInv, ToolTypes
<1>2. \A d \in BOOLEAN : [stored EXCEPT !.out = out, !.done = d] \in StoredRow
    BY <1>1 DEF StoredRow
<1>3. stored' = [stored EXCEPT !.out = out, !.done = done]
    BY DEF SaveOutput
<1>4. stored' \in StoredRow /\ stored'.out = out /\ (done => stored'.done)
    BY <1>1, <1>2, <1>3 DEF StoredRow
<1> QED BY <1>4

\* A worker that starts while another is at work ends "alone".
LEMMA Enters ==
    ASSUME ToolIInv, NEW w \in Worker, NEW entry, Enter(w, entry)
    PROVE  /\ work' = [work EXCEPT ![w] = entry] /\ alone' \in BOOLEAN
           /\ alone' => alone /\ \A v \in Worker : ~Busy(v)
<1> DEFINE rest == \A v \in Worker : ~Busy(v)
<1>1. alone' = (alone /\ rest) /\ rest \in BOOLEAN /\ alone \in BOOLEAN
    BY DEF Enter, ToolIInv, ToolTypes
<1> HIDE DEF rest
<1>2. alone' \in BOOLEAN /\ (alone' => alone /\ rest)
    BY <1>1
<1> QED BY <1>2 DEF Enter, rest

(* What is said of a copy holds of one with the same approvals and results.  *)
LEMMA CopyKept ==
    ASSUME NEW a, NEW b, \A i \in Calls : (b[i].approved => a[i].approved) /\ (a[i].res => b[i].res)
    PROVE  /\ ApprovedIn(a) /\ decided' = decided => ApprovedIn(b)'
           /\ Knows(a) /\ decided' = decided /\ ran' = ran => Knows(b)'
<1>1. ApprovedIn(a) /\ decided' = decided => ApprovedIn(b)'
    BY DEF ApprovedIn
<1>2. Knows(a) /\ decided' = decided /\ ran' = ran => Knows(b)'
    BY DEF Knows
<1> QED BY <1>1, <1>2

\* main.py chat_completion: a new turn starts with an empty message.
LEMMA ChatCompletionKeeps ==
    ASSUME ToolIInv, NEW w \in Worker, chat_completion(w)
    PROVE  ToolIInv'
<1>1. PICK n : n = [Idle EXCEPT !.step = "call"]
    OBVIOUS
<1>2. n \in WorkRow /\ n.out = Idle.out /\ n.step = "call" /\ n.todo = {} /\ RowOK(n)
    BY <1>1, IdleRow DEF WorkRow, Steps, RowOK
<1>3. PICK s : s = [stored EXCEPT !.asked = TRUE]
    OBVIOUS
<1>4. s \in StoredRow /\ s.out = stored.out
    BY <1>3, RowFacts DEF StoredRow
<1>5. /\ work' = [work EXCEPT ![w] = n] /\ stored' = s /\ alone' \in BOOLEAN
      /\ alone' => alone /\ \A v \in Worker : ~Busy(v)
      /\ UNCHANGED <<mode, ran, decided, stops>>
    BY <1>1, <1>3, Enters DEF chat_completion
<1>6. ApprovedIn(s.out)' /\ ApprovedIn(n.out)' /\ RunsOnlyApproved'
    BY <1>2, <1>4, <1>5, RowFacts, IdleIsFine DEF ApprovedIn, RunsOnlyApproved, ToolIInv, ApprovedInv
<1>7. alone' /\ stops' = 0 => (\A v \in Worker : v # w => ~Busy(v)) /\ Knows(s.out)'
    BY <1>4, <1>5, AtRest DEF Knows
<1>8. stops' = 0 => Tidy(s.out, {}) /\ RowTidy(n)
    BY <1>2, <1>4, <1>5, RowFacts, IdleIsFine DEF RowTidy, Tidy
<1> QED BY <1>2, <1>4, <1>5, <1>6, <1>7, <1>8, RowFacts, StepKeeps DEF HasCopy, ToolIInv, ToolTypes

(* A worker's step that runs no tool and takes no decision.                  *)
LEMMA QuietStep ==
    ASSUME ToolIInv, NEW w \in Worker, NEW n \in WorkRow, NEW s \in StoredRow, Busy(w),
           work' = [work EXCEPT ![w] = n], stored' = s, UNCHANGED <<mode, ran, decided, alone>>,
           stops' \in Nat, stops' = 0 => stops = 0,
           InOrder(s.out), RowOK(n), ApprovedIn(s.out), ApprovedIn(n.out),
           stops' = 0 => Tidy(s.out, {}) /\ RowTidy(n),
           alone /\ stops' = 0 => /\ n.step \in HasCopy => Knows(n.out)
                                  /\ n.step \notin HasCopy => Knows(s.out),
           n.step # "idle" \/ stops' # 0 \/ s.done \/ s.error \/ Offers(s.out)
    PROVE  ToolIInv'
<1>1. ApprovedIn(s.out)' /\ ApprovedIn(n.out)' /\ RunsOnlyApproved'
    BY DEF ApprovedIn, RunsOnlyApproved, ToolIInv, ApprovedInv
<1>2. alone' /\ stops' = 0 => /\ \A v \in Worker : v # w => ~Busy(v)
                              /\ n.step \in HasCopy => Knows(n.out)'
                              /\ n.step \notin HasCopy => Knows(s.out)'
    BY Working DEF Knows
<1>3. /\ ran' \in [Calls -> Nat] /\ decided' \in [Calls -> SUBSET Decisions] /\ alone' \in BOOLEAN
      /\ mode' = mode /\ \A i \in Calls : decided[i] \subseteq decided'[i]
    BY DEF ToolIInv, ToolTypes
<1> QED BY <1>1, <1>2, <1>3, StepKeeps

\* tool_approval.py: the decided output goes back and the response resumes.
LEMMA ResolveWriteKeeps ==
    ASSUME ToolIInv, NEW w \in Worker, resolve_write(w)
    PROVE  ToolIInv'
<1>1. PICK n : n = [Idle EXCEPT !.step = "drain"]
    OBVIOUS
<1>2. n \in WorkRow /\ n.out = Idle.out /\ n.step = "drain" /\ n.todo = {} /\ RowOK(n)
    BY <1>1, IdleRow DEF WorkRow, Steps, RowOK
<1>3. PICK s \in StoredRow : stored' = s /\ s.out = work[w].out
  <2>1. work[w].out \in [Calls -> Item] /\ FALSE \in BOOLEAN /\ SaveOutput(work[w].out, FALSE)
      BY RowFacts DEF resolve_write
  <2> QED BY <2>1, Saves
<1>4. /\ Busy(w) /\ work[w].step = "resolve" /\ work' = [work EXCEPT ![w] = n]
      /\ UNCHANGED <<mode, ran, decided, alone, stops>>
    BY <1>1 DEF resolve_write, Busy
<1>5. InOrder(s.out) /\ ApprovedIn(s.out) /\ ApprovedIn(n.out)
    BY <1>2, <1>3, RowFacts, IdleIsFine
<1>6. stops' = 0 => Tidy(s.out, {}) /\ RowTidy(n)
  <2>1. stops' = 0 => RowTidy(work[w]) /\ work[w].todo = {}
      BY <1>4, RowFacts DEF RowOK
  <2> QED BY <2>1, <1>2, <1>3, <1>4, IdleIsFine DEF RowTidy
<1>7. alone /\ stops' = 0 => Knows(s.out)
    BY <1>3, <1>4, Working DEF HasCopy
<1> QED BY <1>2, <1>3, <1>4, <1>5, <1>6, <1>7, QuietStep DEF HasCopy, ToolIInv, ToolTypes

\* tool_approval.py: a decision is made on a call that waits and has no result.
LEMMA ResolveKeeps ==
    ASSUME ToolIInv, NEW w \in Worker, NEW i \in Calls, NEW a \in Decisions, resolve_tool_call_output(w, i, a)
    PROVE  ToolIInv'
<1>1. PICK d : d = Decide(i, a, stored.out)
    OBVIOUS
<1>2. /\ stored.out[i].st \in Waiting /\ ~stored.out[i].res /\ (a = "approve" => ~stored.out[i].ask)
      /\ decided' = [decided EXCEPT ![i] = @ \cup {a}] /\ UNCHANGED <<mode, stored, ran, stops>>
      /\ Enter(w, [Idle EXCEPT !.step = "resolve", !.out = d])
    BY <1>1 DEF resolve_tool_call_output
<1>3. /\ d \in [Calls -> Item] /\ InOrder(d) /\ \A j \in Calls : j # i => d[j] = stored.out[j]
      /\ d[i].st # "in_progress" /\ (d[i].approved => stored.out[i].approved \/ a = "approve")
      /\ (d[i].res <=> a # "approve") /\ (d[i].st = "queued" => d[i].approved)
    BY <1>1, <1>2, RowFacts, DecideIsApplied
<1>4. PICK n : n = [Idle EXCEPT !.step = "resolve", !.out = d]
    OBVIOUS
<1>5. n \in WorkRow /\ n.out = d /\ n.step = "resolve" /\ n.todo = {}
    BY <1>3, <1>4, IdleRow DEF WorkRow, Steps
<1>6. RowOK(n)
    BY <1>3, <1>5 DEF RowOK
<1>7. /\ work' = [work EXCEPT ![w] = n] /\ alone' \in BOOLEAN
      /\ alone' => alone /\ \A v \in Worker : ~Busy(v)
    BY <1>2, <1>4, Enters
<1>8. /\ decided \in [Calls -> SUBSET Decisions] /\ decided' \in [Calls -> SUBSET Decisions]
      /\ decided'[i] = decided[i] \cup {a} /\ \A j \in Calls : j # i => decided'[j] = decided[j]
    BY <1>2 DEF ToolIInv, ToolTypes
<1>9. \A j \in Calls : decided[j] \subseteq decided'[j]
    BY <1>8
<1>10. ApprovedIn(stored.out)'
    BY <1>2, <1>9, RowFacts DEF ApprovedIn
<1>11. ApprovedIn(n.out)'
    BY <1>3, <1>5, <1>8, RowFacts DEF ApprovedIn
<1>12. RunsOnlyApproved'
    BY <1>2, <1>9 DEF RunsOnlyApproved, ToolIInv, ApprovedInv
<1>13. stops' = 0 => Tidy(stored.out, {}) /\ RowTidy(n)
  <2> SUFFICES ASSUME stops' = 0 PROVE Tidy(stored.out, {}) /\ Tidy(d, {})
      BY <1>5 DEF RowTidy
  <2>1. Tidy(stored.out, {})
      BY <1>2, RowFacts
  <2> QED BY <2>1, <1>3 DEF Tidy
<1>14. ASSUME alone', stops' = 0 PROVE Knows(n.out)'
  <2>1. Knows(stored.out)
      BY <1>2, <1>7, <1>14, AtRest
  <2>2. ran[i] = 0 /\ ran \in [Calls -> Nat]
      BY <1>2, <2>1 DEF Knows, ToolIInv, ToolTypes
  <2>3. \A j \in Calls : j # i => /\ ran[j] > 0 => ran[j] = 1 /\ d[j].res
                                  /\ "reject" \in decided'[j] => ran[j] = 0 /\ d[j].res
      BY <1>3, <1>8, <2>1 DEF Knows
  <2>4. "reject" \in decided'[i] => d[i].res
      BY <1>2, <1>3, <1>8, <2>1 DEF Knows
  <2> QED BY <1>2, <1>5, <2>2, <2>3, <2>4 DEF Knows
<1>15. stored \in StoredRow /\ InOrder(stored.out)
    BY RowFacts
<1> QED BY <1>2, <1>5, <1>6, <1>7, <1>8, <1>9, <1>10, <1>11, <1>12, <1>13, <1>14, <1>15, StepKeeps
        DEF HasCopy, ToolIInv, ToolTypes

(* A worker that stores the output with a call offered, and leaves.          *)
LEMMA LeavesPaused ==
    ASSUME ToolIInv, NEW w \in Worker, Busy(w), NEW out \in [Calls -> Item], InOrder(out), ApprovedIn(out),
           stops = 0 /\ mode = "full" => \A i \in Calls : Pause(out)[i].st = "queued" /\ ~Pause(out)[i].res => Pause(out)[i].approved,
           alone /\ stops = 0 => Knows(out), Open(out) # {},
           SaveOutput(Pause(out), FALSE), Leave(w), UNCHANGED <<mode, ran, decided, alone, stops>>
    PROVE  ToolIInv'
<1>1. /\ Pause(out) \in [Calls -> Item] /\ InOrder(Pause(out))
      /\ \A i \in Calls : /\ Pause(out)[i].approved = out[i].approved
                          /\ Pause(out)[i].res = out[i].res /\ Pause(out)[i].st # "in_progress"
      /\ Offers(Pause(out))
    BY PauseOffers DEF Offers
<1>2. PICK s \in StoredRow : stored' = s /\ s.out = Pause(out)
  <2>1. FALSE \in BOOLEAN
      OBVIOUS
  <2> QED BY <1>1, <2>1, Saves
<1>3. ApprovedIn(s.out) /\ (stops = 0 => Tidy(s.out, {}))
    BY <1>1, <1>2 DEF ApprovedIn, Tidy
<1>4. alone /\ stops = 0 => Knows(s.out)
    BY <1>1, <1>2 DEF Knows
<1>5. work' = [work EXCEPT ![w] = Idle] /\ stops' = stops /\ stops' \in Nat
    BY DEF Leave, ToolIInv, ToolTypes
<1>6. InOrder(s.out) /\ Offers(s.out)
    BY <1>1, <1>2
<1> QED BY <1>2, <1>3, <1>4, <1>5, <1>6, IdleRow, IdleIsFine, QuietStep DEF HasCopy

\* middleware.py drain_approved_tool_calls up to the first tool.
LEMMA DrainKeeps ==
    ASSUME ToolIInv, NEW w \in Worker, drain_approved_tool_calls(w)
    PROVE  ToolIInv'
<1>1. /\ Busy(w) /\ work[w].step = "drain" /\ UNCHANGED <<mode, ran, decided, alone, stops>>
      /\ stops' = stops /\ stops' \in Nat
    BY DEF drain_approved_tool_calls, Busy, ToolIInv, ToolTypes
<1>2. alone /\ stops = 0 => Knows(stored.out)
    BY <1>1, Working DEF HasCopy
<1>3. CASE ApprovedCalls(stored.out) # {}
  <2>1. PICK n : n = [Idle EXCEPT !.step = "execute", !.out = stored.out, !.todo = ApprovedCalls(stored.out)]
      OBVIOUS
  <2>2. ApprovedCalls(stored.out) \subseteq Calls
      BY DEF ApprovedCalls, CallsMade
  <2>3. n \in WorkRow /\ n.out = stored.out /\ n.step = "execute" /\ n.todo = ApprovedCalls(n.out)
      BY <2>1, <2>2, IdleRow, RowFacts DEF WorkRow, Steps
  <2>4. RowOK(n)
      BY <2>3, RowFacts DEF RowOK
  <2>5. work' = [work EXCEPT ![w] = n] /\ stored' = stored
      BY <1>3, <2>1 DEF drain_approved_tool_calls
  <2>6. stops' = 0 => RowTidy(n) /\ Tidy(stored.out, {})
      BY <1>1, <2>3, RowFacts DEF RowTidy, Tidy
  <2>7. stored \in StoredRow /\ InOrder(stored.out) /\ ApprovedIn(stored.out) /\ ApprovedIn(n.out)
      BY <2>3, RowFacts
  <2> QED BY <1>1, <1>2, <2>3, <2>4, <2>5, <2>6, <2>7, QuietStep DEF HasCopy
<1>4. CASE ApprovedCalls(stored.out) = {} /\ mode = "ask" /\ Unapproved(stored.out) # {}
  <2>1. SaveOutput(Pause(stored.out), FALSE) /\ Leave(w)
      BY <1>4 DEF drain_approved_tool_calls
  <2>2. Open(stored.out) # {}
      BY <1>4 DEF Open, Unapproved
  <2>3. /\ stored.out \in [Calls -> Item] /\ InOrder(stored.out) /\ ApprovedIn(stored.out)
      BY RowFacts
  <2>4. mode # "full"
      BY <1>4
  <2> QED BY <1>1, <1>2, <2>1, <2>2, <2>3, <2>4, LeavesPaused
<1>5. CASE ApprovedCalls(stored.out) = {} /\ ~(mode = "ask" /\ Unapproved(stored.out) # {})
  <2>1. PICK n : n = [work[w] EXCEPT !.step = "call"]
      OBVIOUS
  <2>2. n \in WorkRow /\ n.out = work[w].out /\ n.step = "call" /\ n.todo = work[w].todo
      BY <2>1, RowFacts DEF WorkRow, Steps
  <2>3. work[w].todo = {}
      BY <1>1, RowFacts DEF RowOK
  <2>4. RowOK(n)
      BY <2>2, <2>3, RowFacts DEF RowOK
  <2>5. work' = [work EXCEPT ![w] = n] /\ stored' = stored
    <3>1. MoveTo(w, "call") /\ stored' = stored
        BY <1>5 DEF drain_approved_tool_calls
    <3>2. [work EXCEPT ![w].step = "call"] = [work EXCEPT ![w] = [work[w] EXCEPT !.step = "call"]]
        BY DEF ToolIInv, ToolTypes
    <3> QED BY <3>1, <3>2, <2>1 DEF MoveTo
  <2>6. stops' = 0 => RowTidy(n) /\ Tidy(stored.out, {})
      BY <1>1, <2>2, RowFacts DEF RowTidy
  <2>7. stored \in StoredRow /\ InOrder(stored.out) /\ ApprovedIn(stored.out) /\ ApprovedIn(n.out)
      BY <2>2, RowFacts
  <2> QED BY <1>1, <1>2, <2>2, <2>4, <2>5, <2>6, <2>7, QuietStep DEF HasCopy
<1> QED BY <1>3, <1>4, <1>5

\* middleware.py drain_approved_tool_calls: the results go back.
LEMMA DrainWriteKeeps ==
    ASSUME ToolIInv, NEW w \in Worker, drain_write(w)
    PROVE  ToolIInv'
<1> DEFINE held == work[w].out
<1>1. /\ Busy(w) /\ work[w].step = "execute" /\ work[w].todo = {} /\ UNCHANGED <<mode, ran, decided, alone, stops>>
      /\ stops' = stops /\ stops' \in Nat
    BY DEF drain_write, Busy, ToolIInv, ToolTypes
<1>2. alone /\ stops = 0 => Knows(held)
    BY <1>1, Working DEF HasCopy
<1>3. held \in [Calls -> Item] /\ InOrder(held) /\ ApprovedIn(held)
    BY RowFacts
<1>4. ApprovedCalls(held) = {}
    BY <1>1, RowFacts DEF RowOK
<1>5. stops = 0 => Tidy(held, {})
    BY <1>1, RowFacts DEF RowTidy
<1>6. CASE mode = "ask" /\ Unapproved(held) # {}
  <2>1. Open(held) # {}
      BY <1>6 DEF Open, Unapproved
  <2>2. Offers(Pause(held))
      BY <1>3, <2>1, PauseOffers DEF Offers
  <2>3. Paused(Pause(held))
      BY <2>2 DEF Paused, Offers, CallsMade, Waiting
  <2>4. SaveOutput(Pause(held), FALSE) /\ Leave(w)
      BY <1>6, <2>3 DEF drain_write
  <2>5. mode # "full"
      BY <1>6
  <2> HIDE DEF held
  <2> QED BY <1>1, <1>2, <1>3, <2>1, <2>4, <2>5, LeavesPaused
<1>7. CASE ~(mode = "ask" /\ Unapproved(held) # {})
  <2>1. /\ SaveOutput(held, FALSE)
        /\ IF Paused(held) THEN Leave(w) ELSE work' = [work EXCEPT ![w] = [Idle EXCEPT !.step = "call"]]
      BY <1>7 DEF drain_write
  <2>2. PICK s \in StoredRow : stored' = s /\ s.out = held
    <3>1. FALSE \in BOOLEAN
        OBVIOUS
    <3> HIDE DEF held
    <3> QED BY <1>3, <2>1, <3>1, Saves
  <2>3. /\ InOrder(s.out) /\ ApprovedIn(s.out) /\ (stops = 0 => Tidy(s.out, {}))
        /\ alone /\ stops = 0 => Knows(s.out)
      BY <1>2, <1>3, <1>5, <2>2
  <2>4. CASE Paused(held)
    <3>1. ASSUME stops = 0, ~Offers(held) PROVE FALSE
      <4>1. PICK i \in Calls : held[i].st = "queued" /\ ~held[i].res
          BY <2>4, <3>1 DEF Paused, Offers, CallsMade, Waiting
      <4>2. ~held[i].ask
          BY <1>3, <4>1 DEF InOrder
      <4>3. ~held[i].approved
          BY <1>4, <4>1 DEF ApprovedCalls, CallsMade
      <4>4. i \in Unapproved(held)
          BY <4>1, <4>2, <4>3 DEF Unapproved, CallsMade
      <4>5. mode = "full"
          BY <1>7, <4>4 DEF ToolIInv, ToolTypes
      <4> QED BY <1>5, <3>1, <4>1, <4>3, <4>5 DEF Tidy
    <3>2. stops' # 0 \/ Offers(s.out)
        BY <1>1, <2>2, <3>1
    <3>3. work' = [work EXCEPT ![w] = Idle]
        BY <2>1, <2>4 DEF Leave
    <3> QED BY <1>1, <2>2, <2>3, <3>2, <3>3, IdleRow, IdleIsFine, QuietStep DEF HasCopy
  <2>5. CASE ~Paused(held)
    <3>1. PICK n : n = [Idle EXCEPT !.step = "call"]
        OBVIOUS
    <3>2. n \in WorkRow /\ n.out = Idle.out /\ n.step = "call" /\ n.todo = {} /\ RowOK(n)
        BY <3>1, IdleRow DEF WorkRow, Steps, RowOK
    <3>3. work' = [work EXCEPT ![w] = n]
        BY <2>1, <2>5, <3>1
    <3>4. RowTidy(n) /\ ApprovedIn(n.out)
        BY <3>2, IdleIsFine DEF RowTidy
    <3> QED BY <1>1, <2>2, <2>3, <3>2, <3>3, <3>4, QuietStep DEF HasCopy
  <2> QED BY <2>4, <2>5
<1> QED BY <1>6, <1>7

(* The tool of one call runs and its result goes into the worker's copy.     *)
LEMMA RunKeeps ==
    ASSUME ToolIInv, NEW w \in Worker, NEW i \in work[w].todo, NEW status \in {"completed", "failed"},
           work[w].step \in {"execute", "begin"},
           mode = "ask" => "approve" \in decided[i],
           ran' = [ran EXCEPT ![i] = @ + 1],
           work' = [work EXCEPT ![w].out[i].st = status, ![w].out[i].res = TRUE, ![w].todo = @ \ {i}],
           UNCHANGED <<mode, stored, decided, alone, stops>>
    PROVE  ToolIInv'
<1>1. PICK out2 : out2 = Recorded(work[w].out, i, status)
    OBVIOUS
<1>2. PICK todo2 : todo2 = work[w].todo \ {i}
    OBVIOUS
<1>3. PICK n : n = [work[w] EXCEPT !.out = out2, !.todo = todo2]
    OBVIOUS
<1>4. /\ i \in Calls /\ work[w] \in WorkRow /\ work[w].out \in [Calls -> Item] /\ InOrder(work[w].out)
      /\ RowOK(work[w]) /\ ApprovedIn(work[w].out) /\ Busy(w)
    BY RowFacts DEF Busy
<1>5. work[w].out[i].st # "none" /\ ~work[w].out[i].res
  <2>1. CASE work[w].step = "execute"
      BY <2>1, <1>4 DEF RowOK, ApprovedCalls, CallsMade
  <2>2. CASE work[w].step = "begin"
      BY <2>2, <1>4 DEF RowOK
  <2> QED BY <2>1, <2>2
<1>6. /\ out2 \in [Calls -> Item] /\ InOrder(out2)
      /\ \A j \in Calls : j # i => out2[j] = work[w].out[j]
      /\ out2[i].st = status /\ out2[i].res /\ out2[i].approved = work[w].out[i].approved
  <2>1. PICK out : out = work[w].out
      OBVIOUS
  <2>2. /\ out \in [Calls -> Item] /\ InOrder(out) /\ i \in Calls /\ out[i].st # "none"
        /\ out2 = Recorded(out, i, status) /\ status \in {"completed", "failed"}
      BY <1>1, <1>4, <1>5, <2>1
  <2>3. /\ out2 \in [Calls -> Item] /\ InOrder(out2)
        /\ \A j \in Calls : j # i => out2[j] = out[j]
        /\ out2[i].st = status /\ out2[i].res /\ out2[i].approved = out[i].approved
      BY <2>2, RunIsRecorded
  <2> QED BY <2>1, <2>3
<1>7. n \in WorkRow /\ n.out = out2 /\ n.todo = todo2 /\ n.step = work[w].step
    BY <1>2, <1>3, <1>4, <1>6 DEF WorkRow
<1>8. work' = [work EXCEPT ![w] = n]
  <2>1. work \in [Worker -> WorkRow] /\ DOMAIN work = Worker
      BY DEF ToolIInv, ToolTypes
  <2>2. work' = [work EXCEPT ![w] = [work[w] EXCEPT !.out = [work[w].out EXCEPT ![i].st = status, ![i].res = TRUE],
                                                   !.todo = work[w].todo \ {i}]]
      BY <2>1, <1>4 DEF WorkRow, Item
  <2> QED BY <1>1, <1>2, <1>3, <2>2 DEF Recorded
<1>9. ApprovedCalls(out2) = ApprovedCalls(work[w].out) \ {i}
    BY <1>6 DEF ApprovedCalls, CallsMade
<1>10. RowOK(n)
  <2>1. CASE work[w].step = "execute"
      BY <2>1, <1>2, <1>4, <1>6, <1>7, <1>9 DEF RowOK
  <2>2. CASE work[w].step = "begin"
    <3>1. \A j \in work[w].todo : work[w].out[j].st \in {"completed", "in_progress"} /\ ~work[w].out[j].res
        BY <2>2, <1>4 DEF RowOK
    <3>2. \A j \in todo2 : j \in work[w].todo /\ j # i /\ j \in Calls
        BY <1>2, RowFacts
    <3>3. \A j \in todo2 : out2[j].st \in {"completed", "in_progress"} /\ ~out2[j].res
        BY <1>6, <3>1, <3>2
    <3> QED BY <2>2, <1>6, <1>7, <3>3 DEF RowOK
  <2> QED BY <2>1, <2>2
<1>11. stops' = 0 => Tidy(stored.out, {}) /\ RowTidy(n)
  <2> SUFFICES ASSUME stops' = 0 PROVE Tidy(stored.out, {}) /\ Tidy(out2, todo2)
      BY <1>7 DEF RowTidy
  <2>1. Tidy(stored.out, {}) /\ Tidy(work[w].out, work[w].todo)
      BY RowFacts DEF RowTidy
  <2>2. \A j \in Calls \ todo2 : out2[j].st # "in_progress"
      BY <1>2, <1>6, <2>1 DEF Tidy
  <2>3. mode = "full" => \A j \in Calls : out2[j].st = "queued" /\ ~out2[j].res => out2[j].approved
      BY <1>6, <2>1 DEF Tidy
  <2> QED BY <2>1, <2>2, <2>3 DEF Tidy
<1>12. ApprovedIn(stored.out)' /\ ApprovedIn(n.out)'
  <2>1. ApprovedIn(n.out)'
      BY <1>4, <1>6, <1>7 DEF ApprovedIn
  <2> QED BY <2>1, RowFacts DEF ApprovedIn
<1>13. /\ ran \in [Calls -> Nat] /\ ran' \in [Calls -> Nat] /\ ran'[i] = ran[i] + 1
       /\ \A j \in Calls : j # i => ran'[j] = ran[j]
    BY <1>4 DEF ToolIInv, ToolTypes
<1>14. RunsOnlyApproved'
  <2> SUFFICES ASSUME mode = "ask", NEW j \in Calls, ran'[j] > 0 PROVE "approve" \in decided[j]
      BY DEF RunsOnlyApproved
  <2> QED BY <1>13 DEF RunsOnlyApproved, ToolIInv, ApprovedInv
<1>15. ASSUME alone', stops' = 0 PROVE (\A v \in Worker : v # w => ~Busy(v)) /\ Knows(n.out)'
  <2>1. (\A v \in Worker : v # w => ~Busy(v)) /\ Knows(work[w].out)
      BY <1>4, <1>15, Working DEF HasCopy
  <2>2. ran[i] = 0 /\ "reject" \notin decided[i]
      BY <1>4, <1>5, <1>13, <2>1 DEF Knows
  <2>3. ran'[i] = 1 /\ out2[i].res
      BY <1>6, <1>13, <2>2
  <2>4. \A j \in Calls : j # i => /\ ran'[j] > 0 => ran'[j] = 1 /\ out2[j].res
                                  /\ "reject" \in decided[j] => ran'[j] = 0 /\ out2[j].res
      BY <1>6, <1>13, <2>1 DEF Knows
  <2>5. Knows(n.out)'
      BY <1>7, <2>2, <2>3, <2>4 DEF Knows
  <2> QED BY <2>1, <2>5
<1>16. stored \in StoredRow /\ InOrder(stored.out) /\ n.step \in HasCopy /\ n.step # "idle"
    BY <1>7, RowFacts DEF HasCopy
<1> QED BY <1>7, <1>8, <1>10, <1>11, <1>12, <1>13, <1>14, <1>15, <1>16, StepKeeps DEF ToolIInv, ToolTypes

\* The drain runs only what is approved in the copy it read.
LEMMA ExecuteApprovedKeeps ==
    ASSUME ToolIInv, NEW w \in Worker, NEW status \in {"completed", "failed"}, execute_tool_call_for_output(w, status)
    PROVE  ToolIInv'
<1>1. PICK i : i = Min(work[w].todo)
    OBVIOUS
<1>2. /\ work[w].step = "execute" /\ work[w].todo # {} /\ ran' = [ran EXCEPT ![i] = @ + 1]
      /\ work' = [work EXCEPT ![w].out[i].st = status, ![w].out[i].res = TRUE, ![w].todo = @ \ {i}]
      /\ UNCHANGED <<mode, stored, decided, alone, stops>>
    BY <1>1 DEF execute_tool_call_for_output
<1>3. i \in work[w].todo
    BY <1>1, <1>2, RowFacts, MinInSet
<1>4. "approve" \in decided[i]
  <2>1. i \in Calls /\ work[w].out[i].approved
      BY <1>2, <1>3, RowFacts DEF RowOK, ApprovedCalls, CallsMade
  <2> QED BY <2>1, RowFacts DEF ApprovedIn
<1> QED BY <1>2, <1>3, <1>4, RunKeeps

\* The loop of a response runs its calls itself only in "full" mode.
LEMMA ExecuteKeeps ==
    ASSUME ToolIInv, NEW w \in Worker, NEW status \in {"completed", "failed"}, execute_tool_call(w, status)
    PROVE  ToolIInv'
<1>1. PICK i : i = Min(work[w].todo)
    OBVIOUS
<1>2. /\ work[w].step = "begin" /\ work[w].todo # {} /\ ran' = [ran EXCEPT ![i] = @ + 1]
      /\ work' = [work EXCEPT ![w].out[i].st = status, ![w].out[i].res = TRUE, ![w].todo = @ \ {i}]
      /\ UNCHANGED <<mode, stored, decided, alone, stops>> /\ mode # "ask"
    BY <1>1 DEF execute_tool_call
<1>3. i \in work[w].todo
    BY <1>1, <1>2, RowFacts, MinInSet
<1> QED BY <1>2, <1>3, RunKeeps

(* A worker goes on to another stage with the copy it has.                   *)
LEMMA MoveKeeps ==
    ASSUME ToolIInv, NEW w \in Worker, NEW s \in StoredRow, NEW step \in Steps, work[w].todo = {},
           work[w].step \in HasCopy \ {"execute", "finish"}, step \in HasCopy \ {"execute"},
           stored' = s, s.out = stored.out, step # "idle" \/ stops' # 0,
           work' = [work EXCEPT ![w].step = step], UNCHANGED <<mode, ran, decided, alone>>,
           stops' \in Nat, stops' = 0 => stops = 0
    PROVE  ToolIInv'
<1>1. PICK n : n = [work[w] EXCEPT !.step = step]
    OBVIOUS
<1>2. n \in WorkRow /\ n.out = work[w].out /\ n.step = step /\ n.todo = {}
    BY <1>1, RowFacts DEF WorkRow, Steps
<1>3. RowOK(n)
    BY <1>2, RowFacts DEF RowOK
<1>4. work' = [work EXCEPT ![w] = n]
  <2>1. [work EXCEPT ![w].step = step] = [work EXCEPT ![w] = [work[w] EXCEPT !.step = step]]
      BY DEF ToolIInv, ToolTypes
  <2> QED BY <2>1, <1>1
<1>5. stops' = 0 => Tidy(s.out, {}) /\ RowTidy(n)
  <2>1. stops = 0 => Tidy(work[w].out, {}) /\ Tidy(stored.out, {})
      BY RowFacts DEF RowTidy
  <2> QED BY <2>1, <1>2 DEF RowTidy, Tidy
<1>6. InOrder(s.out) /\ ApprovedIn(s.out) /\ ApprovedIn(n.out)
    BY <1>2, RowFacts
<1>7. alone /\ stops' = 0 => Knows(n.out)
    BY <1>2, Working DEF HasCopy, Busy
<1>8. Busy(w) /\ n.step \in HasCopy /\ n.step # "idle"
    BY <1>2 DEF Busy, HasCopy
<1> QED BY <1>2, <1>3, <1>4, <1>5, <1>6, <1>7, <1>8, QuietStep

\* The loop asks the model again.
LEMMA GenerateKeeps ==
    ASSUME ToolIInv, NEW w \in Worker, generate_chat_completion(w)
    PROVE  ToolIInv'
<1>1. /\ work[w].step = "begin" /\ work[w].todo = {} /\ UNCHANGED <<mode, stored, ran, decided, alone, stops>>
      /\ work' = [work EXCEPT ![w].step = "stream"]
    BY DEF generate_chat_completion, MoveTo
<1>2. stored \in StoredRow /\ stops' \in Nat /\ stops' = stops
    BY <1>1 DEF ToolIInv, ToolTypes
<1> QED BY <1>1, <1>2, MoveKeeps DEF HasCopy, Steps

\* The provider refuses the continuation, which ends the loop.
LEMMA MessageErrorKeeps ==
    ASSUME ToolIInv, NEW w \in Worker, emit_message_error(w)
    PROVE  ToolIInv'
<1>1. /\ work[w].step = "begin" /\ work[w].todo = {} /\ UNCHANGED <<mode, ran, decided, alone>>
      /\ work' = [work EXCEPT ![w].step = "finish"] /\ stops' = stops + 1
      /\ stored' = [stored EXCEPT !.error = TRUE]
    BY DEF emit_message_error, MoveTo
<1>2. PICK s : s = [stored EXCEPT !.error = TRUE]
    OBVIOUS
<1>3. s \in StoredRow /\ s.out = stored.out /\ stored' = s
    BY <1>1, <1>2, RowFacts DEF StoredRow
<1>4. stops' \in Nat /\ stops' # 0
    BY <1>1 DEF ToolIInv, ToolTypes
<1> QED BY <1>1, <1>3, <1>4, MoveKeeps DEF HasCopy, Steps

\* The handler reads the stored output it continues.
LEMMA HandlerKeeps ==
    ASSUME ToolIInv, NEW w \in Worker, response_handler(w)
    PROVE  ToolIInv'
<1>1. /\ work[w].step = "call" /\ UNCHANGED <<mode, stored, ran, decided, alone, stops>> /\ Busy(w)
      /\ work' = [work EXCEPT ![w].step = "stream", ![w].out = stored.out]
    BY DEF response_handler, Busy
<1>2. PICK n : n = [work[w] EXCEPT !.step = "stream", !.out = stored.out]
    OBVIOUS
<1>3. work[w].todo = {}
    BY <1>1, RowFacts DEF RowOK
<1>4. n \in WorkRow /\ n.out = stored.out /\ n.step = "stream" /\ n.todo = {}
    BY <1>2, <1>3, RowFacts DEF WorkRow, Steps
<1>5. RowOK(n)
    BY <1>4, RowFacts DEF RowOK
<1>6. work' = [work EXCEPT ![w] = n]
  <2>1. [work EXCEPT ![w].step = "stream", ![w].out = stored.out]
          = [work EXCEPT ![w] = [work[w] EXCEPT !.step = "stream", !.out = stored.out]]
      BY DEF ToolIInv, ToolTypes
  <2> QED BY <2>1, <1>1, <1>2
<1>7. stops' = 0 => Tidy(stored.out, {}) /\ RowTidy(n)
    BY <1>1, <1>4, RowFacts DEF RowTidy
<1>8. stored \in StoredRow /\ InOrder(stored.out) /\ ApprovedIn(stored.out) /\ ApprovedIn(n.out)
    BY <1>4, RowFacts
<1>9. alone /\ stops' = 0 => Knows(n.out)
    BY <1>1, <1>4, Working DEF HasCopy
<1>10. n.step \in HasCopy /\ n.step # "idle" /\ stops' \in Nat /\ stops' = stops
    BY <1>1, <1>4 DEF HasCopy, ToolIInv, ToolTypes
<1> QED BY <1>1, <1>4, <1>5, <1>6, <1>7, <1>8, <1>9, <1>10, QuietStep

\* An answer of the model ends with new calls or none.
LEMMA StreamKeeps ==
    ASSUME ToolIInv, NEW w \in Worker, NEW k \in 0..2, NEW split \in BOOLEAN, NEW ask \in BOOLEAN,
           stream_body_handler(w, k, split, ask)
    PROVE  ToolIInv'
<1>1. PICK out : out = work[w].out
    OBVIOUS
<1>3. PICK fresh : fresh = Opened(out, k)
    OBVIOUS
<1>4. PICK st : st = Streamed(out, k, split, ask)
    OBVIOUS
<1>5. PICK step : step = IF k = 0 THEN "finish" ELSE "tools"
    OBVIOUS
<1>6. /\ work[w].step = "stream" /\ fresh \subseteq Calls /\ Busy(w)
      /\ work' = [work EXCEPT ![w].out = st, ![w].todo = fresh, ![w].step = step]
      /\ UNCHANGED <<mode, stored, ran, decided, alone, stops>>
    BY <1>1, <1>3, <1>4, <1>5 DEF stream_body_handler, Streamed, Opened, Busy
<1>7. out \in [Calls -> Item] /\ InOrder(out) /\ ApprovedIn(out)
    BY <1>1, RowFacts
<1>8. /\ st \in [Calls -> Item] /\ InOrder(st)
      /\ \A i \in Calls \ fresh : st[i] = out[i]
      /\ \A i \in fresh : /\ out[i].st = "none" /\ st[i].st \in {"completed", "in_progress"}
                          /\ ~st[i].res /\ ~st[i].approved
      /\ k = 0 => fresh = {}
    BY <1>3, <1>4, <1>6, <1>7, StreamAppends
<1>9. PICK n : n = [work[w] EXCEPT !.out = st, !.todo = fresh, !.step = step]
    OBVIOUS
<1>10. n \in WorkRow /\ n.out = st /\ n.step = step /\ n.todo = fresh
    BY <1>5, <1>6, <1>8, <1>9, RowFacts DEF WorkRow, Steps
<1>11. RowOK(n)
    BY <1>5, <1>8, <1>10 DEF RowOK
<1>12. work' = [work EXCEPT ![w] = n]
  <2>1. [work EXCEPT ![w].out = st, ![w].todo = fresh, ![w].step = step]
          = [work EXCEPT ![w] = [work[w] EXCEPT !.out = st, !.todo = fresh, !.step = step]]
      BY DEF ToolIInv, ToolTypes
  <2> QED BY <2>1, <1>6, <1>9
<1>13. stops' = 0 => Tidy(stored.out, {}) /\ RowTidy(n)
  <2> SUFFICES ASSUME stops' = 0 PROVE Tidy(stored.out, {}) /\ RowTidy(n)
      OBVIOUS
  <2>1. work[w].todo = {}
      BY <1>6, RowFacts DEF RowOK
  <2>2. Tidy(stored.out, {}) /\ Tidy(out, {})
      BY <1>1, <1>6, <2>1, RowFacts DEF RowTidy
  <2>3. Tidy(st, fresh)
      BY <1>8, <2>2 DEF Tidy
  <2>4. step = "finish" => Tidy(st, Calls)
      BY <2>3, <1>5, <1>8 DEF Tidy
  <2> QED BY <1>10, <2>2, <2>3, <2>4 DEF RowTidy
<1>14. ApprovedIn(n.out)
    BY <1>7, <1>8, <1>10 DEF ApprovedIn
<1>15. alone /\ stops' = 0 => Knows(n.out)
  <2> SUFFICES ASSUME alone, stops' = 0 PROVE Knows(st)
      BY <1>10
  <2>1. Knows(out)
      BY <1>1, <1>6, Working DEF HasCopy
  <2>2. \A i \in fresh : ~out[i].res /\ i \in Calls
      BY <1>6, <1>7, <1>8 DEF InOrder
  <2> QED BY <1>8, <2>1, <2>2 DEF Knows
<1>16. stored \in StoredRow /\ InOrder(stored.out) /\ ApprovedIn(stored.out)
    BY RowFacts
<1>17. n.step \in HasCopy /\ n.step # "idle" /\ stops' \in Nat /\ stops' = stops
    BY <1>5, <1>6, <1>10 DEF HasCopy, ToolIInv, ToolTypes
<1> QED BY <1>6, <1>10, <1>11, <1>12, <1>13, <1>14, <1>15, <1>16, <1>17, QuietStep

\* The iteration limit ends the loop with an error on the message.
LEMMA LimitKeeps ==
    ASSUME ToolIInv, NEW w \in Worker, tool_call_limit(w)
    PROVE  ToolIInv'
<1>1. /\ work[w].step = "tools" /\ Busy(w) /\ stored' = [stored EXCEPT !.error = TRUE]
      /\ work' = [work EXCEPT ![w].step = "finish", ![w].todo = {}]
      /\ UNCHANGED <<mode, ran, decided, alone, stops>>
    BY DEF tool_call_limit, Busy
<1>2. PICK s : s = [stored EXCEPT !.error = TRUE]
    OBVIOUS
<1>3. s \in StoredRow /\ s.out = stored.out /\ stored' = s
    BY <1>1, <1>2, RowFacts DEF StoredRow
<1>4. PICK n : n = [work[w] EXCEPT !.step = "finish", !.todo = {}]
    OBVIOUS
<1>5. n \in WorkRow /\ n.out = work[w].out /\ n.step = "finish" /\ n.todo = {}
    BY <1>4, RowFacts DEF WorkRow, Steps
<1>6. RowOK(n)
    BY <1>5, RowFacts DEF RowOK
<1>7. work' = [work EXCEPT ![w] = n]
  <2>1. [work EXCEPT ![w].step = "finish", ![w].todo = {}]
          = [work EXCEPT ![w] = [work[w] EXCEPT !.step = "finish", !.todo = {}]]
      BY DEF ToolIInv, ToolTypes
  <2> QED BY <2>1, <1>1, <1>4
<1>8. stops' = 0 => Tidy(s.out, {}) /\ RowTidy(n)
  <2>1. stops' = 0 => Tidy(stored.out, {}) /\ Tidy(work[w].out, work[w].todo)
      BY <1>1, RowFacts DEF RowTidy
  <2> QED BY <2>1, <1>3, <1>5 DEF RowTidy, Tidy
<1>9. InOrder(s.out) /\ ApprovedIn(s.out) /\ ApprovedIn(n.out)
    BY <1>3, <1>5, RowFacts
<1>10. alone /\ stops' = 0 => Knows(n.out)
    BY <1>1, <1>5, Working DEF HasCopy
<1>11. n.step \in HasCopy /\ n.step # "idle" /\ stops' \in Nat /\ stops' = stops
    BY <1>1, <1>5 DEF HasCopy, ToolIInv, ToolTypes
<1> QED BY <1>1, <1>3, <1>5, <1>6, <1>7, <1>8, <1>9, <1>10, <1>11, QuietStep

\* stage_ask_user_tool_calls answers questions with errors, or pauses for one.
LEMMA StageKeeps ==
    ASSUME ToolIInv, NEW w \in Worker, NEW bad \in BOOLEAN, stage_ask_user_tool_calls(w, bad)
    PROVE  ToolIInv'
<1>1. PICK out : out = work[w].out
    OBVIOUS
<1>2. PICK todo : todo = work[w].todo
    OBVIOUS
<1>3. PICK asks : asks = {i \in todo : out[i].ask}
    OBVIOUS
<1>4. PICK error : error = (bad \/ todo # asks)
    OBVIOUS
<1>5. PICK g : g = Staged(out, asks, error)
    OBVIOUS
<1>6. /\ work[w].step = "tools" /\ Busy(w) /\ UNCHANGED <<mode, ran, decided, alone, stops>>
      /\ IF asks # {} /\ ~error
         THEN SaveOutput(Pause(g), FALSE) /\ Leave(w)
         ELSE /\ work' = [work EXCEPT ![w].out = g, ![w].todo = @ \ asks, ![w].step = "begin",
                                      ![w].rounds = @ + 1]
              /\ UNCHANGED stored
    BY <1>1, <1>2, <1>3, <1>4, <1>5 DEF stage_ask_user_tool_calls, Staged, Busy
<1>7. /\ out \in [Calls -> Item] /\ InOrder(out) /\ ApprovedIn(out) /\ todo \subseteq Calls
      /\ asks \in SUBSET Calls /\ error \in BOOLEAN
    BY <1>1, <1>2, <1>3, <1>4, RowFacts
<1>8. \A i \in todo : out[i].st \in {"completed", "in_progress"} /\ ~out[i].res
    BY <1>1, <1>2, <1>6, RowFacts DEF RowOK
<1>9. \A i \in asks : i \in todo /\ out[i].st # "none"
    BY <1>3, <1>8
<1>10. /\ g \in [Calls -> Item] /\ InOrder(g)
       /\ \A i \in Calls \ asks : g[i] = out[i]
       /\ \A i \in asks : /\ g[i].st = (IF error THEN "completed" ELSE "pending")
                          /\ (g[i].res <=> error) /\ (g[i].approved <=> out[i].approved)
    BY <1>5, <1>7, <1>9, AnswersStaged
<1>11. ApprovedIn(g)
    BY <1>7, <1>10 DEF ApprovedIn
<1>12. alone /\ stops = 0 => Knows(g)
  <2> SUFFICES ASSUME alone, stops = 0 PROVE Knows(g)
      OBVIOUS
  <2>1. Knows(out)
      BY <1>1, <1>6, Working DEF HasCopy
  <2>2. \A i \in asks : ~out[i].res
      BY <1>8, <1>9
  <2> QED BY <1>7, <1>10, <2>1, <2>2 DEF Knows
<1>13. stops = 0 => Tidy(out, todo) /\ Tidy(stored.out, {})
    BY <1>1, <1>2, <1>6, RowFacts DEF RowTidy
<1>14. CASE asks # {} /\ ~error
  <2>1. SaveOutput(Pause(g), FALSE) /\ Leave(w)
      BY <1>6, <1>14
  <2>2. todo = asks
      BY <1>4, <1>14
  <2>3. Open(g) # {}
    <3>1. PICK i \in asks : TRUE
        BY <1>14
    <3>2. i \in Calls /\ g[i].st = "pending" /\ ~g[i].res
        BY <1>7, <1>10, <1>14, <3>1
    <3>3. i \in Open(g)
        BY <3>2 DEF Open, CallsMade
    <3> QED BY <3>3
  <2>4. ASSUME stops = 0, mode = "full", NEW i \in Calls, Pause(g)[i].st = "queued", ~Pause(g)[i].res
        PROVE  Pause(g)[i].approved
    <3>1. /\ g[i].st \in {"queued", "in_progress"} /\ ~g[i].res /\ Pause(g)[i].approved = g[i].approved
        BY <1>10, <2>4, PauseOffers
    <3>2. i \notin asks
        BY <1>10, <1>14, <3>1
    <3>3. g[i] = out[i] /\ out[i].st # "in_progress"
        BY <1>10, <1>13, <2>2, <2>4, <3>2 DEF Tidy
    <3> QED BY <1>13, <2>4, <3>1, <3>3 DEF Tidy
  <2> QED BY <1>6, <1>10, <1>11, <1>12, <2>1, <2>3, <2>4, LeavesPaused
<1>15. CASE ~(asks # {} /\ ~error)
  <2>1. PICK n : n = [work[w] EXCEPT !.out = g, !.todo = todo \ asks, !.step = "begin", !.rounds = @ + 1]
      OBVIOUS
  <2>2. n \in WorkRow /\ n.out = g /\ n.todo = todo \ asks /\ n.step = "begin"
    <3>1. PICK rounds : rounds = work[w].rounds + 1
        OBVIOUS
    <3>2. work[w] \in WorkRow /\ rounds \in Nat /\ todo \ asks \in SUBSET Calls
        BY <1>7, <3>1, RowFacts DEF WorkRow
    <3>3. n = [work[w] EXCEPT !.out = g, !.todo = todo \ asks, !.step = "begin", !.rounds = rounds]
        BY <2>1, <3>1, <3>2 DEF WorkRow
    <3> QED BY <1>10, <3>2, <3>3 DEF WorkRow, Steps
  <2>3. work' = [work EXCEPT ![w] = n] /\ stored' = stored
    <3>1. /\ work' = [work EXCEPT ![w].out = g, ![w].todo = @ \ asks, ![w].step = "begin", ![w].rounds = @ + 1]
          /\ UNCHANGED stored
        BY <1>6, <1>15
    <3>2. [work EXCEPT ![w].out = g, ![w].todo = @ \ asks, ![w].step = "begin", ![w].rounds = @ + 1]
            = [work EXCEPT ![w] = [work[w] EXCEPT !.out = g, !.todo = @ \ asks, !.step = "begin", !.rounds = @ + 1]]
        BY DEF ToolIInv, ToolTypes, WorkRow
    <3>3. work[w].todo \ asks = todo \ asks
        BY <1>2
    <3> QED BY <3>1, <3>2, <3>3, <2>1, <1>2
  <2>4. RowOK(n)
    <3>1. \A i \in todo \ asks : g[i] = out[i] /\ g[i].st \in {"completed", "in_progress"} /\ ~g[i].res
        BY <1>7, <1>8, <1>10
    <3> QED BY <1>10, <2>2, <3>1 DEF RowOK
  <2>5. stops' = 0 => Tidy(stored.out, {}) /\ RowTidy(n)
    <3> SUFFICES ASSUME stops' = 0 PROVE Tidy(stored.out, {}) /\ Tidy(g, todo \ asks)
        BY <2>2 DEF RowTidy
    <3>1. Tidy(out, todo) /\ Tidy(stored.out, {})
        BY <1>6, <1>13
    <3>2. \A i \in Calls \ (todo \ asks) : g[i].st # "in_progress"
        BY <1>7, <1>10, <3>1 DEF Tidy
    <3>3. mode = "full" => \A i \in Calls : g[i].st = "queued" /\ ~g[i].res => g[i].approved
      <4> SUFFICES ASSUME mode = "full", NEW i \in Calls, g[i].st = "queued", ~g[i].res PROVE g[i].approved
          OBVIOUS
      <4>1. i \notin asks
          BY <1>10
      <4> QED BY <1>10, <3>1, <4>1 DEF Tidy
    <3> QED BY <3>1, <3>2, <3>3 DEF Tidy
  <2>6. stored \in StoredRow /\ InOrder(stored.out) /\ ApprovedIn(stored.out) /\ ApprovedIn(n.out)
      BY <1>11, <2>2, RowFacts
  <2>7. n.step \in HasCopy /\ n.step # "idle" /\ stops' \in Nat /\ stops' = stops
      BY <1>6, <2>2 DEF HasCopy, ToolIInv, ToolTypes
  <2>8. alone /\ stops' = 0 => Knows(n.out)
      BY <1>12, <2>2, <2>7
  <2> QED BY <1>6, <2>2, <2>3, <2>4, <2>5, <2>6, <2>7, <2>8, QuietStep
<1> QED BY <1>14, <1>15

\* In "ask" mode the response ends with its first open call offered.
LEMMA PauseKeeps ==
    ASSUME ToolIInv, NEW w \in Worker, pause_for_tool_approval(w)
    PROVE  ToolIInv'
<1>1. PICK out : out = work[w].out
    OBVIOUS
<1>2. /\ work[w].step = "begin" /\ Busy(w) /\ work[w].todo # {} /\ mode = "ask" /\ mode # "full"
      /\ SaveOutput(Pause(out), FALSE) /\ Leave(w) /\ UNCHANGED <<mode, ran, decided, alone, stops>>
    BY <1>1 DEF pause_for_tool_approval, Busy
<1>3. out \in [Calls -> Item] /\ InOrder(out) /\ ApprovedIn(out)
    BY <1>1, RowFacts
<1>4. alone /\ stops = 0 => Knows(out)
    BY <1>1, <1>2, Working DEF HasCopy
<1>5. Open(out) # {}
  <2>1. PICK i \in work[w].todo : i \in Calls
      BY <1>2, RowFacts
  <2>2. out[i].st \in {"completed", "in_progress"} /\ ~out[i].res
      BY <1>1, <1>2, RowFacts DEF RowOK
  <2>3. i \in Open(out)
      BY <2>1, <2>2 DEF Open, CallsMade
  <2> QED BY <2>3
<1> QED BY <1>2, <1>3, <1>4, <1>5, LeavesPaused

(* A worker that stores what it holds with the message done, and leaves.     *)
LEMMA LeavesDone ==
    ASSUME ToolIInv, NEW w \in Worker, Busy(w), NEW out \in [Calls -> Item], InOrder(out), ApprovedIn(out),
           stops' = 0 => Tidy(out, {}), alone /\ stops' = 0 => Knows(out),
           SaveOutput(out, TRUE), Leave(w), UNCHANGED <<mode, ran, decided, alone>>,
           stops' \in Nat, stops' = 0 => stops = 0
    PROVE  ToolIInv'
<1>1. PICK s \in StoredRow : stored' = s /\ s.out = out /\ s.done
  <2>1. TRUE \in BOOLEAN
      OBVIOUS
  <2> QED BY <2>1, Saves
<1>2. work' = [work EXCEPT ![w] = Idle]
    BY DEF Leave
<1> QED BY <1>1, <1>2, IdleRow, IdleIsFine, QuietStep DEF HasCopy

\* The end of a response stores what it holds.
LEMMA FinishKeeps ==
    ASSUME ToolIInv, NEW w \in Worker, finish(w)
    PROVE  ToolIInv'
<1>1. PICK out : out = work[w].out
    OBVIOUS
<1>2. PICK end : end = Ended(out)
    OBVIOUS
<1>3. /\ work[w].step = "finish" /\ Busy(w) /\ SaveOutput(end, TRUE) /\ Leave(w)
      /\ UNCHANGED <<mode, ran, decided, alone, stops>>
    BY <1>1, <1>2 DEF finish, Ended, Busy
<1>4. out \in [Calls -> Item] /\ InOrder(out) /\ ApprovedIn(out)
    BY <1>1, RowFacts
<1>5. /\ end \in [Calls -> Item] /\ InOrder(end)
      /\ \A i \in Calls : /\ end[i].st # "in_progress" /\ (end[i].res <=> out[i].res)
                          /\ (end[i].approved <=> out[i].approved)
                          /\ end[i].st = "queued" => out[i].st = "queued"
    BY <1>2, <1>4, EndedInOrder
<1>6. ApprovedIn(end)
    BY <1>4, <1>5 DEF ApprovedIn
<1>7. alone /\ stops' = 0 => Knows(end)
  <2>1. alone /\ stops' = 0 => Knows(out)
      BY <1>1, <1>3, Working DEF HasCopy
  <2> QED BY <1>5, <2>1 DEF Knows
<1>8. stops' = 0 => Tidy(end, {})
  <2>1. stops' = 0 => Tidy(out, Calls)
      BY <1>1, <1>3, RowFacts DEF RowTidy
  <2> QED BY <1>5, <2>1 DEF Tidy
<1>9. stops' \in Nat /\ stops' = stops
    BY <1>3 DEF ToolIInv, ToolTypes
<1> QED BY <1>3, <1>5, <1>6, <1>7, <1>8, <1>9, LeavesDone

\* A cancelled response stores the output so far.
LEMMA CancelKeeps ==
    ASSUME ToolIInv, NEW w \in Worker, save_cancelled_state(w)
    PROVE  ToolIInv'
<1>1. PICK out : out = work[w].out
    OBVIOUS
<1>2. /\ Busy(w) /\ SaveOutput(out, TRUE) /\ Leave(w) /\ UNCHANGED <<mode, ran, decided, alone>>
      /\ stops' = stops + 1
    BY <1>1 DEF save_cancelled_state, Busy
<1>3. stops' \in Nat /\ stops' # 0
    BY <1>2 DEF ToolIInv, ToolTypes
<1>4. out \in [Calls -> Item] /\ InOrder(out) /\ ApprovedIn(out)
    BY <1>1, RowFacts
<1> QED BY <1>2, <1>3, <1>4, LeavesDone

\* A resumption that ends before the handler stores at most an error.
LEMMA ChatEndsKeeps ==
    ASSUME ToolIInv, NEW w \in Worker, NEW error \in BOOLEAN, process_chat_ends(w, error)
    PROVE  ToolIInv'
<1>1. /\ Busy(w) /\ work' = [work EXCEPT ![w] = Idle] /\ UNCHANGED <<mode, ran, decided, alone>>
      /\ stops' = stops + 1 /\ stored' = [stored EXCEPT !.error = @ \/ error]
    BY DEF process_chat_ends, Busy, Leave
<1>2. PICK s : s = [stored EXCEPT !.error = @ \/ error]
    OBVIOUS
<1>3. s \in StoredRow /\ s.out = stored.out /\ stored' = s
  <2>1. (stored.error \/ error) \in BOOLEAN /\ stored \in StoredRow
      BY RowFacts DEF StoredRow
  <2>2. \A b \in BOOLEAN : [stored EXCEPT !.error = b] \in StoredRow /\ [stored EXCEPT !.error = b].out = stored.out
      BY <2>1 DEF StoredRow
  <2>3. s = [stored EXCEPT !.error = stored.error \/ error]
      BY <1>2, <2>1 DEF StoredRow
  <2> QED BY <1>1, <1>2, <2>1, <2>2, <2>3
<1>4. stops' \in Nat /\ stops' # 0
    BY <1>1 DEF ToolIInv, ToolTypes
<1>5. InOrder(s.out) /\ ApprovedIn(s.out)
    BY <1>3, RowFacts
<1> QED BY <1>1, <1>3, <1>4, <1>5, IdleRow, IdleIsFine, QuietStep

\* Every step of a response and of a resumption keeps the invariant.
LEMMA RespondKeeps ==
    ASSUME ToolIInv, NEW w \in Worker, Respond(w)
    PROVE  ToolIInv'
<1>1. \/ resolve_write(w) \/ drain_approved_tool_calls(w) \/ drain_write(w)
      \/ response_handler(w) \/ tool_call_limit(w) \/ pause_for_tool_approval(w)
      \/ generate_chat_completion(w) \/ finish(w)
      => ToolIInv'
    BY ResolveWriteKeeps, DrainKeeps, DrainWriteKeeps, HandlerKeeps, LimitKeeps, PauseKeeps, GenerateKeeps, FinishKeeps
<1>2. \A s \in {"completed", "failed"} : execute_tool_call_for_output(w, s) \/ execute_tool_call(w, s) => ToolIInv'
    BY ExecuteApprovedKeeps, ExecuteKeeps
<1>3. \A n \in 0..2, split, ask \in BOOLEAN : stream_body_handler(w, n, split, ask) => ToolIInv'
    BY StreamKeeps
<1>4. \A bad \in BOOLEAN : stage_ask_user_tool_calls(w, bad) => ToolIInv'
    BY StageKeeps
<1> QED BY <1>1, <1>2, <1>3, <1>4 DEF Respond

\* Every step on a message keeps the invariant.
LEMMA ToolNextIInv == ToolIInv /\ [ToolNext]_toolVars => ToolIInv'
<1> SUFFICES ASSUME ToolIInv, [ToolNext]_toolVars PROVE ToolIInv'
    OBVIOUS
<1>1. CASE ToolNext
  <2>1. PICK w \in Worker :
            \/ chat_completion(w)
            \/ \E i \in Calls, a \in {"approve", "reject", "answer"} : resolve_tool_call_output(w, i, a)
            \/ Respond(w)
            \/ emit_message_error(w)
            \/ save_cancelled_state(w)
            \/ \E e \in BOOLEAN : process_chat_ends(w, e)
      BY <1>1 DEF ToolNext
  <2>2. \A i \in Calls, a \in {"approve", "reject", "answer"} : resolve_tool_call_output(w, i, a) => ToolIInv'
      BY ResolveKeeps DEF Decisions
  <2>3. \A e \in BOOLEAN : process_chat_ends(w, e) => ToolIInv'
      BY ChatEndsKeeps
  <2>4. chat_completion(w) \/ Respond(w) \/ emit_message_error(w) \/ save_cancelled_state(w) => ToolIInv'
      BY ChatCompletionKeeps, RespondKeeps, MessageErrorKeeps, CancelKeeps
  <2> QED BY <2>1, <2>2, <2>3, <2>4
<1>2. CASE UNCHANGED toolVars
    BY <1>2 DEF toolVars, ToolIInv, ToolTypes, HeldInv, RowOK, InOrder, CallsMade, ApprovedCalls, TidyInv, RowTidy, Tidy,
        ApprovedInv, ApprovedIn, RunsOnlyApproved, CurrentInv, Knows, Busy, NeverStuck
<1> QED BY <1>1, <1>2

(* What the invariant says of the message, in the words of the properties.   *)
LEMMA ToolLoopSound == ToolIInv => ToolTypeOK /\ RunsOnlyApproved /\ DecisionStands /\ NeverStuck
<1> SUFFICES ASSUME ToolIInv PROVE ToolTypeOK /\ RunsOnlyApproved /\ DecisionStands /\ NeverStuck
    OBVIOUS
<1>1. ToolTypeOK
    BY RowFacts DEF ToolTypeOK, ToolIInv, ToolTypes, StoredRow, WorkRow
<1>2. DecisionStands
  <2> SUFFICES ASSUME alone, stops = 0, NEW i \in Calls
               PROVE  ran[i] <= 1 /\ ("reject" \in decided[i] => ran[i] = 0)
      BY DEF DecisionStands
  <2>1. \E out : Knows(out)
      BY DEF ToolIInv, CurrentInv
  <2>2. ran[i] \in Nat
      BY DEF ToolIInv, ToolTypes
  <2> QED BY <2>1, <2>2 DEF Knows
<1> QED BY <1>1, <1>2 DEF ToolIInv, ApprovedInv

-----------------------------------------------------------------------------
(* Automations and sub-agents share no variable, so each keeps its own invariant. *)
LEMMA NextIInv == AutoIInv /\ SubIInv /\ [Next]_vars => (AutoIInv /\ SubIInv)'
<1> SUFFICES ASSUME AutoIInv, SubIInv, [Next]_vars PROVE (AutoIInv /\ SubIInv)'
    OBVIOUS
<1>1. [AutoNext]_autoVars /\ [SubNext]_subVars
    BY DEF Next, vars
<1>2. AutoIInv'
    BY <1>1, AutoNextIInv
<1>3. SubIInv'
    BY <1>1, SubNextIInv
<1> QED BY <1>2, <1>3

LEMMA BackgroundInvariant == Spec => [](AutoIInv /\ SubIInv)
<1>1. Init => AutoIInv /\ SubIInv
    BY AutoInitIInv, SubInitIInv DEF Init
<1> QED BY <1>1, NextIInv, PTL DEF Spec

(* claim_due "advances next_run_at immediately so the row can never be       *)
(* double-claimed": whatever schedulers, crashes, edits and deletions there  *)
(* are, an occurrence is claimed twice only if an edit that was begun before *)
(* scheduled it again, and what is scheduled follows the rule of its row.    *)
THEOREM ClaimsAreSound == Spec => []ClaimsSound
<1>1. AutoIInv => ClaimsSound
    BY DEF AutoIInv, ClaimsSound
<1> QED BY <1>1, BackgroundInvariant, PTL

(* delegate and run_background: a slot of a process is held by a sub-agent at *)
(* work or was lost to a cancellation before its task began, and a result is  *)
(* part of one response only.                                                *)
THEOREM DelegationIsSound == Spec => []DelegationSound
<1>1. SubIInv => DelegationSound
  <2> SUFFICES ASSUME SubIInv PROVE DelegationSound
      OBVIOUS
  <2>1. SubTypeOK
      BY DEF SubIInv, SubTypes, SubTypeOK
  <2>2. SlotsReturned
      BY DEF SubIInv, SlotInv
  <2>3. AnsweredOnce
      BY DEF SubIInv, AnswerInv, AnsweredOnce
  <2> QED BY <2>1, <2>2, <2>3 DEF DelegationSound
<1> QED BY <1>1, BackgroundInvariant, PTL

(* routers/calendar.py, models/calendars.py, utils/automations.py: there is  *)
(* one default calendar, an event lies in a calendar of its owner, and an    *)
(* alert is not sent twice for one start, unless requests or polls overlap   *)
(* where the code does not lock, or the mark cannot be written.              *)
THEOREM CalendarIsSound == CalSpec => []CalendarHolds
<1>1. CalInit => CalIInv
    BY CalInitIInv
<1>2. CalIInv /\ [CalNext]_calVars => CalIInv'
    BY CalNextIInv
<1>3. CalIInv => CalendarHolds
    BY CalendarSound DEF CalendarHolds
<1> QED BY <1>1, <1>2, <1>3, PTL DEF CalSpec

(* utils/middleware.py, routers/chats.py: in "ask" mode no tool runs that    *)
(* the user has not approved, whatever overlaps; while requests come one     *)
(* after another a call runs at most once and one that was rejected never;   *)
(* and a message nobody works on is done, shows an error or offers a call.   *)
THEOREM ToolLoopIsSound == ToolSpec => []ToolLoopHolds
<1>1. ToolInit => ToolIInv
    BY ToolInitIInv
<1>2. ToolIInv /\ [ToolNext]_toolVars => ToolIInv'
    BY ToolNextIInv
<1>3. ToolIInv => ToolLoopHolds
    BY ToolLoopSound DEF ToolLoopHolds
<1> QED BY <1>1, <1>2, <1>3, PTL DEF ToolSpec
-----------------------------------------------------------------------------
(* Vector stores                                                           *)

FileOrNone == DocOf \cup {None}
Chunk == [coll : Collection, id : ChunkId, file : FileOrNone, text : {"old", "new"}]
Physicals == {"index"} \cup {KindOf[c] : c \in Collection} \cup {"all"}
VecPlaces == Collection \cup Physicals
Names == ChunkId \cup Collection
CollOrNone == Collection \cup {None}
VecOps == {"none", "insert", "upsert", "delete", "delete_collection", "reset"}
VecCallRow == [op : VecOps, step : {"none", "act", "rest", "keys"}, coll : CollOrNone, ids : SUBSET Names,
            file : FileOrNone, new : SUBSET Chunk, missing : BOOLEAN, left : SUBSET VecPlaces]

(* A call carries what its operation takes. *)
Writing(q) == q.op \in {"insert", "upsert"}
CallCarried(q) ==
    /\ q.op = "none" => q = Unasked
    /\ q.op \notin {"none", "reset"} => q.coll \in Collection
    /\ q.op \in {"none", "insert", "upsert", "delete_collection"} => q.ids = {}
    /\ q.op = "reset" => q.ids \subseteq Collection
    /\ q.op = "delete" => q.ids = {} \/ q.file = None
    /\ ~Writing(q) => q.new = {}
    /\ \A n \in q.new : n.coll = q.coll
    /\ q.step = "keys" => store = "valkey" /\ VecDropping(q)

VecTypes ==
    /\ store \in Adapters /\ chunks \subseteq Chunk /\ made \subseteq VecPlaces /\ unsure \subseteq Collection
    /\ vcall \in [VClient -> VecCallRow]
CarryInv == \A r \in VClient : CallCarried(vcall[r])

(* An id names the chunks of one collection: of those stored and of those    *)
(* that calls bring or name.                                                 *)
OneColl(xs) == \A x, y \in xs : x.id = y.id => x.coll = y.coll
IdInv ==
    /\ OneColl(chunks)
    /\ \A r \in VClient : \A n \in vcall[r].new : \A x \in chunks :
          n.id = x.id => vcall[r].op = "upsert" /\ n.coll = x.coll
    /\ \A r, s \in VClient : r # s =>
          \A n \in vcall[r].new : \A m \in vcall[s].new : n.id = m.id => vcall[r].op = "upsert" /\ n.coll = m.coll
NamedInv ==
    \A r \in VClient : vcall[r].op = "delete" =>
        \A i \in vcall[r].ids :
            /\ \A x \in chunks : x.id = i => x.coll = vcall[r].coll
            /\ \A s \in VClient : \A n \in vcall[s].new : n.id = i => n.coll = vcall[r].coll

(* A store with a collection for each name has one for every chunk.  Valkey's *)
(* chunks may outlive their index, in the hands of the call that dropped it.  *)
MadeInv == store \in Separate \ {"valkey"} => \A x \in chunks : x.coll \in made
Drops(q, c) == (q.op = "delete_collection" /\ q.coll = c) \/ q.op = "reset"
Holds(q, c) == (q.op = "delete_collection" /\ q.coll = c /\ q.step = "keys") \/ (q.op = "reset" /\ c \in q.ids)
WritesTo(q, c) == Writing(q) /\ q.coll = c
ValkeyInv ==
    store = "valkey" =>
        /\ \A x \in chunks : x.coll \in made \/ x.coll \in unsure \/ \E r \in VClient : Holds(vcall[r], x.coll)
        /\ \A r, s \in VClient : \A c \in Collection : WritesTo(vcall[r], c) /\ Drops(vcall[s], c) => c \in unsure
        /\ \A r \in VClient : \A c \in Collection : WritesTo(vcall[r], c) /\ ~vcall[r].missing => c \in made \/ c \in unsure
        /\ \A r \in VClient : \A c \in made : Holds(vcall[r], c) => c \in unsure

VecIInv == VecTypes /\ CarryInv /\ IdInv /\ NamedInv /\ MadeInv /\ ValkeyInv

(* What the sixteen adapters have in common. *)
LEMMA SearchedIs ==
    ASSUME store \in Adapters, NEW q
    PROVE  Searched(q) = {x \in OfFile(q) : store \in Separate => q.coll \in made}
<1> DEFINE S == {x \in OfFile(q) : store \in Separate => q.coll \in made}
<1>1. store \in Separate => Indexed(q) = S
    BY DEF Indexed
<1>2. store \notin Separate => OfFile(q) = S
    OBVIOUS
<1> HIDE DEF S
<1>3. Searched(q) = S
  <2>1. CASE store \in {"chroma", "qdrant", "milvus", "opensearch", "s3vector", "valkey", "weaviate"}
      BY <2>1, <1>1 DEF Separate, Searched, chroma_search, qdrant_search, milvus_search, opensearch_search, s3vector_search, valkey_search, weaviate_search
  <2>2. CASE store \in Adapters \ {"chroma", "qdrant", "milvus", "opensearch", "s3vector", "valkey", "weaviate"}
      BY <2>2, <1>2 DEF Adapters, Separate, Searched, pgvector_search, opengauss_search, mariadb_search, oracle_search, pinecone_search, elasticsearch_search, qdrant_multitenancy_search, milvus_multitenancy_search
  <2> QED BY <2>1, <2>2
<1> QED BY <1>3 DEF S
LEMMA QueriedIs ==
    ASSUME store \in Adapters, NEW q
    PROVE  Queried(q) \subseteq {x \in OfFile(q) : store \in Separate => q.coll \in made}
<1> DEFINE S == {x \in OfFile(q) : store \in Separate => q.coll \in made}
<1>1. store \in Separate => Indexed(q) = S
    BY DEF Indexed
<1>2. store \notin Separate => OfFile(q) = S /\ (q.file = None => InColl(q) = S) /\ {} \subseteq S
    BY DEF OfFile, InColl
<1> HIDE DEF S
<1>3. Queried(q) \subseteq S
  <2>1. CASE store \in {"chroma", "qdrant", "milvus", "opensearch", "s3vector", "valkey", "weaviate"}
      BY <2>1, <1>1 DEF Separate, Queried, chroma_query, qdrant_query, milvus_query, opensearch_query, s3vector_query, valkey_query, weaviate_query
  <2>2. CASE store \in Adapters \ {"chroma", "qdrant", "milvus", "opensearch", "s3vector", "valkey", "weaviate"}
      BY <2>2, <1>2 DEF Adapters, Separate, Queried, pgvector_query, opengauss_query, mariadb_query, oracle_query, pinecone_query, elasticsearch_query, qdrant_multitenancy_query, milvus_multitenancy_query
  <2> QED BY <2>1, <2>2
<1> QED BY <1>3 DEF S

(* What callers can read: the chunks whose collection has an index, where    *)
(* the store needs one.                                                      *)
Visible == {x \in chunks : store \in Separate => x.coll \in made}
LEMMA FiledIs ==
    ASSUME NEW c \in Collection, NEW xs \in SUBSET Chunk, \A x \in xs : x.coll = c
    PROVE  Filed(c, xs) = xs
<1>1. \A x \in xs : [x EXCEPT !.coll = c] = x
    BY DEF Chunk
<1> QED BY <1>1 DEF Filed
LEMMA StoredIs == VecTypes => VecStored = Visible
<1> SUFFICES ASSUME VecTypes PROVE VecStored = Visible
    OBVIOUS
<1> DEFINE S(c) == {x \in chunks : x.coll = c /\ (store \in Separate => c \in made)}
<1>1. \A c : Searched(Asking(c, None)) = S(c)
  <2> TAKE c
  <2>1. Asking(c, None).coll = c /\ Asking(c, None).file = None
      BY DEF Asking
  <2>2. OfFile(Asking(c, None)) = {x \in chunks : x.coll = c}
      BY <2>1 DEF OfFile, InColl
  <2>3. Searched(Asking(c, None)) = {x \in OfFile(Asking(c, None)) : store \in Separate => Asking(c, None).coll \in made}
      BY SearchedIs DEF VecTypes
  <2> QED BY <2>1, <2>2, <2>3
<1>2. \A c \in Collection : Filed(c, S(c)) = S(c)
  <2> TAKE c \in Collection
  <2>1. S(c) \in SUBSET Chunk /\ \A x \in S(c) : x.coll = c
      BY DEF VecTypes
  <2> HIDE DEF S
  <2> QED BY <2>1, FiledIs
<1>3. VecStored = UNION {S(c) : c \in Collection}
  <2> HIDE DEF S
  <2> QED BY <1>1, <1>2 DEF VecStored
<1>4. \A x \in chunks : x.coll \in Collection
    BY DEF VecTypes, Chunk
<1> QED BY <1>3, <1>4 DEF Visible
LEMMA FiltersFit == VecTypes => Contract!Filters
<1> SUFFICES ASSUME VecTypes, NEW f \in DocOf, NEW y \in VecAnswer[f] PROVE y \in VecStored /\ y.file = f
    BY DEF Contract!Filters
<1>1. PICK c \in Collection : y \in Filed(c, Queried(Asking(c, f)) \cup Searched(Asking(c, f)))
    BY DEF VecAnswer
<1> DEFINE q == Asking(c, f)
           xs == Queried(q) \cup Searched(q)
<1>2. q.coll = c /\ q.file = f /\ f # None
    BY VectorAssumption DEF Asking
<1>3. \A x \in OfFile(q) : x \in chunks /\ x.coll = c /\ x.file = f
    BY <1>2 DEF OfFile, InColl
<1>4. Queried(q) \subseteq {x \in OfFile(q) : store \in Separate => q.coll \in made}
    BY QueriedIs DEF VecTypes
<1>5. Searched(q) = {x \in OfFile(q) : store \in Separate => q.coll \in made}
    BY SearchedIs DEF VecTypes
<1>6. y \in Filed(c, xs)
    BY <1>1
<1>7. \A x \in xs : x \in Visible /\ x.coll = c /\ x.file = f
    BY <1>2, <1>3, <1>4, <1>5 DEF Visible
<1>8. xs \in SUBSET Chunk
    BY <1>7 DEF VecTypes, Visible
<1> HIDE DEF q, xs
<1>9. y \in xs
    BY <1>6, <1>7, <1>8, FiledIs
<1> QED BY <1>7, <1>9, StoredIs

(* What is shown of a call. *)
LEMMA ShownIs ==
    ASSUME NEW q \in VecCallRow, q.op # "none"
    PROVE  /\ Shown(q) # Unasked /\ Shown(q).op = q.op /\ Shown(q).coll = q.coll /\ Shown(q).file = q.file
           /\ Shown(q).new = q.new /\ (q.op # "reset" => Shown(q).ids = q.ids)
<1>1. q # Unasked
    BY DEF Unasked
<1>2. Shown(q) = [q EXCEPT !.step = "act", !.left = {}, !.missing = FALSE, !.ids = IF q.op = "reset" THEN {} ELSE @]
    BY <1>1 DEF Shown
<1>3. Shown(q).op = q.op /\ Shown(q).coll = q.coll /\ Shown(q).file = q.file /\ Shown(q).new = q.new /\ (q.op # "reset" => Shown(q).ids = q.ids)
    BY <1>2 DEF VecCallRow
<1> QED BY <1>3 DEF Unasked
LEMMA ShownSame ==
    ASSUME NEW q \in VecCallRow, NEW p \in VecCallRow, q.op # "none", p.op = q.op, p.coll = q.coll, p.file = q.file, p.new = q.new,
           q.op # "reset" => p.ids = q.ids
    PROVE  Shown(p) = Shown(q)
<1>1. q # Unasked /\ p # Unasked
    BY DEF Unasked
<1> DEFINE f(x) == [x EXCEPT !.step = "act", !.left = {}, !.missing = FALSE, !.ids = IF x.op = "reset" THEN {} ELSE @]
<1>2. f(p) = f(q)
    BY DEF VecCallRow
<1> QED BY <1>1, <1>2 DEF Shown
LEMMA ShownNone == Shown(Unasked) = Unasked
BY DEF Shown
LEMMA AskedAt == ASSUME NEW r \in VClient PROVE DOMAIN VecAsked = VClient /\ VecAsked[r] = Shown(vcall[r])
BY DEF VecAsked
LEMMA AskedNext ==
    ASSUME NEW r \in VClient, NEW q, vcall' = [vcall EXCEPT ![r] = q], DOMAIN vcall = VClient
    PROVE  VecAsked' = [VecAsked EXCEPT ![r] = Shown(q)]
BY DEF VecAsked, Shown, Unasked
LEMMA AskedUnchanged ==
    ASSUME NEW r \in VClient, NEW q, vcall' = [vcall EXCEPT ![r] = q], DOMAIN vcall = VClient, Shown(q) = Shown(vcall[r])
    PROVE  VecAsked' = VecAsked
<1>1. VecAsked' = [VecAsked EXCEPT ![r] = Shown(q)]
    BY AskedNext
<1> QED BY <1>1 DEF VecAsked

(* A step that fits the contract: how it is shown. *)
LEMMA ReturnFits ==
    ASSUME VecTypes, NEW r \in VClient, CallCarried(vcall[r]), vcall[r] # Unasked, VecDone(r)
    PROVE  Contract!Returns(r) /\ Contract!GoesOn(r) /\ (\A s \in VClient : VecAsked'[s] \in {VecAsked[s], Unasked})
           /\ VecAsked[r] # Unasked
<1>1. DOMAIN vcall = VClient /\ vcall[r] \in VecCallRow /\ vcall[r].op # "none"
    BY DEF VecTypes, CallCarried
<1>2. VecAsked' = [VecAsked EXCEPT ![r] = Unasked]
    BY <1>1, AskedNext, ShownNone DEF VecDone
<1>3. VecAsked[r] # Unasked
    BY <1>1, AskedAt, ShownIs
<1>4. \A s \in VClient : VecAsked'[s] \in {VecAsked[s], Unasked}
    BY <1>2, AskedAt
<1> QED BY <1>2, <1>3, <1>4 DEF Contract!Returns, Contract!GoesOn
LEMMA GoOnFits ==
    ASSUME VecTypes, NEW r \in VClient, CallCarried(vcall[r]), NEW q \in VecCallRow, vcall' = [vcall EXCEPT ![r] = q], vcall[r].op # "none",
           q.op = vcall[r].op, q.coll = vcall[r].coll, q.file = vcall[r].file, q.new = vcall[r].new,
           q.op # "reset" => q.ids = vcall[r].ids
    PROVE  VecAsked' = VecAsked /\ Contract!GoesOn(r) /\ VecAsked[r] # Unasked
<1>1. DOMAIN vcall = VClient /\ vcall[r] \in VecCallRow
    BY DEF VecTypes
<1>2. Shown(q) = Shown(vcall[r])
    BY <1>1, ShownSame
<1>3. VecAsked' = VecAsked
    BY <1>1, <1>2, AskedUnchanged
<1>4. VecAsked[r] # Unasked
    BY <1>1, AskedAt, ShownIs
<1> QED BY <1>3, <1>4 DEF Contract!GoesOn

LEMMA StoredNext ==
    ASSUME VecTypes, VecTypes'
    PROVE  VecStored = Visible /\ VecStored' = Visible' /\ Contract!Filters'
<1>1. VecTypes' => (VecStored = Visible)'
    BY StoredIs, PTL
<1>2. VecTypes' => Contract!Filters'
    BY FiltersFit, PTL
<1> QED BY <1>1, <1>2, StoredIs

(* The steps of the contract, in the words of the adapters. *)
LEMMA WaverFits ==
    ASSUME VecTypes, VecTypes', NEW r \in VClient, CallCarried(vcall[r]), vcall[r] # Unasked, VecDone(r),
           \A x \in Visible \ Visible' : x.coll \in unsure', \A x \in Visible' \ Visible : x.coll \in unsure',
           Contract!Doubts
    PROVE  ContractStep
<1>1. DOMAIN VecAsked = VClient /\ \A s \in VClient : VecAsked'[s] \in {VecAsked[s], Unasked}
    BY ReturnFits, AskedAt
<1>2. Contract!Wavers
    BY <1>1, StoredNext DEF Contract!Wavers
<1> QED BY <1>2, StoredNext DEF ContractStep, Contract!Next
LEMMA ActFits ==
    ASSUME VecTypes, VecTypes', NEW r \in VClient,
           Contract!Raises(r) \/ Contract!Put(r) \/ Contract!Delete(r) \/ Contract!DropOwn(r)
             \/ Contract!DeleteCollection(r) \/ Contract!Reset(r)
    PROVE  ContractStep
<1>1. DOMAIN VecAsked = VClient
    BY AskedAt
<1> QED BY <1>1, StoredNext DEF ContractStep, Contract!Next
LEMMA RaiseFits ==
    ASSUME VecTypes, VecTypes', NEW r \in VClient, CallCarried(vcall[r]), vcall[r] # Unasked, VecDone(r), Visible' = Visible, Contract!Doubts
    PROVE  ContractStep
<1>1. Contract!Raises(r)
    BY ReturnFits, StoredNext DEF Contract!Raises
<1> QED BY <1>1, ActFits
LEMMA PutFits ==
    ASSUME VecTypes, VecTypes', NEW r \in VClient, CallCarried(vcall[r]), Writing(vcall[r]), VecDone(r), UNCHANGED unsure,
           NEW part \in SUBSET vcall[r].new,
           Visible' = {x \in Visible : x.coll = vcall[r].coll => \A n \in part : n.id # x.id} \cup part
    PROVE  ContractStep
<1> DEFINE q == VecAsked[r]
<1>1. vcall[r] # Unasked /\ vcall[r].op # "none" /\ vcall[r] \in VecCallRow
    BY DEF Writing, Unasked, VecTypes
<1>2. q.op = vcall[r].op /\ q.coll = vcall[r].coll /\ q.new = vcall[r].new
    BY <1>1, AskedAt, ShownIs
<1>3. Contract!Returns(r)
    BY <1>1, ReturnFits
<1>4. q.op \in {"insert", "upsert"}
    BY <1>2 DEF Writing
<1> HIDE DEF q
<1>5. VecStored' = {x \in VecStored : x.coll = q.coll => \A n \in part : n.id # x.id} \cup part
    BY <1>2, StoredNext
<1>6. part \in SUBSET q.new
    BY <1>2
<1>7. Contract!Put(r)
    BY <1>3, <1>4, <1>5, <1>6 DEF Contract!Put, Contract!Writes, q
<1> QED BY <1>7, ActFits
LEMMA DeleteFits ==
    ASSUME VecTypes, VecTypes', NEW r \in VClient, CallCarried(vcall[r]), vcall[r].op = "delete", VecDone(r), UNCHANGED unsure,
           Visible' = {x \in Visible : ~(/\ x.coll = vcall[r].coll
                                         /\ vcall[r].file \in DocOf => x.file = vcall[r].file
                                         /\ vcall[r].ids = {} \/ x.id \in vcall[r].ids)}
    PROVE  ContractStep
<1> DEFINE q == VecAsked[r]
<1>1. vcall[r] # Unasked /\ vcall[r].op # "none" /\ vcall[r] \in VecCallRow
    BY DEF Unasked, VecTypes
<1>2. q.op = "delete" /\ q.coll = vcall[r].coll /\ q.file = vcall[r].file /\ q.ids = vcall[r].ids
    BY <1>1, AskedAt, ShownIs
<1>3. Contract!Returns(r)
    BY <1>1, ReturnFits
<1> HIDE DEF q
<1>4. VecStored' = VecStored \ {x \in Contract!Matches(q) : q.ids = {} \/ x.id \in q.ids}
    BY <1>2, StoredNext DEF Contract!Matches, Contract!In
<1>5. Contract!Delete(r)
    BY <1>2, <1>3, <1>4 DEF Contract!Delete, q
<1> QED BY <1>5, ActFits
LEMMA DropFits ==
    ASSUME VecTypes, VecTypes', NEW r \in VClient, CallCarried(vcall[r]), vcall[r].op = "delete_collection", Contract!GoesOn(r), UNCHANGED unsure,
           Visible' = {x \in Visible : x.coll # vcall[r].coll}
    PROVE  ContractStep
<1> DEFINE q == VecAsked[r]
<1>1. vcall[r] \in VecCallRow
    BY DEF VecTypes
<1>2. q.op = "delete_collection" /\ q.coll = vcall[r].coll
    BY <1>1, AskedAt, ShownIs
<1> HIDE DEF q
<1>4. VecStored' = VecStored \ Contract!In(q.coll)
    BY <1>2, StoredNext DEF Contract!In
<1>5. Contract!DeleteCollection(r)
    BY <1>2, <1>4 DEF Contract!DeleteCollection, q
<1> QED BY <1>5, ActFits
LEMMA DropOwnFits ==
    ASSUME VecTypes, VecTypes', NEW r \in VClient, CallCarried(vcall[r]), vcall[r].op = "delete", vcall[r].file \in DocOf, Contract!GoesOn(r), UNCHANGED unsure,
           Visible' = {x \in Visible : x.coll # OwnColl[vcall[r].file]}
    PROVE  ContractStep
<1> DEFINE q == VecAsked[r]
<1>1. vcall[r] \in VecCallRow
    BY DEF VecTypes
<1>2. q.op = "delete" /\ q.file = vcall[r].file
    BY <1>1, AskedAt, ShownIs
<1> HIDE DEF q
<1>4. VecStored' = VecStored \ Contract!In(OwnColl[q.file])
    BY <1>2, StoredNext DEF Contract!In
<1>5. Contract!DropOwn(r)
    BY <1>2, <1>4 DEF Contract!DropOwn, q
<1> QED BY <1>5, ActFits
LEMMA ResetFits ==
    ASSUME VecTypes, VecTypes', NEW r \in VClient, CallCarried(vcall[r]), vcall[r].op = "reset", Contract!GoesOn(r), UNCHANGED unsure,
           NEW cs, Visible' = {x \in Visible : x.coll \notin cs}
    PROVE  ContractStep
<1> DEFINE q == VecAsked[r]
<1>1. vcall[r] \in VecCallRow
    BY DEF VecTypes
<1>2. q.op = "reset"
    BY <1>1, AskedAt, ShownIs
<1> HIDE DEF q
<1>4. VecStored' = {x \in VecStored : \E y \in VecStored' : y.coll = x.coll}
    BY StoredNext
<1>5. Contract!Reset(r)
    BY <1>2, <1>4 DEF Contract!Reset, q
<1> QED BY <1>5, ActFits
LEMMA CallFits ==
    ASSUME VecTypes, VecTypes', NEW r \in VClient, vcall[r] = Unasked, NEW q \in VecCallRow, q.op # "none", vcall' = [vcall EXCEPT ![r] = q],
           UNCHANGED <<store, chunks, made>>, unsure \subseteq unsure',
           unsure' # unsure => VecDropping(q) \/ \E s \in VClient \ {r} : VecDropping(vcall[s])
    PROVE  ContractStep
<1>1. DOMAIN vcall = VClient /\ \A s \in VClient : vcall[s] \in VecCallRow
    BY DEF VecTypes
<1>2. VecAsked' = [VecAsked EXCEPT ![r] = Shown(q)]
    BY <1>1, AskedNext
<1>3. VecAsked[r] = Unasked /\ Shown(q) # Unasked /\ Shown(q).op = q.op /\ DOMAIN VecAsked = VClient
    BY AskedAt, ShownNone, ShownIs
<1>4. VecAsked'[r] = Shown(q)
    BY <1>2, <1>3
<1>5. VecStored' = VecStored
    BY StoredNext DEF Visible
<1>6. \A s \in VClient : VecDropping(vcall[s]) => Contract!Dropping(VecAsked[s])
  <2> TAKE s \in VClient
  <2> HAVE VecDropping(vcall[s])
  <2>1. vcall[s].op # "none"
      BY DEF VecDropping
  <2>2. Shown(vcall[s]) # Unasked /\ Shown(vcall[s]).op = vcall[s].op
      BY <2>1, <1>1, ShownIs
  <2> QED BY <2>2, AskedAt DEF VecDropping, Contract!Dropping
<1>7. VecDropping(q) => Contract!Dropping(VecAsked'[r])
    BY <1>3, <1>4 DEF VecDropping, Contract!Dropping
<1>8. Contract!Doubts
    BY <1>3, <1>6, <1>7 DEF Contract!Doubts
<1>9. VecAsked' = [VecAsked EXCEPT ![r] = VecAsked'[r]]
    BY <1>2, <1>4
<1>10. Contract!Call(r)
    BY <1>3, <1>4, <1>5, <1>8, <1>9 DEF Contract!Call
<1> QED BY <1>3, <1>10, StoredNext DEF ContractStep, Contract!Next

(* The invariant over a step of one call. *)
CallGoes(r, q) ==
    /\ q \in VecCallRow /\ vcall' = [vcall EXCEPT ![r] = q]
    /\ \/ q = Unasked
       \/ /\ q.op = vcall[r].op /\ q.new = vcall[r].new /\ q.coll = vcall[r].coll
          /\ q.op = "delete" => q.ids = vcall[r].ids
LEMMA UnaskedRow == Unasked \in VecCallRow /\ Unasked.op = "none" /\ Unasked.new = {} /\ Unasked.ids = {} /\ Unasked.step = "none" /\ CallCarried(Unasked)
<1>1. Unasked \in VecCallRow
    BY DEF Unasked, VecCallRow, VecOps, CollOrNone, FileOrNone
<1> QED BY <1>1 DEF Unasked, CallCarried, Writing
LEMMA RowsAfter ==
    ASSUME VecTypes, NEW r \in VClient, NEW q, q \in VecCallRow, vcall' = [vcall EXCEPT ![r] = q]
    PROVE  vcall' \in [VClient -> VecCallRow] /\ vcall'[r] = q /\ \A s \in VClient : s # r => vcall'[s] = vcall[s]
BY DEF VecTypes
LEMMA CarryKeep ==
    ASSUME VecTypes, CarryInv, NEW r \in VClient, NEW q, q \in VecCallRow, vcall' = [vcall EXCEPT ![r] = q], UNCHANGED store, CallCarried(q)
    PROVE  CarryInv'
BY RowsAfter DEF CarryInv, CallCarried
LEMMA IdsKeep ==
    ASSUME VecTypes, CarryInv, IdInv, NamedInv, NEW r \in VClient, NEW q, CallGoes(r, q),
           chunks' \subseteq chunks \cup vcall[r].new, q = Unasked \/ chunks' \subseteq chunks
    PROVE  IdInv' /\ NamedInv'
<1>1. vcall'[r] = q /\ \A s \in VClient : s # r => vcall'[s] = vcall[s]
    BY RowsAfter DEF CallGoes
<1>2. \A s \in VClient : \A n \in vcall'[s].new : n \in vcall[s].new /\ vcall'[s].op = vcall[s].op /\ (s = r => chunks' \subseteq chunks)
    BY <1>1, UnaskedRow DEF CallGoes
<1>3. \A s \in VClient : vcall'[s].op = "delete" => vcall[s].op = "delete" /\ vcall'[s].ids = vcall[s].ids /\ vcall'[s].coll = vcall[s].coll
    BY <1>1, UnaskedRow DEF CallGoes
<1>4. \A n, m \in vcall[r].new : n.coll = m.coll
    BY DEF CarryInv, CallCarried
<1>5. OneColl(chunks')
    BY <1>4 DEF IdInv, OneColl
<1>6. \A s \in VClient : \A n \in vcall'[s].new : \A x \in chunks' : n.id = x.id => vcall'[s].op = "upsert" /\ n.coll = x.coll
    BY <1>2 DEF IdInv
<1>7. \A t, s \in VClient : t # s =>
          \A n \in vcall'[t].new : \A m \in vcall'[s].new : n.id = m.id => vcall'[t].op = "upsert" /\ n.coll = m.coll
    BY <1>2 DEF IdInv
<1>8. NamedInv'
    BY <1>2, <1>3 DEF NamedInv
<1> QED BY <1>5, <1>6, <1>7, <1>8 DEF IdInv, OneColl
LEMMA IdsAsked ==
    ASSUME VecTypes, IdInv, NamedInv, NEW r \in VClient, vcall[r] = Unasked, NEW q \in VecCallRow, vcall' = [vcall EXCEPT ![r] = q], UNCHANGED chunks,
           \A n \in q.new :
              /\ \A x \in chunks : n.id = x.id => q.op = "upsert" /\ n.coll = x.coll
              /\ \A s \in VClient : \A m \in vcall[s].new : n.id = m.id => q.op = "upsert" /\ vcall[s].op = "upsert" /\ n.coll = m.coll
              /\ \A s \in VClient : vcall[s].op = "delete" /\ n.id \in vcall[s].ids => n.coll = vcall[s].coll,
           q.op = "delete" => q.new = {} /\ \A i \in q.ids : \E x \in chunks : x.id = i /\ x.coll = q.coll
    PROVE  IdInv' /\ NamedInv'
<1>1. vcall'[r] = q /\ \A s \in VClient : s # r => vcall'[s] = vcall[s]
    BY RowsAfter
<1>2. OneColl(chunks')
    BY DEF IdInv
<1>3. \A s \in VClient : \A n \in vcall'[s].new : \A x \in chunks' : n.id = x.id => vcall'[s].op = "upsert" /\ n.coll = x.coll
    BY <1>1 DEF IdInv
<1>4. \A t, s \in VClient : t # s =>
          \A n \in vcall'[t].new : \A m \in vcall'[s].new : n.id = m.id => vcall'[t].op = "upsert" /\ n.coll = m.coll
    BY <1>1 DEF IdInv
<1>5. ASSUME NEW t \in VClient, vcall'[t].op = "delete", NEW i \in vcall'[t].ids
      PROVE  /\ \A x \in chunks' : x.id = i => x.coll = vcall'[t].coll
             /\ \A s \in VClient : \A n \in vcall'[s].new : n.id = i => n.coll = vcall'[t].coll
  <2>1. CASE t # r
      BY <1>1, <1>5, <2>1 DEF NamedInv
  <2>2. CASE t = r
    <3>1. PICK x \in chunks : x.id = i /\ x.coll = q.coll
        BY <1>1, <1>5, <2>2
    <3>2. \A s \in VClient : \A n \in vcall'[s].new : s # r /\ n \in vcall[s].new
        BY <1>1, <1>5, <2>2
    <3>3. \A s \in VClient : \A n \in vcall'[s].new : n.id = i => n.coll = q.coll
        BY <3>1, <3>2 DEF IdInv
    <3>4. \A y \in chunks' : y.id = i => y.coll = q.coll
        BY <3>1 DEF IdInv, OneColl
    <3> QED BY <3>3, <3>4, <1>1, <2>2
  <2> QED BY <2>1, <2>2
<1> QED BY <1>2, <1>3, <1>4, <1>5 DEF IdInv, OneColl, NamedInv

(* A call begins. *)
Fitting(op, c, ids, f, new) ==
    /\ op \in VecOps \ {"none"} /\ c \in CollOrNone /\ ids \in SUBSET ChunkId /\ f \in FileOrNone /\ new \in SUBSET Chunk
    /\ IF op = "reset" THEN ids = {} ELSE c \in Collection
    /\ op \in {"insert", "upsert", "delete_collection"} => ids = {}
    /\ op = "delete" => /\ ids = {} \/ f = None
                        /\ \A i \in ids : \E x \in chunks : x.id = i /\ x.coll = c
    /\ op \notin {"insert", "upsert"} => new = {}
    /\ \A n \in new :
          /\ n.coll = c
          /\ \A x \in chunks : n.id = x.id => op = "upsert" /\ n.coll = x.coll
          /\ \A s \in VClient : \A m \in vcall[s].new : n.id = m.id => op = "upsert" /\ vcall[s].op = "upsert" /\ n.coll = m.coll
          /\ \A s \in VClient : vcall[s].op = "delete" /\ n.id \in vcall[s].ids => n.coll = vcall[s].coll
NewCall(op, c, ids, f, new) ==
    [op |-> op, step |-> "act", coll |-> c, ids |-> ids, file |-> f, new |-> new, missing |-> c # None /\ ~has_collection(c),
     left |-> IF op # "reset" THEN {} ELSE IF store \in ListsAll THEN made ELSE {"all"}]
LEMMA AskedIs ==
    ASSUME VecTypes, NEW op, NEW c, NEW ids, NEW f, NEW new, Fitting(op, c, ids, f, new)
    PROVE  LET q == NewCall(op, c, ids, f, new) IN
           /\ q \in VecCallRow /\ q.op = op /\ q.coll = c /\ q.ids = ids /\ q.new = new /\ q.step = "act"
           /\ (store = "valkey" /\ c \in Collection /\ ~q.missing => c \in made) /\ CallCarried(q)
<1> DEFINE q == NewCall(op, c, ids, f, new)
           left == IF op # "reset" THEN {} ELSE IF store \in ListsAll THEN made ELSE {"all"}
           missing == c # None /\ ~has_collection(c)
<1>1. left \in SUBSET VecPlaces
  <2>1. "all" \in VecPlaces
      BY DEF VecPlaces, Physicals
  <2> QED BY <2>1 DEF VecTypes
<1>2. ids \in SUBSET Names
    BY DEF Fitting, Names
<1>3. missing \in BOOLEAN
    OBVIOUS
<1>4. store = "valkey" /\ c \in Collection /\ ~missing => c \in made
    BY VectorAssumption DEF has_collection, Creates, Shared, Separate, Physical
<1>5. q = [op |-> op, step |-> "act", coll |-> c, ids |-> ids, file |-> f, new |-> new, missing |-> missing, left |-> left]
    BY DEF NewCall
<1> HIDE DEF q, left, missing
<1>6. q.op = op /\ q.coll = c /\ q.ids = ids /\ q.new = new /\ q.step = "act" /\ q.file = f /\ (q.missing <=> missing)
    BY <1>5
<1>7. q \in VecCallRow
    BY <1>1, <1>2, <1>3, <1>5 DEF VecCallRow, Fitting
<1>8. CallCarried(q)
    BY <1>6 DEF CallCarried, Fitting, Writing
<1> QED BY <1>4, <1>6, <1>7, <1>8 DEF q
LEMMA ExposedIs ==
    ASSUME VecTypes, NEW r \in VClient, NEW q, q.op \in VecOps,
           Writing(q) \/ q.op = "delete_collection" => q.coll \in Collection,
           \A s \in VClient : Writing(vcall[s]) => vcall[s].coll \in Collection
    PROVE  /\ Exposed(r, q) \subseteq Collection
           /\ Exposed(r, q) # {} => VecDropping(q) \/ \E s \in VClient \ {r} : VecDropping(vcall[s])
           /\ store = "valkey" => \A s \in VClient \ {r} : \A c \in Collection :
                 /\ WritesTo(q, c) /\ Drops(vcall[s], c) => c \in Exposed(r, q)
                 /\ WritesTo(vcall[s], c) /\ Drops(q, c) => c \in Exposed(r, q)
<1>1. CASE store # "valkey"
    BY <1>1 DEF Exposed
<1>2. CASE store = "valkey"
  <2>1. CASE Writing(q)
      BY <1>2, <2>1 DEF Exposed, Writing, VecDropping, WritesTo, Drops
  <2>2. CASE ~Writing(q) /\ VecDropping(q)
      BY <1>2, <2>2 DEF Exposed, Writing, VecDropping, WritesTo, Drops
  <2>3. CASE ~Writing(q) /\ ~VecDropping(q)
      BY <1>2, <2>3 DEF Exposed, Writing, VecDropping, WritesTo, Drops
  <2> QED BY <2>1, <2>2, <2>3
<1> QED BY <1>1, <1>2
LEMMA VecAskKeeps ==
    ASSUME VecIInv, NEW r \in VClient, vcall[r] = Unasked, NEW op, NEW c, NEW ids, NEW f, NEW new,
           Fitting(op, c, ids, f, new), VecAsks(r, op, c, ids, f, new)
    PROVE  VecIInv' /\ ContractStep
<1>1. PICK q : q = NewCall(op, c, ids, f, new)
    OBVIOUS
<1>2. vcall' = [vcall EXCEPT ![r] = q] /\ unsure' = unsure \cup Exposed(r, q) /\ UNCHANGED <<store, chunks, made>>
    BY <1>1 DEF VecAsks, NewCall
<1>3. /\ q \in VecCallRow /\ q.op = op /\ q.coll = c /\ q.ids = ids /\ q.new = new /\ q.step = "act"
      /\ (store = "valkey" /\ c \in Collection /\ ~q.missing => c \in made) /\ CallCarried(q)
    BY <1>1, AskedIs DEF VecIInv
<1>4. VecTypes /\ CarryInv /\ IdInv /\ NamedInv /\ MadeInv /\ ValkeyInv
    BY DEF VecIInv
<1>5. \A s \in VClient : Writing(vcall[s]) => vcall[s].coll \in Collection
    BY <1>4 DEF CarryInv, CallCarried, Writing
<1>6. q.op \in VecOps \ {"none"} /\ (Writing(q) \/ q.op = "delete_collection" => q.coll \in Collection)
    BY <1>3 DEF Fitting, Writing
<1>7. /\ Exposed(r, q) \subseteq Collection
      /\ Exposed(r, q) # {} => VecDropping(q) \/ \E s \in VClient \ {r} : VecDropping(vcall[s])
      /\ store = "valkey" => \A s \in VClient \ {r} : \A k \in Collection :
                 /\ WritesTo(q, k) /\ Drops(vcall[s], k) => k \in Exposed(r, q)
                 /\ WritesTo(vcall[s], k) /\ Drops(q, k) => k \in Exposed(r, q)
    BY <1>4, <1>5, <1>6, ExposedIs
<1>8. vcall' \in [VClient -> VecCallRow] /\ vcall'[r] = q /\ \A s \in VClient : s # r => vcall'[s] = vcall[s]
    BY <1>2, <1>3, <1>4, RowsAfter
<1>9. VecTypes'
    BY <1>2, <1>4, <1>7, <1>8 DEF VecTypes
<1>10. CarryInv'
    BY <1>2, <1>3, <1>4, CarryKeep
<1>11. IdInv' /\ NamedInv'
  <2>1. \A n \in q.new :
           /\ \A x \in chunks : n.id = x.id => q.op = "upsert" /\ n.coll = x.coll
           /\ \A s \in VClient : \A m \in vcall[s].new : n.id = m.id => q.op = "upsert" /\ vcall[s].op = "upsert" /\ n.coll = m.coll
           /\ \A s \in VClient : vcall[s].op = "delete" /\ n.id \in vcall[s].ids => n.coll = vcall[s].coll
      BY <1>3 DEF Fitting
  <2>2. q.op = "delete" => q.new = {} /\ \A i \in q.ids : \E x \in chunks : x.id = i /\ x.coll = q.coll
      BY <1>3 DEF Fitting
  <2> QED BY <1>2, <1>3, <1>4, <2>1, <2>2, IdsAsked
<1>12. MadeInv'
    BY <1>2, <1>4 DEF MadeInv
<1>13. ASSUME store = "valkey"
       PROVE  /\ \A x \in chunks' : x.coll \in made' \/ x.coll \in unsure' \/ \E s \in VClient : Holds(vcall'[s], x.coll)
              /\ \A t, s \in VClient : \A k \in Collection : WritesTo(vcall'[t], k) /\ Drops(vcall'[s], k) => k \in unsure'
              /\ \A t \in VClient : \A k \in Collection : WritesTo(vcall'[t], k) /\ ~vcall'[t].missing => k \in made' \/ k \in unsure'
              /\ \A t \in VClient : \A k \in made' : Holds(vcall'[t], k) => k \in unsure'
  <2>1. \A k : ~Holds(vcall[r], k)
      BY UnaskedRow DEF Holds
  <2>2. \A x \in chunks' : x.coll \in made' \/ x.coll \in unsure' \/ \E s \in VClient : Holds(vcall'[s], x.coll)
      BY <1>2, <1>4, <1>8, <1>13, <2>1 DEF ValkeyInv
  <2>3. \A k : ~(WritesTo(q, k) /\ Drops(q, k))
      BY DEF WritesTo, Drops, Writing
  <2>4. \A t, s \in VClient : \A k \in Collection : WritesTo(vcall'[t], k) /\ Drops(vcall'[s], k) => k \in unsure'
      BY <1>2, <1>4, <1>7, <1>8, <1>13, <2>3 DEF ValkeyInv
  <2>5. \A k \in Collection : WritesTo(q, k) /\ ~q.missing => k \in made
      BY <1>3, <1>13 DEF WritesTo
  <2>6. \A t \in VClient : \A k \in Collection : WritesTo(vcall'[t], k) /\ ~vcall'[t].missing => k \in made' \/ k \in unsure'
      BY <1>2, <1>4, <1>8, <1>13, <2>5 DEF ValkeyInv
  <2>7. \A k : ~Holds(q, k)
      BY <1>3 DEF Holds, Fitting
  <2>8. \A t \in VClient : \A k \in made' : Holds(vcall'[t], k) => k \in unsure'
      BY <1>2, <1>4, <1>8, <1>13, <2>7 DEF ValkeyInv
  <2> QED BY <2>2, <2>4, <2>6, <2>8
<1>14. ValkeyInv'
    BY <1>2, <1>13 DEF ValkeyInv
<1>15. ContractStep
    BY <1>2, <1>3, <1>4, <1>6, <1>7, <1>9, CallFits
<1> QED BY <1>9, <1>10, <1>11, <1>12, <1>14, <1>15 DEF VecIInv

(* The calls that the next-state relation begins. *)
LEMMA TwoOf ==
    ASSUME NEW S, IsFiniteSet(S), NEW n \in 1..2, Cardinality(S) >= n
    PROVE  \E s \in SUBSET S : Cardinality(s) = n
<1>1. Cardinality(S) \in Nat
    BY FS_CardinalityType
<1>2. PICK a : a \in S
    BY <1>1, FS_EmptySet
<1>3. Cardinality({a}) = 1 /\ IsFiniteSet({a})
    BY FS_Singleton
<1>4. CASE n = 1
    BY <1>2, <1>3, <1>4
<1>5. CASE n = 2
  <2>1. PICK b : b \in S /\ b # a
    <3>1. S # {a}
        BY <1>1, <1>3, <1>5
    <3> QED BY <3>1, <1>2
  <2>2. Cardinality({a} \cup {b}) = 2
      BY <1>3, <2>1, FS_AddElement
  <2> QED BY <1>2, <1>5, <2>1, <2>2
<1> QED BY <1>4, <1>5
LEMMA FreshFit ==
    ASSUME VecIInv, NEW c \in Collection, NEW f \in FileOrNone, NEW text \in {"old", "new"}, NEW ids \in SUBSET FreshIds, NEW op \in {"insert", "upsert"}
    PROVE  Fitting(op, c, {}, None, ItemsOf(c, ids, f, text))
<1>1. \A n \in ItemsOf(c, ids, f, text) : n.id \in FreshIds /\ n.coll = c /\ n \in Chunk
    BY DEF ItemsOf, FreshIds, Chunk
<1>2. None \in FileOrNone /\ c \in CollOrNone
    BY DEF FileOrNone, CollOrNone
<1>3. \A n \in ItemsOf(c, ids, f, text) :
          (\A x \in chunks : n.id # x.id) /\ \A s \in VClient : n.id \notin vcall[s].ids /\ \A m \in vcall[s].new : n.id # m.id
    BY <1>1 DEF FreshIds
<1> QED BY <1>1, <1>2, <1>3 DEF Fitting, VecOps
LEMMA InsertKeeps ==
    ASSUME VecIInv, NEW r \in VClient, vcall[r] = Unasked, NEW c \in Collection, NEW f \in DocOf \cup {None}, NEW n \in 1..2, AsksInsert(r, c, f, n)
    PROVE  VecIInv' /\ ContractStep
<1> DEFINE ids == CHOOSE s \in SUBSET FreshIds : Cardinality(s) = n
<1>1. IsFiniteSet(FreshIds)
    BY VectorAssumption, FS_Subset DEF FreshIds
<1>2. \E s \in SUBSET FreshIds : Cardinality(s) = n
    BY <1>1, TwoOf DEF AsksInsert
<1>3. ids \in SUBSET FreshIds
    BY <1>2
<1>4. VecAsks(r, "insert", c, {}, None, ItemsOf(c, ids, f, "old"))
    BY DEF AsksInsert
<1> HIDE DEF ids
<1>5. Fitting("insert", c, {}, None, ItemsOf(c, ids, f, "old"))
    BY <1>3, FreshFit DEF FileOrNone
<1> QED BY <1>4, <1>5, VecAskKeeps
LEMMA UpsertKeeps ==
    ASSUME VecIInv, NEW r \in VClient, vcall[r] = Unasked, NEW c \in Collection, AsksUpsert(r, c)
    PROVE  VecIInv' /\ ContractStep
<1>1. PICK i \in ChunkId :
         /\ (\E x \in chunks : x.coll = c /\ x.file = None /\ x.id = i) \/ i \in FreshIds
         /\ VecAsks(r, "upsert", c, {}, None, ItemsOf(c, {i}, None, "new"))
    BY DEF AsksUpsert
<1>2. CASE i \in FreshIds
  <2>1. Fitting("upsert", c, {}, None, ItemsOf(c, {i}, None, "new"))
      BY <1>2, FreshFit DEF FileOrNone
  <2> QED BY <1>1, <2>1, VecAskKeeps
<1>3. CASE \E x \in chunks : x.coll = c /\ x.file = None /\ x.id = i
  <2>1. PICK x \in chunks : x.coll = c /\ x.id = i
      BY <1>3
  <2> DEFINE new == ItemsOf(c, {i}, None, "new")
  <2>2. \A n \in new : n.id = i /\ n.coll = c /\ n \in Chunk
      BY DEF ItemsOf, Chunk, FileOrNone
  <2> HIDE DEF new
  <2>3. IdInv /\ NamedInv
      BY DEF VecIInv
  <2>4. \A n \in new :
          /\ n.coll = c
          /\ \A y \in chunks : n.id = y.id => n.coll = y.coll
          /\ \A s \in VClient : \A m \in vcall[s].new : n.id = m.id => vcall[s].op = "upsert" /\ n.coll = m.coll
          /\ \A s \in VClient : vcall[s].op = "delete" /\ n.id \in vcall[s].ids => n.coll = vcall[s].coll
      BY <2>1, <2>2, <2>3 DEF IdInv, OneColl, NamedInv
  <2>5. None \in FileOrNone /\ c \in CollOrNone
      BY DEF FileOrNone, CollOrNone
  <2>6. new \in SUBSET Chunk
      BY <2>2
  <2>7. Fitting("upsert", c, {}, None, new)
      BY <2>4, <2>5, <2>6 DEF Fitting, VecOps
  <2> QED BY <1>1, <2>7, VecAskKeeps DEF new
<1> QED BY <1>1, <1>2, <1>3
LEMMA DeleteAskKeeps ==
    ASSUME VecIInv, NEW r \in VClient, vcall[r] = Unasked, NEW c \in Collection, AsksDelete(r, c)
    PROVE  VecIInv' /\ ContractStep
<1>1. c \in CollOrNone /\ None \in FileOrNone /\ \A f \in DocOf : f \in FileOrNone
    BY DEF CollOrNone, FileOrNone
<1>2. CASE \E x \in {x \in chunks : x.coll = c} : VecAsks(r, "delete", c, {x.id}, None, {})
  <2>1. PICK x \in chunks : x.coll = c /\ VecAsks(r, "delete", c, {x.id}, None, {})
      BY <1>2
  <2>2. x.id \in ChunkId
      BY DEF VecIInv, VecTypes, Chunk
  <2>3. Fitting("delete", c, {x.id}, None, {})
      BY <1>1, <2>1, <2>2 DEF Fitting, VecOps
  <2> QED BY <2>1, <2>3, VecAskKeeps
<1>3. CASE \E f \in DocOf \cup {None} : VecAsks(r, "delete", c, {}, f, {})
  <2>1. PICK f \in DocOf \cup {None} : VecAsks(r, "delete", c, {}, f, {})
      BY <1>3
  <2>2. Fitting("delete", c, {}, f, {})
      BY <1>1, <2>1 DEF Fitting, VecOps
  <2> QED BY <2>1, <2>2, VecAskKeeps
<1> QED BY <1>2, <1>3 DEF AsksDelete
LEMMA DropAskKeeps ==
    ASSUME VecIInv, NEW r \in VClient, vcall[r] = Unasked,
           (\E c \in Collection : VecAsks(r, "delete_collection", c, {}, None, {})) \/ VecAsks(r, "reset", None, {}, None, {})
    PROVE  VecIInv' /\ ContractStep
<1>1. None \in CollOrNone /\ None \in FileOrNone /\ \A c \in Collection : c \in CollOrNone
    BY DEF CollOrNone, FileOrNone
<1>2. \A c \in Collection : Fitting("delete_collection", c, {}, None, {})
    BY <1>1 DEF Fitting, VecOps
<1>3. Fitting("reset", None, {}, None, {})
    BY <1>1 DEF Fitting, VecOps
<1> QED BY <1>2, <1>3, VecAskKeeps

(* A write.  The adapters differ in what they do with an id that is there;   *)
(* since an id is of one collection, they come to the same.                  *)
LEMMA InsertedIs ==
    ASSUME store \in Adapters, NEW new, \A n \in new, x \in chunks : n.id # x.id
    PROVE  Inserted(new) = chunks \cup new
<1> DEFINE S == chunks \cup new
<1>1. Strict(new) = S /\ Ignoring(new) = S /\ Replacing(new) = S /\ ReplacingIn(new) = S /\ AddingIn(new) = S
      /\ qdrant_multitenancy_upsert(new) = S
    BY DEF Strict, Clash, Ignoring, Replacing, ReplacingIn, AddingIn, qdrant_multitenancy_upsert
<1>2. milvus_insert(new) = S /\ milvus_multitenancy_upsert(new) = S
    BY DEF milvus_insert, milvus_multitenancy_upsert
<1> HIDE DEF S
<1>3. CASE store \in {"pgvector", "pgcrypto", "opengauss", "mariadb", "oracle", "pinecone", "elasticsearch", "chroma"}
    BY <1>1, <1>3 DEF Inserted, pgvector_insert, opengauss_insert, mariadb_insert, oracle_insert, pinecone_insert, elasticsearch_insert, chroma_insert, S
<1>4. CASE store \in {"qdrant", "qdrant_multitenancy", "milvus", "milvus_multitenancy", "opensearch", "s3vector", "valkey", "weaviate"}
    BY <1>1, <1>2, <1>4 DEF Inserted, qdrant_insert, opensearch_insert, s3vector_insert, valkey_insert, weaviate_insert, S
<1> QED BY <1>3, <1>4 DEF Adapters
Replaced(new) == {x \in chunks : \A n \in new : n.id # x.id} \cup new
LEMMA UpsertedIs ==
    ASSUME store \in Adapters, NEW new, \A n \in new, x \in chunks : n.id = x.id => n.coll = x.coll
    PROVE  Upserted(new) = IF store = "milvus_multitenancy" THEN chunks \cup new ELSE Replaced(new)
<1> DEFINE S == Replaced(new)
<1>1. Replacing(new) = S /\ ReplacingIn(new) = S /\ qdrant_multitenancy_upsert(new) = S
    BY DEF Replacing, ReplacingIn, qdrant_multitenancy_upsert, Replaced
<1> HIDE DEF S
<1>2. CASE store \in {"pgvector", "pgcrypto", "opengauss", "mariadb", "oracle", "pinecone", "elasticsearch", "chroma"}
    BY <1>1, <1>2 DEF Upserted, pgvector_upsert, opengauss_upsert, mariadb_upsert, oracle_upsert, pinecone_upsert, elasticsearch_upsert, chroma_upsert, S
<1>3. CASE store \in {"qdrant", "qdrant_multitenancy", "milvus", "milvus_multitenancy", "opensearch", "s3vector", "valkey", "weaviate"}
    BY <1>1, <1>3 DEF Upserted, qdrant_upsert, milvus_upsert, milvus_multitenancy_upsert, opensearch_upsert, s3vector_upsert, valkey_insert, weaviate_upsert, S
<1> QED BY <1>2, <1>3 DEF Adapters

LEMMA MadeIs ==
    ASSUME VecTypes, NEW q, q.coll \in Collection
    PROVE  /\ Creating(q) \subseteq VecPlaces /\ made \subseteq Creating(q)
           /\ store \in Separate \ {"valkey"} => Creating(q) = made \cup {q.coll}
           /\ store = "valkey" => Creating(q) = IF q.missing THEN made \cup {q.coll} ELSE made
<1>1. Physical(q.coll) \in VecPlaces
    BY DEF Physical, VecPlaces, Physicals
<1>2. store \in Separate => Physical(q.coll) = q.coll /\ store \in Creates
    BY DEF Physical, Creates, Separate, Shared
<1> QED BY <1>1, <1>2 DEF Creating, VecTypes, Separate
LEMMA WriteInv ==
    ASSUME VecIInv, NEW r \in VClient, Writing(vcall[r]), VecDone(r), UNCHANGED store, made' = Creating(vcall[r]),
           chunks' \subseteq chunks \cup vcall[r].new, unsure \subseteq unsure', unsure' \subseteq Collection
    PROVE  VecIInv'
<1> DEFINE q == vcall[r]
<1>1. VecTypes /\ CarryInv /\ IdInv /\ NamedInv /\ MadeInv /\ ValkeyInv
    BY DEF VecIInv
<1>2. q.op \in {"insert", "upsert"} /\ q.coll \in Collection /\ q.new \subseteq Chunk /\ \A n \in q.new : n.coll = q.coll
    BY <1>1 DEF CarryInv, CallCarried, Writing, VecTypes, VecCallRow
<1>3. /\ Creating(q) \subseteq VecPlaces /\ made \subseteq Creating(q)
      /\ store \in Separate \ {"valkey"} => Creating(q) = made \cup {q.coll}
      /\ store = "valkey" => Creating(q) = IF q.missing THEN made \cup {q.coll} ELSE made
    BY <1>1, <1>2, MadeIs
<1>4. vcall' \in [VClient -> VecCallRow] /\ vcall'[r] = Unasked /\ \A s \in VClient : s # r => vcall'[s] = vcall[s]
    BY <1>1, RowsAfter, UnaskedRow DEF VecDone
<1>5. VecTypes'
    BY <1>1, <1>2, <1>3, <1>4 DEF VecTypes
<1>6. CarryInv'
    BY <1>1, UnaskedRow, CarryKeep DEF VecDone
<1>7. IdInv' /\ NamedInv'
  <2>1. CallGoes(r, Unasked)
      BY UnaskedRow DEF CallGoes, VecDone
  <2> QED BY <1>1, <2>1, IdsKeep
<1>8. MadeInv'
    BY <1>1, <1>2, <1>3 DEF MadeInv
<1>9. ASSUME store = "valkey"
      PROVE  /\ \A x \in chunks' : x.coll \in made' \/ x.coll \in unsure' \/ \E s \in VClient : Holds(vcall'[s], x.coll)
             /\ \A t, s \in VClient : \A k \in Collection : WritesTo(vcall'[t], k) /\ Drops(vcall'[s], k) => k \in unsure'
             /\ \A t \in VClient : \A k \in Collection : WritesTo(vcall'[t], k) /\ ~vcall'[t].missing => k \in made' \/ k \in unsure'
             /\ \A t \in VClient : \A k \in made' : Holds(vcall'[t], k) => k \in unsure'
  <2>1. \A k : ~Holds(q, k) /\ ~Holds(Unasked, k) /\ ~WritesTo(Unasked, k) /\ ~Drops(Unasked, k)
      BY <1>2, UnaskedRow DEF Holds, WritesTo, Drops, Writing
  <2>2. q.coll \in made' \/ q.coll \in unsure'
      BY <1>1, <1>2, <1>3, <1>9 DEF ValkeyInv, WritesTo, Writing
  <2>3. \A x \in chunks' : x.coll \in made' \/ x.coll \in unsure' \/ \E s \in VClient : Holds(vcall'[s], x.coll)
    <3> TAKE x \in chunks'
    <3>1. CASE x \in q.new
        BY <3>1, <1>2, <2>2
    <3>2. CASE x \in chunks
      <4>1. x.coll \in made \/ x.coll \in unsure \/ \E s \in VClient : Holds(vcall[s], x.coll)
          BY <3>2, <1>1, <1>9 DEF ValkeyInv
      <4> QED BY <4>1, <1>3, <1>4, <2>1
    <3> QED BY <3>1, <3>2
  <2>4. \A t, s \in VClient : \A k \in Collection : WritesTo(vcall'[t], k) /\ Drops(vcall'[s], k) => k \in unsure'
      BY <1>1, <1>4, <1>9, <2>1 DEF ValkeyInv
  <2>5. \A t \in VClient : \A k \in Collection : WritesTo(vcall'[t], k) /\ ~vcall'[t].missing => k \in made' \/ k \in unsure'
      BY <1>1, <1>3, <1>4, <1>9, <2>1 DEF ValkeyInv
  <2>6. ASSUME NEW t \in VClient, NEW k \in made', Holds(vcall'[t], k) PROVE k \in unsure'
    <3>1. t # r /\ Holds(vcall[t], k)
        BY <2>6, <2>1, <1>4
    <3>2. CASE k \in made
        BY <3>1, <3>2, <1>1, <1>9 DEF ValkeyInv
    <3>3. CASE k = q.coll
      <4>1. WritesTo(vcall[r], k) /\ Drops(vcall[t], k)
          BY <1>2, <3>1, <3>3 DEF WritesTo, Writing, Drops, Holds
      <4> QED BY <4>1, <3>3, <1>1, <1>2, <1>9 DEF ValkeyInv
    <3> QED BY <3>2, <3>3, <1>3, <1>9
  <2> QED BY <2>3, <2>4, <2>5, <2>6
<1>10. ValkeyInv'
    BY <1>9 DEF ValkeyInv
<1> QED BY <1>5, <1>6, <1>7, <1>8, <1>10 DEF VecIInv
LEMMA WriteStep ==
    ASSUME VecIInv, VecTypes', NEW r \in VClient, Writing(vcall[r]), VecDone(r), UNCHANGED <<store, unsure>>, made' = Creating(vcall[r]),
           NEW part \in SUBSET vcall[r].new, chunks' = Replaced(part)
    PROVE  ContractStep
<1> DEFINE q == vcall[r]
<1>1. VecTypes /\ CallCarried(q) /\ IdInv /\ MadeInv /\ ValkeyInv /\ q # Unasked
    BY UnaskedRow DEF VecIInv, CarryInv, Writing
<1>2. q.op \in {"insert", "upsert"} /\ q.coll \in Collection /\ \A n \in q.new : n.coll = q.coll
    BY <1>1 DEF CallCarried, Writing
<1>3. /\ made \subseteq Creating(q)
      /\ store \in Separate \ {"valkey"} => Creating(q) = made \cup {q.coll}
      /\ store = "valkey" => Creating(q) = IF q.missing THEN made \cup {q.coll} ELSE made
    BY <1>1, <1>2, MadeIs
<1>4. \A n \in part : \A x \in chunks : n.id = x.id => x.coll = q.coll
    BY <1>1, <1>2 DEF IdInv
<1>5. store \in Separate => \A k : k # q.coll => (k \in made' <=> k \in made)
    BY <1>3 DEF Separate
<1>6. \A x : x.coll # q.coll => (x \in chunks' <=> x \in chunks)
    BY <1>2, <1>4 DEF Replaced
<1>7. CASE store = "valkey" /\ q.coll \in unsure
  <2>1. \A x : x.coll # q.coll => (x \in Visible' <=> x \in Visible)
      BY <1>5, <1>6 DEF Visible
  <2>2. Contract!Doubts
      BY DEF Contract!Doubts
  <2>3. \A x \in Visible \ Visible' : x.coll \in unsure'
      BY <1>7, <2>1
  <2>4. \A x \in Visible' \ Visible : x.coll \in unsure'
      BY <1>7, <2>1
  <2> QED BY <1>1, <2>2, <2>3, <2>4, WaverFits DEF VecIInv
<1>8. CASE ~(store = "valkey" /\ q.coll \in unsure)
  <2>1. \A x \in chunks : x.coll = q.coll => (store \in Separate => q.coll \in made)
    <3>1. CASE store = "valkey"
      <4>1. \A s \in VClient : ~Holds(vcall[s], q.coll)
          BY <1>1, <1>2, <1>8, <3>1 DEF ValkeyInv, WritesTo, Writing, Drops, Holds
      <4> QED BY <4>1, <1>1, <1>8, <3>1 DEF ValkeyInv
    <3>2. CASE store # "valkey"
        BY <3>2, <1>1 DEF MadeInv
    <3> QED BY <3>1, <3>2
  <2>2. store \in Separate => q.coll \in made'
    <3>1. CASE store = "valkey"
      <4>1. ~q.missing => q.coll \in made
          BY <1>1, <1>2, <1>8, <3>1 DEF ValkeyInv, WritesTo, Writing
      <4> QED BY <4>1, <1>3, <3>1
    <3>2. CASE store # "valkey"
        BY <3>2, <1>3
    <3> QED BY <3>1, <3>2
  <2> DEFINE V == {x \in Visible : x.coll = q.coll => \A n \in part : n.id # x.id} \cup part
  <2>3. ASSUME NEW x PROVE x \in Visible' <=> x \in V
    <3>1. x \in Visible' <=> x \in chunks' /\ (store \in Separate => x.coll \in made')
        BY DEF Visible
    <3>2. CASE x \in part
        BY <3>1, <3>2, <1>2, <2>2 DEF Replaced
    <3>3. CASE x \notin part /\ x.coll = q.coll
        BY <3>1, <3>3, <2>1, <2>2 DEF Replaced, Visible
    <3>4. CASE x \notin part /\ x.coll # q.coll
        BY <3>1, <3>4, <1>5, <1>6 DEF Visible
    <3> QED BY <3>2, <3>3, <3>4
  <2>4. Visible' = V
    <3> HIDE DEF V
    <3> QED BY <2>3
  <2> QED BY <1>1, <2>4, PutFits DEF VecIInv
<1> QED BY <1>7, <1>8

LEMMA NoClash == ASSUME NEW new, \A n \in new, x \in chunks : n.id # x.id PROVE Replaced(new) = chunks \cup new
BY DEF Replaced
LEMMA PutKeeps ==
    ASSUME VecIInv, NEW r \in VClient, VecPut(r)
    PROVE  VecIInv' /\ ContractStep
<1> DEFINE q == vcall[r]
<1>1. VecTypes /\ CallCarried(q) /\ IdInv
    BY DEF VecIInv, CarryInv
<1>2. q.op \in {"insert", "upsert"} /\ Writing(q) /\ VecDone(r) /\ UNCHANGED store /\ made' = Creating(q)
      /\ chunks' = (IF q.op = "insert" THEN Inserted(q.new) ELSE Upserted(q.new))
      /\ unsure' = IF store = "milvus_multitenancy" /\ Clash(q.new) THEN unsure \cup {q.coll} ELSE unsure
    BY DEF VecPut, VecActs, Writing
<1>3. q.coll \in Collection /\ q # Unasked /\ q \in VecCallRow /\ q.op # "none" /\ \A n \in q.new : n.coll = q.coll
    BY <1>1, <1>2, UnaskedRow DEF CallCarried, VecTypes
<1>4. \A n \in q.new, x \in chunks : n.id = x.id => q.op = "upsert" /\ n.coll = x.coll
    BY <1>1 DEF IdInv
<1>5. q.op = "insert" => (\A n \in q.new, x \in chunks : n.id # x.id) /\ chunks' = Replaced(q.new)
    BY <1>1, <1>2, <1>4, InsertedIs, NoClash DEF VecTypes
<1>6. q.op = "upsert" => chunks' = IF store = "milvus_multitenancy" THEN chunks \cup q.new ELSE Replaced(q.new)
    BY <1>1, <1>2, <1>4, UpsertedIs DEF VecTypes
<1>7. chunks' \subseteq chunks \cup q.new
    BY <1>2, <1>5, <1>6 DEF Replaced
<1>8. unsure \subseteq unsure' /\ unsure' \subseteq Collection
    BY <1>1, <1>2, <1>3 DEF VecTypes
<1>9. VecIInv'
    BY <1>2, <1>7, <1>8, WriteInv
<1>10. VecTypes'
    BY <1>9 DEF VecIInv
<1>11. CASE store = "milvus_multitenancy" /\ Clash(q.new)
  <2>1. q.op = "upsert" /\ chunks' = chunks \cup q.new /\ unsure' = unsure \cup {q.coll}
      BY <1>2, <1>5, <1>6, <1>11 DEF Clash
  <2>2. Visible = chunks /\ Visible' = chunks'
      BY <1>2, <1>11 DEF Visible, Separate
  <2>3. PICK x \in chunks, n \in q.new : x.id = n.id
      BY <1>11 DEF Clash
  <2>4. x.coll = q.coll
      BY <1>3, <1>4, <2>3
  <2>5. VecStored = Visible
      BY <1>1, StoredIs
  <2>6. VecAsked[r] # Unasked /\ VecAsked[r].op = "upsert" /\ VecAsked[r].coll = q.coll /\ VecAsked[r].new = q.new /\ r \in DOMAIN VecAsked
      BY <1>3, <2>1, AskedAt, ShownIs
  <2>7. Contract!Repeating(VecAsked[r])
      BY <2>2, <2>3, <2>4, <2>5, <2>6 DEF Contract!Repeating, Contract!In
  <2>8. Contract!Doubts
      BY <2>1, <2>6, <2>7 DEF Contract!Doubts
  <2>9. (\A y \in Visible \ Visible' : y.coll \in unsure') /\ \A y \in Visible' \ Visible : y.coll \in unsure'
      BY <1>3, <2>1, <2>2
  <2>10. ContractStep
      BY <1>1, <1>2, <1>3, <1>10, <2>8, <2>9, WaverFits
  <2> QED BY <1>9, <2>10
<1>12. CASE ~(store = "milvus_multitenancy" /\ Clash(q.new))
  <2>1. chunks' = Replaced(q.new)
    <3>1. CASE q.op = "insert"
        BY <3>1, <1>5
    <3>2. CASE q.op = "upsert" /\ store = "milvus_multitenancy"
        BY <3>2, <1>6, <1>12, NoClash DEF Clash
    <3>3. CASE q.op = "upsert" /\ store # "milvus_multitenancy"
        BY <3>3, <1>6
    <3> QED BY <3>1, <3>2, <3>3, <1>2
  <2>2. UNCHANGED <<store, unsure>>
      BY <1>2, <1>12
  <2>3. ContractStep
      BY <1>2, <1>10, <2>1, <2>2, WriteStep
  <2> QED BY <1>9, <2>3
<1> QED BY <1>11, <1>12

(* A call that ends or goes on without a write. *)
LEMMA EndKeeps ==
    ASSUME VecIInv, NEW r \in VClient, NEW q, CallGoes(r, q), CallCarried(q), UNCHANGED store, chunks' \subseteq chunks, made' \subseteq made,
           unsure \subseteq unsure', unsure' \subseteq Collection
    PROVE  VecTypes' /\ CarryInv' /\ IdInv' /\ NamedInv'
<1>1. VecTypes /\ CarryInv /\ IdInv /\ NamedInv
    BY DEF VecIInv
<1>2. VecTypes'
    BY <1>1, RowsAfter DEF VecTypes, CallGoes
<1>3. CarryInv'
    BY <1>1, CarryKeep DEF CallGoes
<1>4. IdInv' /\ NamedInv'
    BY <1>1, IdsKeep
<1> QED BY <1>2, <1>3, <1>4
\* What Valkey's collections need besides.
LEMMA ValkeyKeeps ==
    ASSUME VecIInv, NEW r \in VClient, NEW q, CallGoes(r, q), UNCHANGED store, ~Writing(q), chunks' \subseteq chunks, made' \subseteq made, unsure \subseteq unsure',
           store = "valkey" =>
             /\ \A x \in chunks' : Holds(vcall[r], x.coll) => x.coll \in unsure' \/ Holds(q, x.coll)
             /\ \A x \in chunks' : x.coll \in made \ made' => Holds(q, x.coll)
             /\ \A c \in made \ made' : Drops(vcall[r], c)
             /\ \A c \in made' : Holds(q, c) => Holds(vcall[r], c)
    PROVE  ValkeyInv'
<1>1. VecTypes /\ ValkeyInv
    BY DEF VecIInv
<1>2. vcall'[r] = q /\ \A s \in VClient : s # r => vcall'[s] = vcall[s]
    BY <1>1, RowsAfter DEF CallGoes
<1>3. \A c : ~WritesTo(q, c) /\ (Drops(q, c) => Drops(vcall[r], c))
    BY UnaskedRow DEF WritesTo, Drops, CallGoes
<1>4. ASSUME store = "valkey"
      PROVE  /\ \A x \in chunks' : x.coll \in made' \/ x.coll \in unsure' \/ \E s \in VClient : Holds(vcall'[s], x.coll)
             /\ \A t, s \in VClient : \A k \in Collection : WritesTo(vcall'[t], k) /\ Drops(vcall'[s], k) => k \in unsure'
             /\ \A t \in VClient : \A k \in Collection : WritesTo(vcall'[t], k) /\ ~vcall'[t].missing => k \in made' \/ k \in unsure'
             /\ \A t \in VClient : \A k \in made' : Holds(vcall'[t], k) => k \in unsure'
  <2>1. ASSUME NEW x \in chunks' PROVE x.coll \in made' \/ x.coll \in unsure' \/ \E s \in VClient : Holds(vcall'[s], x.coll)
    <3>1. x.coll \in made \/ x.coll \in unsure \/ \E s \in VClient : Holds(vcall[s], x.coll)
        BY <1>1, <1>4 DEF ValkeyInv
    <3> QED BY <3>1, <1>2, <1>4
  <2>2. \A t, s \in VClient : \A k \in Collection : WritesTo(vcall'[t], k) /\ Drops(vcall'[s], k) => k \in unsure'
      BY <1>1, <1>2, <1>3, <1>4 DEF ValkeyInv
  <2>3. ASSUME NEW t \in VClient, NEW k \in Collection, WritesTo(vcall'[t], k), ~vcall'[t].missing PROVE k \in made' \/ k \in unsure'
    <3>1. t # r /\ WritesTo(vcall[t], k) /\ ~vcall[t].missing
        BY <2>3, <1>2, <1>3
    <3>2. k \in made \/ k \in unsure
        BY <3>1, <1>1, <1>4 DEF ValkeyInv
    <3>3. k \in made \ made' => k \in unsure
        BY <3>1, <1>1, <1>4 DEF ValkeyInv
    <3> QED BY <3>2, <3>3
  <2>4. \A t \in VClient : \A k \in made' : Holds(vcall'[t], k) => k \in unsure'
      BY <1>1, <1>2, <1>4 DEF ValkeyInv
  <2> QED BY <2>1, <2>2, <2>3, <2>4
<1> QED BY <1>4 DEF ValkeyInv
LEMMA MadeKeeps ==
    ASSUME MadeInv, UNCHANGED store, chunks' \subseteq chunks, store \in Separate \ {"valkey"} => \A x \in chunks' : x.coll \notin made \ made'
    PROVE  MadeInv'
BY DEF MadeInv

LEMMA DoneGoes == ASSUME NEW r \in VClient, VecDone(r) PROVE CallGoes(r, Unasked) /\ CallCarried(Unasked) /\ ~Writing(Unasked) /\ \A c : ~Holds(Unasked, c)
BY UnaskedRow DEF CallGoes, VecDone, Writing, Holds
LEMMA RaisesKeep ==
    ASSUME VecIInv, NEW r \in VClient, VecRaises(r)
    PROVE  VecIInv' /\ ContractStep
<1> DEFINE q == vcall[r]
           more == IF store # "valkey" THEN {} ELSE IF q.op = "reset" THEN q.ids ELSE IF q.step = "keys" THEN {q.coll} ELSE {}
<1>1. VecTypes /\ CallCarried(q) /\ IdInv /\ MadeInv
    BY DEF VecIInv, CarryInv
<1>2. q # Unasked /\ VecDone(r) /\ UNCHANGED store /\ unsure' = unsure \cup more
    BY DEF VecRaises
<1>3. q.op # "none" /\ q \in VecCallRow
    BY <1>1, <1>2 DEF CallCarried, VecTypes
<1>4. more \subseteq Collection /\ (more # {} => VecDropping(q)) /\ (Writing(q) => more = {})
    BY <1>1 DEF CallCarried, VecDropping, Writing
<1>5. unsure \subseteq unsure' /\ unsure' \subseteq Collection
    BY <1>1, <1>2, <1>4 DEF VecTypes
<1>6. CASE q.op = "insert" /\ ~Beaten(q)
  <2>1. PICK part \in SUBSET q.new : chunks' = Inserted(part) /\ made' = Creating(q)
      BY <1>6 DEF VecRaises
  <2>2. \A n \in part, x \in chunks : n.id # x.id
      BY <1>1, <1>6 DEF IdInv
  <2>3. Inserted(part) = chunks \cup part /\ Replaced(part) = chunks \cup part
      BY <1>1, <2>2, InsertedIs, NoClash DEF VecTypes
  <2>4. Writing(q) /\ chunks' \subseteq chunks \cup q.new /\ chunks' = Replaced(part)
      BY <1>6, <2>1, <2>3 DEF Writing
  <2>5. VecIInv'
      BY <1>2, <1>5, <2>1, <2>4, WriteInv
  <2>6. UNCHANGED <<store, unsure>>
      BY <1>2, <1>4, <2>4
  <2>7. ContractStep
      BY <1>2, <2>1, <2>4, <2>5, <2>6, WriteStep DEF VecIInv
  <2> QED BY <2>5, <2>7
<1>7. CASE ~(q.op = "insert" /\ ~Beaten(q))
  <2>1. UNCHANGED <<chunks, made>>
      BY <1>7 DEF VecRaises
  <2>2. VecTypes' /\ CarryInv' /\ IdInv' /\ NamedInv'
      BY <1>2, <1>5, <2>1, DoneGoes, EndKeeps
  <2>3. store = "valkey" => \A c : Holds(vcall[r], c) => c \in unsure'
      BY <1>2 DEF Holds
  <2>4. ValkeyInv'
      BY <1>2, <1>5, <2>1, <2>3, DoneGoes, ValkeyKeeps
  <2>5. MadeInv'
      BY <1>1, <1>2, <2>1, MadeKeeps
  <2>6. VecDropping(q) => Contract!Dropping(VecAsked[r]) /\ r \in DOMAIN VecAsked
      BY <1>3, AskedAt, ShownIs DEF VecDropping, Contract!Dropping
  <2>7. Contract!Doubts
      BY <1>2, <1>4, <2>6 DEF Contract!Doubts
  <2>8. Visible' = Visible
      BY <1>2, <2>1 DEF Visible
  <2>9. ContractStep
      BY <1>1, <1>2, <2>2, <2>7, <2>8, RaiseFits
  <2> QED BY <2>2, <2>4, <2>5, <2>9 DEF VecIInv
<1> QED BY <1>6, <1>7

\* Deletion by ids, by a filter or of all.
Taken(q) == {x \in chunks : x.coll = q.coll /\ (q.file \in DocOf => x.file = q.file) /\ (q.ids = {} \/ x.id \in q.ids)}
LEMMA DeletedIs ==
    ASSUME VecIInv, NEW r \in VClient, vcall[r].op = "delete"
    PROVE  VecDeleted(vcall[r]) = Taken(vcall[r]) \/ VecDeleted(vcall[r]) = {}
<1> DEFINE q == vcall[r]
           T == Taken(q)
<1>1. store \in Adapters /\ q.file \in DocOf \cup {None} /\ (q.ids = {} \/ q.file = None) /\ None \notin DocOf
    BY VectorAssumption DEF VecIInv, VecTypes, VecCallRow, FileOrNone, CarryInv, CallCarried
<1>2. OfFile(q) = {x \in chunks : x.coll = q.coll /\ (q.file \in DocOf => x.file = q.file)}
    BY <1>1 DEF OfFile, InColl
<1>3. WithIds(q) = {x \in chunks : x.coll = q.coll /\ x.id \in q.ids}
    BY DEF WithIds, InColl
<1>4. Narrowed(q) = T
    BY <1>2 DEF Narrowed, Taken
<1>5. IdsFirst(q) = T
    BY <1>1, <1>2, <1>3 DEF IdsFirst, Taken
<1>6. OneOf(q) = T \/ OneOf(q) = {}
    BY <1>1, <1>2, <1>3 DEF OneOf, Taken
<1>7. q.ids # {} => {x \in chunks : x.id \in q.ids} = T
  <2>1. \A x \in chunks : x.id \in q.ids => x.coll = q.coll
      BY DEF VecIInv, NamedInv
  <2> QED BY <1>1, <2>1 DEF Taken
<1> HIDE DEF T, q
<1>8. VecDeleted(q) = T \/ VecDeleted(q) = {}
  <2>1. CASE store \in {"pgvector", "pgcrypto", "opengauss", "mariadb", "oracle", "pinecone", "elasticsearch", "chroma"}
      BY <1>4, <1>5, <1>6, <1>7, <2>1 DEF VecDeleted, pgvector_delete, opengauss_delete, mariadb_delete, oracle_delete, pinecone_delete, elasticsearch_delete, chroma_delete
  <2>2. CASE store \in {"qdrant", "qdrant_multitenancy", "milvus", "milvus_multitenancy", "opensearch", "s3vector", "valkey", "weaviate"}
      BY <1>4, <1>5, <1>6, <2>2 DEF VecDeleted, qdrant_delete, qdrant_multitenancy_delete, milvus_delete, milvus_multitenancy_delete, opensearch_delete, s3vector_delete, valkey_delete, weaviate_delete
  <2> QED BY <1>1, <2>1, <2>2 DEF Adapters
<1> QED BY <1>8 DEF T, q
LEMMA VecDeleteKeeps ==
    ASSUME VecIInv, NEW r \in VClient, VecDelete(r)
    PROVE  VecIInv' /\ ContractStep
<1> DEFINE q == vcall[r]
<1>1. VecTypes /\ CallCarried(q) /\ MadeInv
    BY DEF VecIInv, CarryInv
<1>2. q.op = "delete" /\ chunks' = chunks \ VecDeleted(q) /\ VecDone(r) /\ UNCHANGED <<store, made, unsure>>
    BY DEF VecDelete
<1>3. VecTypes' /\ CarryInv' /\ IdInv' /\ NamedInv'
  <2>1. unsure' \subseteq Collection /\ chunks' \subseteq chunks
      BY <1>1, <1>2 DEF VecTypes
  <2> QED BY <1>2, <2>1, DoneGoes, EndKeeps
<1>4. ValkeyInv'
  <2>1. \A c : ~Holds(vcall[r], c)
      BY <1>2 DEF Holds
  <2> QED BY <1>2, <2>1, DoneGoes, ValkeyKeeps
<1>5. MadeInv'
    BY <1>1, <1>2, MadeKeeps
<1>6. ContractStep
  <2>1. CASE VecDeleted(q) = {}
    <3>1. Visible' = Visible /\ q # Unasked
        BY <1>2, <2>1, UnaskedRow DEF Visible
    <3>2. Contract!Doubts
        BY <1>2 DEF Contract!Doubts
    <3> QED BY <1>1, <1>2, <1>3, <3>1, <3>2, RaiseFits
  <2>2. CASE VecDeleted(q) = Taken(q)
    <3>1. Visible' = {x \in Visible : ~(/\ x.coll = q.coll
                                        /\ q.file \in DocOf => x.file = q.file
                                        /\ q.ids = {} \/ x.id \in q.ids)}
        BY <1>2, <2>2 DEF Visible, Taken
    <3> QED BY <1>1, <1>2, <1>3, <3>1, DeleteFits
  <2> QED BY <1>2, <2>1, <2>2, DeletedIs
<1> QED BY <1>3, <1>4, <1>5, <1>6 DEF VecIInv
LEMMA DropOwnKeeps ==
    ASSUME VecIInv, NEW r \in VClient, VecDropOwn(r)
    PROVE  VecIInv' /\ ContractStep
<1> DEFINE q == vcall[r]
<1>1. VecTypes /\ CallCarried(q) /\ MadeInv /\ q \in VecCallRow
    BY DEF VecIInv, CarryInv, VecTypes
<1>2. PICK p : p = [q EXCEPT !.step = "rest"]
    OBVIOUS
<1>3. q.op = "delete" /\ Owning(q) /\ chunks' = {x \in chunks : x.coll # OwnColl[q.file]} /\ made' = made \ {OwnColl[q.file]}
      /\ vcall' = [vcall EXCEPT ![r] = p] /\ UNCHANGED <<store, unsure>>
    BY <1>2 DEF VecDropOwn, VecActs
<1>4. p \in VecCallRow /\ p.op = q.op /\ p.coll = q.coll /\ p.file = q.file /\ p.new = q.new /\ p.ids = q.ids /\ p.step = "rest"
    BY <1>1, <1>2 DEF VecCallRow
<1>5. CallGoes(r, p)
    BY <1>3, <1>4 DEF CallGoes
<1>6. CallCarried(p) /\ ~Writing(p)
    BY <1>1, <1>3, <1>4, UnaskedRow DEF CallCarried, Writing
<1>7. store = "s3vector" /\ q.file \in DocOf
    BY <1>1, <1>3 DEF Owning, VecCallRow, FileOrNone
<1>8. VecTypes' /\ CarryInv' /\ IdInv' /\ NamedInv'
  <2>1. unsure' \subseteq Collection /\ chunks' \subseteq chunks
      BY <1>1, <1>3 DEF VecTypes
  <2> QED BY <1>3, <1>5, <1>6, <2>1, EndKeeps
<1>9. ValkeyInv'
    BY <1>3, <1>7 DEF ValkeyInv
<1>10. MadeInv'
    BY <1>1, <1>3, MadeKeeps
<1>11. ContractStep
  <2>1. Contract!GoesOn(r)
      BY <1>1, <1>3, <1>4, GoOnFits
  <2>2. Visible' = {x \in Visible : x.coll # OwnColl[q.file]}
      BY <1>3 DEF Visible
  <2> QED BY <1>1, <1>3, <1>7, <1>8, <2>1, <2>2, DropOwnFits
<1> QED BY <1>8, <1>9, <1>10, <1>11 DEF VecIInv

\* A collection is dropped; Valkey's keys go later.
LEMMA DropKeeps ==
    ASSUME VecIInv, NEW r \in VClient, VecDeleteCollection(r)
    PROVE  VecIInv' /\ ContractStep
<1>1. PICK q : q = vcall[r]
    OBVIOUS
<1>2. VecTypes /\ CallCarried(q) /\ MadeInv /\ q \in VecCallRow
    BY <1>1 DEF VecIInv, CarryInv, VecTypes
<1>3. /\ q.op = "delete_collection" /\ q.step = "act" /\ UNCHANGED <<store, unsure>>
      /\ chunks' = (IF store = "valkey" THEN chunks ELSE chunks \ InColl(q))
      /\ made' = (IF store \in Separate THEN made \ {q.coll} ELSE made)
    BY <1>1 DEF VecDeleteCollection, VecActs
<1>4. chunks' \subseteq chunks /\ made' \subseteq made /\ unsure' \subseteq Collection
    BY <1>2, <1>3 DEF VecTypes
<1>5. MadeInv'
    BY <1>2, <1>3, <1>4, MadeKeeps DEF InColl
<1>6. Visible' = {x \in Visible : x.coll # q.coll}
  <2>1. CASE store = "valkey"
      BY <1>3, <2>1 DEF Visible, Separate
  <2>2. CASE store # "valkey"
      BY <1>3, <2>2 DEF Visible, InColl
  <2> QED BY <2>1, <2>2
<1>7. CASE store = "valkey"
  <2>1. PICK p : p = [q EXCEPT !.step = "keys"]
      OBVIOUS
  <2>2. vcall' = [vcall EXCEPT ![r] = p]
      BY <1>1, <1>7, <2>1 DEF VecDeleteCollection
  <2>3. p \in VecCallRow /\ p.op = q.op /\ p.coll = q.coll /\ p.file = q.file /\ p.new = q.new /\ p.ids = q.ids /\ p.step = "keys"
      BY <1>2, <2>1 DEF VecCallRow
  <2>4. CallGoes(r, p)
      BY <1>1, <2>2, <2>3 DEF CallGoes
  <2>5. CallCarried(p) /\ ~Writing(p)
      BY <1>2, <1>3, <1>7, <2>3 DEF CallCarried, Writing, VecDropping
  <2>6. VecTypes' /\ CarryInv' /\ IdInv' /\ NamedInv'
      BY <1>3, <1>4, <2>4, <2>5, EndKeeps
  <2>7. /\ \A c : ~Holds(q, c)
        /\ \A c : Holds(p, c) <=> c = q.coll
        /\ Drops(q, q.coll)
      BY <1>3, <2>3 DEF Holds, Drops
  <2>8. made \ made' \subseteq {q.coll} /\ q.coll \notin made'
      BY <1>3, <1>7 DEF Separate
  <2>9. ValkeyInv'
      BY <1>1, <1>3, <1>4, <2>4, <2>5, <2>7, <2>8, ValkeyKeeps
  <2>10. Contract!GoesOn(r)
      BY <1>1, <1>2, <1>3, <2>2, <2>3, GoOnFits
  <2>11. ContractStep
      BY <1>1, <1>2, <1>3, <1>6, <2>6, <2>10, DropFits
  <2> QED BY <1>5, <2>6, <2>9, <2>11 DEF VecIInv
<1>8. CASE store # "valkey"
  <2>1. VecDone(r) /\ q # Unasked
      BY <1>3, <1>8, UnaskedRow DEF VecDeleteCollection
  <2>2. VecTypes' /\ CarryInv' /\ IdInv' /\ NamedInv'
      BY <1>3, <1>4, <2>1, DoneGoes, EndKeeps
  <2>3. ValkeyInv'
      BY <1>3, <1>8 DEF ValkeyInv
  <2>4. Contract!GoesOn(r)
      BY <1>1, <1>2, <2>1, ReturnFits
  <2>5. ContractStep
      BY <1>1, <1>2, <1>3, <1>6, <2>2, <2>4, DropFits
  <2> QED BY <1>5, <2>2, <2>3, <2>5 DEF VecIInv
<1> QED BY <1>7, <1>8
\* What Valkey's keys still show is of collections that are in doubt.
LEMMA DeleteKeysKeeps ==
    ASSUME VecIInv, NEW r \in VClient, VecDeleteKeys(r)
    PROVE  VecIInv' /\ ContractStep
<1>1. PICK q : q = vcall[r]
    OBVIOUS
<1>2. VecTypes /\ CallCarried(q) /\ MadeInv /\ ValkeyInv
    BY <1>1 DEF VecIInv, CarryInv
<1>3. /\ q.step = "keys" /\ VecDone(r) /\ UNCHANGED <<store, made, unsure>>
      /\ chunks' = {x \in chunks : IF q.op = "reset" THEN x.coll \notin q.ids ELSE x.coll # q.coll}
    BY <1>1 DEF VecDeleteKeys
<1>4. store = "valkey" /\ VecDropping(q) /\ q # Unasked
    BY <1>2, <1>3, UnaskedRow DEF CallCarried
<1>5. chunks' \subseteq chunks /\ made' \subseteq made /\ unsure' \subseteq Collection
    BY <1>2, <1>3 DEF VecTypes
<1>6. VecTypes' /\ CarryInv' /\ IdInv' /\ NamedInv'
    BY <1>3, <1>5, DoneGoes, EndKeeps
<1>7. \A x \in chunks' : ~Holds(q, x.coll)
    BY <1>3, <1>4 DEF Holds, VecDropping
<1>8. ValkeyInv'
    BY <1>1, <1>3, <1>5, <1>7, DoneGoes, ValkeyKeeps
<1>9. MadeInv'
    BY <1>2, <1>3, <1>5, MadeKeeps
<1>10. \A x \in chunks \ chunks' : Holds(q, x.coll)
    BY <1>3, <1>4 DEF Holds, VecDropping
<1>11. \A x \in Visible \ Visible' : x.coll \in unsure'
  <2> TAKE x \in Visible \ Visible'
  <2>1. x \in chunks \ chunks' /\ x.coll \in made
      BY <1>3, <1>4 DEF Visible, Separate
  <2> QED BY <1>1, <1>2, <1>3, <1>4, <1>10, <2>1 DEF ValkeyInv
<1>12. Visible' \subseteq Visible
    BY <1>3, <1>5 DEF Visible
<1>13. Contract!Doubts
    BY <1>3 DEF Contract!Doubts
<1>14. ContractStep
    BY <1>1, <1>2, <1>3, <1>4, <1>6, <1>11, <1>12, <1>13, WaverFits
<1> QED BY <1>6, <1>8, <1>9, <1>14 DEF VecIInv
LEMMA DroppedIs ==
    ASSUME store \in Adapters, NEW q, NEW cs \in VecDropped(q)
    PROVE  cs \subseteq Collection
<1>1. \A xs \in Everything : xs \subseteq Collection
    BY DEF Everything
<1>2. \A xs \in OneByOne(q) : xs \subseteq Collection
    BY DEF OneByOne
<1>3. VecDropped(q) = Everything \/ VecDropped(q) = OneByOne(q)
  <2>1. CASE store \in {"pgvector", "pgcrypto", "opengauss", "mariadb", "oracle", "pinecone", "elasticsearch", "chroma"}
      BY <2>1 DEF VecDropped, pgvector_reset, opengauss_reset, mariadb_reset, oracle_reset, pinecone_reset, elasticsearch_reset, chroma_reset
  <2>2. CASE store \in {"qdrant", "qdrant_multitenancy", "milvus", "milvus_multitenancy", "opensearch", "s3vector", "valkey", "weaviate"}
      BY <2>2 DEF VecDropped, qdrant_reset, qdrant_multitenancy_reset, milvus_reset, milvus_multitenancy_reset, opensearch_reset, s3vector_reset, valkey_reset, weaviate_reset
  <2> QED BY <2>1, <2>2 DEF Adapters
<1> QED BY <1>1, <1>2, <1>3
LEMMA ResetKeeps ==
    ASSUME VecIInv, NEW r \in VClient, VecReset(r)
    PROVE  VecIInv' /\ ContractStep
<1>1. PICK q : q = vcall[r]
    OBVIOUS
<1>2. VecTypes /\ CallCarried(q) /\ MadeInv /\ q \in VecCallRow
    BY <1>1 DEF VecIInv, CarryInv, VecTypes
<1>3. PICK cs \in VecDropped(q) :
         /\ chunks' = (IF store = "valkey" THEN chunks ELSE {x \in chunks : x.coll \notin cs})
         /\ made' = made \ {Physical(c) : c \in cs}
         /\ vcall' = [vcall EXCEPT ![r].left = @ \ ({"all"} \cup {Physical(c) : c \in cs}), ![r].ids = @ \cup cs]
    BY <1>1 DEF VecReset
<1>4. q.op = "reset" /\ q.step = "act" /\ UNCHANGED <<store, unsure>>
    BY <1>1 DEF VecReset, VecActs
<1>5. cs \subseteq Collection
    BY <1>2, DroppedIs DEF VecTypes
<1>6. PICK left : left = q.left \ ({"all"} \cup {Physical(c) : c \in cs})
    OBVIOUS
<1>7. PICK p : p = [q EXCEPT !.left = left, !.ids = q.ids \cup cs]
    OBVIOUS
<1>8. vcall' = [vcall EXCEPT ![r] = p]
  <2> DEFINE d == {"all"} \cup {Physical(c) : c \in cs}
  <2>1. left = q.left \ d /\ vcall' = [vcall EXCEPT ![r].left = @ \ d, ![r].ids = @ \cup cs]
      BY <1>3, <1>6
  <2> HIDE DEF d
  <2> QED BY <1>1, <1>2, <1>7, <2>1 DEF VecCallRow, VecTypes
<1>9. /\ p.op = q.op /\ p.coll = q.coll /\ p.file = q.file /\ p.new = q.new /\ p.step = q.step
      /\ p.ids = q.ids \cup cs /\ p.missing = q.missing
    BY <1>2, <1>7 DEF VecCallRow
<1>10. p \in VecCallRow
  <2>1. left \in SUBSET VecPlaces /\ q.ids \cup cs \in SUBSET Names
      BY <1>2, <1>5, <1>6 DEF VecCallRow, Names
  <2> QED BY <1>2, <1>7, <2>1 DEF VecCallRow
<1>11. CallGoes(r, p)
    BY <1>1, <1>4, <1>8, <1>9, <1>10 DEF CallGoes
<1>12. CallCarried(p) /\ ~Writing(p)
    BY <1>2, <1>4, <1>5, <1>9 DEF CallCarried, Writing
<1>13. chunks' \subseteq chunks /\ made' \subseteq made /\ unsure' \subseteq Collection
    BY <1>2, <1>3, <1>4 DEF VecTypes
<1>14. VecTypes' /\ CarryInv' /\ IdInv' /\ NamedInv'
    BY <1>4, <1>11, <1>12, <1>13, EndKeeps
<1>15. store \in Separate => made' = made \ cs
  <2> HAVE store \in Separate
  <2>1. \A c : Physical(c) = c
      BY DEF Physical, Separate, Shared
  <2> QED BY <1>3, <2>1
<1>16. MadeInv'
    BY <1>2, <1>3, <1>4, <1>13, <1>15, MadeKeeps
<1>17. ValkeyInv'
  <2>1. \A c : (Holds(q, c) <=> c \in q.ids) /\ (Holds(p, c) <=> c \in q.ids \/ c \in cs) /\ Drops(q, c)
      BY <1>4, <1>9 DEF Holds, Drops
  <2>2. store = "valkey" => made' = made \ cs
      BY <1>15 DEF Separate
  <2>3. store = "valkey" =>
             /\ \A x \in chunks' : Holds(vcall[r], x.coll) => x.coll \in unsure' \/ Holds(p, x.coll)
             /\ \A x \in chunks' : x.coll \in made \ made' => Holds(p, x.coll)
             /\ \A c \in made \ made' : Drops(vcall[r], c)
             /\ \A c \in made' : Holds(p, c) => Holds(vcall[r], c)
      BY <1>1, <2>1, <2>2
  <2> QED BY <1>4, <1>11, <1>12, <1>13, <2>3, ValkeyKeeps
<1>18. Visible' = {x \in Visible : x.coll \notin cs}
  <2>1. CASE store = "valkey"
      BY <1>3, <1>4, <1>15, <2>1 DEF Visible, Separate
  <2>2. CASE store # "valkey"
    <3>1. chunks' = {x \in chunks : x.coll \notin cs}
        BY <1>3, <2>2
    <3> QED BY <1>4, <1>15, <3>1 DEF Visible
  <2> QED BY <2>1, <2>2
<1>19. Contract!GoesOn(r)
    BY <1>1, <1>2, <1>4, <1>8, <1>9, <1>10, GoOnFits
<1>20. ContractStep
    BY <1>1, <1>2, <1>4, <1>14, <1>18, <1>19, ResetFits
<1> QED BY <1>14, <1>16, <1>17, <1>20 DEF VecIInv
LEMMA ResetEndsKeeps ==
    ASSUME VecIInv, NEW r \in VClient, VecResetEnds(r)
    PROVE  VecIInv' /\ ContractStep
<1>1. PICK q : q = vcall[r]
    OBVIOUS
<1>2. VecTypes /\ CallCarried(q) /\ MadeInv /\ q \in VecCallRow
    BY <1>1 DEF VecIInv, CarryInv, VecTypes
<1>3. q.op = "reset" /\ UNCHANGED <<store, chunks, made, unsure>>
    BY <1>1 DEF VecResetEnds, VecActs
<1>4. chunks' \subseteq chunks /\ made' \subseteq made /\ unsure' \subseteq Collection
    BY <1>2, <1>3 DEF VecTypes
<1>5. MadeInv'
    BY <1>2, <1>3, MadeKeeps
<1>6. PICK cs : cs = {}
    OBVIOUS
<1>7. Visible' = {x \in Visible : x.coll \notin cs}
    BY <1>3, <1>6 DEF Visible
<1>8. CASE store = "valkey"
  <2>1. PICK p : p = [q EXCEPT !.step = "keys"]
      OBVIOUS
  <2>2. vcall' = [vcall EXCEPT ![r] = p]
      BY <1>1, <1>8, <2>1 DEF VecResetEnds
  <2>3. p \in VecCallRow /\ p.op = q.op /\ p.coll = q.coll /\ p.file = q.file /\ p.new = q.new /\ p.ids = q.ids /\ p.step = "keys"
      BY <1>2, <2>1 DEF VecCallRow
  <2>4. CallGoes(r, p)
      BY <1>1, <2>2, <2>3 DEF CallGoes
  <2>5. CallCarried(p) /\ ~Writing(p)
      BY <1>2, <1>3, <1>8, <2>3 DEF CallCarried, Writing, VecDropping
  <2>6. VecTypes' /\ CarryInv' /\ IdInv' /\ NamedInv'
      BY <1>3, <1>4, <2>4, <2>5, EndKeeps
  <2>7. \A c : Holds(p, c) <=> Holds(q, c)
      BY <1>3, <2>3 DEF Holds
  <2>8. ValkeyInv'
      BY <1>1, <1>3, <1>4, <2>4, <2>5, <2>7, ValkeyKeeps
  <2>9. Contract!GoesOn(r)
      BY <1>1, <1>2, <1>3, <2>2, <2>3, GoOnFits
  <2>10. ContractStep
      BY <1>1, <1>2, <1>3, <1>7, <2>6, <2>9, ResetFits
  <2> QED BY <1>5, <2>6, <2>8, <2>10 DEF VecIInv
<1>9. CASE store # "valkey"
  <2>1. VecDone(r) /\ q # Unasked
      BY <1>3, <1>9, UnaskedRow DEF VecResetEnds
  <2>2. VecTypes' /\ CarryInv' /\ IdInv' /\ NamedInv'
      BY <1>3, <1>4, <2>1, DoneGoes, EndKeeps
  <2>3. ValkeyInv'
      BY <1>3, <1>9 DEF ValkeyInv
  <2>4. Contract!GoesOn(r)
      BY <1>1, <1>2, <2>1, ReturnFits
  <2>5. ContractStep
      BY <1>1, <1>2, <1>3, <1>7, <2>2, <2>4, ResetFits
  <2> QED BY <1>5, <2>2, <2>3, <2>5 DEF VecIInv
<1> QED BY <1>8, <1>9
LEMMA VecStarts == VecInit => VecIInv
<1> SUFFICES ASSUME VecInit PROVE VecIInv
    OBVIOUS
<1>1. \A r \in VClient : vcall[r] = Unasked
    BY DEF VecInit
<1>2. VecTypes
    BY VectorAssumption, UnaskedRow DEF VecInit, VecTypes
<1>3. CarryInv
    BY <1>1, UnaskedRow DEF CarryInv
<1>4. IdInv /\ NamedInv
    BY <1>1, UnaskedRow DEF VecInit, IdInv, NamedInv, OneColl
<1>5. MadeInv
    BY DEF VecInit, MadeInv
<1>6. ValkeyInv
    BY <1>1, UnaskedRow DEF VecInit, ValkeyInv, WritesTo, Writing, Drops
<1> QED BY <1>2, <1>3, <1>4, <1>5, <1>6 DEF VecIInv
LEMMA VecSteps == VecIInv /\ VecNext => VecIInv' /\ ContractStep
<1> SUFFICES ASSUME VecIInv, VecNext PROVE VecIInv' /\ ContractStep
    OBVIOUS
<1>1. PICK r \in VClient :
         \/ /\ VecFree(r)
            /\ \/ \E c \in Collection :
                     \/ \E f \in DocOf \cup {None}, n \in 1..2 : AsksInsert(r, c, f, n)
                     \/ AsksUpsert(r, c) \/ AsksDelete(r, c) \/ VecAsks(r, "delete_collection", c, {}, None, {})
               \/ VecAsks(r, "reset", None, {}, None, {})
         \/ VecPut(r) \/ VecRaises(r) \/ VecDropOwn(r) \/ VecDelete(r) \/ VecDeleteCollection(r)
         \/ VecDeleteKeys(r) \/ VecReset(r) \/ VecResetEnds(r)
    BY DEF VecNext
<1>2. VecFree(r) => vcall[r] = Unasked
    BY DEF VecFree
<1> QED BY <1>1, <1>2, InsertKeeps, UpsertKeeps, DeleteAskKeeps, DropAskKeeps, PutKeeps, RaisesKeep, DropOwnKeeps,
           VecDeleteKeeps, DropKeeps, DeleteKeysKeeps, ResetKeeps, ResetEndsKeeps
LEMMA VecRests == VecIInv /\ UNCHANGED vecVars => VecIInv' /\ ContractStep
<1> SUFFICES ASSUME VecIInv, UNCHANGED vecVars PROVE VecIInv'
    BY DEF ContractStep
<1>1. VecTypes' /\ CarryInv' /\ IdInv' /\ NamedInv'
    BY DEF VecIInv, vecVars, VecTypes, CarryInv, CallCarried, IdInv, OneColl, NamedInv
<1>2. MadeInv' /\ ValkeyInv'
    BY DEF VecIInv, vecVars, MadeInv, ValkeyInv
<1> QED BY <1>1, <1>2 DEF VecIInv

LEMMA ContractStarts == VecInit => Contract!Init
<1> SUFFICES ASSUME VecInit PROVE Contract!Init
    OBVIOUS
<1>1. VecTypes
    BY VecStarts DEF VecIInv
<1>2. VecStored = {}
    BY <1>1, StoredIs DEF VecInit, Visible
<1>3. \A r \in DOMAIN VecAsked : VecAsked[r] = Unasked
    BY AskedAt, ShownNone DEF VecInit, VecAsked
<1>4. Contract!Filters
    BY <1>1, FiltersFit
<1> QED BY <1>2, <1>3, <1>4 DEF VecInit, Contract!Init
LEMMA RestFits ==
    ASSUME VecTypes, VecTypes', UNCHANGED vecVars
    PROVE  Contract!Next
<1>1. VecStored' = VecStored
    BY StoredNext DEF Visible, vecVars
<1>2. VecAsked' = VecAsked
    BY DEF VecAsked, Shown, vecVars
<1>3. Contract!Doubts
    BY DEF Contract!Doubts, vecVars
<1>4. Contract!Wavers
    BY <1>1, <1>2, <1>3 DEF Contract!Wavers
<1> QED BY <1>4, StoredNext DEF Contract!Next

(* Every one of the sixteen adapters of retrieval/vector/dbs implements what *)
(* retrieval/vector/main.py promises, whatever calls overlap, raise or are   *)
(* cut short: a call changes its own collection only, as its arguments say,  *)
(* and a filter returns only what a search without it does.                  *)
THEOREM AdaptersImplement == VecSpec => Contract!Spec /\ ContractKept
<1>1. VecInit => VecIInv /\ Contract!Init
    BY VecStarts, ContractStarts
<1>2. VecIInv /\ [VecNext]_vecVars => VecIInv' /\ ContractStep
    BY VecSteps, VecRests
<1>3. VecIInv /\ VecIInv' /\ ContractStep => [Contract!Next]_(Contract!contractVars)
    BY RestFits DEF VecIInv, ContractStep
<1> QED BY <1>1, <1>2, <1>3, PTL DEF VecSpec, ContractKept, Contract!Spec

=============================================================================
