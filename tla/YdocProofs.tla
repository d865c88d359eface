----------------------------- MODULE YdocProofs -----------------------------
(***************************************************************************)
(* TLAPS proofs about Ydoc, for any number of sessions, edits and handlers *)
(* in flight, any compaction threshold, with Redis and without.            *)
(***************************************************************************)
EXTENDS Ydoc, TLAPS

(* A handler under way has a session; the sender of an update has it.       *)
CallInv ==
    \A c \in Call : /\ pc[c] # "idle" => who[c] \in Session
                    /\ pc[c] \in UpdateStep => upd[c] \subseteq view[who[c]]

(* What a compaction has read contains every edit that is not at risk.      *)
CompactInv == \A c \in Call : pc[c] = "swap" => kept \ exposed \subseteq Content(buf[c])

(* Without Redis one handler at a time is inside the manager: no compaction *)
(* overlaps with a push, and the count of the users still holds when the    *)
(* document is dropped.                                                     *)
MemoryInv ==
    ~Redis =>
        /\ exposed = {}
        /\ synced \subseteq users
        /\ \A c, d \in Call : Inside(c) /\ Inside(d) => c = d
        /\ \A c \in Call :
              /\ pc[c] \in {"remuser", "mine", "dremuser"} => who[c] \notin synced
              /\ pc[c] \in {"addindex", "room", "state"} => who[c] \in users
              /\ pc[c] \in {"clear", "clearusers", "dclear", "dclearusers"} => users = {}

IInv ==
    /\ TypeOK /\ CallInv /\ CompactInv /\ MemoryInv
    /\ NoEditLost /\ JoinMissesNothing /\ SaveNotDropped

-----------------------------------------------------------------------------
(* The content of a list is what some element of it contains. *)
LEMMA ContentDef ==
    ASSUME NEW l \in Seq(SUBSET Edit)
    PROVE  /\ Content(l) \subseteq Edit
           /\ \A e : e \in Content(l) <=> \E k \in 1..Len(l) : e \in l[k]
BY DEF Content

(* RPUSH adds the content of the update. *)
LEMMA ContentAppend ==
    ASSUME NEW l \in Seq(SUBSET Edit), NEW u \in SUBSET Edit
    PROVE  Append(l, u) \in Seq(SUBSET Edit) /\ Content(Append(l, u)) = Content(l) \cup u
<1> DEFINE m == Append(l, u)
<1>1. /\ m \in Seq(SUBSET Edit) /\ Len(l) \in Nat /\ Len(m) = Len(l) + 1
      /\ m[Len(l) + 1] = u /\ \A k \in 1..Len(l) : m[k] = l[k]
    OBVIOUS
<1>2. \A e : e \in Content(m) <=> \E k \in 1..Len(m) : e \in m[k]
    BY <1>1, ContentDef
<1> HIDE DEF m
<1>3. ASSUME NEW e \in Content(m) PROVE e \in Content(l) \cup u
  <2>1. PICK k \in 1..Len(m) : e \in m[k]
      BY <1>2, <1>3
  <2> QED BY <1>1, <2>1, ContentDef
<1>4. ASSUME NEW e \in Content(l) \cup u PROVE e \in Content(m)
  <2>1. CASE e \in u
      BY <1>1, <1>2, <2>1
  <2>2. CASE e \in Content(l)
    <3>1. PICK k \in 1..Len(l) : e \in l[k]
        BY <2>2, ContentDef
    <3> QED BY <1>1, <1>2, <3>1
  <2> QED BY <1>4, <2>1, <2>2
<1>5. Content(m) = Content(l) \cup u
    BY <1>3, <1>4
<1> QED BY <1>1, <1>5 DEF m

(* The rolling compaction changes the list and not its content. *)
LEMMA ContentCompacted ==
    ASSUME NEW l \in Seq(SUBSET Edit)
    PROVE  Compacted(l) \in Seq(SUBSET Edit) /\ Content(Compacted(l)) = Content(l)
<1> DEFINE n == Len(l)
           mid == n \div 2
           old == SubSeq(l, 1, mid)
           new == SubSeq(l, mid + 1, n)
           r == <<Content(old)>> \o new
<1>1. n \in Nat /\ mid \in Nat /\ mid <= n
    OBVIOUS
<1>2. /\ old \in Seq(SUBSET Edit) /\ Len(old) = mid
      /\ \A k \in 1..mid : old[k] = l[k]
    BY <1>1
<1>3. /\ new \in Seq(SUBSET Edit) /\ Len(new) = n - mid
      /\ \A k \in 1..(n - mid) : new[k] = l[mid + k]
  <2> HIDE DEF mid
  <2>1. \A k \in (mid + 1)..n : l[k] \in SUBSET Edit
      BY <1>1
  <2>2. new \in Seq(SUBSET Edit)
      BY <1>1, <2>1
  <2>3. Len(new) = n - mid
      BY <1>1
  <2>4. ASSUME NEW k \in 1..(n - mid) PROVE new[k] = l[mid + k]
      BY <1>1, <2>3
  <2> QED BY <2>2, <2>3, <2>4
<1>4. Content(old) \in SUBSET Edit
    BY <1>2, ContentDef
<1> HIDE DEF mid, old, new
<1>5. /\ r \in Seq(SUBSET Edit) /\ Len(r) = 1 + (n - mid)
      /\ r[1] = Content(old) /\ \A k \in 1..(n - mid) : r[1 + k] = new[k]
    BY <1>1, <1>3, <1>4
<1> HIDE DEF r
<1>6. ASSUME NEW e \in Content(l) PROVE e \in Content(r)
  <2>1. PICK k \in 1..n : e \in l[k]
      BY ContentDef
  <2>2. CASE k <= mid
    <3>1. e \in Content(old)
        BY <1>1, <1>2, <2>1, <2>2, ContentDef
    <3>2. 1 \in 1..Len(r)
        BY <1>1, <1>5
    <3> QED BY <1>5, <3>1, <3>2, ContentDef
  <2>3. CASE k > mid
    <3>1. k - mid \in 1..(n - mid) /\ mid + (k - mid) = k
        BY <1>1, <2>1, <2>3
    <3>2. e \in r[1 + (k - mid)]
        BY <1>3, <1>5, <2>1, <3>1
    <3>3. 1 + (k - mid) \in 1..Len(r)
        BY <1>1, <1>5, <3>1
    <3> QED BY <1>5, <3>2, <3>3, ContentDef
  <2> QED BY <1>1, <2>1, <2>2, <2>3
<1>7. ASSUME NEW e \in Content(r) PROVE e \in Content(l)
  <2>1. PICK k \in 1..Len(r) : e \in r[k]
      BY <1>5, ContentDef
  <2>2. CASE k = 1
    <3>1. PICK j \in 1..mid : e \in old[j]
        BY <1>2, <1>5, <2>1, <2>2, ContentDef
    <3> QED BY <1>1, <1>2, <3>1, ContentDef
  <2>3. CASE k # 1
    <3>1. k - 1 \in 1..(n - mid) /\ 1 + (k - 1) = k
        BY <1>1, <1>5, <2>1, <2>3
    <3>2. e \in l[mid + (k - 1)]
        BY <1>3, <1>5, <2>1, <3>1
    <3>3. mid + (k - 1) \in 1..n
        BY <1>1, <3>1
    <3> QED BY <3>2, <3>3, ContentDef
  <2> QED BY <2>2, <2>3
<1>8. Content(r) = Content(l)
    BY <1>6, <1>7
<1>9. r = Compacted(l)
    BY DEF Compacted, r, old, new, mid
<1> QED BY <1>5, <1>8, <1>9

(* Initial states satisfy the inductive invariant. *)
LEMMA InitIInv == Init => IInv
<1> SUFFICES ASSUME Init PROVE IInv
    OBVIOUS
<1> USE ModeAssumption DEF Init
<1>1. TypeOK
  <2>1. <<>> \in Seq(SUBSET Edit)
      OBVIOUS
  <2>2. pc \in [Call -> Step] /\ buf \in [Call -> Seq(SUBSET Edit)]
      BY <2>1 DEF Step
  <2>3. owed \in BOOLEAN /\ late \in BOOLEAN
      BY Zenon
  <2>4. view \in [Session -> SUBSET Edit] /\ upd \in [Call -> SUBSET Edit]
      OBVIOUS
  <2> QED BY <2>1, <2>2, <2>3, <2>4 DEF TypeOK
<1>2. CallInv /\ CompactInv /\ JoinMissesNothing /\ SaveNotDropped
    BY DEF CallInv, CompactInv, JoinMissesNothing, SaveNotDropped, UpdateStep
<1>3. NoEditLost /\ MemoryInv
    BY DEF NoEditLost, MemoryInv, Inside, DisconnectStep
<1> QED BY <1>1, <1>2, <1>3 DEF IInv

(* Every step preserves the inductive invariant. *)
LEMMA NextIInv == IInv /\ [Next]_vars => IInv'
<1> SUFFICES ASSUME IInv, [Next]_vars PROVE IInv'
    OBVIOUS
<1> USE ModeAssumption
<1> USE DEF vars, docVars, sessionVars, clientVars, callVars, saveVars, historyVars
<1>1. ASSUME NEW c \in Call, NEW s \in Session, JoinStart(c, s) PROVE IInv'
  <2>1. TypeOK'
      BY <1>1 DEF IInv, TypeOK, CallInv, Step, JoinStep, UpdateStep, LeaveStep, DisconnectStep, JoinStart, Start
  <2>2. CallInv'
      BY <1>1 DEF IInv, TypeOK, CallInv, UpdateStep, JoinStart, Start
  <2>3. CompactInv'
      BY <1>1 DEF IInv, TypeOK, CompactInv, NoEditLost, JoinStart, Start
  <2>4. MemoryInv'
      BY <1>1 DEF IInv, TypeOK, CallInv, MemoryInv, Runs, Inside, DisconnectStep, JoinStart, Start
  <2>5. NoEditLost'
      BY <1>1 DEF IInv, TypeOK, CompactInv, NoEditLost, MemoryInv, JoinStart, Start
  <2>6. JoinMissesNothing'
      BY <1>1 DEF IInv, TypeOK, CallInv, JoinMissesNothing, NoEditLost, JoinStart, Start
  <2>7. SaveNotDropped'
      BY <1>1 DEF IInv, TypeOK, SaveNotDropped, JoinStart, Start
  <2> QED BY <2>1, <2>2, <2>3, <2>4, <2>5, <2>6, <2>7 DEF IInv
<1>2. ASSUME NEW c \in Call, NEW s \in Session, NEW u \in SUBSET Edit, NEW w \in BOOLEAN, UpdateStart(c, s, u, w) PROVE IInv'
  <2>1. TypeOK'
      BY <1>2 DEF IInv, TypeOK, CallInv, Step, JoinStep, UpdateStep, LeaveStep, DisconnectStep, UpdateStart, Start
  <2>2. CallInv'
      BY <1>2 DEF IInv, TypeOK, CallInv, UpdateStep, UpdateStart, Start
  <2>3. CompactInv'
      BY <1>2 DEF IInv, TypeOK, CompactInv, NoEditLost, UpdateStart, Start
  <2>4. MemoryInv'
      BY <1>2 DEF IInv, TypeOK, CallInv, MemoryInv, Runs, Inside, DisconnectStep, UpdateStart, Start
  <2>5. NoEditLost'
      BY <1>2 DEF IInv, TypeOK, CompactInv, NoEditLost, MemoryInv, UpdateStart, Start
  <2>6. JoinMissesNothing'
      BY <1>2 DEF IInv, TypeOK, CallInv, JoinMissesNothing, NoEditLost, UpdateStart, Start
  <2>7. SaveNotDropped'
      BY <1>2 DEF IInv, TypeOK, SaveNotDropped, UpdateStart, Start
  <2> QED BY <2>1, <2>2, <2>3, <2>4, <2>5, <2>6, <2>7 DEF IInv
<1>3. ASSUME NEW c \in Call, NEW s \in Session, LeaveStart(c, s) PROVE IInv'
  <2>1. TypeOK'
      BY <1>3 DEF IInv, TypeOK, CallInv, Step, JoinStep, UpdateStep, LeaveStep, DisconnectStep, LeaveStart, Start
  <2>2. CallInv'
      BY <1>3 DEF IInv, TypeOK, CallInv, UpdateStep, LeaveStart, Start
  <2>3. CompactInv'
      BY <1>3 DEF IInv, TypeOK, CompactInv, NoEditLost, LeaveStart, Start
  <2>4. MemoryInv'
      BY <1>3 DEF IInv, TypeOK, CallInv, MemoryInv, Runs, Inside, DisconnectStep, LeaveStart, Start
  <2>5. NoEditLost'
      BY <1>3 DEF IInv, TypeOK, CompactInv, NoEditLost, MemoryInv, LeaveStart, Start
  <2>6. JoinMissesNothing'
      BY <1>3 DEF IInv, TypeOK, CallInv, JoinMissesNothing, NoEditLost, LeaveStart, Start
  <2>7. SaveNotDropped'
      BY <1>3 DEF IInv, TypeOK, SaveNotDropped, LeaveStart, Start
  <2> QED BY <2>1, <2>2, <2>3, <2>4, <2>5, <2>6, <2>7 DEF IInv
<1>4. ASSUME NEW c \in Call, NEW s \in Session, DisconnectStart(c, s) PROVE IInv'
  <2>1. TypeOK'
      BY <1>4 DEF IInv, TypeOK, CallInv, Step, JoinStep, UpdateStep, LeaveStep, DisconnectStep, DisconnectStart, Start
  <2>2. CallInv'
      BY <1>4 DEF IInv, TypeOK, CallInv, UpdateStep, DisconnectStart, Start
  <2>3. CompactInv'
      BY <1>4 DEF IInv, TypeOK, CompactInv, NoEditLost, DisconnectStart, Start
  <2>4. MemoryInv'
      BY <1>4 DEF IInv, TypeOK, CallInv, MemoryInv, Runs, Inside, DisconnectStep, DisconnectStart, Start
  <2>5. NoEditLost'
      BY <1>4 DEF IInv, TypeOK, CompactInv, NoEditLost, MemoryInv, DisconnectStart, Start
  <2>6. JoinMissesNothing'
      BY <1>4 DEF IInv, TypeOK, CallInv, JoinMissesNothing, NoEditLost, DisconnectStart, Start
  <2>7. SaveNotDropped'
      BY <1>4 DEF IInv, TypeOK, SaveNotDropped, DisconnectStart, Start
  <2> QED BY <2>1, <2>2, <2>3, <2>4, <2>5, <2>6, <2>7 DEF IInv
<1>5. ASSUME NEW c \in Call, JoinAuth(c) PROVE IInv'
  <2>1. TypeOK'
      BY <1>5 DEF IInv, TypeOK, CallInv, Step, JoinStep, UpdateStep, LeaveStep, DisconnectStep, JoinAuth, GoTo, Ends
  <2>2. CallInv'
      BY <1>5 DEF IInv, TypeOK, CallInv, UpdateStep, JoinAuth, GoTo, Ends
  <2>3. CompactInv'
      BY <1>5 DEF IInv, TypeOK, CompactInv, NoEditLost, JoinAuth, GoTo, Ends
  <2>4. MemoryInv'
    <3>1. /\ UNCHANGED <<exposed, synced, users>> /\ Runs(c)
          /\ pc'[c] \in {"adduser", "idle"} /\ \A d \in Call \ {c} : pc'[d] = pc[d] /\ who'[d] = who[d]
        BY <1>5 DEF IInv, TypeOK, JoinAuth, GoTo, Ends
    <3>2. ~Redis => \A d \in Call : ~Inside(d)'
        BY <1>5, <3>1 DEF Runs, Inside, DisconnectStep
    <3> QED BY <1>5, <3>1, <3>2 DEF IInv, TypeOK, MemoryInv, Inside, DisconnectStep
  <2>5. NoEditLost'
      BY <1>5 DEF IInv, TypeOK, CompactInv, NoEditLost, MemoryInv, JoinAuth, GoTo, Ends
  <2>6. JoinMissesNothing'
      BY <1>5 DEF IInv, TypeOK, CallInv, JoinMissesNothing, NoEditLost, JoinAuth, GoTo, Ends
  <2>7. SaveNotDropped'
      BY <1>5 DEF IInv, TypeOK, SaveNotDropped, JoinAuth, GoTo, Ends
  <2> QED BY <2>1, <2>2, <2>3, <2>4, <2>5, <2>6, <2>7 DEF IInv
<1>6. ASSUME NEW c \in Call, add_user(c) PROVE IInv'
  <2>1. TypeOK'
      BY <1>6 DEF IInv, TypeOK, CallInv, Step, JoinStep, UpdateStep, LeaveStep, DisconnectStep, add_user, GoTo, Ends
  <2>2. CallInv'
      BY <1>6 DEF IInv, TypeOK, CallInv, UpdateStep, add_user, GoTo, Ends
  <2>3. CompactInv'
      BY <1>6 DEF IInv, TypeOK, CompactInv, NoEditLost, add_user, GoTo, Ends
  <2>4. MemoryInv'
      BY <1>6 DEF IInv, TypeOK, CallInv, MemoryInv, Runs, Inside, DisconnectStep, add_user, GoTo, Ends
  <2>5. NoEditLost'
      BY <1>6 DEF IInv, TypeOK, CompactInv, NoEditLost, MemoryInv, add_user, GoTo, Ends
  <2>6. JoinMissesNothing'
      BY <1>6 DEF IInv, TypeOK, CallInv, JoinMissesNothing, NoEditLost, add_user, GoTo, Ends
  <2>7. SaveNotDropped'
      BY <1>6 DEF IInv, TypeOK, SaveNotDropped, add_user, GoTo, Ends
  <2> QED BY <2>1, <2>2, <2>3, <2>4, <2>5, <2>6, <2>7 DEF IInv
<1>7. ASSUME NEW c \in Call, AddIndex(c) PROVE IInv'
  <2>1. TypeOK'
      BY <1>7 DEF IInv, TypeOK, CallInv, Step, JoinStep, UpdateStep, LeaveStep, DisconnectStep, AddIndex, GoTo, Ends
  <2>2. CallInv'
      BY <1>7 DEF IInv, TypeOK, CallInv, UpdateStep, AddIndex, GoTo, Ends
  <2>3. CompactInv'
      BY <1>7 DEF IInv, TypeOK, CompactInv, NoEditLost, AddIndex, GoTo, Ends
  <2>4. MemoryInv'
      BY <1>7 DEF IInv, TypeOK, CallInv, MemoryInv, Runs, Inside, DisconnectStep, AddIndex, GoTo, Ends
  <2>5. NoEditLost'
      BY <1>7 DEF IInv, TypeOK, CompactInv, NoEditLost, MemoryInv, AddIndex, GoTo, Ends
  <2>6. JoinMissesNothing'
      BY <1>7 DEF IInv, TypeOK, CallInv, JoinMissesNothing, NoEditLost, AddIndex, GoTo, Ends
  <2>7. SaveNotDropped'
      BY <1>7 DEF IInv, TypeOK, SaveNotDropped, AddIndex, GoTo, Ends
  <2> QED BY <2>1, <2>2, <2>3, <2>4, <2>5, <2>6, <2>7 DEF IInv
<1>8. ASSUME NEW c \in Call, EnterRoom(c) PROVE IInv'
  <2>1. TypeOK'
      BY <1>8 DEF IInv, TypeOK, CallInv, Step, JoinStep, UpdateStep, LeaveStep, DisconnectStep, EnterRoom, GoTo, Ends
  <2>2. CallInv'
      BY <1>8 DEF IInv, TypeOK, CallInv, UpdateStep, EnterRoom, GoTo, Ends
  <2>3. CompactInv'
      BY <1>8 DEF IInv, TypeOK, CompactInv, NoEditLost, EnterRoom, GoTo, Ends
  <2>4. MemoryInv'
      BY <1>8 DEF IInv, TypeOK, CallInv, MemoryInv, Runs, Inside, DisconnectStep, EnterRoom, GoTo, Ends
  <2>5. NoEditLost'
      BY <1>8 DEF IInv, TypeOK, CompactInv, NoEditLost, MemoryInv, EnterRoom, GoTo, Ends
  <2>6. JoinMissesNothing'
      BY <1>8 DEF IInv, TypeOK, CallInv, JoinMissesNothing, NoEditLost, EnterRoom, GoTo, Ends
  <2>7. SaveNotDropped'
      BY <1>8 DEF IInv, TypeOK, SaveNotDropped, EnterRoom, GoTo, Ends
  <2> QED BY <2>1, <2>2, <2>3, <2>4, <2>5, <2>6, <2>7 DEF IInv
<1>9. ASSUME NEW c \in Call, SendState(c) PROVE IInv'
  <2>1. TypeOK'
    <3>1. pc' \in [Call -> Step]
        BY <1>9 DEF IInv, TypeOK, Step, JoinStep, UpdateStep, LeaveStep, DisconnectStep, SendState, GoTo, Ends
    <3>2. /\ who' \in [Call -> Session \cup {None}] /\ upd' \in [Call -> SUBSET Edit]
          /\ data' \subseteq Call
        BY <1>9 DEF IInv, TypeOK, SendState, GoTo, Ends
    <3>8. buf' \in [Call -> Seq(SUBSET Edit)]
      <4>1. <<>> \in Seq(SUBSET Edit)
          OBVIOUS
      <4> QED BY <1>9, <4>1 DEF IInv, TypeOK, SendState, GoTo, Ends
    <3>3. /\ updates' \in Seq(SUBSET Edit) /\ users' \subseteq Session /\ index' \subseteq Session
          /\ room' \subseteq Session /\ live' \subseteq Session /\ pool' \subseteq Session
          /\ open' \subseteq Session /\ synced' \subseteq open'
        BY <1>9 DEF IInv, TypeOK, SendState, GoTo, Ends
    <3>4. /\ view' \in [Session -> SUBSET Edit] /\ made' \subseteq Edit
          /\ joins' \in 0..MaxJoins /\ sends' \in 0..MaxSends
        BY <1>9, ContentDef DEF IInv, TypeOK, CallInv, SendState, GoTo, Ends
    <3>5. saves' \in Nat /\ faults' \in 0..MaxFaults
        BY <1>9 DEF IInv, TypeOK, SendState, GoTo, Ends
    <3>7. owed' \in BOOLEAN
        BY <1>9, Zenon DEF IInv, TypeOK, SendState, GoTo, Ends
    <3>6. kept' \subseteq Edit /\ exposed' \subseteq Edit /\ announced' \subseteq kept' /\ late' \in BOOLEAN
        BY <1>9 DEF IInv, TypeOK, SendState, GoTo, Ends
    <3> QED BY <3>1, <3>2, <3>3, <3>4, <3>5, <3>6, <3>7, <3>8 DEF TypeOK
  <2>2. CallInv'
      BY <1>9 DEF IInv, TypeOK, CallInv, UpdateStep, SendState, GoTo, Ends
  <2>3. CompactInv'
      BY <1>9 DEF IInv, TypeOK, CompactInv, NoEditLost, SendState, GoTo, Ends
  <2>4. MemoryInv'
      BY <1>9 DEF IInv, TypeOK, CallInv, MemoryInv, Runs, Inside, DisconnectStep, SendState, GoTo, Ends
  <2>5. NoEditLost'
      BY <1>9 DEF IInv, TypeOK, CompactInv, NoEditLost, MemoryInv, SendState, GoTo, Ends
  <2>6. JoinMissesNothing'
      BY <1>9 DEF IInv, TypeOK, CallInv, JoinMissesNothing, NoEditLost, SendState, GoTo, Ends
  <2>7. SaveNotDropped'
      BY <1>9 DEF IInv, TypeOK, SaveNotDropped, SendState, GoTo, Ends
  <2> QED BY <2>1, <2>2, <2>3, <2>4, <2>5, <2>6, <2>7 DEF IInv
<1>10. ASSUME NEW c \in Call, UpdateAuth(c) PROVE IInv'
  <2>1. TypeOK'
      BY <1>10 DEF IInv, TypeOK, CallInv, Step, JoinStep, UpdateStep, LeaveStep, DisconnectStep, UpdateAuth, GoTo, Ends
  <2>2. CallInv'
      BY <1>10 DEF IInv, TypeOK, CallInv, UpdateStep, UpdateAuth, GoTo, Ends
  <2>3. CompactInv'
      BY <1>10 DEF IInv, TypeOK, CompactInv, NoEditLost, UpdateAuth, GoTo, Ends
  <2>4. MemoryInv'
    <3>1. /\ UNCHANGED <<exposed, synced, users>> /\ Runs(c)
          /\ pc'[c] \in {"push", "idle"} /\ \A d \in Call \ {c} : pc'[d] = pc[d] /\ who'[d] = who[d]
        BY <1>10 DEF IInv, TypeOK, UpdateAuth, GoTo, Ends
    <3>2. ~Redis => \A d \in Call : ~Inside(d)'
        BY <1>10, <3>1 DEF Runs, Inside, DisconnectStep
    <3> QED BY <1>10, <3>1, <3>2 DEF IInv, TypeOK, MemoryInv, Inside, DisconnectStep
  <2>5. NoEditLost'
      BY <1>10 DEF IInv, TypeOK, CompactInv, NoEditLost, MemoryInv, UpdateAuth, GoTo, Ends
  <2>6. JoinMissesNothing'
      BY <1>10 DEF IInv, TypeOK, CallInv, JoinMissesNothing, NoEditLost, UpdateAuth, GoTo, Ends
  <2>7. SaveNotDropped'
      BY <1>10 DEF IInv, TypeOK, SaveNotDropped, UpdateAuth, GoTo, Ends
  <2> QED BY <2>1, <2>2, <2>3, <2>4, <2>5, <2>6, <2>7 DEF IInv
<1>11. ASSUME NEW c \in Call, Push(c) PROVE IInv'
  <2>1. TypeOK'
      BY <1>11, ContentAppend DEF IInv, TypeOK, CallInv, Step, JoinStep, UpdateStep, LeaveStep, DisconnectStep, Push, GoTo, Ends
  <2>2. CallInv'
      BY <1>11 DEF IInv, TypeOK, CallInv, UpdateStep, Push, GoTo, Ends
  <2>3. CompactInv'
      BY <1>11, ContentAppend DEF IInv, TypeOK, CompactInv, NoEditLost, Push, GoTo, Ends, Compacting
  <2>4. MemoryInv'
      BY <1>11 DEF IInv, TypeOK, CallInv, MemoryInv, Runs, Inside, DisconnectStep, Push, GoTo, Ends, Compacting
  <2>5. NoEditLost'
    <3>1. Content(updates') = Content(updates) \cup upd[c]
        BY <1>11, ContentAppend DEF IInv, TypeOK, Push
    <3>2. kept' \ exposed' \subseteq (kept \ exposed) \cup upd[c]
        BY <1>11 DEF Push
    <3>3. ~Redis => exposed = {}
        BY DEF IInv, MemoryInv
    <3> QED BY <1>11, <3>1, <3>2, <3>3 DEF IInv, NoEditLost, Push
  <2>6. JoinMissesNothing'
      BY <1>11 DEF IInv, TypeOK, CallInv, JoinMissesNothing, NoEditLost, Push, GoTo, Ends, Compacting
  <2>7. SaveNotDropped'
      BY <1>11 DEF IInv, TypeOK, SaveNotDropped, Push, GoTo, Ends
  <2> QED BY <2>1, <2>2, <2>3, <2>4, <2>5, <2>6, <2>7 DEF IInv
<1>12. ASSUME NEW c \in Call, Length(c) PROVE IInv'
  <2>1. TypeOK'
      BY <1>12 DEF IInv, TypeOK, CallInv, Step, JoinStep, UpdateStep, LeaveStep, DisconnectStep, Length, GoTo, Ends
  <2>2. CallInv'
      BY <1>12 DEF IInv, TypeOK, CallInv, UpdateStep, Length, GoTo, Ends
  <2>3. CompactInv'
      BY <1>12 DEF IInv, TypeOK, CompactInv, NoEditLost, Length, GoTo, Ends
  <2>4. MemoryInv'
      BY <1>12 DEF IInv, TypeOK, CallInv, MemoryInv, Runs, Inside, DisconnectStep, Length, GoTo, Ends
  <2>5. NoEditLost'
      BY <1>12 DEF IInv, TypeOK, CompactInv, NoEditLost, MemoryInv, Length, GoTo, Ends
  <2>6. JoinMissesNothing'
      BY <1>12 DEF IInv, TypeOK, CallInv, JoinMissesNothing, NoEditLost, Length, GoTo, Ends
  <2>7. SaveNotDropped'
      BY <1>12 DEF IInv, TypeOK, SaveNotDropped, Length, GoTo, Ends
  <2> QED BY <2>1, <2>2, <2>3, <2>4, <2>5, <2>6, <2>7 DEF IInv
<1>13. ASSUME NEW c \in Call, CompactRead(c) PROVE IInv'
  <2>1. TypeOK'
      BY <1>13 DEF IInv, TypeOK, CallInv, Step, JoinStep, UpdateStep, LeaveStep, DisconnectStep, CompactRead, GoTo, Ends
  <2>2. CallInv'
      BY <1>13 DEF IInv, TypeOK, CallInv, UpdateStep, CompactRead, GoTo, Ends
  <2>3. CompactInv'
      BY <1>13 DEF IInv, TypeOK, CompactInv, NoEditLost, CompactRead, GoTo, Ends
  <2>4. MemoryInv'
      BY <1>13 DEF IInv, TypeOK, CallInv, MemoryInv, Runs, Inside, DisconnectStep, CompactRead, GoTo, Ends
  <2>5. NoEditLost'
      BY <1>13 DEF IInv, TypeOK, CompactInv, NoEditLost, MemoryInv, CompactRead, GoTo, Ends
  <2>6. JoinMissesNothing'
      BY <1>13 DEF IInv, TypeOK, CallInv, JoinMissesNothing, NoEditLost, CompactRead, GoTo, Ends
  <2>7. SaveNotDropped'
      BY <1>13 DEF IInv, TypeOK, SaveNotDropped, CompactRead, GoTo, Ends
  <2> QED BY <2>1, <2>2, <2>3, <2>4, <2>5, <2>6, <2>7 DEF IInv
<1>14. ASSUME NEW c \in Call, CompactSwap(c) PROVE IInv'
  <2>1. TypeOK'
      BY <1>14, ContentCompacted DEF IInv, TypeOK, CallInv, Step, JoinStep, UpdateStep, LeaveStep, DisconnectStep, CompactSwap, GoTo, Ends
  <2>2. CallInv'
      BY <1>14 DEF IInv, TypeOK, CallInv, UpdateStep, CompactSwap, GoTo, Ends
  <2>3. CompactInv'
      BY <1>14 DEF IInv, TypeOK, CompactInv, NoEditLost, CompactSwap, GoTo, Ends
  <2>4. MemoryInv'
      BY <1>14 DEF IInv, TypeOK, CallInv, MemoryInv, Runs, Inside, DisconnectStep, CompactSwap, GoTo, Ends
  <2>5. NoEditLost'
      BY <1>14, ContentCompacted DEF IInv, TypeOK, CompactInv, NoEditLost, MemoryInv, CompactSwap, GoTo, Ends
  <2>6. JoinMissesNothing'
      BY <1>14 DEF IInv, TypeOK, CallInv, JoinMissesNothing, NoEditLost, CompactSwap, GoTo, Ends
  <2>7. SaveNotDropped'
      BY <1>14 DEF IInv, TypeOK, SaveNotDropped, CompactSwap, GoTo, Ends
  <2> QED BY <2>1, <2>2, <2>3, <2>4, <2>5, <2>6, <2>7 DEF IInv
<1>15. ASSUME NEW c \in Call, Broadcast(c) PROVE IInv'
  <2>1. TypeOK'
      BY <1>15 DEF IInv, TypeOK, CallInv, Step, JoinStep, UpdateStep, LeaveStep, DisconnectStep, Broadcast, GoTo, Ends
  <2>2. CallInv'
      BY <1>15 DEF IInv, TypeOK, CallInv, UpdateStep, Broadcast, GoTo, Ends
  <2>3. CompactInv'
      BY <1>15 DEF IInv, TypeOK, CompactInv, NoEditLost, Broadcast, GoTo, Ends
  <2>4. MemoryInv'
      BY <1>15 DEF IInv, TypeOK, CallInv, MemoryInv, Runs, Inside, DisconnectStep, Broadcast, GoTo, Ends
  <2>5. NoEditLost'
      BY <1>15 DEF IInv, TypeOK, CompactInv, NoEditLost, MemoryInv, Broadcast, GoTo, Ends
  <2>6. JoinMissesNothing'
    <3>1. /\ UNCHANGED <<synced, room, exposed>>
          /\ announced' = announced \cup (upd[c] \cap kept)
          /\ \A s \in Session : view[s] \subseteq view'[s]
          /\ \A s \in room \ {who[c]} : upd[c] \subseteq view'[s]
        BY <1>15 DEF IInv, TypeOK, Broadcast
    <3>2. upd[c] \subseteq view[who[c]]
        BY <1>15 DEF IInv, CallInv, Broadcast, UpdateStep
    <3>3. \A s \in room : s \in Session /\ upd[c] \subseteq view'[s]
        BY <3>1, <3>2 DEF IInv, TypeOK
    <3> QED BY <3>1, <3>3 DEF IInv, JoinMissesNothing
  <2>7. SaveNotDropped'
      BY <1>15 DEF IInv, TypeOK, SaveNotDropped, Broadcast, GoTo, Ends
  <2> QED BY <2>1, <2>2, <2>3, <2>4, <2>5, <2>6, <2>7 DEF IInv
<1>16. ASSUME NEW c \in Call, StopSaves(c) PROVE IInv'
  <2>1. TypeOK'
      BY <1>16 DEF IInv, TypeOK, CallInv, Step, JoinStep, UpdateStep, LeaveStep, DisconnectStep, StopSaves, GoTo, Ends
  <2>2. CallInv'
      BY <1>16 DEF IInv, TypeOK, CallInv, UpdateStep, StopSaves, GoTo, Ends
  <2>3. CompactInv'
      BY <1>16 DEF IInv, TypeOK, CompactInv, NoEditLost, StopSaves, GoTo, Ends
  <2>4. MemoryInv'
      BY <1>16 DEF IInv, TypeOK, CallInv, MemoryInv, Runs, Inside, DisconnectStep, StopSaves, GoTo, Ends
  <2>5. NoEditLost'
      BY <1>16 DEF IInv, TypeOK, CompactInv, NoEditLost, MemoryInv, StopSaves, GoTo, Ends
  <2>6. JoinMissesNothing'
      BY <1>16 DEF IInv, TypeOK, CallInv, JoinMissesNothing, NoEditLost, StopSaves, GoTo, Ends
  <2>7. SaveNotDropped'
      BY <1>16 DEF IInv, TypeOK, SaveNotDropped, StopSaves, GoTo, Ends
  <2> QED BY <2>1, <2>2, <2>3, <2>4, <2>5, <2>6, <2>7 DEF IInv
<1>17. ASSUME NEW c \in Call, ScheduleSave(c) PROVE IInv'
  <2>1. TypeOK'
    <3>1. pc' \in [Call -> Step]
        BY <1>17 DEF IInv, TypeOK, Step, JoinStep, UpdateStep, LeaveStep, DisconnectStep, ScheduleSave, GoTo, Ends
    <3>2. /\ who' \in [Call -> Session \cup {None}] /\ upd' \in [Call -> SUBSET Edit]
          /\ data' \subseteq Call
        BY <1>17 DEF IInv, TypeOK, ScheduleSave, GoTo, Ends
    <3>8. buf' \in [Call -> Seq(SUBSET Edit)]
      <4>1. <<>> \in Seq(SUBSET Edit)
          OBVIOUS
      <4> QED BY <1>17, <4>1 DEF IInv, TypeOK, ScheduleSave, GoTo, Ends
    <3>3. /\ updates' \in Seq(SUBSET Edit) /\ users' \subseteq Session /\ index' \subseteq Session
          /\ room' \subseteq Session /\ live' \subseteq Session /\ pool' \subseteq Session
          /\ open' \subseteq Session /\ synced' \subseteq open'
        BY <1>17 DEF IInv, TypeOK, ScheduleSave, GoTo, Ends
    <3>4. /\ view' \in [Session -> SUBSET Edit] /\ made' \subseteq Edit
          /\ joins' \in 0..MaxJoins /\ sends' \in 0..MaxSends
        BY <1>17 DEF IInv, TypeOK, CallInv, ScheduleSave, GoTo, Ends
    <3>5. saves' \in Nat /\ faults' \in 0..MaxFaults
        BY <1>17 DEF IInv, TypeOK, ScheduleSave, GoTo, Ends
    <3>7. owed' \in BOOLEAN
        BY <1>17, Zenon DEF IInv, TypeOK, ScheduleSave, GoTo, Ends
    <3>6. kept' \subseteq Edit /\ exposed' \subseteq Edit /\ announced' \subseteq kept' /\ late' \in BOOLEAN
        BY <1>17 DEF IInv, TypeOK, ScheduleSave, GoTo, Ends
    <3> QED BY <3>1, <3>2, <3>3, <3>4, <3>5, <3>6, <3>7, <3>8 DEF TypeOK
  <2>2. CallInv'
      BY <1>17 DEF IInv, TypeOK, CallInv, UpdateStep, ScheduleSave, GoTo, Ends
  <2>3. CompactInv'
      BY <1>17 DEF IInv, TypeOK, CompactInv, NoEditLost, ScheduleSave, GoTo, Ends
  <2>4. MemoryInv'
      BY <1>17 DEF IInv, TypeOK, CallInv, MemoryInv, Runs, Inside, DisconnectStep, ScheduleSave, GoTo, Ends
  <2>5. NoEditLost'
      BY <1>17 DEF IInv, TypeOK, CompactInv, NoEditLost, MemoryInv, ScheduleSave, GoTo, Ends
  <2>6. JoinMissesNothing'
      BY <1>17 DEF IInv, TypeOK, CallInv, JoinMissesNothing, NoEditLost, ScheduleSave, GoTo, Ends
  <2>7. SaveNotDropped'
      BY <1>17 DEF IInv, TypeOK, SaveNotDropped, ScheduleSave, GoTo, Ends
  <2> QED BY <2>1, <2>2, <2>3, <2>4, <2>5, <2>6, <2>7 DEF IInv
<1>18. ASSUME NEW c \in Call, remove_user(c) PROVE IInv'
  <2>1. TypeOK'
      BY <1>18 DEF IInv, TypeOK, CallInv, Step, JoinStep, UpdateStep, LeaveStep, DisconnectStep, remove_user, GoTo, Ends
  <2>2. CallInv'
      BY <1>18 DEF IInv, TypeOK, CallInv, UpdateStep, remove_user, GoTo, Ends
  <2>3. CompactInv'
      BY <1>18 DEF IInv, TypeOK, CompactInv, NoEditLost, remove_user, GoTo, Ends
  <2>4. MemoryInv'
      BY <1>18 DEF IInv, TypeOK, CallInv, MemoryInv, Runs, Inside, DisconnectStep, remove_user, GoTo, Ends
  <2>5. NoEditLost'
      BY <1>18 DEF IInv, TypeOK, CompactInv, NoEditLost, MemoryInv, remove_user, GoTo, Ends
  <2>6. JoinMissesNothing'
      BY <1>18 DEF IInv, TypeOK, CallInv, JoinMissesNothing, NoEditLost, remove_user, GoTo, Ends
  <2>7. SaveNotDropped'
      BY <1>18 DEF IInv, TypeOK, SaveNotDropped, remove_user, GoTo, Ends
  <2> QED BY <2>1, <2>2, <2>3, <2>4, <2>5, <2>6, <2>7 DEF IInv
<1>19. ASSUME NEW c \in Call, RemoveIndex(c) PROVE IInv'
  <2>1. TypeOK'
      BY <1>19 DEF IInv, TypeOK, CallInv, Step, JoinStep, UpdateStep, LeaveStep, DisconnectStep, RemoveIndex, GoTo, Ends
  <2>2. CallInv'
      BY <1>19 DEF IInv, TypeOK, CallInv, UpdateStep, RemoveIndex, GoTo, Ends
  <2>3. CompactInv'
      BY <1>19 DEF IInv, TypeOK, CompactInv, NoEditLost, RemoveIndex, GoTo, Ends
  <2>4. MemoryInv'
      BY <1>19 DEF IInv, TypeOK, CallInv, MemoryInv, Runs, Inside, DisconnectStep, RemoveIndex, GoTo, Ends
  <2>5. NoEditLost'
      BY <1>19 DEF IInv, TypeOK, CompactInv, NoEditLost, MemoryInv, RemoveIndex, GoTo, Ends
  <2>6. JoinMissesNothing'
      BY <1>19 DEF IInv, TypeOK, CallInv, JoinMissesNothing, NoEditLost, RemoveIndex, GoTo, Ends
  <2>7. SaveNotDropped'
      BY <1>19 DEF IInv, TypeOK, SaveNotDropped, RemoveIndex, GoTo, Ends
  <2> QED BY <2>1, <2>2, <2>3, <2>4, <2>5, <2>6, <2>7 DEF IInv
<1>20. ASSUME NEW c \in Call, LeaveRoom(c) PROVE IInv'
  <2>1. TypeOK'
      BY <1>20 DEF IInv, TypeOK, CallInv, Step, JoinStep, UpdateStep, LeaveStep, DisconnectStep, LeaveRoom, GoTo, Ends
  <2>2. CallInv'
      BY <1>20 DEF IInv, TypeOK, CallInv, UpdateStep, LeaveRoom, GoTo, Ends
  <2>3. CompactInv'
      BY <1>20 DEF IInv, TypeOK, CompactInv, NoEditLost, LeaveRoom, GoTo, Ends
  <2>4. MemoryInv'
      BY <1>20 DEF IInv, TypeOK, CallInv, MemoryInv, Runs, Inside, DisconnectStep, LeaveRoom, GoTo, Ends
  <2>5. NoEditLost'
      BY <1>20 DEF IInv, TypeOK, CompactInv, NoEditLost, MemoryInv, LeaveRoom, GoTo, Ends
  <2>6. JoinMissesNothing'
      BY <1>20 DEF IInv, TypeOK, CallInv, JoinMissesNothing, NoEditLost, LeaveRoom, GoTo, Ends
  <2>7. SaveNotDropped'
      BY <1>20 DEF IInv, TypeOK, SaveNotDropped, LeaveRoom, GoTo, Ends
  <2> QED BY <2>1, <2>2, <2>3, <2>4, <2>5, <2>6, <2>7 DEF IInv
<1>21. ASSUME NEW c \in Call, Exists(c) PROVE IInv'
  <2>1. TypeOK'
      BY <1>21 DEF IInv, TypeOK, CallInv, Step, JoinStep, UpdateStep, LeaveStep, DisconnectStep, Exists, GoTo, Ends
  <2>2. CallInv'
      BY <1>21 DEF IInv, TypeOK, CallInv, UpdateStep, Exists, GoTo, Ends
  <2>3. CompactInv'
      BY <1>21 DEF IInv, TypeOK, CompactInv, NoEditLost, Exists, GoTo, Ends
  <2>4. MemoryInv'
      BY <1>21 DEF IInv, TypeOK, CallInv, MemoryInv, Runs, Inside, DisconnectStep, Exists, GoTo, Ends
  <2>5. NoEditLost'
      BY <1>21 DEF IInv, TypeOK, CompactInv, NoEditLost, MemoryInv, Exists, GoTo, Ends
  <2>6. JoinMissesNothing'
      BY <1>21 DEF IInv, TypeOK, CallInv, JoinMissesNothing, NoEditLost, Exists, GoTo, Ends
  <2>7. SaveNotDropped'
      BY <1>21 DEF IInv, TypeOK, SaveNotDropped, Exists, GoTo, Ends
  <2> QED BY <2>1, <2>2, <2>3, <2>4, <2>5, <2>6, <2>7 DEF IInv
<1>22. ASSUME NEW c \in Call, Count(c) PROVE IInv'
  <2>1. TypeOK'
      BY <1>22 DEF IInv, TypeOK, CallInv, Step, JoinStep, UpdateStep, LeaveStep, DisconnectStep, Count, GoTo, Ends
  <2>2. CallInv'
      BY <1>22 DEF IInv, TypeOK, CallInv, UpdateStep, Count, GoTo, Ends
  <2>3. CompactInv'
      BY <1>22 DEF IInv, TypeOK, CompactInv, NoEditLost, Count, GoTo, Ends
  <2>4. MemoryInv'
      BY <1>22 DEF IInv, TypeOK, CallInv, MemoryInv, Runs, Inside, DisconnectStep, Count, GoTo, Ends
  <2>5. NoEditLost'
      BY <1>22 DEF IInv, TypeOK, CompactInv, NoEditLost, MemoryInv, Count, GoTo, Ends
  <2>6. JoinMissesNothing'
      BY <1>22 DEF IInv, TypeOK, CallInv, JoinMissesNothing, NoEditLost, Count, GoTo, Ends
  <2>7. SaveNotDropped'
      BY <1>22 DEF IInv, TypeOK, SaveNotDropped, Count, GoTo, Ends
  <2> QED BY <2>1, <2>2, <2>3, <2>4, <2>5, <2>6, <2>7 DEF IInv
<1>23. ASSUME NEW c \in Call, ClearUpdates(c) PROVE IInv'
  <2>1. TypeOK'
    <3>1. pc' \in [Call -> Step]
        BY <1>23 DEF IInv, TypeOK, Step, JoinStep, UpdateStep, LeaveStep, DisconnectStep, ClearUpdates, GoTo, Ends
    <3>2. /\ who' \in [Call -> Session \cup {None}] /\ upd' \in [Call -> SUBSET Edit]
          /\ data' \subseteq Call
        BY <1>23 DEF IInv, TypeOK, ClearUpdates, GoTo, Ends
    <3>8. buf' \in [Call -> Seq(SUBSET Edit)]
      <4>1. <<>> \in Seq(SUBSET Edit)
          OBVIOUS
      <4> QED BY <1>23, <4>1 DEF IInv, TypeOK, ClearUpdates, GoTo, Ends
    <3>3. /\ updates' \in Seq(SUBSET Edit) /\ users' \subseteq Session /\ index' \subseteq Session
          /\ room' \subseteq Session /\ live' \subseteq Session /\ pool' \subseteq Session
          /\ open' \subseteq Session /\ synced' \subseteq open'
        BY <1>23 DEF IInv, TypeOK, ClearUpdates, GoTo, Ends
    <3>4. /\ view' \in [Session -> SUBSET Edit] /\ made' \subseteq Edit
          /\ joins' \in 0..MaxJoins /\ sends' \in 0..MaxSends
        BY <1>23 DEF IInv, TypeOK, CallInv, ClearUpdates, GoTo, Ends
    <3>5. saves' \in Nat /\ faults' \in 0..MaxFaults
        BY <1>23 DEF IInv, TypeOK, ClearUpdates, GoTo, Ends
    <3>7. owed' \in BOOLEAN
        BY <1>23, Zenon DEF IInv, TypeOK, ClearUpdates, GoTo, Ends
    <3>6. kept' \subseteq Edit /\ exposed' \subseteq Edit /\ announced' \subseteq kept' /\ late' \in BOOLEAN
        BY <1>23 DEF IInv, TypeOK, ClearUpdates, GoTo, Ends
    <3> QED BY <3>1, <3>2, <3>3, <3>4, <3>5, <3>6, <3>7, <3>8 DEF TypeOK
  <2>2. CallInv'
      BY <1>23 DEF IInv, TypeOK, CallInv, UpdateStep, ClearUpdates, GoTo, Ends
  <2>3. CompactInv'
      BY <1>23 DEF IInv, TypeOK, CompactInv, NoEditLost, ClearUpdates, GoTo, Ends
  <2>4. MemoryInv'
      BY <1>23 DEF IInv, TypeOK, CallInv, MemoryInv, Runs, Inside, DisconnectStep, ClearUpdates, GoTo, Ends
  <2>5. NoEditLost'
      BY <1>23 DEF IInv, TypeOK, CompactInv, NoEditLost, MemoryInv, ClearUpdates, GoTo, Ends
  <2>6. JoinMissesNothing'
      BY <1>23 DEF IInv, TypeOK, CallInv, JoinMissesNothing, NoEditLost, ClearUpdates, GoTo, Ends
  <2>7. SaveNotDropped'
      BY <1>23 DEF IInv, TypeOK, SaveNotDropped, ClearUpdates, GoTo, Ends
  <2> QED BY <2>1, <2>2, <2>3, <2>4, <2>5, <2>6, <2>7 DEF IInv
<1>24. ASSUME NEW c \in Call, ClearUsers(c) PROVE IInv'
  <2>1. TypeOK'
      BY <1>24 DEF IInv, TypeOK, CallInv, Step, JoinStep, UpdateStep, LeaveStep, DisconnectStep, ClearUsers, GoTo, Ends
  <2>2. CallInv'
      BY <1>24 DEF IInv, TypeOK, CallInv, UpdateStep, ClearUsers, GoTo, Ends
  <2>3. CompactInv'
      BY <1>24 DEF IInv, TypeOK, CompactInv, NoEditLost, ClearUsers, GoTo, Ends
  <2>4. MemoryInv'
      BY <1>24 DEF IInv, TypeOK, CallInv, MemoryInv, Runs, Inside, DisconnectStep, ClearUsers, GoTo, Ends
  <2>5. NoEditLost'
      BY <1>24 DEF IInv, TypeOK, CompactInv, NoEditLost, MemoryInv, ClearUsers, GoTo, Ends
  <2>6. JoinMissesNothing'
      BY <1>24 DEF IInv, TypeOK, CallInv, JoinMissesNothing, NoEditLost, ClearUsers, GoTo, Ends
  <2>7. SaveNotDropped'
      BY <1>24 DEF IInv, TypeOK, SaveNotDropped, ClearUsers, GoTo, Ends
  <2> QED BY <2>1, <2>2, <2>3, <2>4, <2>5, <2>6, <2>7 DEF IInv
<1>25. ASSUME NEW c \in Call, FindDocuments(c) PROVE IInv'
  <2>1. TypeOK'
      BY <1>25 DEF IInv, TypeOK, CallInv, Step, JoinStep, UpdateStep, LeaveStep, DisconnectStep, FindDocuments, GoTo, Ends
  <2>2. CallInv'
      BY <1>25 DEF IInv, TypeOK, CallInv, UpdateStep, FindDocuments, GoTo, Ends
  <2>3. CompactInv'
      BY <1>25 DEF IInv, TypeOK, CompactInv, NoEditLost, FindDocuments, GoTo, Ends
  <2>4. MemoryInv'
      BY <1>25 DEF IInv, TypeOK, CallInv, MemoryInv, Runs, Inside, DisconnectStep, FindDocuments, GoTo, Ends
  <2>5. NoEditLost'
      BY <1>25 DEF IInv, TypeOK, CompactInv, NoEditLost, MemoryInv, FindDocuments, GoTo, Ends
  <2>6. JoinMissesNothing'
      BY <1>25 DEF IInv, TypeOK, CallInv, JoinMissesNothing, NoEditLost, FindDocuments, GoTo, Ends
  <2>7. SaveNotDropped'
      BY <1>25 DEF IInv, TypeOK, SaveNotDropped, FindDocuments, GoTo, Ends
  <2> QED BY <2>1, <2>2, <2>3, <2>4, <2>5, <2>6, <2>7 DEF IInv
<1>26. ASSUME NEW c \in Call, RemoveFromDocument(c) PROVE IInv'
  <2>1. TypeOK'
      BY <1>26 DEF IInv, TypeOK, CallInv, Step, JoinStep, UpdateStep, LeaveStep, DisconnectStep, RemoveFromDocument, GoTo, Ends
  <2>2. CallInv'
      BY <1>26 DEF IInv, TypeOK, CallInv, UpdateStep, RemoveFromDocument, GoTo, Ends
  <2>3. CompactInv'
      BY <1>26 DEF IInv, TypeOK, CompactInv, NoEditLost, RemoveFromDocument, GoTo, Ends
  <2>4. MemoryInv'
      BY <1>26 DEF IInv, TypeOK, CallInv, MemoryInv, Runs, Inside, DisconnectStep, RemoveFromDocument, GoTo, Ends
  <2>5. NoEditLost'
      BY <1>26 DEF IInv, TypeOK, CompactInv, NoEditLost, MemoryInv, RemoveFromDocument, GoTo, Ends
  <2>6. JoinMissesNothing'
      BY <1>26 DEF IInv, TypeOK, CallInv, JoinMissesNothing, NoEditLost, RemoveFromDocument, GoTo, Ends
  <2>7. SaveNotDropped'
      BY <1>26 DEF IInv, TypeOK, SaveNotDropped, RemoveFromDocument, GoTo, Ends
  <2> QED BY <2>1, <2>2, <2>3, <2>4, <2>5, <2>6, <2>7 DEF IInv
<1>27. ASSUME NEW c \in Call, CountLeft(c) PROVE IInv'
  <2>1. TypeOK'
      BY <1>27 DEF IInv, TypeOK, CallInv, Step, JoinStep, UpdateStep, LeaveStep, DisconnectStep, CountLeft, GoTo, Ends
  <2>2. CallInv'
      BY <1>27 DEF IInv, TypeOK, CallInv, UpdateStep, CountLeft, GoTo, Ends
  <2>3. CompactInv'
      BY <1>27 DEF IInv, TypeOK, CompactInv, NoEditLost, CountLeft, GoTo, Ends
  <2>4. MemoryInv'
      BY <1>27 DEF IInv, TypeOK, CallInv, MemoryInv, Runs, Inside, DisconnectStep, CountLeft, GoTo, Ends
  <2>5. NoEditLost'
      BY <1>27 DEF IInv, TypeOK, CompactInv, NoEditLost, MemoryInv, CountLeft, GoTo, Ends
  <2>6. JoinMissesNothing'
      BY <1>27 DEF IInv, TypeOK, CallInv, JoinMissesNothing, NoEditLost, CountLeft, GoTo, Ends
  <2>7. SaveNotDropped'
      BY <1>27 DEF IInv, TypeOK, SaveNotDropped, CountLeft, GoTo, Ends
  <2> QED BY <2>1, <2>2, <2>3, <2>4, <2>5, <2>6, <2>7 DEF IInv
<1>28. ASSUME NEW c \in Call, DropIndex(c) PROVE IInv'
  <2>1. TypeOK'
      BY <1>28 DEF IInv, TypeOK, CallInv, Step, JoinStep, UpdateStep, LeaveStep, DisconnectStep, DropIndex, GoTo, Ends
  <2>2. CallInv'
      BY <1>28 DEF IInv, TypeOK, CallInv, UpdateStep, DropIndex, GoTo, Ends
  <2>3. CompactInv'
      BY <1>28 DEF IInv, TypeOK, CompactInv, NoEditLost, DropIndex, GoTo, Ends
  <2>4. MemoryInv'
      BY <1>28 DEF IInv, TypeOK, CallInv, MemoryInv, Runs, Inside, DisconnectStep, DropIndex, GoTo, Ends
  <2>5. NoEditLost'
      BY <1>28 DEF IInv, TypeOK, CompactInv, NoEditLost, MemoryInv, DropIndex, GoTo, Ends
  <2>6. JoinMissesNothing'
      BY <1>28 DEF IInv, TypeOK, CallInv, JoinMissesNothing, NoEditLost, DropIndex, GoTo, Ends
  <2>7. SaveNotDropped'
      BY <1>28 DEF IInv, TypeOK, SaveNotDropped, DropIndex, GoTo, Ends
  <2> QED BY <2>1, <2>2, <2>3, <2>4, <2>5, <2>6, <2>7 DEF IInv
<1>29. ASSUME NEW c \in Call, LeaveRooms(c) PROVE IInv'
  <2>1. TypeOK'
      BY <1>29 DEF IInv, TypeOK, CallInv, Step, JoinStep, UpdateStep, LeaveStep, DisconnectStep, LeaveRooms, GoTo, Ends
  <2>2. CallInv'
      BY <1>29 DEF IInv, TypeOK, CallInv, UpdateStep, LeaveRooms, GoTo, Ends
  <2>3. CompactInv'
      BY <1>29 DEF IInv, TypeOK, CompactInv, NoEditLost, LeaveRooms, GoTo, Ends
  <2>4. MemoryInv'
      BY <1>29 DEF IInv, TypeOK, CallInv, MemoryInv, Runs, Inside, DisconnectStep, LeaveRooms, GoTo, Ends
  <2>5. NoEditLost'
      BY <1>29 DEF IInv, TypeOK, CompactInv, NoEditLost, MemoryInv, LeaveRooms, GoTo, Ends
  <2>6. JoinMissesNothing'
      BY <1>29 DEF IInv, TypeOK, CallInv, JoinMissesNothing, NoEditLost, LeaveRooms, GoTo, Ends
  <2>7. SaveNotDropped'
      BY <1>29 DEF IInv, TypeOK, SaveNotDropped, LeaveRooms, GoTo, Ends
  <2> QED BY <2>1, <2>2, <2>3, <2>4, <2>5, <2>6, <2>7 DEF IInv
<1>30. ASSUME NEW c \in Call, HandlerRaises(c) PROVE IInv'
  <2>1. TypeOK'
    <3>1. pc' \in [Call -> Step]
        BY <1>30 DEF IInv, TypeOK, Step, JoinStep, UpdateStep, LeaveStep, DisconnectStep, HandlerRaises, GoTo, Ends, Fault
    <3>2. /\ who' \in [Call -> Session \cup {None}] /\ upd' \in [Call -> SUBSET Edit]
          /\ data' \subseteq Call
        BY <1>30 DEF IInv, TypeOK, HandlerRaises, GoTo, Ends, Fault
    <3>8. buf' \in [Call -> Seq(SUBSET Edit)]
      <4>1. <<>> \in Seq(SUBSET Edit)
          OBVIOUS
      <4> QED BY <1>30, <4>1 DEF IInv, TypeOK, HandlerRaises, GoTo, Ends, Fault
    <3>3. /\ updates' \in Seq(SUBSET Edit) /\ users' \subseteq Session /\ index' \subseteq Session
          /\ room' \subseteq Session /\ live' \subseteq Session /\ pool' \subseteq Session
          /\ open' \subseteq Session /\ synced' \subseteq open'
        BY <1>30 DEF IInv, TypeOK, HandlerRaises, GoTo, Ends, Fault
    <3>4. /\ view' \in [Session -> SUBSET Edit] /\ made' \subseteq Edit
          /\ joins' \in 0..MaxJoins /\ sends' \in 0..MaxSends
        BY <1>30 DEF IInv, TypeOK, CallInv, HandlerRaises, GoTo, Ends, Fault
    <3>5. saves' \in Nat /\ faults' \in 0..MaxFaults
        BY <1>30 DEF IInv, TypeOK, HandlerRaises, GoTo, Ends, Fault
    <3>7. owed' \in BOOLEAN
        BY <1>30, Zenon DEF IInv, TypeOK, HandlerRaises, GoTo, Ends, Fault
    <3>6. kept' \subseteq Edit /\ exposed' \subseteq Edit /\ announced' \subseteq kept' /\ late' \in BOOLEAN
        BY <1>30 DEF IInv, TypeOK, HandlerRaises, GoTo, Ends, Fault
    <3> QED BY <3>1, <3>2, <3>3, <3>4, <3>5, <3>6, <3>7, <3>8 DEF TypeOK
  <2>2. CallInv'
      BY <1>30 DEF IInv, TypeOK, CallInv, UpdateStep, HandlerRaises, GoTo, Ends, Fault
  <2>3. CompactInv'
      BY <1>30 DEF IInv, TypeOK, CompactInv, NoEditLost, HandlerRaises, GoTo, Ends, Fault
  <2>4. MemoryInv'
      BY <1>30 DEF IInv, TypeOK, CallInv, MemoryInv, Runs, Inside, DisconnectStep, HandlerRaises, GoTo, Ends, Fault
  <2>5. NoEditLost'
      BY <1>30 DEF IInv, TypeOK, CompactInv, NoEditLost, MemoryInv, HandlerRaises, GoTo, Ends, Fault
  <2>6. JoinMissesNothing'
      BY <1>30 DEF IInv, TypeOK, CallInv, JoinMissesNothing, NoEditLost, HandlerRaises, GoTo, Ends, Fault
  <2>7. SaveNotDropped'
      BY <1>30 DEF IInv, TypeOK, SaveNotDropped, HandlerRaises, GoTo, Ends, Fault
  <2> QED BY <2>1, <2>2, <2>3, <2>4, <2>5, <2>6, <2>7 DEF IInv
<1>31. ASSUME document_save_handler PROVE IInv'
  <2>1. TypeOK'
      BY <1>31 DEF IInv, TypeOK, CallInv, Step, JoinStep, UpdateStep, LeaveStep, DisconnectStep, document_save_handler
  <2>2. CallInv'
      BY <1>31 DEF IInv, TypeOK, CallInv, UpdateStep, document_save_handler
  <2>3. CompactInv'
      BY <1>31 DEF IInv, TypeOK, CompactInv, NoEditLost, document_save_handler
  <2>4. MemoryInv'
      BY <1>31 DEF IInv, TypeOK, CallInv, MemoryInv, Runs, Inside, DisconnectStep, document_save_handler
  <2>5. NoEditLost'
      BY <1>31 DEF IInv, TypeOK, CompactInv, NoEditLost, MemoryInv, document_save_handler
  <2>6. JoinMissesNothing'
      BY <1>31 DEF IInv, TypeOK, CallInv, JoinMissesNothing, NoEditLost, document_save_handler
  <2>7. SaveNotDropped'
      BY <1>31 DEF IInv, TypeOK, SaveNotDropped, document_save_handler
  <2> QED BY <2>1, <2>2, <2>3, <2>4, <2>5, <2>6, <2>7 DEF IInv
<1>32. ASSUME NEW s \in Session, ReapSession(s) PROVE IInv'
  <2>1. TypeOK'
      BY <1>32 DEF IInv, TypeOK, CallInv, Step, JoinStep, UpdateStep, LeaveStep, DisconnectStep, ReapSession, Fault
  <2>2. CallInv'
      BY <1>32 DEF IInv, TypeOK, CallInv, UpdateStep, ReapSession, Fault
  <2>3. CompactInv'
      BY <1>32 DEF IInv, TypeOK, CompactInv, NoEditLost, ReapSession, Fault
  <2>4. MemoryInv'
      BY <1>32 DEF IInv, TypeOK, CallInv, MemoryInv, Runs, Inside, DisconnectStep, ReapSession, Fault
  <2>5. NoEditLost'
      BY <1>32 DEF IInv, TypeOK, CompactInv, NoEditLost, MemoryInv, ReapSession, Fault
  <2>6. JoinMissesNothing'
      BY <1>32 DEF IInv, TypeOK, CallInv, JoinMissesNothing, NoEditLost, ReapSession, Fault
  <2>7. SaveNotDropped'
      BY <1>32 DEF IInv, TypeOK, SaveNotDropped, ReapSession, Fault
  <2> QED BY <2>1, <2>2, <2>3, <2>4, <2>5, <2>6, <2>7 DEF IInv
<1>33. ASSUME NEW s \in Session, heartbeat(s) PROVE IInv'
  <2>1. TypeOK'
      BY <1>33 DEF IInv, TypeOK, CallInv, Step, JoinStep, UpdateStep, LeaveStep, DisconnectStep, heartbeat
  <2>2. CallInv'
      BY <1>33 DEF IInv, TypeOK, CallInv, UpdateStep, heartbeat
  <2>3. CompactInv'
      BY <1>33 DEF IInv, TypeOK, CompactInv, NoEditLost, heartbeat
  <2>4. MemoryInv'
      BY <1>33 DEF IInv, TypeOK, CallInv, MemoryInv, Runs, Inside, DisconnectStep, heartbeat
  <2>5. NoEditLost'
      BY <1>33 DEF IInv, TypeOK, CompactInv, NoEditLost, MemoryInv, heartbeat
  <2>6. JoinMissesNothing'
      BY <1>33 DEF IInv, TypeOK, CallInv, JoinMissesNothing, NoEditLost, heartbeat
  <2>7. SaveNotDropped'
      BY <1>33 DEF IInv, TypeOK, SaveNotDropped, heartbeat
  <2> QED BY <2>1, <2>2, <2>3, <2>4, <2>5, <2>6, <2>7 DEF IInv
<1>34. ASSUME NEW s \in Session, Crash(s) PROVE IInv'
  <2>1. TypeOK'
      BY <1>34 DEF IInv, TypeOK, CallInv, Step, JoinStep, UpdateStep, LeaveStep, DisconnectStep, Crash, Fault
  <2>2. CallInv'
      BY <1>34 DEF IInv, TypeOK, CallInv, UpdateStep, Crash, Fault
  <2>3. CompactInv'
      BY <1>34 DEF IInv, TypeOK, CompactInv, NoEditLost, Crash, Fault
  <2>4. MemoryInv'
      BY <1>34 DEF IInv, TypeOK, CallInv, MemoryInv, Runs, Inside, DisconnectStep, Crash, Fault
  <2>5. NoEditLost'
      BY <1>34 DEF IInv, TypeOK, CompactInv, NoEditLost, MemoryInv, Crash, Fault
  <2>6. JoinMissesNothing'
      BY <1>34 DEF IInv, TypeOK, CallInv, JoinMissesNothing, NoEditLost, Crash, Fault
  <2>7. SaveNotDropped'
      BY <1>34 DEF IInv, TypeOK, SaveNotDropped, Crash, Fault
  <2> QED BY <2>1, <2>2, <2>3, <2>4, <2>5, <2>6, <2>7 DEF IInv
<1>35. CASE UNCHANGED vars
    BY <1>35 DEF IInv, vars, TypeOK, CallInv, CompactInv, MemoryInv, NoEditLost, JoinMissesNothing, SaveNotDropped, Step, JoinStep, UpdateStep, LeaveStep, DisconnectStep, Inside
<1>36. ASSUME NEW c \in Call, NEW s \in Session, Edits(c, s) PROVE IInv'
  <2>1. ASSUME NEW e \in Edit, UpdateStart(c, s, {e}, TRUE) PROVE IInv'
    <3>1. {e} \in SUBSET Edit /\ TRUE \in BOOLEAN
        OBVIOUS
    <3> QED BY <1>2, <2>1, <3>1
  <2>2. ASSUME NEW w \in BOOLEAN, UpdateStart(c, s, view[s], w) PROVE IInv'
    <3>1. view[s] \in SUBSET Edit
        BY DEF IInv, TypeOK
    <3> QED BY <1>2, <2>2, <3>1
  <2> QED BY <1>36, <2>1, <2>2 DEF Edits
<1> QED BY <1>1, <1>2, <1>3, <1>4, <1>5, <1>6, <1>7, <1>8, <1>9, <1>10, <1>11, <1>12, <1>13, <1>14, <1>15, <1>16, <1>17, <1>18, <1>19, <1>20, <1>21, <1>22, <1>23, <1>24, <1>25, <1>26, <1>27, <1>28, <1>29, <1>30, <1>31, <1>32, <1>33, <1>34, <1>35, <1>36 DEF Next, ydoc_document_join, yjs_document_update, yjs_document_leave, clear_document, remove_user_from_all_documents

(* The inductive invariant holds in every reachable state. *)
THEOREM Invariance == Spec => []IInv
<1>1. Init => IInv
    BY InitIInv
<1>2. IInv /\ [Next]_vars => IInv'
    BY NextIInv
<1> QED BY <1>1, <1>2, PTL DEF Spec

(* The state of the document is well typed. *)
THEOREM TypeCorrect == Spec => []TypeOK
<1>1. IInv => TypeOK
    BY DEF IInv
<1> QED BY <1>1, Invariance, PTL

(* append_to_updates and its compaction lose no edit stored outside a      *)
(* compaction, and none at all without Redis.                               *)
THEOREM EditsSurvive == Spec => []NoEditLost
<1>1. IInv => NoEditLost
    BY DEF IInv
<1> QED BY <1>1, Invariance, PTL

(* A session that completed ydoc_document_join has every stored edit that    *)
(* was broadcast.                                                            *)
THEOREM JoinersInformed == Spec => []JoinMissesNothing
<1>1. IInv => JoinMissesNothing
    BY DEF IInv
<1> QED BY <1>1, Invariance, PTL

(* yjs_document_update cancels a pending save only to schedule another.      *)
THEOREM SaveReplaced == Spec => []SaveNotDropped
<1>1. IInv => SaveNotDropped
    BY DEF IInv
<1> QED BY <1>1, Invariance, PTL

(* Only clear_document forgets what is stored. *)
LEMMA OnlyClearDrops == [Next]_vars => kept \subseteq kept' \/ \E c \in Call : ClearUpdates(c)
<1> SUFFICES ASSUME [Next]_vars, ~ \E c \in Call : ClearUpdates(c) PROVE kept \subseteq kept'
    OBVIOUS
<1> USE DEF historyVars
<1>1. CASE UNCHANGED vars
    BY <1>1 DEF vars
<1>2. ASSUME NEW c \in Call, NEW s \in Session, JoinStart(c, s) \/ LeaveStart(c, s) \/ DisconnectStart(c, s)
      PROVE kept \subseteq kept'
    BY <1>2 DEF JoinStart, LeaveStart, DisconnectStart
<1>3. ASSUME NEW c \in Call, NEW s \in Session, Edits(c, s) PROVE kept \subseteq kept'
    BY <1>3 DEF Edits, UpdateStart
<1>4. ASSUME NEW c \in Call, ydoc_document_join(c) PROVE kept \subseteq kept'
    BY <1>4 DEF ydoc_document_join, JoinAuth, add_user, AddIndex, EnterRoom, SendState
<1>5. ASSUME NEW c \in Call, yjs_document_update(c) PROVE kept \subseteq kept'
    BY <1>5 DEF yjs_document_update, UpdateAuth, Push, Length, CompactRead, CompactSwap, Broadcast, StopSaves, ScheduleSave
<1>6. ASSUME NEW c \in Call, yjs_document_leave(c) \/ clear_document(c) PROVE kept \subseteq kept'
    BY <1>6 DEF yjs_document_leave, clear_document, remove_user, RemoveIndex, LeaveRoom, Exists, Count, ClearUsers
<1>7. ASSUME NEW c \in Call, remove_user_from_all_documents(c) \/ LeaveRooms(c) \/ HandlerRaises(c)
      PROVE kept \subseteq kept'
    BY <1>7 DEF remove_user_from_all_documents, FindDocuments, RemoveFromDocument, CountLeft, DropIndex, LeaveRooms, HandlerRaises
<1>8. CASE document_save_handler \/ \E s \in Session : ReapSession(s) \/ heartbeat(s) \/ Crash(s)
    BY <1>8 DEF document_save_handler, ReapSession, heartbeat, Crash
<1> QED BY <1>1, <1>2, <1>3, <1>4, <1>5, <1>6, <1>7, <1>8 DEF Next

(* Without Redis, clear_document never drops a document that a session has  *)
(* joined and not left.                                                      *)
THEOREM DocumentStaysOpen == ASSUME ~Redis PROVE Spec => ParticipantKeepsDocument
<1>1. IInv /\ [Next]_vars => [kept' = {} /\ kept # {} => synced = {}]_vars
  <2> SUFFICES ASSUME IInv, [Next]_vars, kept' = {}, kept # {} PROVE synced = {}
      OBVIOUS
  <2>1. PICK c \in Call : ClearUpdates(c)
      BY OnlyClearDrops
  <2>2. users = {} /\ synced \subseteq users
      BY <2>1 DEF IInv, MemoryInv, ClearUpdates
  <2> QED BY <2>2
<1> QED BY <1>1, Invariance, PTL DEF Spec, ParticipantKeepsDocument

(* Documents are sound, for every instance of the system. *)
THEOREM DocumentIsSound == Spec => []DocumentSound
BY TypeCorrect, EditsSurvive, JoinersInformed, PTL DEF DocumentSound

-----------------------------------------------------------------------------
(* The document that nobody has open                                       *)

(* Handlers that, when they are done, have counted the users after they took *)
(* theirs out, or are about to.                                              *)
Finding == {"remindex", "unroom", "exists", "count", "clear", "dcount", "dclear"}

(* Without Redis nothing is stored between the two halves of clear_document, *)
(* and a document without users that something is stored for is found by the *)
(* handler of the last user that left it.                                    *)
ReclaimInv ==
    /\ \A c \in Call : pc[c] \in {"clearusers", "dclearusers"} => updates = <<>>
    /\ faults = 0 /\ ~late /\ users = {} /\ updates # <<>> => \E c \in Call : pc[c] \in Finding

(* A step that changes neither the list nor the users, and ends no handler   *)
(* that is still to count them, keeps this.                                  *)
LEMMA FindingStays ==
    ASSUME ReclaimInv, UNCHANGED <<updates, users, late>>, faults' = faults,
           \A c \in Call : pc[c] \in Finding => pc'[c] \in Finding,
           \A c \in Call : pc'[c] \in {"clearusers", "dclearusers"} => pc[c] \in {"clearusers", "dclearusers"}
    PROVE  ReclaimInv'
BY DEF ReclaimInv

LEMMA ReclaimKept == ASSUME ~Redis PROVE IInv /\ ReclaimInv /\ [Next]_vars => ReclaimInv'
<1> SUFFICES ASSUME IInv, ReclaimInv, [Next]_vars PROVE ReclaimInv'
    OBVIOUS
<1>t. /\ pc \in [Call -> Step] /\ faults \in Nat
      /\ \A c, d \in Call : Inside(c) /\ Inside(d) => c = d
      /\ \A c \in Call : pc[c] \in {"clear", "clearusers", "dclear", "dclearusers"} => users = {}
    BY ModeAssumption DEF IInv, TypeOK, MemoryInv
<1> USE DEF docVars, sessionVars, clientVars, callVars, saveVars, historyVars
<1>1. ASSUME NEW c \in Call, NEW s \in Session, JoinStart(c, s) \/ LeaveStart(c, s) \/ DisconnectStart(c, s)
      PROVE  ReclaimInv'
  <2>1. pc[c] = "idle" /\ pc'[c] \notin {"clearusers", "dclearusers"} /\ \A d \in Call \ {c} : pc'[d] = pc[d]
      BY <1>1, <1>t DEF JoinStart, LeaveStart, DisconnectStart, Start
  <2>2. UNCHANGED <<updates, users, late>> /\ faults' = faults
      BY <1>1 DEF JoinStart, LeaveStart, DisconnectStart
  <2> QED BY <2>1, <2>2, FindingStays DEF Finding
<1>2. ASSUME NEW c \in Call, NEW s \in Session, Edits(c, s) PROVE ReclaimInv'
  <2>1. pc[c] = "idle" /\ pc'[c] \notin {"clearusers", "dclearusers"} /\ \A d \in Call \ {c} : pc'[d] = pc[d]
      BY <1>2, <1>t DEF Edits, UpdateStart, Start
  <2>2. UNCHANGED <<updates, users, late>> /\ faults' = faults
      BY <1>2 DEF Edits, UpdateStart
  <2> QED BY <2>1, <2>2, FindingStays DEF Finding
<1>3. ASSUME NEW c \in Call, add_user(c) PROVE ReclaimInv'
  <2>1. pc[c] = "adduser" /\ pc'[c] = "addindex" /\ \A d \in Call \ {c} : pc'[d] = pc[d] /\ ~Inside(d)
      BY <1>3, <1>t DEF add_user, GoTo, Runs
  <2>2. UNCHANGED updates /\ users' # {}
      BY <1>3 DEF add_user
  <2> QED BY <2>1, <2>2 DEF ReclaimInv
<1>4. ASSUME NEW c \in Call, JoinAuth(c) \/ AddIndex(c) \/ EnterRoom(c) \/ SendState(c) PROVE ReclaimInv'
  <2>1. pc[c] \in JoinStep /\ pc'[c] \in JoinStep \cup {"idle"} /\ \A d \in Call \ {c} : pc'[d] = pc[d]
      BY <1>4, <1>t DEF JoinAuth, AddIndex, EnterRoom, SendState, GoTo, JoinStep
  <2>2. UNCHANGED <<updates, users, late>> /\ faults' = faults
      BY <1>4 DEF JoinAuth, AddIndex, EnterRoom, SendState
  <2> QED BY <2>1, <2>2, FindingStays DEF Finding, JoinStep
<1>5. ASSUME NEW c \in Call, Push(c) \/ CompactSwap(c) PROVE ReclaimInv'
  <2>1. pc[c] \in {"push", "swap"} /\ pc'[c] \in {"len", "emit"} /\ \A d \in Call \ {c} : pc'[d] = pc[d] /\ ~Inside(d)
      BY <1>5, <1>t DEF Push, CompactSwap, GoTo, Runs
  <2>2. UNCHANGED users /\ (users = {} => late')
      BY <1>5 DEF Push, CompactSwap
  <2> QED BY <2>1, <2>2 DEF ReclaimInv, Inside, DisconnectStep
<1>6. ASSUME NEW c \in Call, UpdateAuth(c) \/ Length(c) \/ CompactRead(c) \/ Broadcast(c) \/ StopSaves(c) \/ ScheduleSave(c)
      PROVE  ReclaimInv'
  <2>1. pc[c] \in UpdateStep /\ pc'[c] \in UpdateStep \cup {"idle"} /\ \A d \in Call \ {c} : pc'[d] = pc[d]
      BY <1>6, <1>t DEF UpdateAuth, Length, CompactRead, Broadcast, StopSaves, ScheduleSave, GoTo, UpdateStep
  <2>2. UNCHANGED <<updates, users, late>> /\ faults' = faults
      BY <1>6 DEF UpdateAuth, Length, CompactRead, Broadcast, StopSaves, ScheduleSave
  <2> QED BY <2>1, <2>2, FindingStays DEF Finding, UpdateStep
<1>7. ASSUME NEW c \in Call, remove_user(c) \/ RemoveFromDocument(c) PROVE ReclaimInv'
  <2>1. Inside(c) /\ pc'[c] \in {"remindex", "dcount"} /\ \A d \in Call \ {c} : pc'[d] = pc[d] /\ ~Inside(d)
      BY <1>7, <1>t DEF remove_user, RemoveFromDocument, GoTo, Runs, Inside, DisconnectStep
  <2> QED BY <2>1 DEF ReclaimInv, Finding, Inside, DisconnectStep
<1>8. ASSUME NEW c \in Call, RemoveIndex(c) \/ LeaveRoom(c) PROVE ReclaimInv'
  <2>1. pc'[c] \in {"unroom", "exists"} /\ \A d \in Call \ {c} : pc'[d] = pc[d]
      BY <1>8, <1>t DEF RemoveIndex, LeaveRoom, GoTo
  <2>2. UNCHANGED <<updates, users, late>> /\ faults' = faults
      BY <1>8 DEF RemoveIndex, LeaveRoom
  <2> QED BY <2>1, <2>2, FindingStays DEF Finding
<1>9. ASSUME NEW c \in Call, Exists(c) \/ Count(c) \/ CountLeft(c) PROVE ReclaimInv'
  <2>1. /\ pc'[c] \notin {"clearusers", "dclearusers"} /\ \A d \in Call \ {c} : pc'[d] = pc[d]
        /\ updates # <<>> /\ users = {} => pc'[c] \in {"count", "clear", "dclear"}
      BY <1>9, <1>t DEF Exists, Count, CountLeft, GoTo
  <2>2. UNCHANGED <<updates, users, late>> /\ faults' = faults
      BY <1>9 DEF Exists, Count, CountLeft
  <2> QED BY <2>1, <2>2 DEF ReclaimInv, Finding
<1>10. ASSUME NEW c \in Call, ClearUpdates(c) PROVE ReclaimInv'
    BY <1>10 DEF ClearUpdates, ReclaimInv
<1>11. ASSUME NEW c \in Call, ClearUsers(c) PROVE ReclaimInv'
  <2>1. updates = <<>> /\ updates' = <<>>
      BY <1>11 DEF ClearUsers, ReclaimInv
  <2> QED BY <2>1 DEF ReclaimInv
<1>12. ASSUME NEW c \in Call, FindDocuments(c) \/ DropIndex(c) \/ LeaveRooms(c) PROVE ReclaimInv'
  <2>1. pc[c] \in {"mine", "dropindex", "gone"} /\ pc'[c] \in {"dremuser", "dropindex", "gone", "idle"}
        /\ \A d \in Call \ {c} : pc'[d] = pc[d]
      BY <1>12, <1>t DEF FindDocuments, DropIndex, LeaveRooms, GoTo
  <2>2. UNCHANGED <<updates, users, late>> /\ faults' = faults
      BY <1>12 DEF FindDocuments, DropIndex, LeaveRooms
  <2> QED BY <2>1, <2>2, FindingStays DEF Finding
<1>13. ASSUME NEW c \in Call, HandlerRaises(c) PROVE ReclaimInv'
  <2>1. pc'[c] \in {"gone", "idle"} /\ \A d \in Call \ {c} : pc'[d] = pc[d]
      BY <1>13, <1>t DEF HandlerRaises, GoTo
  <2>2. UNCHANGED updates /\ faults' # 0
      BY <1>13, <1>t DEF HandlerRaises, Fault
  <2> QED BY <2>1, <2>2 DEF ReclaimInv
<1>14. ASSUME NEW s \in Session, ReapSession(s) \/ Crash(s) PROVE ReclaimInv'
  <2>1. UNCHANGED <<updates, pc>> /\ faults' # 0
      BY <1>14, <1>t DEF ReapSession, Crash, Fault
  <2> QED BY <2>1 DEF ReclaimInv
<1>15. ASSUME UNCHANGED vars \/ document_save_handler \/ \E s \in Session : heartbeat(s) PROVE ReclaimInv'
  <2>1. UNCHANGED <<updates, users, late, pc>> /\ faults' = faults
      BY <1>15 DEF vars, document_save_handler, heartbeat
  <2> QED BY <2>1, FindingStays
<1> QED BY <1>1, <1>2, <1>3, <1>4, <1>5, <1>6, <1>7, <1>8, <1>9, <1>10, <1>11, <1>12, <1>13, <1>14, <1>15
     DEF Next, ydoc_document_join, yjs_document_update, yjs_document_leave, clear_document, remove_user_from_all_documents

(* ydoc_document_leave, disconnect: without Redis, a document that nobody    *)
(* has open any more is dropped, if no handler raised and nothing was stored *)
(* after its last user had left.                                             *)
THEOREM DocumentIsReclaimed == ASSUME ~Redis PROVE Spec => []DocumentReclaimed
<1>1. Init => ReclaimInv
    BY DEF Init, ReclaimInv
<1>2. IInv /\ ReclaimInv /\ [Next]_vars => ReclaimInv'
    BY ReclaimKept
<1>3. ReclaimInv => DocumentReclaimed
    BY DEF ReclaimInv, DocumentReclaimed, Quiet, Finding
<1> QED BY <1>1, <1>2, <1>3, Invariance, PTL DEF Spec
=============================================================================
