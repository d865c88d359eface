--------------------------- MODULE UsagePoolProofs ---------------------------
(***************************************************************************)
(* TLAPS proofs about UsagePool, for any number of processes, sessions,    *)
(* reports and faults, wherever the sessions connect.                      *)
(***************************************************************************)
EXTENDS UsagePool, TLAPS

(* A handler between two Redis calls serves a session of its process and    *)
(* excludes the sweep there; a disconnect handler's session is closing.     *)
StretchInv ==
    \A i \in Instance :
        at[i] # "none" =>
            /\ who[i] \in Session /\ Home[who[i]] = i
            /\ loop[i] \notin Running
            /\ at[i] \in {"items", "write"} => conn[who[i]] = "closing"

(* As long as no two processes worked on the entry at a time, the one that  *)
(* is about to write has read every report that is up to date.              *)
CopyInv ==
    ~overlap =>
        /\ \A i, j \in Instance : Writing(i) /\ Writing(j) => i = j
        /\ \A i \in Instance : Writing(i) => \A s \in Session : use[s] = "fresh" => snap[i][s] = "fresh"
        /\ \A i \in Instance : at[i] = "write" => use[who[i]] # "none"

IInv == TypeOK /\ StretchInv /\ CopyInv /\ UsageKept /\ DisconnectCompletes

-----------------------------------------------------------------------------
(* Initial states satisfy the inductive invariant. *)
LEMMA InitIInv == Init => IInv
<1> SUFFICES ASSUME Init PROVE IInv
    OBVIOUS
<1> USE BoundAssumption DEF Init
<1>0. Absent \in Entry
    BY DEF Absent, Entry
<1>a. /\ snap \in [Instance -> Entry] /\ use \in Entry
      /\ loop \in [Instance -> LoopStep] /\ at \in [Instance -> HandlerStep]
      /\ who \in [Instance -> Session \cup {None}]
    BY <1>0 DEF LoopStep, HandlerStep
<1>b. overlap \in BOOLEAN
    OBVIOUS
<1>1. TypeOK
    BY <1>a, <1>b DEF TypeOK, Lock!LockType
<1>2. StretchInv /\ CopyInv /\ UsageKept /\ DisconnectCompletes
    BY DEF StretchInv, CopyInv, UsageKept, ReportsListed, DisconnectCompletes, DocumentsLeft, Writing
<1> QED BY <1>1, <1>2 DEF IInv

(* Every step preserves the inductive invariant. *)
LEMMA NextIInv == IInv /\ [Next]_vars => IInv'
<1> SUFFICES ASSUME IInv, [Next]_vars PROVE IInv'
    OBVIOUS
<1> USE BoundAssumption, HomeAssumption, IdAssumption
<1> USE DEF vars, loopVars, poolVars, handlerVars, countVars, Lock!aquire_lock, Lock!renew_lock, Lock!release_lock, Lock!Expire, Lock!Forget, Lock!LockType
<1>1. ASSUME NEW s \in Session, usage(s) PROVE IInv'
  <2>0. overlap' \in BOOLEAN
      BY <1>1 DEF usage, Read, IInv, TypeOK
  <2>a. ~overlap' => ~overlap
      BY <1>1 DEF usage, Read
  <2>b. ~overlap' => \A j \in Instance \ {Home[s]} : ~Writing(j)
      BY <1>1 DEF usage, Read
  <2>c. snap' = [snap EXCEPT ![Home[s]] = use]
      BY <1>1 DEF usage, Read
  <2>1. TypeOK'
      BY <1>1, <2>0, <2>c DEF IInv, TypeOK, StretchInv, LoopStep, Running, HandlerStep, Entry, usage, Handler
  <2>2. StretchInv'
      BY <1>1 DEF IInv, TypeOK, StretchInv, Idle, Running, usage, Handler
  <2>3. CopyInv'
      BY <1>1, <2>a, <2>b, <2>c DEF IInv, TypeOK, CopyInv, StretchInv, Writing, Idle, Running, Entry, usage, Handler
  <2>4. UsageKept'
      BY <1>1, <2>a DEF IInv, TypeOK, UsageKept, ReportsListed, usage, Handler
  <2>5. DisconnectCompletes'
      BY <1>1, <2>a DEF IInv, TypeOK, DisconnectCompletes, DocumentsLeft, usage, Handler
  <2> QED BY <2>1, <2>2, <2>3, <2>4, <2>5 DEF IInv
<1>2. ASSUME NEW s \in Session, Age(s) PROVE IInv'
  <2>1. TypeOK'
      BY <1>2 DEF IInv, TypeOK, StretchInv, LoopStep, Running, HandlerStep, Entry, Absent, Age, Older
  <2>2. StretchInv'
      BY <1>2 DEF IInv, TypeOK, StretchInv, Idle, Running, Age, Older
  <2>3. CopyInv'
      BY <1>2 DEF IInv, TypeOK, CopyInv, StretchInv, Writing, Idle, Running, Entry, Absent, Age, Older
  <2>4. UsageKept'
      BY <1>2 DEF IInv, TypeOK, UsageKept, CopyInv, StretchInv, ReportsListed, Writing, Entry, Absent, Age, Older
  <2>5. DisconnectCompletes'
      BY <1>2 DEF IInv, TypeOK, DisconnectCompletes, CopyInv, StretchInv, DocumentsLeft, Absent, Entry, Age, Older
  <2> QED BY <2>1, <2>2, <2>3, <2>4, <2>5 DEF IInv
<1>3. ASSUME NEW s \in Session, disconnect(s) PROVE IInv'
  <2>1. TypeOK'
      BY <1>3 DEF IInv, TypeOK, StretchInv, LoopStep, Running, HandlerStep, Entry, Absent, disconnect, Handler
  <2>2. StretchInv'
      BY <1>3 DEF IInv, TypeOK, StretchInv, Idle, Running, disconnect, Handler
  <2>3. CopyInv'
      BY <1>3 DEF IInv, TypeOK, CopyInv, StretchInv, Writing, Idle, Running, Entry, Absent, disconnect, Handler
  <2>4. UsageKept'
      BY <1>3 DEF IInv, TypeOK, UsageKept, CopyInv, StretchInv, ReportsListed, Writing, Entry, Absent, disconnect, Handler
  <2>5. DisconnectCompletes'
      BY <1>3 DEF IInv, TypeOK, DisconnectCompletes, CopyInv, StretchInv, DocumentsLeft, Absent, Entry, disconnect, Handler
  <2> QED BY <2>1, <2>2, <2>3, <2>4, <2>5 DEF IInv
<1>4. ASSUME NEW s \in Session, Disconnected(s) PROVE IInv'
  <2>1. TypeOK'
      BY <1>4 DEF IInv, TypeOK, StretchInv, LoopStep, Running, HandlerStep, Entry, Absent, Disconnected
  <2>2. StretchInv'
      BY <1>4 DEF IInv, TypeOK, StretchInv, Idle, Running, Disconnected
  <2>3. CopyInv'
      BY <1>4 DEF IInv, TypeOK, CopyInv, StretchInv, Writing, Idle, Running, Entry, Absent, Disconnected
  <2>4. UsageKept'
      BY <1>4 DEF IInv, TypeOK, UsageKept, CopyInv, StretchInv, ReportsListed, Writing, Entry, Absent, Disconnected
  <2>5. DisconnectCompletes'
      BY <1>4 DEF IInv, TypeOK, DisconnectCompletes, CopyInv, StretchInv, DocumentsLeft, Absent, Entry, Disconnected
  <2> QED BY <2>1, <2>2, <2>3, <2>4, <2>5 DEF IInv
<1>5. ASSUME NEW s \in Session, DisconnectUnknown(s) PROVE IInv'
  <2>1. TypeOK'
      BY <1>5 DEF IInv, TypeOK, StretchInv, LoopStep, Running, HandlerStep, Entry, Absent, DisconnectUnknown
  <2>2. StretchInv'
      BY <1>5 DEF IInv, TypeOK, StretchInv, Idle, Running, DisconnectUnknown
  <2>3. CopyInv'
      BY <1>5 DEF IInv, TypeOK, CopyInv, StretchInv, Writing, Idle, Running, Entry, Absent, DisconnectUnknown
  <2>4. UsageKept'
      BY <1>5 DEF IInv, TypeOK, UsageKept, CopyInv, StretchInv, ReportsListed, Writing, Entry, Absent, DisconnectUnknown
  <2>5. DisconnectCompletes'
      BY <1>5 DEF IInv, TypeOK, DisconnectCompletes, CopyInv, StretchInv, DocumentsLeft, Absent, Entry, DisconnectUnknown
  <2> QED BY <2>1, <2>2, <2>3, <2>4, <2>5 DEF IInv
<1>6. ASSUME NEW i \in Instance, UsageSet(i) PROVE IInv'
  <2>1. TypeOK'
      BY <1>6 DEF IInv, TypeOK, StretchInv, LoopStep, Running, HandlerStep, Entry, Absent, UsageSet, Handler, Wrote
  <2>2. StretchInv'
      BY <1>6 DEF IInv, TypeOK, StretchInv, Idle, Running, UsageSet, Handler, Wrote
  <2>3. CopyInv'
      BY <1>6 DEF IInv, TypeOK, CopyInv, StretchInv, Writing, Idle, Running, Entry, Absent, UsageSet, Handler, Wrote
  <2>4. UsageKept'
      BY <1>6 DEF IInv, TypeOK, UsageKept, CopyInv, StretchInv, ReportsListed, Writing, Entry, Absent, UsageSet, Handler, Wrote
  <2>5. DisconnectCompletes'
      BY <1>6 DEF IInv, TypeOK, DisconnectCompletes, CopyInv, StretchInv, DocumentsLeft, Absent, Entry, UsageSet, Handler, Wrote
  <2> QED BY <2>1, <2>2, <2>3, <2>4, <2>5 DEF IInv
<1>7. ASSUME NEW i \in Instance, DisconnectItems(i) PROVE IInv'
  <2>0. overlap' \in BOOLEAN
      BY <1>7 DEF DisconnectItems, Read, IInv, TypeOK
  <2>a. ~overlap' => ~overlap
      BY <1>7 DEF DisconnectItems, Read
  <2>b. use[who[i]] # "none" => (~overlap' => \A j \in Instance \ {i} : ~Writing(j))
      BY <1>7 DEF DisconnectItems, Read
  <2>c. use[who[i]] # "none" => snap' = [snap EXCEPT ![i] = use]
      BY <1>7 DEF DisconnectItems, Read
  <2>1. TypeOK'
    <3>1. CASE use[who[i]] # "none"
      <4>1. snap' \in [Instance -> Entry]
          BY <3>1, <2>c DEF IInv, TypeOK, Entry
      <4> QED BY <4>1, <1>7, <3>1, <2>0 DEF IInv, TypeOK, StretchInv, LoopStep, Running, HandlerStep, DisconnectItems, Handler
    <3>2. CASE ~(use[who[i]] # "none")
      <4>1. snap' = snap
          BY <3>2, <1>7 DEF DisconnectItems, Handler
      <4> QED BY <4>1, <1>7, <3>2, <2>0 DEF IInv, TypeOK, StretchInv, LoopStep, Running, HandlerStep, DisconnectItems, Handler
    <3> QED BY <3>1, <3>2
  <2>2. StretchInv'
      BY <1>7 DEF IInv, TypeOK, StretchInv, Idle, Running, DisconnectItems, Handler
  <2>3. CopyInv'
    <3> SUFFICES ASSUME ~overlap'
                 PROVE  /\ \A j, k \in Instance : Writing(j)' /\ Writing(k)' => j = k
                        /\ \A j \in Instance : Writing(j)' => \A s \in Session : use'[s] = "fresh" => snap'[j][s] = "fresh"
                        /\ \A j \in Instance : at'[j] = "write" => use'[who'[j]] # "none"
        BY DEF CopyInv
    <3>1. /\ \A j, k \in Instance : Writing(j) /\ Writing(k) => j = k
          /\ \A j \in Instance : Writing(j) => \A s \in Session : use[s] = "fresh" => snap[j][s] = "fresh"
          /\ \A j \in Instance : at[j] = "write" => use[who[j]] # "none"
        BY <2>a DEF IInv, CopyInv
    <3>2. use' = use /\ \A j \in Instance \ {i} : at'[j] = at[j] /\ who'[j] = who[j] /\ loop'[j] = loop[j] /\ snap'[j] = snap[j]
        BY <1>7, <2>c DEF IInv, TypeOK, StretchInv, DisconnectItems, Handler
    <3>3. CASE use[who[i]] # "none"
      <4>1. \A j \in Instance \ {i} : ~Writing(j)
          BY <3>3, <2>b
      <4>2. snap'[i] = use /\ (at'[i] = "write" => use[who'[i]] # "none")
          BY <3>3, <2>c, <1>7 DEF IInv, TypeOK, StretchInv, Running, DisconnectItems, Handler
      <4> QED BY <4>1, <4>2, <3>2, <1>7 DEF IInv, TypeOK, StretchInv, Writing, DisconnectItems, Handler
    <3>4. CASE ~(use[who[i]] # "none")
      <4>1. ~Writing(i)' /\ at'[i] # "write"
          BY <3>4, <1>7 DEF IInv, TypeOK, StretchInv, Writing, Running, DisconnectItems, Handler
      <4> QED BY <4>1, <3>1, <3>2 DEF Writing
    <3> QED BY <3>3, <3>4
  <2>4. UsageKept'
      BY <1>7, <2>a DEF IInv, TypeOK, UsageKept, ReportsListed, DisconnectItems, Handler
  <2>5. DisconnectCompletes'
      BY <1>7, <2>a DEF IInv, TypeOK, DisconnectCompletes, DocumentsLeft, DisconnectItems, Handler
  <2> QED BY <2>1, <2>2, <2>3, <2>4, <2>5 DEF IInv
<1>8. ASSUME NEW i \in Instance, DisconnectWrite(i) PROVE IInv'
  <2>1. TypeOK'
      BY <1>8 DEF IInv, TypeOK, StretchInv, LoopStep, Running, HandlerStep, Entry, Absent, DisconnectWrite, Handler, Wrote
  <2>2. StretchInv'
      BY <1>8 DEF IInv, TypeOK, StretchInv, Idle, Running, DisconnectWrite, Handler, Wrote
  <2>3. CopyInv'
      BY <1>8 DEF IInv, TypeOK, CopyInv, StretchInv, Writing, Idle, Running, Entry, Absent, DisconnectWrite, Handler, Wrote
  <2>4. UsageKept'
      BY <1>8 DEF IInv, TypeOK, UsageKept, CopyInv, StretchInv, ReportsListed, Writing, Entry, Absent, DisconnectWrite, Handler, Wrote
  <2>5. DisconnectCompletes'
      BY <1>8 DEF IInv, TypeOK, DisconnectCompletes, CopyInv, StretchInv, DocumentsLeft, Absent, Entry, DisconnectWrite, Handler, Wrote
  <2> QED BY <2>1, <2>2, <2>3, <2>4, <2>5 DEF IInv
<1>9. ASSUME NEW i \in Instance, HandlerRaises(i) PROVE IInv'
  <2>1. TypeOK'
      BY <1>9 DEF IInv, TypeOK, StretchInv, LoopStep, Running, HandlerStep, Entry, Absent, HandlerRaises, Handler, Wrote
  <2>2. StretchInv'
      BY <1>9 DEF IInv, TypeOK, StretchInv, Idle, Running, HandlerRaises, Handler, Wrote
  <2>3. CopyInv'
      BY <1>9 DEF IInv, TypeOK, CopyInv, StretchInv, Writing, Idle, Running, Entry, Absent, HandlerRaises, Handler, Wrote
  <2>4. UsageKept'
      BY <1>9 DEF IInv, TypeOK, UsageKept, CopyInv, StretchInv, ReportsListed, Writing, Entry, Absent, HandlerRaises, Handler, Wrote
  <2>5. DisconnectCompletes'
      BY <1>9 DEF IInv, TypeOK, DisconnectCompletes, CopyInv, StretchInv, DocumentsLeft, Absent, Entry, HandlerRaises, Handler, Wrote
  <2> QED BY <2>1, <2>2, <2>3, <2>4, <2>5 DEF IInv
<1>10. ASSUME NEW i \in Instance, Acquire(i) PROVE IInv'
  <2>1. TypeOK'
      BY <1>10 DEF IInv, TypeOK, StretchInv, LoopStep, Running, HandlerStep, Entry, Absent, Acquire, GoTo
  <2>2. StretchInv'
      BY <1>10 DEF IInv, TypeOK, StretchInv, Idle, Running, Acquire, GoTo
  <2>3. CopyInv'
      BY <1>10 DEF IInv, TypeOK, CopyInv, StretchInv, Writing, Idle, Running, Entry, Absent, Acquire, GoTo
  <2>4. UsageKept'
      BY <1>10 DEF IInv, TypeOK, UsageKept, CopyInv, StretchInv, ReportsListed, Writing, Entry, Absent, Acquire, GoTo
  <2>5. DisconnectCompletes'
      BY <1>10 DEF IInv, TypeOK, DisconnectCompletes, CopyInv, StretchInv, DocumentsLeft, Absent, Entry, Acquire, GoTo
  <2> QED BY <2>1, <2>2, <2>3, <2>4, <2>5 DEF IInv
<1>11. ASSUME NEW i \in Instance, Renew(i) PROVE IInv'
  <2>1. TypeOK'
      BY <1>11 DEF IInv, TypeOK, StretchInv, LoopStep, Running, HandlerStep, Entry, Absent, Renew, GoTo
  <2>2. StretchInv'
      BY <1>11 DEF IInv, TypeOK, StretchInv, Idle, Running, Renew, GoTo
  <2>3. CopyInv'
      BY <1>11 DEF IInv, TypeOK, CopyInv, StretchInv, Writing, Idle, Running, Entry, Absent, Renew, GoTo
  <2>4. UsageKept'
      BY <1>11 DEF IInv, TypeOK, UsageKept, CopyInv, StretchInv, ReportsListed, Writing, Entry, Absent, Renew, GoTo
  <2>5. DisconnectCompletes'
      BY <1>11 DEF IInv, TypeOK, DisconnectCompletes, CopyInv, StretchInv, DocumentsLeft, Absent, Entry, Renew, GoTo
  <2> QED BY <2>1, <2>2, <2>3, <2>4, <2>5 DEF IInv
<1>12. ASSUME NEW i \in Instance, Items(i) PROVE IInv'
  <2>0. overlap' \in BOOLEAN
      BY <1>12 DEF Items, Read, IInv, TypeOK
  <2>a. ~overlap' => ~overlap
      BY <1>12 DEF Items, Read
  <2>b. (\E s \in Session : use[s] = "stale") => (~overlap' => \A j \in Instance \ {i} : ~Writing(j))
      BY <1>12 DEF Items, Read
  <2>c. (\E s \in Session : use[s] = "stale") => snap' = [snap EXCEPT ![i] = [s \in Session |-> IF use[s] = "fresh" THEN "fresh" ELSE "none"]]
      BY <1>12 DEF Items, Read
  <2>1. TypeOK'
    <3>1. CASE \E s \in Session : use[s] = "stale"
      <4>1. snap' \in [Instance -> Entry]
          BY <3>1, <2>c DEF IInv, TypeOK, Entry
      <4> QED BY <4>1, <1>12, <3>1, <2>0 DEF IInv, TypeOK, StretchInv, LoopStep, Running, HandlerStep, Items, GoTo
    <3>2. CASE ~(\E s \in Session : use[s] = "stale")
      <4>1. snap' = snap
          BY <3>2, <1>12 DEF Items, GoTo
      <4> QED BY <4>1, <1>12, <3>2, <2>0 DEF IInv, TypeOK, StretchInv, LoopStep, Running, HandlerStep, Items, GoTo
    <3> QED BY <3>1, <3>2
  <2>2. StretchInv'
      BY <1>12 DEF IInv, TypeOK, StretchInv, Idle, Running, Items, GoTo
  <2>3. CopyInv'
    <3> SUFFICES ASSUME ~overlap'
                 PROVE  /\ \A j, k \in Instance : Writing(j)' /\ Writing(k)' => j = k
                        /\ \A j \in Instance : Writing(j)' => \A s \in Session : use'[s] = "fresh" => snap'[j][s] = "fresh"
                        /\ \A j \in Instance : at'[j] = "write" => use'[who'[j]] # "none"
        BY DEF CopyInv
    <3>1. /\ \A j, k \in Instance : Writing(j) /\ Writing(k) => j = k
          /\ \A j \in Instance : Writing(j) => \A s \in Session : use[s] = "fresh" => snap[j][s] = "fresh"
          /\ \A j \in Instance : at[j] = "write" => use[who[j]] # "none"
        BY <2>a DEF IInv, CopyInv
    <3>2. use' = use /\ \A j \in Instance \ {i} : at'[j] = at[j] /\ who'[j] = who[j] /\ loop'[j] = loop[j] /\ snap'[j] = snap[j]
        BY <1>12, <2>c DEF IInv, TypeOK, StretchInv, Items, GoTo
    <3>3. CASE \E s \in Session : use[s] = "stale"
      <4>1. \A j \in Instance \ {i} : ~Writing(j)
          BY <3>3, <2>b
      <4>2. snap'[i] = [s \in Session |-> IF use[s] = "fresh" THEN "fresh" ELSE "none"] /\ (at'[i] = "write" => use[who'[i]] # "none")
          BY <3>3, <2>c, <1>12 DEF IInv, TypeOK, StretchInv, Running, Items, GoTo
      <4> QED BY <4>1, <4>2, <3>2, <1>12 DEF IInv, TypeOK, StretchInv, Writing, Items, GoTo
    <3>4. CASE ~(\E s \in Session : use[s] = "stale")
      <4>1. ~Writing(i)' /\ at'[i] # "write"
          BY <3>4, <1>12 DEF IInv, TypeOK, StretchInv, Writing, Running, Items, GoTo
      <4> QED BY <4>1, <3>1, <3>2 DEF Writing
    <3> QED BY <3>3, <3>4
  <2>4. UsageKept'
      BY <1>12, <2>a DEF IInv, TypeOK, UsageKept, ReportsListed, Items, GoTo
  <2>5. DisconnectCompletes'
      BY <1>12, <2>a DEF IInv, TypeOK, DisconnectCompletes, DocumentsLeft, Items, GoTo
  <2> QED BY <2>1, <2>2, <2>3, <2>4, <2>5 DEF IInv
<1>13. ASSUME NEW i \in Instance, Write(i) PROVE IInv'
  <2>1. TypeOK'
      BY <1>13 DEF IInv, TypeOK, StretchInv, LoopStep, Running, HandlerStep, Entry, Absent, Write, GoTo, Wrote
  <2>2. StretchInv'
      BY <1>13 DEF IInv, TypeOK, StretchInv, Idle, Running, Write, GoTo, Wrote
  <2>3. CopyInv'
      BY <1>13 DEF IInv, TypeOK, CopyInv, StretchInv, Writing, Idle, Running, Entry, Absent, Write, GoTo, Wrote
  <2>4. UsageKept'
      BY <1>13 DEF IInv, TypeOK, UsageKept, CopyInv, StretchInv, ReportsListed, Writing, Entry, Absent, Write, GoTo, Wrote
  <2>5. DisconnectCompletes'
      BY <1>13 DEF IInv, TypeOK, DisconnectCompletes, CopyInv, StretchInv, DocumentsLeft, Absent, Entry, Write, GoTo, Wrote
  <2> QED BY <2>1, <2>2, <2>3, <2>4, <2>5 DEF IInv
<1>14. ASSUME NEW i \in Instance, Release(i) PROVE IInv'
  <2>1. TypeOK'
      BY <1>14 DEF IInv, TypeOK, StretchInv, LoopStep, Running, HandlerStep, Entry, Absent, Release, GoTo
  <2>2. StretchInv'
      BY <1>14 DEF IInv, TypeOK, StretchInv, Idle, Running, Release, GoTo
  <2>3. CopyInv'
      BY <1>14 DEF IInv, TypeOK, CopyInv, StretchInv, Writing, Idle, Running, Entry, Absent, Release, GoTo
  <2>4. UsageKept'
      BY <1>14 DEF IInv, TypeOK, UsageKept, CopyInv, StretchInv, ReportsListed, Writing, Entry, Absent, Release, GoTo
  <2>5. DisconnectCompletes'
      BY <1>14 DEF IInv, TypeOK, DisconnectCompletes, CopyInv, StretchInv, DocumentsLeft, Absent, Entry, Release, GoTo
  <2> QED BY <2>1, <2>2, <2>3, <2>4, <2>5 DEF IInv
<1>15. ASSUME NEW i \in Instance, LoopRaises(i) PROVE IInv'
  <2>1. TypeOK'
      BY <1>15 DEF IInv, TypeOK, StretchInv, LoopStep, Running, HandlerStep, Entry, Absent, LoopRaises, GoTo, Wrote
  <2>2. StretchInv'
      BY <1>15 DEF IInv, TypeOK, StretchInv, Idle, Running, LoopRaises, GoTo, Wrote
  <2>3. CopyInv'
      BY <1>15 DEF IInv, TypeOK, CopyInv, StretchInv, Writing, Idle, Running, Entry, Absent, LoopRaises, GoTo, Wrote
  <2>4. UsageKept'
      BY <1>15 DEF IInv, TypeOK, UsageKept, CopyInv, StretchInv, ReportsListed, Writing, Entry, Absent, LoopRaises, GoTo, Wrote
  <2>5. DisconnectCompletes'
      BY <1>15 DEF IInv, TypeOK, DisconnectCompletes, CopyInv, StretchInv, DocumentsLeft, Absent, Entry, LoopRaises, GoTo, Wrote
  <2> QED BY <2>1, <2>2, <2>3, <2>4, <2>5 DEF IInv
<1>16. ASSUME NEW i \in Instance, LockOutlived(i) PROVE IInv'
  <2>1. TypeOK'
      BY <1>16 DEF IInv, TypeOK, StretchInv, LoopStep, Running, HandlerStep, Entry, Absent, LockOutlived
  <2>2. StretchInv'
      BY <1>16 DEF IInv, TypeOK, StretchInv, Idle, Running, LockOutlived
  <2>3. CopyInv'
      BY <1>16 DEF IInv, TypeOK, CopyInv, StretchInv, Writing, Idle, Running, Entry, Absent, LockOutlived
  <2>4. UsageKept'
      BY <1>16 DEF IInv, TypeOK, UsageKept, CopyInv, StretchInv, ReportsListed, Writing, Entry, Absent, LockOutlived
  <2>5. DisconnectCompletes'
      BY <1>16 DEF IInv, TypeOK, DisconnectCompletes, CopyInv, StretchInv, DocumentsLeft, Absent, Entry, LockOutlived
  <2> QED BY <2>1, <2>2, <2>3, <2>4, <2>5 DEF IInv
<1>17. ASSUME NEW i \in Instance, Crash(i) PROVE IInv'
  <2>1. TypeOK'
      BY <1>17 DEF IInv, TypeOK, StretchInv, LoopStep, Running, HandlerStep, Entry, Absent, Crash, GoTo, Wrote, Handler
  <2>2. StretchInv'
      BY <1>17 DEF IInv, TypeOK, StretchInv, Idle, Running, Crash, GoTo, Wrote, Handler
  <2>3. CopyInv'
      BY <1>17 DEF IInv, TypeOK, CopyInv, StretchInv, Writing, Idle, Running, Entry, Absent, Crash, GoTo, Wrote, Handler
  <2>4. UsageKept'
      BY <1>17 DEF IInv, TypeOK, UsageKept, CopyInv, StretchInv, ReportsListed, Writing, Entry, Absent, Crash, GoTo, Wrote, Handler
  <2>5. DisconnectCompletes'
      BY <1>17 DEF IInv, TypeOK, DisconnectCompletes, CopyInv, StretchInv, DocumentsLeft, Absent, Entry, Crash, GoTo, Wrote, Handler
  <2> QED BY <2>1, <2>2, <2>3, <2>4, <2>5 DEF IInv
<1>18. ASSUME LockExpires PROVE IInv'
  <2>1. TypeOK'
      BY <1>18 DEF IInv, TypeOK, StretchInv, LoopStep, Running, HandlerStep, Entry, Absent, LockExpires
  <2>2. StretchInv'
      BY <1>18 DEF IInv, TypeOK, StretchInv, Idle, Running, LockExpires
  <2>3. CopyInv'
      BY <1>18 DEF IInv, TypeOK, CopyInv, StretchInv, Writing, Idle, Running, Entry, Absent, LockExpires
  <2>4. UsageKept'
      BY <1>18 DEF IInv, TypeOK, UsageKept, CopyInv, StretchInv, ReportsListed, Writing, Entry, Absent, LockExpires
  <2>5. DisconnectCompletes'
      BY <1>18 DEF IInv, TypeOK, DisconnectCompletes, CopyInv, StretchInv, DocumentsLeft, Absent, Entry, LockExpires
  <2> QED BY <2>1, <2>2, <2>3, <2>4, <2>5 DEF IInv
<1>19. CASE UNCHANGED vars
    BY <1>19 DEF IInv, vars, TypeOK, StretchInv, CopyInv, UsageKept, DisconnectCompletes, LoopStep, Running, HandlerStep, Entry, Writing, ReportsListed, DocumentsLeft
<1> QED BY <1>1, <1>2, <1>3, <1>4, <1>5, <1>6, <1>7, <1>8, <1>9, <1>10, <1>11, <1>12, <1>13, <1>14, <1>15, <1>16, <1>17, <1>18, <1>19 DEF Next, periodic_usage_pool_cleanup

(* The inductive invariant holds in every reachable state. *)
THEOREM Invariance == Spec => []IInv
<1>1. Init => IInv
    BY InitIInv
<1>2. IInv /\ [Next]_vars => IInv'
    BY NextIInv
<1> QED BY <1>1, <1>2, PTL DEF Spec

(* The state of the usage pool and of its cleanup is well typed. *)
THEOREM TypeCorrect == Spec => []TypeOK
<1>1. IInv => TypeOK
    BY DEF IInv
<1> QED BY <1>1, Invariance, PTL

(* A usage report is lost only if two processes read and write the entry
   at a time; so never with one process. *)
THEOREM ReportsSurvive == Spec => []UsageKept
<1>1. IInv => UsageKept
    BY DEF IInv
<1> QED BY <1>1, Invariance, PTL

(* disconnect gets to the documents of its session unless a fault or another
   process's write stops it. *)
THEOREM DisconnectReachesDocuments == Spec => []DisconnectCompletes
<1>1. IInv => DisconnectCompletes
    BY DEF IInv
<1> QED BY <1>1, Invariance, PTL

(* The usage pool is sound, for every instance of the system. *)
THEOREM UsageIsSound == Spec => []UsageSound
BY TypeCorrect, ReportsSurvive, DisconnectReachesDocuments, PTL DEF UsageSound
=============================================================================
