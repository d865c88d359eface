-------------------------------- MODULE Ydoc --------------------------------
(***************************************************************************)
(* Collaborative editing of one document: YdocManager                      *)
(* (backend/open_webui/socket/utils.py) and the Socket.IO handlers that    *)
(* use it (backend/open_webui/socket/main.py).  The server keeps the       *)
(* document as a list of Yjs updates, the sessions that have it open, and  *)
(* per session the documents it joined.  An update is the set of edits it  *)
(* contains: merging updates is set union.                                 *)
(* With Redis every call to it is a step and handlers interleave between   *)
(* any two.  Without Redis the manager never suspends, so a handler runs   *)
(* from one await to the next in one go (Inside).                          *)
(* What disconnect does to USAGE_POOL is in UsagePool, what it does to     *)
(* SESSION_POOL between two Redis calls in SessionPool.                    *)
(***************************************************************************)
EXTENDS Naturals, FiniteSets, Sequences, TLC

CONSTANTS Session,    \* Socket.IO sessions
          Edit,       \* changes a client makes
          Call,       \* handler invocations that can be in flight together
          None,
          Redis,      \* TRUE: state in Redis; FALSE: in the process
          COMPACTION_THRESHOLD,
          MaxJoins,   \* bound on how often the clients open the document
          MaxSends,   \* bound on the updates the clients send
          MaxFaults   \* bound on crashes, raising calls and missed heartbeats

ASSUME ThresholdAssumption == COMPACTION_THRESHOLD \in Nat \ {0}
ASSUME ModeAssumption == Redis \in BOOLEAN /\ MaxFaults \in Nat /\ MaxSends \in Nat /\ MaxJoins \in Nat /\ None \notin Session

VARIABLES
    updates,    \* Seq(SUBSET Edit): the list of updates, <<>> if the key is absent
    users,      \* sessions in the document's user set
    index,      \* sessions whose set of joined documents contains this one
    room,       \* sessions in the Socket.IO room doc_<id>
    live,       \* connected sessions
    pool,       \* sessions with an entry in SESSION_POOL
    open,       \* sessions whose client has the document open
    synced,     \* ... and was sent its state after it entered the room
    view,       \* [Session -> SUBSET Edit]: edits a client made or was sent
    made,       \* edits made so far
    pc,         \* [Call -> Step]
    who,        \* [Call -> Session \cup {None}]: the handler's session
    upd,        \* [Call -> SUBSET Edit]: the update it carries
    data,       \* calls whose update carries a content snapshot
    buf,        \* [Call -> Seq(SUBSET Edit)]: the list compaction has read
    saves,      \* pending debounced saves of the note
    owed,       \* a pending save was cancelled and none scheduled since
    kept,       \* history: edits stored since the document was last dropped
    exposed,    \* history: ... while some compaction was under way
    announced,  \* history: ... and broadcast to the room
    joins,      \* joins and updates the clients sent so far
    sends,
    late,       \* history: something was stored for a document with no users
    faults

docVars == <<updates, users, index>>
sessionVars == <<room, live, pool, open, synced>>
clientVars == <<view, made, joins, sends>>
callVars == <<who, upd, data, buf>>
saveVars == <<saves, owed>>
historyVars == <<kept, exposed, announced, late>>
vars == <<docVars, sessionVars, clientVars, pc, callVars, saveVars, historyVars, faults>>

-----------------------------------------------------------------------------
JoinStep == {"auth", "adduser", "addindex", "room", "state"}
UpdateStep == {"write", "push", "len", "read", "swap", "emit", "stop", "create"}
LeaveStep == {"remuser", "remindex", "unroom", "exists", "count", "clear", "clearusers"}
DisconnectStep == {"mine", "dremuser", "dcount", "dclear", "dclearusers", "dropindex", "gone"}
Step == {"idle"} \cup JoinStep \cup UpdateStep \cup LeaveStep \cup DisconnectStep

(* Steps that follow the previous one of their handler without an await     *)
(* that suspends it, when there is no Redis.                                *)
Inside(c) == pc[c] \in {"addindex", "room", "state", "len", "read", "swap", "remuser", "remindex",
                        "unroom", "count", "clear", "clearusers"} \cup DisconnectStep
Runs(c) == Redis \/ \A d \in Call \ {c} : ~Inside(d)
Quiet == \A c \in Call : pc[c] = "idle"

Ends(c) ==
    /\ who' = [who EXCEPT ![c] = None]
    /\ upd' = [upd EXCEPT ![c] = {}]
    /\ data' = data \ {c}

Content(list) == UNION {list[k] : k \in 1..Len(list)}
Compacting == {c \in Call : pc[c] = "swap"}

GoTo(c, step) ==
    /\ pc' = [pc EXCEPT ![c] = step]
    /\ IF step = "idle" THEN Ends(c) ELSE UNCHANGED <<who, upd, data>>
Fault == faults < MaxFaults /\ faults' = faults + 1

-----------------------------------------------------------------------------
Init ==
    /\ updates = <<>> /\ users = {} /\ index = {}
    /\ room = {} /\ live = Session /\ pool = Session /\ open = {} /\ synced = {}
    /\ view = [s \in Session |-> {}] /\ made = {} /\ joins = 0 /\ sends = 0
    /\ pc = [c \in Call |-> "idle"]
    /\ who = [c \in Call |-> None]
    /\ upd = [c \in Call |-> {}]
    /\ data = {}
    /\ buf = [c \in Call |-> <<>>]
    /\ saves = 0 /\ owed = FALSE
    /\ kept = {} /\ exposed = {} /\ announced = {} /\ late = FALSE
    /\ faults = 0

(* A handler starts for an event of a connected session. *)
Start(c, s, step) ==
    /\ pc[c] = "idle" /\ s \in live
    /\ Runs(c)
    /\ pc' = [pc EXCEPT ![c] = step]
    /\ who' = [who EXCEPT ![c] = s]

-----------------------------------------------------------------------------
(* ydoc_document_join *)
JoinStart(c, s) ==
    /\ s \notin open /\ joins < MaxJoins
    /\ Start(c, s, "auth")
    /\ open' = open \cup {s} /\ joins' = joins + 1
    /\ UNCHANGED <<docVars, room, live, pool, synced, view, made, sends, upd, data, buf, saveVars, historyVars, faults>>

(* The note is looked up; a session without access gets nothing. *)
JoinAuth(c) ==
    /\ pc[c] = "auth" /\ Runs(c)
    /\ GoTo(c, "adduser") \/ GoTo(c, "idle")
    /\ UNCHANGED <<docVars, sessionVars, clientVars, buf, saveVars, historyVars, faults>>

add_user(c) ==
    /\ pc[c] = "adduser" /\ Runs(c)
    /\ users' = users \cup {who[c]}
    /\ GoTo(c, "addindex")
    /\ UNCHANGED <<updates, index, sessionVars, clientVars, buf, saveVars, historyVars, faults>>

AddIndex(c) ==
    /\ pc[c] = "addindex" /\ Runs(c)
    /\ index' = index \cup {who[c]}
    /\ GoTo(c, "room")
    /\ UNCHANGED <<updates, users, sessionVars, clientVars, buf, saveVars, historyVars, faults>>

(* enter_room; a session that is gone by now makes it fail. *)
EnterRoom(c) ==
    /\ pc[c] = "room" /\ Runs(c)
    /\ room' = room \cup ({who[c]} \cap live)
    /\ synced' = synced \ {who[c]}
    /\ GoTo(c, IF who[c] \in live THEN "state" ELSE "idle")
    /\ UNCHANGED <<docVars, live, pool, open, clientVars, buf, saveVars, historyVars, faults>>

(* get_updates, and the whole state is sent to the session. *)
SendState(c) ==
    /\ pc[c] = "state" /\ Runs(c)
    /\ view' = [view EXCEPT ![who[c]] = @ \cup Content(updates)]
    /\ synced' = synced \cup ({who[c]} \cap open)
    /\ GoTo(c, "idle")
    /\ UNCHANGED <<docVars, room, live, pool, open, made, joins, sends, buf, saveVars, historyVars, faults>>

ydoc_document_join(c) ==
    JoinAuth(c) \/ add_user(c) \/ AddIndex(c) \/ EnterRoom(c) \/ SendState(c)

-----------------------------------------------------------------------------
(* yjs_document_update: a new edit with the editor's content, or the whole  *)
(* of what the client has, with or without it.  The sender must be in the   *)
(* room; then its write permission is looked up.                            *)
UpdateStart(c, s, u, withData) ==
    /\ s \in room \cap open /\ u # {} /\ sends < MaxSends
    /\ Start(c, s, "write")
    /\ upd' = [upd EXCEPT ![c] = u]
    /\ data' = IF withData THEN data \cup {c} ELSE data \ {c}
    /\ view' = [view EXCEPT ![s] = @ \cup u]
    /\ made' = made \cup u /\ sends' = sends + 1
    /\ UNCHANGED <<docVars, sessionVars, joins, buf, saveVars, historyVars, faults>>

Edits(c, s) ==
    \/ \E e \in Edit \ made : UpdateStart(c, s, {e}, TRUE)
    \/ \E withData \in BOOLEAN : UpdateStart(c, s, view[s], withData)

UpdateAuth(c) ==
    /\ pc[c] = "write" /\ Runs(c)
    /\ GoTo(c, "push") \/ GoTo(c, "idle")
    /\ UNCHANGED <<docVars, sessionVars, clientVars, buf, saveVars, historyVars, faults>>

(* append_to_updates: RPUSH. *)
Push(c) ==
    /\ pc[c] = "push" /\ Runs(c)
    /\ updates' = Append(updates, upd[c])
    /\ kept' = kept \cup upd[c]
    /\ exposed' = IF Compacting # {} THEN exposed \cup upd[c] ELSE exposed \ upd[c]
    /\ announced' = IF Compacting # {} THEN announced ELSE announced \ (exposed \cap upd[c])
    /\ late' = (late \/ users = {})
    /\ GoTo(c, "len")
    /\ UNCHANGED <<users, index, sessionVars, clientVars, buf, saveVars, faults>>

(* LLEN against the threshold. *)
Length(c) ==
    /\ pc[c] = "len" /\ Runs(c)
    /\ GoTo(c, IF Len(updates) >= COMPACTION_THRESHOLD THEN "read" ELSE "emit")
    /\ UNCHANGED <<docVars, sessionVars, clientVars, buf, saveVars, historyVars, faults>>

(* _compact_updates_redis, _compact_updates_memory: LRANGE ... *)
CompactRead(c) ==
    /\ pc[c] = "read" /\ Runs(c)
    /\ buf' = [buf EXCEPT ![c] = updates]
    /\ GoTo(c, IF Len(updates) <= 1 THEN "emit" ELSE "swap")
    /\ UNCHANGED <<docVars, sessionVars, clientVars, saveVars, historyVars, faults>>

(* Mutant: the first update of the newer half is dropped. *)
Compacted_OffByOne(list) ==
    LET mid == Len(list) \div 2
    IN  <<Content(SubSeq(list, 1, mid))>> \o SubSeq(list, mid + 2, Len(list))

(* The older half becomes one update, the newer half stays. *)
Compacted(list) ==
    LET mid == Len(list) \div 2
    IN  <<Content(SubSeq(list, 1, mid))>> \o SubSeq(list, mid + 1, Len(list))

(* ... and the list is replaced by DEL and RPUSH in one pipeline. *)
CompactSwap(c) ==
    /\ pc[c] = "swap" /\ Runs(c)
    /\ updates' = Compacted(buf[c])
    /\ buf' = [buf EXCEPT ![c] = <<>>]
    /\ late' = (late \/ users = {})
    /\ GoTo(c, "emit")
    /\ UNCHANGED <<users, index, sessionVars, clientVars, saveVars, kept, exposed, announced, faults>>

(* Mutant: every update cancels the pending save. *)
Broadcast_StopsSaves(c) ==
    /\ pc[c] = "emit" /\ Runs(c)
    /\ view' = [s \in Session |-> IF s \in room \ {who[c]} THEN view[s] \cup upd[c] ELSE view[s]]
    /\ announced' = announced \cup (upd[c] \cap kept)
    /\ GoTo(c, IF c \in data THEN "stop" ELSE "idle")
    /\ saves' = IF c \in data THEN saves ELSE 0
    /\ owed' = (owed \/ (c \notin data /\ saves > 0))
    /\ UNCHANGED <<docVars, sessionVars, made, joins, sends, buf, kept, exposed, late, faults>>

(* The update is broadcast to the others in the room. *)
Broadcast(c) ==
    /\ pc[c] = "emit" /\ Runs(c)
    /\ view' = [s \in Session |-> IF s \in room \ {who[c]} THEN view[s] \cup upd[c] ELSE view[s]]
    /\ announced' = announced \cup (upd[c] \cap kept)
    /\ GoTo(c, IF c \in data THEN "stop" ELSE "idle")
    /\ UNCHANGED <<docVars, sessionVars, made, joins, sends, buf, saveVars, kept, exposed, late, faults>>

(* stop_item_tasks and create_task: the pending saves the registry lists    *)
(* are cancelled and a new one is scheduled.  A failing stop is ignored.    *)
StopSaves(c) ==
    /\ pc[c] = "stop" /\ Runs(c)
    /\ \E left \in 0..saves : saves' = left /\ owed' = (owed \/ left < saves)
    /\ GoTo(c, "create")
    /\ UNCHANGED <<docVars, sessionVars, clientVars, buf, historyVars, faults>>

ScheduleSave(c) ==
    /\ pc[c] = "create" /\ Runs(c)
    /\ saves' = saves + 1 /\ owed' = FALSE
    /\ GoTo(c, "idle")
    /\ UNCHANGED <<docVars, sessionVars, clientVars, buf, historyVars, faults>>

yjs_document_update(c) ==
    \/ UpdateAuth(c) \/ Push(c) \/ Length(c) \/ CompactRead(c) \/ CompactSwap(c)
    \/ Broadcast(c) \/ StopSaves(c) \/ ScheduleSave(c)

(* document_save_handler writes the note, or finds no write access.         *)
document_save_handler ==
    /\ saves > 0 /\ \A c \in Call : Redis \/ ~Inside(c)
    /\ saves' = saves - 1
    /\ UNCHANGED <<docVars, sessionVars, clientVars, pc, callVars, owed, historyVars, faults>>

-----------------------------------------------------------------------------
(* yjs_document_leave *)
LeaveStart(c, s) ==
    /\ s \in open
    /\ Start(c, s, "remuser")
    /\ open' = open \ {s} /\ synced' = synced \ {s}
    /\ UNCHANGED <<docVars, room, live, pool, clientVars, upd, data, buf, saveVars, historyVars, faults>>

remove_user(c) ==
    /\ pc[c] = "remuser" /\ Runs(c)
    /\ users' = users \ {who[c]}
    /\ GoTo(c, "remindex")
    /\ UNCHANGED <<updates, index, sessionVars, clientVars, buf, saveVars, historyVars, faults>>

RemoveIndex(c) ==
    /\ pc[c] = "remindex" /\ Runs(c)
    /\ index' = index \ {who[c]}
    /\ GoTo(c, "unroom")
    /\ UNCHANGED <<updates, users, sessionVars, clientVars, buf, saveVars, historyVars, faults>>

LeaveRoom(c) ==
    /\ pc[c] = "unroom" /\ Runs(c)
    /\ room' = room \ {who[c]}
    /\ GoTo(c, "exists")
    /\ UNCHANGED <<docVars, live, pool, open, synced, clientVars, buf, saveVars, historyVars, faults>>

(* document_exists, then get_users. *)
Exists(c) ==
    /\ pc[c] = "exists" /\ Runs(c)
    /\ GoTo(c, IF updates # <<>> THEN "count" ELSE "idle")
    /\ UNCHANGED <<docVars, sessionVars, clientVars, buf, saveVars, historyVars, faults>>

(* Mutant: the document is dropped although somebody has it open. *)
Count_OneLeft(c) ==
    /\ pc[c] = "count" /\ Runs(c)
    /\ GoTo(c, IF Cardinality(users) <= 1 THEN "clear" ELSE "idle")
    /\ UNCHANGED <<docVars, sessionVars, clientVars, buf, saveVars, historyVars, faults>>

Count(c) ==
    /\ pc[c] = "count" /\ Runs(c)
    /\ GoTo(c, IF users = {} THEN "clear" ELSE "idle")
    /\ UNCHANGED <<docVars, sessionVars, clientVars, buf, saveVars, historyVars, faults>>

(* clear_document: the updates, then the users. *)
ClearUpdates(c) ==
    /\ pc[c] \in {"clear", "dclear"} /\ Runs(c)
    /\ updates' = <<>>
    /\ kept' = {} /\ exposed' = {} /\ announced' = {} /\ late' = FALSE
    /\ GoTo(c, IF pc[c] = "clear" THEN "clearusers" ELSE "dclearusers")
    /\ UNCHANGED <<users, index, sessionVars, clientVars, buf, saveVars, faults>>

ClearUsers(c) ==
    /\ pc[c] \in {"clearusers", "dclearusers"} /\ Runs(c)
    /\ users' = {}
    /\ GoTo(c, IF pc[c] = "clearusers" THEN "idle" ELSE "dropindex")
    /\ UNCHANGED <<updates, index, sessionVars, clientVars, buf, saveVars, historyVars, faults>>

clear_document(c) == ClearUpdates(c) \/ ClearUsers(c)

yjs_document_leave(c) ==
    remove_user(c) \/ RemoveIndex(c) \/ LeaveRoom(c) \/ Exists(c) \/ Count(c)

-----------------------------------------------------------------------------
(* disconnect: nothing but the pool tells whether there is anything to do.  *)
DisconnectStart(c, s) ==
    /\ Start(c, s, IF s \in pool THEN "mine" ELSE "gone")
    /\ live' = live \ {s} /\ pool' = pool \ {s}
    /\ open' = open \ {s} /\ synced' = synced \ {s}
    /\ UNCHANGED <<docVars, room, clientVars, upd, data, buf, saveVars, historyVars, faults>>

(* remove_user_from_all_documents: by the session's index in Redis, by the  *)
(* user sets themselves in memory.                                          *)
FindDocuments(c) ==
    /\ pc[c] = "mine" /\ Runs(c)
    /\ GoTo(c, IF who[c] \in (IF Redis THEN index ELSE users) THEN "dremuser" ELSE "dropindex")
    /\ UNCHANGED <<docVars, sessionVars, clientVars, buf, saveVars, historyVars, faults>>

RemoveFromDocument(c) ==
    /\ pc[c] = "dremuser" /\ Runs(c)
    /\ users' = users \ {who[c]}
    /\ GoTo(c, "dcount")
    /\ UNCHANGED <<updates, index, sessionVars, clientVars, buf, saveVars, historyVars, faults>>

(* Mutant: the last user's disconnect does not drop the document. *)
CountLeft_Never(c) ==
    /\ pc[c] = "dcount" /\ Runs(c)
    /\ GoTo(c, "dropindex")
    /\ UNCHANGED <<docVars, sessionVars, clientVars, buf, saveVars, historyVars, faults>>

CountLeft(c) ==
    /\ pc[c] = "dcount" /\ Runs(c)
    /\ GoTo(c, IF users = {} THEN "dclear" ELSE "dropindex")
    /\ UNCHANGED <<docVars, sessionVars, clientVars, buf, saveVars, historyVars, faults>>

DropIndex(c) ==
    /\ pc[c] = "dropindex" /\ Runs(c)
    /\ index' = index \ {who[c]}
    /\ GoTo(c, "gone")
    /\ UNCHANGED <<updates, users, sessionVars, clientVars, buf, saveVars, historyVars, faults>>

remove_user_from_all_documents(c) ==
    FindDocuments(c) \/ RemoveFromDocument(c) \/ CountLeft(c) \/ DropIndex(c)

(* Socket.IO takes the session out of its rooms after the handler. *)
LeaveRooms(c) ==
    /\ pc[c] = "gone" /\ Runs(c)
    /\ room' = room \ {who[c]}
    /\ GoTo(c, "idle")
    /\ UNCHANGED <<docVars, live, pool, open, synced, clientVars, buf, saveVars, historyVars, faults>>

-----------------------------------------------------------------------------
(* periodic_session_pool_cleanup reaps a session that missed heartbeats;    *)
(* its next heartbeat puts it back.                                         *)
ReapSession(s) ==
    /\ s \in pool /\ \A c \in Call : Redis \/ ~Inside(c)
    /\ pool' = pool \ {s}
    /\ Fault
    /\ UNCHANGED <<docVars, room, live, open, synced, clientVars, pc, callVars, saveVars, historyVars>>

heartbeat(s) ==
    /\ s \in live \ pool /\ \A c \in Call : Redis \/ ~Inside(c)
    /\ pool' = pool \cup {s}
    /\ UNCHANGED <<docVars, room, live, open, synced, clientVars, pc, callVars, saveVars, historyVars, faults>>

(* A database or Redis call raises: the handler gives up. *)
HandlerRaises(c) ==
    /\ pc[c] \notin {"idle", "stop"}
    /\ Runs(c) /\ (Redis \/ ~Inside(c))
    /\ GoTo(c, IF pc[c] \in DisconnectStep THEN "gone" ELSE "idle")
    /\ buf' = [buf EXCEPT ![c] = <<>>]
    /\ Fault
    /\ UNCHANGED <<docVars, sessionVars, clientVars, saveVars, historyVars>>

(* The process that serves a session dies; with Redis the others go on.     *)
Crash(s) ==
    /\ Redis /\ s \in live
    /\ live' = live \ {s} /\ room' = room \ {s}
    /\ open' = open \ {s} /\ synced' = synced \ {s}
    /\ LET mine == {c \in Call : who[c] = s}
       IN  /\ pc' = [c \in Call |-> IF c \in mine THEN "idle" ELSE pc[c]]
           /\ who' = [c \in Call |-> IF c \in mine THEN None ELSE who[c]]
           /\ upd' = [c \in Call |-> IF c \in mine THEN {} ELSE upd[c]]
           /\ buf' = [c \in Call |-> IF c \in mine THEN <<>> ELSE buf[c]]
           /\ data' = data \ mine
    /\ saves' \in 0..saves
    /\ Fault
    /\ UNCHANGED <<docVars, pool, clientVars, owed, historyVars>>

-----------------------------------------------------------------------------
Next ==
    \/ \E c \in Call :
          \/ \E s \in Session : JoinStart(c, s) \/ Edits(c, s) \/ LeaveStart(c, s) \/ DisconnectStart(c, s)
          \/ ydoc_document_join(c) \/ yjs_document_update(c) \/ yjs_document_leave(c)
          \/ clear_document(c) \/ remove_user_from_all_documents(c) \/ LeaveRooms(c)
          \/ HandlerRaises(c)
    \/ document_save_handler
    \/ \E s \in Session : ReapSession(s) \/ heartbeat(s) \/ Crash(s)

Spec == Init /\ [][Next]_vars

-----------------------------------------------------------------------------
TypeOK ==
    /\ updates \in Seq(SUBSET Edit)
    /\ users \subseteq Session /\ index \subseteq Session
    /\ room \subseteq Session /\ live \subseteq Session /\ pool \subseteq Session
    /\ open \subseteq Session /\ synced \subseteq open
    /\ view \in [Session -> SUBSET Edit] /\ made \subseteq Edit /\ joins \in 0..MaxJoins /\ sends \in 0..MaxSends
    /\ pc \in [Call -> Step]
    /\ who \in [Call -> Session \cup {None}]
    /\ upd \in [Call -> SUBSET Edit] /\ data \subseteq Call
    /\ buf \in [Call -> Seq(SUBSET Edit)]
    /\ saves \in Nat /\ owed \in BOOLEAN
    /\ kept \subseteq Edit /\ exposed \subseteq Edit /\ announced \subseteq kept
    /\ late \in BOOLEAN
    /\ faults \in 0..MaxFaults

(* Compaction loses no edit, as long as it was not stored while another     *)
(* compaction was between its LRANGE and its pipeline; without Redis no     *)
(* edit is, so none is ever lost.                                           *)
NoEditLost ==
    /\ kept \ exposed \subseteq Content(updates)
    /\ ~Redis => kept \subseteq Content(updates)

(* A session that has joined misses nothing: what was broadcast before it   *)
(* entered the room was in the state it was sent.                           *)
JoinMissesNothing == \A s \in synced \cap room : announced \ exposed \subseteq view[s]

(* Without Redis a document is not dropped while a session has it open.     *)
ParticipantKeepsDocument == [][kept' = {} /\ kept # {} => synced = {}]_vars

(* A document that nobody has open is dropped, unless something was stored  *)
(* for it after its last user had left.                                     *)
DocumentReclaimed ==
    faults = 0 /\ Quiet /\ open = {} /\ users = {} /\ ~late => updates = <<>>

(* A pending save is cancelled only by a handler that schedules another.    *)
SaveNotDropped == faults = 0 /\ owed => \E c \in Call : pc[c] = "create"

(* "squash oldest half into one snapshot": compaction keeps every edit.     *)
EditsKept == kept \subseteq Content(updates)

(* Documents are sound (YdocManager and its handlers): the values have their *)
(* types, no edit is lost, and who joins misses none.                        *)
DocumentSound == TypeOK /\ NoEditLost /\ JoinMissesNothing

(* Sessions, edits and handler invocations are interchangeable: small instances *)
(* are checked up to their permutations.                                     *)
Symmetric == Permutations(Session) \cup Permutations(Edit) \cup Permutations(Call)
=============================================================================
