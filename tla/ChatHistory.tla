----------------------------- MODULE ChatHistory -----------------------------
(* The messages of one chat are kept twice: the history in the JSON column  *)
(* of the chat, a tree with a current message, and a row of chat_message    *)
(* for each message.  The browser saves its copy of the history, responses  *)
(* write their messages, edits and deletions come in between.               *)
(*                                                                          *)
(* A request is a program of commits.  A change of the column is a read     *)
(* and a write: PostgreSQL locks the row between them where the code asks   *)
(* (FOR UPDATE), SQLite never does.                                         *)
EXTENDS Naturals, Sequences, FiniteSets, Functions, Server

CONSTANTS
    Msg,             \* ids of messages
    HistoryClient,   \* requests in progress
    Dialect,         \* "postgresql", "sqlite"
    MaxHistoryCalls, \* bound: requests
    MaxRowFails      \* bound: writes of rows that fail

ASSUME HistoryAssumption ==
    Dialect \subseteq {"postgresql", "sqlite"} /\ MaxHistoryCalls \in Nat /\ MaxRowFails \in Nat

VARIABLES dialect, hist, rowsOf, page, edit, historyCalls, rowFails, uncrossed, gone, born

historyVars == <<dialect, hist, rowsOf, page, edit, historyCalls, rowFails, uncrossed, gone, born>>

Empty == [msgs |-> [m \in {} |-> None], cur |-> None]
NoRow == [parent |-> None, text |-> None]
Resting == [prog |-> <<>>, seen |-> None, out |-> Empty, dead |-> {}]

HistoryInit ==
    /\ dialect \in Dialect /\ hist = Empty
    /\ rowsOf = [m \in Msg |-> NoRow]
    /\ page = Empty                       \* what the browser shows
    /\ edit = [c \in HistoryClient |-> Resting]
    /\ historyCalls = 0 /\ rowFails = 0
    /\ uncrossed = TRUE   \* no two requests wrote one message at a time, no row was missed
    /\ gone = {} /\ born = {}   \* messages that a request deleted, that the browser ever named

Ids(h) == DOMAIN h.msgs
-----------------------------------------------------------------------------
(* Operations on the JSON: each gives the histories it may leave.           *)

\* last_descendant_id: some leaf below m, the newest branch first.
Below(h, m) ==
    LET n == Cardinality(Ids(h))
        f[i \in 0..n] == IF i = 0 THEN {m} ELSE f[i - 1] \cup (Ids(h) \cap UNION {h.msgs[x].kids : x \in f[i - 1]})
    IN f[n]
Leaves(h, ms) == {m \in ms : h.msgs[m].kids \cap Ids(h) = {}}
add_child_id_to_parent(h, m) ==
    LET p == h.msgs[m].parent IN
    IF p \in Ids(h) THEN [h EXCEPT !.msgs[p].kids = @ \cup {m}] ELSE h
repair_chat_current_id(h0) ==
    LET h == [h0 EXCEPT !.msgs = [m \in Ids(h0) |->
                 [h0.msgs[m] EXCEPT !.kids = @ \cup {k \in Ids(h0) : h0.msgs[k].parent = m}]]]
        leaves == {m \in Ids(h) : h.msgs[m].kids = {}} IN
    IF h.cur \in Ids(h)
    THEN IF h.msgs[h.cur].text = "summary" /\ Leaves(h, Below(h, h.cur)) # {}
         THEN {[h EXCEPT !.cur = m] : m \in Leaves(h, Below(h, h.cur))} ELSE {h}
    ELSE IF leaves = {} THEN {h} ELSE {[h EXCEPT !.cur = m] : m \in leaves}

merge_history_Unmerged(h, new) == new
merge_history(h, new) ==
    LET merged == [m \in Ids(h) \cup Ids(new) |-> IF m \in Ids(new) THEN new.msgs[m] ELSE h.msgs[m]] IN
    [msgs |-> [m \in DOMAIN merged |->
                  [merged[m] EXCEPT !.kids = {k \in DOMAIN merged : merged[k].parent = m}]],
     cur |-> IF new.cur \in DOMAIN merged THEN new.cur
             ELSE IF h.cur \in DOMAIN merged THEN h.cur ELSE None]

\* Data names the fields it has; a new message without a parent takes the one
\* that lists it among its children.
Has(d, f) == f \in DOMAIN d
Over(msg, d) == [f \in DOMAIN msg |-> IF Has(d, f) THEN d[f] ELSE msg[f]]
upsert_message_to_history(h, m, d) ==
    LET listing == {p \in Ids(h) : m \in h.msgs[p].kids}
        parents == IF Has(d, "parent") /\ d.parent # None THEN {d.parent}
                   ELSE IF listing = {} THEN {None} ELSE listing
        new(p) == [parent |-> p, kids |-> IF Has(d, "kids") THEN d.kids ELSE {},
                   text |-> IF Has(d, "text") THEN d.text ELSE "none"] IN
    IF m \in Ids(h) THEN {add_child_id_to_parent([h EXCEPT !.msgs[m] = Over(@, d)], m)}
    ELSE {add_child_id_to_parent([msgs |-> [x \in Ids(h) \cup {m} |-> IF x = m THEN new(p) ELSE h.msgs[x]],
                                   cur |-> m], m) : p \in parents}

Deleted(h, m) == IF m \in Ids(h) THEN {m} \cup (h.msgs[m].kids \cap Ids(h)) ELSE {}
\* As it would be if only the message went.
delete_message_from_history_Alone(h, m) ==
    {IF m \in Ids(h) THEN [msgs |-> [x \in Ids(h) \ {m} |-> h.msgs[x]], cur |-> h.cur] ELSE h}
\* The message and its children go, its grandchildren move up to its parent.
delete_message_from_history(h, m) ==
    LET p == h.msgs[m].parent
        dead == Deleted(h, m)
        grand == UNION {h.msgs[k].kids \cap Ids(h) : k \in dead \ {m}}
        left == [x \in Ids(h) \ dead |->
                    [h.msgs[x] EXCEPT !.parent = IF x \in grand THEN p ELSE @,
                                      !.kids = IF x = p THEN (@ \ {m}) \cup grand ELSE @]]
        tree == [msgs |-> left, cur |-> None]
        tops == IF p = None THEN {x \in DOMAIN left : left[x].parent = None} ELSE {p} \cap DOMAIN left
        ends == Leaves(tree, UNION {Below(tree, x) : x \in tops}) IN
    IF dead = {} THEN {h}
    ELSE IF ends = {} THEN {tree} ELSE {[tree EXCEPT !.cur = x] : x \in ends}

Rewritten(h, s) ==
    CASE s.do = "save" -> {merge_history(h, s.form)}
      [] s.do = "upsert" -> UNION {upsert_message_to_history(g, s.m, s.data) : g \in repair_chat_current_id(h)}
      [] s.do = "delete" -> UNION {delete_message_from_history(g, s.m) : g \in repair_chat_current_id(h)}
      [] s.do \in {"status", "repair"} -> repair_chat_current_id(h)
      [] s.do \in {"title", "files"} -> {h}
-----------------------------------------------------------------------------
(* Programs                                                                 *)
Op(do, m) == [do |-> do, m |-> m, data |-> <<>>, form |-> Empty]
Put(m, d) == <<[Op("upsert", m) EXCEPT !.data = d], Op("row", m)>>

update_chat_by_id(form) == <<[Op("save", None) EXCEPT !.form = form], Op("reconcile", None)>>
update_chat_title_by_id == <<Op("title", None)>>
get_chat_by_id == <<Op("repair", None)>>
get_messages_map_by_chat_id == <<Op("map", None), Op("reconcile", None)>>
update_chat_message_by_id(m, t) == get_chat_by_id \o Put(m, [text |-> t])
delete_chat_message_by_id(m) ==
    get_chat_by_id \o <<Op("delete", m), Op("reconcile", None), Op("unrow", None)>>
add_message_status(m) == <<Op("status", m)>>
add_message_files(m) == <<Op("files", m)>>
compact_chat_branch(m) == get_messages_map_by_chat_id \o Put(m, [text |-> "summary"])
\* A turn: the user's message, its place in the tree, the message that answers it ...
chat_turn(p, u, a) ==
    <<Op("files", None)>> \o Put(u, [parent |-> p, text |-> "asked"])
    \o (IF p = None THEN <<>> ELSE <<Op("siblings", p)>> \o Put(p, [kids |-> {u}]))
    \o <<Op("siblings", u)>> \o Put(u, [kids |-> {a}])
    \o Put(a, [parent |-> u, kids |-> {}, text |-> "none"])
\* ... and what the response writes of it.
response(a) == Put(a, [text |-> "answer"])
delete_chat_by_id == get_chat_by_id \o <<Op("drop", None)>>

Writing(p) == {p[i].m : i \in {j \in 1..Len(p) : p[j].do \in {"upsert", "row", "delete"}}}
Whole(p) == \E i \in 1..Len(p) : p[i].do \in {"save", "delete", "map", "reconcile", "unrow", "drop"}
Column(p) == \E i \in 1..Len(p) : p[i].do \notin {"row", "unrow", "reconcile", "map"}
\* Two requests that are out of each other's way.
Compatible(p, q) ==
    \/ p = <<>> \/ q = <<>>
    \/ /\ dialect = "postgresql" \/ ~(Column(p) /\ Column(q))
       /\ ~Whole(p) /\ ~Whole(q) /\ Writing(p) \cap Writing(q) = {}

Start(c, prog) ==
    /\ historyCalls < MaxHistoryCalls /\ historyCalls' = historyCalls + 1
    /\ edit[c].prog = <<>> /\ c = CHOOSE x \in HistoryClient : edit[x].prog = <<>>
    /\ hist # None
    /\ edit' = [edit EXCEPT ![c] = [Resting EXCEPT !.prog = prog]]
    /\ uncrossed' = (uncrossed /\ \A d \in HistoryClient : Compatible(prog, edit[d].prog))
    /\ UNCHANGED <<dialect, hist, rowsOf, rowFails, gone>>

Unborn == Msg \ born
\* The browser loads the chat, and saves its copy after it was edited there.
Load == hist # None /\ page # hist /\ page' = hist
        /\ UNCHANGED <<dialect, hist, rowsOf, edit, historyCalls, rowFails, uncrossed, gone, born>>
SavePage(c) ==
    \E m \in Ids(page) : \E form \in {[page EXCEPT !.cur = m], [page EXCEPT !.msgs[m].text = "edited"]} :
        Start(c, update_chat_by_id(form)) /\ page' = form /\ UNCHANGED born
SendTurn(c) ==
    \E u, a \in Unborn :
        /\ u # a /\ u = CHOOSE x \in Unborn : TRUE
        /\ Start(c, chat_turn(page.cur, u, a)) /\ born' = born \cup {u, a} /\ UNCHANGED page
OnMessage(c, m) ==
    \/ Start(c, update_chat_message_by_id(m, "edited")) \/ Start(c, delete_chat_message_by_id(m))
    \/ Start(c, response(m)) \/ Start(c, add_message_status(m)) \/ Start(c, add_message_files(m))
    \/ Start(c, compact_chat_branch(m))
OnChat(c) ==
    \/ hist # None /\ hist.cur \notin Ids(hist) /\ Start(c, get_chat_by_id)
    \/ Start(c, update_chat_title_by_id)
    \/ Start(c, get_messages_map_by_chat_id) \/ Start(c, delete_chat_by_id)
-----------------------------------------------------------------------------
Doing(c) == Head(edit[c].prog)
Does(c, dos) == edit[c].prog # <<>> /\ Doing(c).do \in dos
\* The call ends early: what follows its failed commit is not done.
Ends(c) == edit' = [edit EXCEPT ![c] = Resting]
Goes(c, seen, out, dead) ==
    edit' = [edit EXCEPT ![c] = IF Tail(@.prog) = <<>> THEN Resting
                                ELSE [prog |-> Tail(@.prog), seen |-> seen, out |-> out, dead |-> dead]]
Locked(s) == dialect = "postgresql" /\ s.do # "repair"
ColumnOps == {"save", "upsert", "delete", "status", "title", "files", "repair"}

ReadColumn(c) ==
    /\ Does(c, ColumnOps) /\ ~Locked(Doing(c)) /\ edit[c].seen = None
    /\ IF hist = None THEN Ends(c) ELSE edit' = [edit EXCEPT ![c].seen = hist]
    /\ UNCHANGED <<hist, rowsOf, gone>>
WriteColumn(c) ==
    LET s == Doing(c)
        seen == IF Locked(s) THEN hist ELSE edit[c].seen IN
    /\ Does(c, ColumnOps) /\ (Locked(s) \/ edit[c].seen # None)
    /\ IF hist = None THEN Ends(c) /\ UNCHANGED <<hist, gone>>
       ELSE \E h \in Rewritten(seen, s) :
               LET dead == IF s.do = "delete" THEN Ids(seen) \ Ids(h) ELSE {} IN
               /\ hist' = IF s.do = "repair" /\ h = seen THEN hist ELSE h
               /\ gone' = gone \cup dead
               /\ IF s.do = "delete" /\ dead = {} THEN Ends(c) ELSE Goes(c, None, h, dead)
    /\ UNCHANGED rowsOf

\* StoredRows refer to their chat; SQLite does not enforce it.
MayHaveRows == hist # None \/ dialect = "sqlite"
RowOf(msg) == [parent |-> msg.parent, text |-> msg.text]
upsert_message(c) ==
    /\ Does(c, {"row"})
    /\ rowsOf' = IF MayHaveRows THEN [rowsOf EXCEPT ![Doing(c).m] = RowOf(edit[c].out.msgs[Doing(c).m])] ELSE rowsOf
    /\ Goes(c, None, Empty, {}) /\ UNCHANGED <<hist, gone>>
backfill_messages_by_chat_id(c) ==
    /\ Does(c, {"reconcile"})
    /\ rowsOf' = IF MayHaveRows THEN [m \in Msg |-> IF m \in Ids(edit[c].out) THEN RowOf(edit[c].out.msgs[m]) ELSE rowsOf[m]]
                 ELSE rowsOf
    /\ Goes(c, None, edit[c].out, edit[c].dead) /\ UNCHANGED <<hist, gone>>
delete_message_ids_by_chat_id(c) ==
    /\ Does(c, {"unrow"})
    /\ rowsOf' = [m \in Msg |-> IF m \in edit[c].dead THEN NoRow ELSE rowsOf[m]]
    /\ Goes(c, None, Empty, {}) /\ UNCHANGED <<hist, gone>>
\* A row that cannot be written is logged, and the request goes on.
RowFails(c) ==
    /\ Does(c, {"row", "reconcile"}) /\ rowFails < MaxRowFails /\ rowFails' = rowFails + 1
    /\ Goes(c, None, edit[c].out, edit[c].dead) /\ uncrossed' = FALSE /\ UNCHANGED <<hist, rowsOf, gone>>

StoredRows == {m \in Msg : rowsOf[m] # NoRow}
Unresolved == {rowsOf[m].parent : m \in StoredRows} \ (StoredRows \cup {None})
\* The map is made of the rows; what they miss comes from the column.
ReadMap(c) ==
    /\ Does(c, {"map"})
    /\ LET wanted == IF hist = None THEN {} ELSE IF StoredRows = {} THEN Ids(hist) ELSE Unresolved \cap Ids(hist) IN
       Goes(c, None, [Empty EXCEPT !.msgs = [m \in wanted |-> hist.msgs[m]]], {})
    /\ UNCHANGED <<hist, rowsOf, gone>>
\* The children of a message, by the rows, are written back with one more.
ReadSiblings(c) ==
    LET m == Doing(c).m
        kids == {k \in StoredRows : rowsOf[k].parent = m}
        put == edit[c].prog[2] IN
    /\ Does(c, {"siblings"})
    /\ edit' = [edit EXCEPT ![c].prog =
                   IF m \notin StoredRows \/ put.data.kids \subseteq kids THEN SubSeq(@, 4, Len(@))
                   ELSE <<[put EXCEPT !.data.kids = @ \cup kids]>> \o SubSeq(@, 3, Len(@))]
    /\ UNCHANGED <<hist, rowsOf, gone>>
DropChat(c) ==
    /\ Does(c, {"drop"}) /\ hist' = None /\ rowsOf' = [m \in Msg |-> NoRow]
    /\ Ends(c) /\ UNCHANGED gone

HistoryStep(c) ==
    /\ \/ /\ \/ ReadColumn(c) \/ WriteColumn(c) \/ upsert_message(c) \/ backfill_messages_by_chat_id(c)
             \/ delete_message_ids_by_chat_id(c) \/ ReadMap(c) \/ ReadSiblings(c) \/ DropChat(c)
          /\ UNCHANGED <<rowFails, uncrossed>>
       \/ RowFails(c)
    /\ UNCHANGED <<dialect, page, historyCalls, born>>

HistoryNext ==
    \/ Load
    \/ \E c \in HistoryClient :
          \/ HistoryStep(c) \/ SavePage(c) \/ SendTurn(c)
          \/ \E m \in Msg : hist # None /\ m \in Ids(hist) /\ OnMessage(c, m) /\ UNCHANGED <<page, born>>
          \/ OnChat(c) /\ UNCHANGED <<page, born>>
-----------------------------------------------------------------------------
HistoryTypeOK ==
    /\ dialect \in Dialect /\ historyCalls \in 0..MaxHistoryCalls /\ rowFails \in 0..MaxRowFails
    /\ hist # None => \A m \in Ids(hist) : m \in Msg /\ hist.msgs[m].parent \in Msg \cup {None}
                                          /\ hist.msgs[m].kids \subseteq Msg

HistoryQuiet == \A c \in HistoryClient : edit[c].prog = <<>>
\* Messages from which the way up has n more messages.
Ancestry(h, n) ==
    LET f[i \in 0..n] == IF i = 0 THEN Ids(h) ELSE {m \in Ids(h) : h.msgs[m].parent \in f[i - 1]} IN f[n]

\* Whatever requests overlap, on either database: the current message exists,
\* and the way up from a message ends (get_message_list and a fork walk it).
HistorySound ==
    hist # None =>
        /\ hist.cur \in Ids(hist) \cup {None}
        /\ Ancestry(hist, Cardinality(Ids(hist))) = {}

\* The rows, which the next prompt is made of, tell what the history tells once
\* the requests are done, if no two of them wrote the same message.
MirrorFollows ==
    HistoryQuiet /\ uncrossed /\ hist # None =>
        \A m \in Msg : rowsOf[m] = IF m \in Ids(hist) THEN RowOf(hist.msgs[m]) ELSE NoRow

\* On PostgreSQL, whose row locks order the changes, a message stays in the
\* history until a request deletes it (or the repair of a read, which no lock
\* covers, writes back a history that has changed since).
RepairWrites == \E c \in HistoryClient : Does(c, {"repair"}) /\ edit[c].seen # None
                                         /\ edit'[c].prog # edit[c].prog
MessagesOutlive ==
    dialect = "postgresql" /\ hist # None /\ hist' # None /\ ~RepairWrites => Ids(hist) \ Ids(hist') \subseteq gone'
=============================================================================
