------------------------------ MODULE ChatShelf ------------------------------
(* What is kept around chats: folders, tags, shared snapshots and their      *)
(* grants.  Each of them refers to others (a chat to its folder, its tags    *)
(* and its snapshot; a folder to its parent), no reference is checked by the *)
(* database, and a request changes them one commit after another.            *)
EXTENDS Naturals, Sequences, FiniteSets, SequencesExt, Server

CONSTANTS
    Chat, Folder, Tag, ShareId, Owner, ShelfClient,
    Cascades,        \* foreign keys are enforced (PostgreSQL): a snapshot goes with its chat
    ShareLimit,      \* shares that a listing returns (50)
    MaxShelfRequests \* bound: requests

ASSUME ShelfAssumption == Cascades \in BOOLEAN /\ ShareLimit \in Nat /\ MaxShelfRequests \in Nat

VARIABLES shelf,    \* the tables
          chore,   \* per client: the commits it has yet to make, the folders it removed, what it concerns
          shelfRequests,
          orderly,  \* no two requests crossed each other, nothing was done that loses track of tags
          used      \* ids of chats and snapshots that were given away

shelfVars == <<shelf, chore, shelfRequests, orderly, used>>

NoChat == [in |-> FALSE, owner |-> None, folder |-> None, archived |-> FALSE, share |-> None, tags |-> {}]
NoFolder == [in |-> FALSE, owner |-> None, parent |-> None]
NoChore == [prog |-> <<>>, gone |-> {}, about |-> {}]
Chats(d) == {c \in Chat : d.chat[c].in}
Folders(d) == {f \in Folder : d.folder[f].in}
Snaps(d, c) == {s \in d.snap : s.chat = c}
Kids(d, f) == {k \in Folders(d) : d.folder[k].parent = f}
\* get_folder_ids_by_id_and_user_id_in_subtree; ancestors, the way has_folder_access climbs.
Reached(d, f) ==
    LET up[i \in 0..Cardinality(Folder)] ==
            IF i = 0 THEN {f} ELSE up[i - 1] \cup {k \in Folders(d) : d.folder[k].parent \in up[i - 1]}
    IN up[Cardinality(Folder)]
Above(d, f) == {g \in Folders(d) : f \in Reached(d, g)}
is_in_parent_cycle(d, f) == \E k \in Kids(d, f) : f \in Reached(d, k)

\* An account has a folder in a folder, and a chat.
ShelfInit ==
    LET o == CHOOSE x \in Owner : TRUE
        c == CHOOSE x \in Chat : TRUE
        top == CHOOSE x \in Folder : TRUE
        sub == CHOOSE x \in Folder : x # top IN
    \E ts \in SUBSET Tag, a \in BOOLEAN, f \in {top, None} :
        /\ a => f = None /\ ts # {}
        /\ shelf = [chat |-> [x \in Chat |-> IF x # c THEN NoChat
                               ELSE [NoChat EXCEPT !.in = TRUE, !.owner = o, !.folder = f, !.archived = a, !.tags = ts]],
                    folder |-> [x \in Folder |-> IF x = top THEN [in |-> TRUE, owner |-> o, parent |-> None]
                                                 ELSE IF x = sub THEN [in |-> TRUE, owner |-> o, parent |-> top] ELSE NoFolder],
                    snap |-> {}, grants |-> {}, tag |-> IF a THEN {} ELSE ts \X {o}, auto |-> sub]
        /\ chore = [x \in ShelfClient |-> NoChore]
        /\ shelfRequests = 0 /\ orderly = TRUE /\ used = {c}

-----------------------------------------------------------------------------
(* Commits: s.x is the row, s.v what is written.                            *)
Cmt(name, x, v) == [do |-> name, x |-> x, v |-> v]
SetField(d, c, field, v) ==
    IF ~d.chat[c].in THEN d ELSE [d EXCEPT !.chat[c] = [@ EXCEPT ![field] = v]]
insert_new_chat(d, c, v) == [d EXCEPT !.chat[c] = v]
\* import_chats leaves out a folder its owner does not have.
import_chats(d, c, v) ==
    insert_new_chat(d, c, [v EXCEPT !.folder = IF @ \in Folders(d) /\ d.folder[@].owner = v.owner THEN @ ELSE None])
toggle_chat_archive_by_id(d, c) ==
    IF ~d.chat[c].in THEN d ELSE [d EXCEPT !.chat[c].archived = ~@, !.chat[c].folder = None]
update_chat_folder_id(d, c, f) ==
    IF ~d.chat[c].in THEN d ELSE [d EXCEPT !.chat[c].folder = f, !.chat[c].archived = @ /\ f = None]
archive_all_chats(d, u, a) == [d EXCEPT !.chat = [c \in Chat |-> IF @[c].owner = u THEN [@[c] EXCEPT !.archived = a] ELSE @[c]]]
DropChats(d, cs) ==
    [d EXCEPT !.chat = [c \in Chat |-> IF c \in cs THEN NoChat ELSE @[c]],
              !.snap = {s \in @ : ~Cascades \/ s.chat \notin cs}]
move_chats(d, cs) == [d EXCEPT !.chat = [c \in Chat |-> IF c \in cs THEN [@[c] EXCEPT !.folder = None] ELSE @[c]]]
In(d, u, f) == {c \in Chats(d) : d.chat[c].owner = u /\ d.chat[c].folder = f}
\* SharedChats.create, delete_by_chat_id, delete_all_by_user_id
create_snapshot(d, c, id) == IF d.chat[c].in THEN [d EXCEPT !.snap = @ \cup {[id |-> id, chat |-> c, by |-> d.chat[c].owner]}] ELSE d
delete_by_chat_id(d, c) == [d EXCEPT !.snap = @ \ Snaps(d, c)]
delete_all_by_user_id(d, u) == [d EXCEPT !.snap = {s \in @ : s.by # u}]
delete_shared_chats_by_user_id(d, u) ==
    [delete_all_by_user_id(d, u) EXCEPT !.chat = [c \in Chat |-> IF @[c].owner = u THEN [@[c] EXCEPT !.share = None] ELSE @[c]]]
ensure_tags_exist(d, u, ts) == [d EXCEPT !.tag = @ \cup (ts \X {u})]
delete_tags(d, u, ts) == [d EXCEPT !.tag = @ \ (ts \X {u})]
count_chats_by_tag(d, u, t) == Cardinality({c \in Chats(d) : d.chat[c].owner = u /\ ~d.chat[c].archived /\ t \in d.chat[c].tags})
add_chat_tag(d, c, t) == SetField(d, c, "tags", d.chat[c].tags \cup {t})
delete_chat_tag(d, c, t) == SetField(d, c, "tags", d.chat[c].tags \ {t})
clear_folder_ids(d, fs) == [d EXCEPT !.auto = IF @ \in fs THEN None ELSE @]
Reparent(d, f, p) == IF d.folder[f].in THEN [d EXCEPT !.folder[f].parent = p] ELSE d

Written(d, s) ==
    CASE s.do = "chat" -> insert_new_chat(d, s.x, s.v)
      [] s.do = "import" -> import_chats(d, s.x, s.v)
      [] s.do = "archive" -> toggle_chat_archive_by_id(d, s.x)
      [] s.do = "archive_all" -> archive_all_chats(d, s.x, s.v)
      [] s.do = "file" -> update_chat_folder_id(d, s.x, s.v)
      [] s.do = "drop" -> DropChats(d, {s.x})
      [] s.do = "drop_all" -> DropChats(d, {c \in Chat : d.chat[c].owner = s.x})
      [] s.do = "empty" -> IF s.v.delete THEN DropChats(d, In(d, s.v.owner, s.x)) ELSE move_chats(d, In(d, s.v.owner, s.x))
      [] s.do = "snap" -> create_snapshot(d, s.x, s.v)
      [] s.do = "unsnap" -> delete_by_chat_id(d, s.x)
      [] s.do = "unsnap_user" -> delete_all_by_user_id(d, s.x)
      [] s.do = "unshare_user" -> delete_shared_chats_by_user_id(d, s.x)
      [] s.do = "share_id" -> SetField(d, s.x, "share", s.v)
      [] s.do = "grant" -> [d EXCEPT !.grants = @ \cup {s.x}]
      [] s.do = "revoke" -> [d EXCEPT !.grants = @ \ {s.x}]
      [] s.do = "tags" -> SetField(d, s.x, "tags", s.v)
      [] s.do = "add_tag" -> add_chat_tag(d, s.x, s.v)
      [] s.do = "del_tag" -> delete_chat_tag(d, s.x, s.v)
      [] s.do = "ensure" -> ensure_tags_exist(d, s.x, s.v)
      [] s.do = "untag" -> delete_tags(d, s.x, s.v)
      [] s.do = "folder" -> [d EXCEPT !.folder[s.x] = s.v]
      [] s.do = "parent" -> Reparent(d, s.x, s.v)
      [] s.do = "rm" -> [d EXCEPT !.folder[s.x] = NoFolder]
      [] s.do = "clear_auto" -> clear_folder_ids(d, s.v)
      [] OTHER -> d

\* What a step reads decides what is to do after it.
StillUsed(d, u, ts, threshold) == {t \in ts : count_chats_by_tag(d, u, t) > threshold}
Untag(u, ts) == IF ts = {} THEN <<>> ELSE <<Cmt("untag", u, ts)>>
Orphans(u, ts, threshold) == IF ts = {} THEN <<>> ELSE <<Cmt("orphans", u, [tags |-> ts, threshold |-> threshold])>>
Ensure(u, ts) == IF ts = {} THEN <<>> ELSE <<Cmt("ensure", u, ts)>>
Unshared(c) == <<Cmt("share_id", c, None), Cmt("revoke", c, None)>>
Contents(u, gone, delete) ==
    FlattenSeq([i \in 1..Cardinality(gone) |->
        LET f == SetToSeq(gone)[i] IN <<Cmt("empty", f, [owner |-> u, delete |-> delete]), Cmt("revoke", f, None)>>])
    \o <<Cmt("clear_auto", u, gone)>>
Follows(d, s, gone) ==
    CASE s.do = "orphans" -> Untag(s.x, s.v.tags \ StillUsed(d, s.x, s.v.tags, s.v.threshold))
      [] s.do = "archive" -> IF d.chat[s.x].archived THEN Ensure(s.v, d.chat[s.x].tags) ELSE Orphans(s.v, d.chat[s.x].tags, 0)
      [] s.do = "snap" -> <<Cmt("share_id", s.x, s.v)>>
      \* delete_children: the children are listed, each goes after its own.
      [] s.do = "children" ->
            FlattenSeq([i \in 1..Cardinality(Kids(d, s.x)) |->
                LET k == SetToSeq(Kids(d, s.x))[i] IN <<Cmt("children", k, None), Cmt("rm", k, None)>>])
      [] s.do = "rm" /\ s.v # None -> Contents(s.v.owner, gone \cup {s.x}, s.v.delete)
      [] OTHER -> <<>>

-----------------------------------------------------------------------------
(* Requests: their checks, then their commits.                              *)
\* What a request concerns; two that concern the same thing cross each other.
Concerns(s) ==
    (IF s.do \in {"snap", "unsnap", "share_id", "refresh", "unsnap_user", "unshare_user", "drop", "empty"} THEN {"shares"} ELSE {})
    \cup (IF s.do \in {"tags", "add_tag", "del_tag", "ensure", "orphans", "archive", "archive_all", "drop", "drop_all", "chat", "import", "file"} THEN {"tags"} ELSE {})
    \cup (IF s.do \in {"children", "rm", "parent", "folder", "file", "chat", "import"} THEN {"folders"} ELSE {})
About(prog) == UNION {Concerns(prog[i]) : i \in 1..Len(prog)}
Ask(c, sound, prog) ==
    /\ shelfRequests < MaxShelfRequests /\ shelfRequests' = shelfRequests + 1
    /\ chore[c].prog = <<>> /\ c = CHOOSE x \in ShelfClient : chore[x].prog = <<>>
    /\ chore' = [chore EXCEPT ![c] = [NoChore EXCEPT !.prog = prog, !.about = About(prog)]]
    /\ orderly' = (orderly /\ sound /\ \A e \in ShelfClient : About(prog) \cap chore[e].about = {})
    /\ UNCHANGED shelf
Asks(c, prog) == Ask(c, TRUE, prog) /\ UNCHANGED used
Mine(u) == {c \in Chats(shelf) : shelf.chat[c].owner = u}
Fresh(S) == IF S \ used = {} THEN {} ELSE {CHOOSE x \in S \ used : TRUE}   \* ids are alike
MayWrite(u, f) ==
    \E g \in Above(shelf, f) : shelf.folder[g].owner = u \/ g \in shelf.grants
Untracked(c) == shelf.chat[c].tags \X {shelf.chat[c].owner} \subseteq shelf.tag

create_new_chat(c, u) ==
    \E x \in Fresh(Chat), f \in Folders(shelf) \cup {None} :
        /\ f # None => MayWrite(u, f)
        /\ Ask(c, TRUE, <<Cmt("chat", x, [NoChat EXCEPT !.in = TRUE, !.owner = u, !.folder = f])>>) /\ used' = used \cup {x}
\* A fork keeps the folder, a clone checks it; both keep the tags of the chat.
fork_chat_by_id(c, u) ==
    \E o \in Mine(u), x \in Fresh(Chat), how \in {"chat", "import"} :
        /\ Ask(c, Untracked(o),
               <<Cmt(how, x, [shelf.chat[o] EXCEPT !.share = None, !.archived = FALSE])>>) /\ used' = used \cup {x}
archive_chat_by_id(c, u) == \E x \in Mine(u) : Asks(c, <<Cmt("archive", x, u)>>)
archive_all(c, u) ==
    \E a \in BOOLEAN : Ask(c, a \/ \A x \in Mine(u) : Untracked(x), <<Cmt("archive_all", u, a)>>) /\ UNCHANGED used
update_chat_folder_id_by_id(c, u) ==
    \E x \in Mine(u), f \in Folders(shelf) \cup {None} :
        /\ f # None => MayWrite(u, f)
        /\ Ask(c, Untracked(x), <<Cmt("file", x, f)>>) /\ UNCHANGED used
\* An administrator may be the one who deletes; an archived chat is not among those counted.
delete_chat_by_id(c, u) ==
    \E x \in Chats(shelf) :
        /\ Ask(c, shelf.chat[x].owner = u /\ (shelf.chat[x].archived => shelf.chat[x].tags = {}),
               Orphans(u, shelf.chat[x].tags, 1) \o <<Cmt("drop", x, None), Cmt("unsnap", x, None)>>) /\ UNCHANGED used
delete_all_user_chats(c, u) == Asks(c, <<Cmt("unshare_user", u, None), Cmt("drop_all", u, None)>>)

share_chat_by_id(c, u) ==
    \E x \in Mine(u), id \in Fresh(ShareId) :
        IF \E s \in Snaps(shelf, x) : s.id = shelf.chat[x].share THEN Asks(c, <<Cmt("refresh", x, None)>>)
        ELSE Ask(c, TRUE, <<Cmt("snap", x, id)>>) /\ used' = used \cup {id}
unshare_KeepId(x) == <<Cmt("unsnap", x, None), Cmt("revoke", x, None)>>
unshare(x) ==
    <<Cmt("unsnap", x, None)>> \o (IF shelf.chat[x].share = None THEN <<>> ELSE <<Cmt("share_id", x, None)>>)
    \o <<Cmt("revoke", x, None)>>
delete_shared_chat_by_id(c, u) == \E x \in Mine(u) : Asks(c, unshare(x))
unshare_all_chats(c, u) ==
    LET shared == {s.chat : s \in {z \in shelf.snap : z.by = u}} IN
    \E xs \in SUBSET shared :
        /\ Cardinality(xs) = IF Cardinality(shared) > ShareLimit THEN ShareLimit ELSE Cardinality(shared)
        /\ Asks(c, <<Cmt("unsnap_user", u, None)>>
                      \o FlattenSeq([i \in 1..Cardinality(xs) |-> Unshared(SetToSeq(xs)[i])]))
update_shared_chat_access_by_id(c, u) == \E x \in Mine(u), op \in {"grant", "revoke"} : Asks(c, <<Cmt(op, x, None)>>)

add_tag_by_id_and_tag_name(c, u) ==
    \E x \in Mine(u), t \in Tag : t \notin shelf.chat[x].tags /\ Asks(c, <<Cmt("ensure", u, {t}), Cmt("add_tag", x, t)>>)
delete_tag_by_id_and_tag_name(c, u) ==
    \E x \in Mine(u), t \in Tag : Asks(c, <<Cmt("del_tag", x, t)>> \o Orphans(u, {t}, 0))
\* Tags that a model chose after a completion.
update_chat_tags_by_id(c, u) ==
    \E x \in Mine(u), ts \in SUBSET Tag :
        Asks(c, <<Cmt("tags", x, ts)>> \o Ensure(u, ts) \o Orphans(u, shelf.chat[x].tags \ ts, 0))

create_folder(c, u) ==
    \E f \in Folder \ Folders(shelf), p \in Folders(shelf) \cup {None} :
        /\ p # None => MayWrite(u, p)
        /\ \A e \in ShelfClient : \A i \in 1..Len(chore[e].prog) : chore[e].prog[i].x # f
        /\ Asks(c, <<Cmt("folder", f, [in |-> TRUE, owner |-> IF p = None THEN u ELSE shelf.folder[p].owner, parent |-> p])>>)
update_folder_parent_id_by_id(c, u) ==
    \E f \in Folders(shelf), p \in Folders(shelf) \cup {None} :
        /\ shelf.folder[f].owner = u /\ p \notin Reached(shelf, f) /\ Asks(c, <<Cmt("parent", f, p)>>)
\* The list puts folders that are in a cycle, or below nothing, at the top.
get_folders(c, u) ==
    LET own == {f \in Folders(shelf) : shelf.folder[f].owner = u}
        cyclic == {f \in own : is_in_parent_cycle(shelf, f)}
        lost == {f \in own : shelf.folder[f].parent # None /\ shelf.folder[f].parent \notin own} IN
    \E cut \in SUBSET cyclic :
        /\ \A f \in cyclic : Cardinality(cut \cap Reached(shelf, f)) = 1
        /\ cut \cup lost # {}
        /\ Asks(c, SetToSeq({Cmt("parent", f, None) : f \in cut \cup lost}))
update_folder_access_by_id(c, u) ==
    \E f \in Folders(shelf), op \in {"grant", "revoke"} : shelf.folder[f].owner = u /\ Asks(c, <<Cmt(op, f, None)>>)
delete_folder_by_id(c, u) ==
    \E f \in Folders(shelf), delete \in BOOLEAN :
        LET o == shelf.folder[f].owner
            alone == \A x \in Chats(shelf) : shelf.chat[x].folder \in Reached(shelf, f) => shelf.chat[x].owner = o IN
        Ask(c, alone /\ ~(delete /\ ~Cascades), <<Cmt("children", f, None), Cmt("rm", f, [owner |-> o, delete |-> delete])>>)
        /\ UNCHANGED used

Requested(c, u) ==
    \/ create_new_chat(c, u) \/ fork_chat_by_id(c, u) \/ archive_chat_by_id(c, u) \/ archive_all(c, u)
    \/ update_chat_folder_id_by_id(c, u) \/ delete_chat_by_id(c, u) \/ delete_all_user_chats(c, u)
    \/ share_chat_by_id(c, u) \/ delete_shared_chat_by_id(c, u) \/ unshare_all_chats(c, u)
    \/ update_shared_chat_access_by_id(c, u)
    \/ add_tag_by_id_and_tag_name(c, u) \/ delete_tag_by_id_and_tag_name(c, u) \/ update_chat_tags_by_id(c, u)
    \/ create_folder(c, u) \/ update_folder_parent_id_by_id(c, u) \/ get_folders(c, u)
    \/ update_folder_access_by_id(c, u) \/ delete_folder_by_id(c, u)

ShelfStep(c) ==
    LET s == Head(chore[c].prog) IN
    /\ chore[c].prog # <<>>
    /\ IF (s.do = "rm" /\ s.v = None /\ ~shelf.folder[s.x].in) \/ (s.do \in {"snap", "share_id"} /\ ~shelf.chat[s.x].in)
       THEN chore' = [chore EXCEPT ![c] = NoChore] /\ UNCHANGED shelf   \* the call raises
       ELSE /\ shelf' = Written(shelf, s)
            /\ LET rest == Follows(shelf, s, chore[c].gone) \o Tail(chore[c].prog) IN
               chore' = [chore EXCEPT ![c] =
                   IF rest = <<>> THEN NoChore
                   ELSE [@ EXCEPT !.prog = rest, !.gone = IF s.do = "rm" THEN @ \cup {s.x} ELSE @]]
    /\ UNCHANGED <<shelfRequests, orderly, used>>

ShelfNext == \E c \in ShelfClient : ShelfStep(c) \/ \E u \in Owner : Requested(c, u)

-----------------------------------------------------------------------------
ShelfTypeOK ==
    /\ \A c \in Chat : shelf.chat[c].folder \in Folder \cup {None} /\ shelf.chat[c].share \in ShareId \cup {None}
    /\ \A s \in shelf.snap : s.id \in ShareId /\ s.chat \in Chat
    /\ shelf.tag \subseteq Tag \X Owner /\ shelfRequests \in 0..MaxShelfRequests

ShelfQuiet == \A c \in ShelfClient : chore[c].prog = <<>>
\* When no request is running and none crossed another: a link shows a
\* snapshot of a chat that knows it, a chat that is not shared has none, the
\* tags of the chats that are listed are in the list of tags, and a chat is in
\* no folder, or in one that is there.
ShelfSound ==
    ShelfQuiet /\ orderly =>
        /\ \A s \in shelf.snap : shelf.chat[s.chat].in /\ shelf.chat[s.chat].share = s.id
        /\ \A c \in Chats(shelf) :
              /\ shelf.chat[c].share # None => Snaps(shelf, c) # {}
              /\ ~shelf.chat[c].archived => Untracked(c)
              /\ shelf.chat[c].folder \in Folders(shelf) \cup {None}
        /\ \A f \in Folders(shelf) : ~is_in_parent_cycle(shelf, f)
        /\ shelf.auto \in Folders(shelf) \cup {None}
=============================================================================
