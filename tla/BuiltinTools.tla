----------------------------- MODULE BuiltinTools -----------------------------
(* The builtin tools a model may call for the user it answers               *)
(* (tools/builtin.py, tools/knowledge_fs.py).  A tool awaits between the     *)
(* rows it looks up, the access it checks and what it then reads or writes;  *)
(* owners share, move and delete meanwhile.  The texts themselves, paging    *)
(* and the layout of the answers are left out.                               *)
EXTENDS Naturals, FiniteSets, Server

CONSTANTS
    Thing,              \* notes, files, bases, chats, ...
    Sort,               \* the kind of each of them
    Reader,             \* users
    Heads,              \* those that are administrators
    MaxBtChanges        \* bound: changes by the owners while a tool runs

ASSUME BuiltinAssumption ==
    /\ Heads \subseteq Reader /\ MaxBtChanges \in Nat
    /\ Sort \in [Thing -> {"note", "file", "base", "chat", "channel", "post", "skill",
                           "calendar", "event", "automation", "folder", "memory"}]

VARIABLES
    tool,       \* the tool of this behaviour
    there,      \* the rows that exist
    keeper,     \* who owns each
    mayRead, mayWrite,  \* the users each is shared with, read or write
    within,     \* pairs: a file of a base, an event of a calendar, a post of a channel
    attached,   \* the knowledge of the model, read when the turn began
    me, wanted, \* the user, the id the model passed
    stage, held,    \* where the call is, what it has looked up
    shown, done,    \* what it has answered with, what it has changed
    since, lay,   \* what the user could read, or write, and what lay in what, since the call began
    btChanges

rows == <<there, keeper, mayRead, mayWrite, within>>
btVars == <<tool, rows, attached, me, wanted, stage, held, shown, done, since, lay, btChanges>>

Of(k) == {x \in there : Sort[x] = k}
Inside(x) == {y \in there : <<y, x>> \in within}
Around(x) == {y \in there : <<x, y>> \in within}
IsAdmin == me \in Heads
Owns(x) == keeper[x] = me
CanRead(x) == IsAdmin \/ Owns(x) \/ me \in mayRead[x]
CanWrite(x) == IsAdmin \/ Owns(x) \/ me \in mayWrite[x]
Listed(x) == Owns(x) \/ me \in mayRead[x]   \* a search that filters by user and groups

\* What the routes let the user read and write.
Routes ==
    [read |-> {x \in there : IF Sort[x] \in {"chat", "memory", "automation", "folder"} THEN Owns(x) ELSE CanRead(x)},
     write |-> {x \in there : IF Sort[x] \in {"note", "calendar", "event"} THEN CanWrite(x) ELSE Owns(x)}]

\* The tools and commands of each kind of thing.
Offered ==
    [notes |-> {"view_note", "search_notes", "replace_note_content"},
     chats |-> {"search_chats", "view_chat"},
     channels |-> {"search_channels", "search_channel_messages", "view_channel_message", "view_channel_thread"},
     knowledge |-> {"list_knowledge_bases", "query_knowledge_bases", "view_knowledge_file"},
     attached |-> {"search_knowledge_files", "grep_knowledge_files", "query_knowledge_files", "list_knowledge",
                   "view_file", "list_chat_files", "grep_chat_files", "query_chat_files", "kb_cat", "kb_head",
                   "kb_tail", "kb_sed", "kb_wc", "kb_stat", "kb_grep", "kb_ls", "kb_find", "kb_tree"},
     skills |-> {"view_skill"},
     memories |-> {"list_memory_paths", "read_memory_path", "search_memories", "list_memories",
                   "update_memory", "replace_memory_content", "delete_memory"},
     automations |-> {"create_automation", "update_automation", "toggle_automation", "list_automations"},
     calendars |-> {"search_calendar_events", "create_calendar_event", "update_calendar_event"}]
Kinds ==
    [notes |-> {"note"}, chats |-> {"chat"}, channels |-> {"channel", "post"}, knowledge |-> {"base", "file"},
     attached |-> {"base", "file", "note"}, skills |-> {"skill"}, memories |-> {"memory"},
     automations |-> {"automation", "folder"}, calendars |-> {"calendar", "event"}]

BtInit ==
    /\ \E a \in DOMAIN Offered :
        /\ tool \in Offered[a] /\ there = {x \in Thing : Sort[x] \in Kinds[a]}
        /\ attached \in SUBSET there /\ (attached # {} => a = "attached")
    /\ keeper = [x \in Thing |-> CHOOSE u \in Reader : Heads # Reader => u \notin Heads]
    /\ mayRead = [x \in Thing |-> {}] /\ mayWrite = [x \in Thing |-> {}]
    /\ within = {}
    /\ me \in Reader /\ wanted \in there \cup {None}
    /\ stage = "called" /\ held = {} /\ shown = {} /\ done = {}
    /\ since = Routes /\ lay = {}
    /\ btChanges = 0

(***************************************************************************)
(* What the owners do meanwhile.                                            *)
(***************************************************************************)
Owners ==
    /\ stage # "over" /\ btChanges < MaxBtChanges /\ btChanges' = btChanges + 1
    /\ UNCHANGED <<tool, keeper, attached, me, wanted, stage, held, shown, done>>

share_row(x) ==
    /\ Owners /\ x \in there /\ ~Owns(x)
    /\ \/ me \notin mayRead[x] /\ mayRead' = [mayRead EXCEPT ![x] = {me}] /\ UNCHANGED mayWrite
       \/ me \notin mayWrite[x] /\ mayRead' = [mayRead EXCEPT ![x] = {me}] /\ mayWrite' = [mayWrite EXCEPT ![x] = {me}]
       \/ me \in mayRead[x] /\ mayRead' = [mayRead EXCEPT ![x] = {}] /\ mayWrite' = [mayWrite EXCEPT ![x] = {}]
    /\ UNCHANGED <<there, within>>

Holds(x, y) == <<Sort[x], Sort[y]>> \in {<<"file", "base">>, <<"event", "calendar">>, <<"post", "channel">>}
add_file_to_knowledge(x, y) ==
    /\ Owners /\ {x, y} \subseteq there /\ Holds(x, y) /\ (Around(x) = {} \/ Sort[x] = "file")
    /\ within' = within \cup {<<x, y>>} /\ within' # within /\ UNCHANGED <<there, mayRead, mayWrite>>
remove_file_from_knowledge(x, y) ==
    /\ Owners /\ <<x, y>> \in within /\ Sort[x] = "file"
    /\ within' = within \ {<<x, y>>} /\ UNCHANGED <<there, mayRead, mayWrite>>
delete_row(x) ==
    /\ Owners /\ x \in there /\ there' = there \ {x}
    /\ within' = {p \in within : x \notin {p[1], p[2]}} /\ UNCHANGED <<mayRead, mayWrite>>

(***************************************************************************)
(* The steps of a call.  Each ends at an await.                             *)
(***************************************************************************)
Call(t, s) == tool = t /\ stage = s /\ UNCHANGED <<tool, keeper, mayRead, mayWrite, attached, me, wanted, btChanges>>
Quiet == UNCHANGED <<there, within, shown, done>>
Look(next, S) == Quiet /\ held' = S /\ stage' = IF S = {} THEN "over" ELSE next
Show(S) == stage' = "over" /\ shown' = S /\ UNCHANGED <<there, within, held, done>>
Change(S) == stage' = "over" /\ done' = S /\ UNCHANGED <<there, within, held, shown>>
Asked(k) == {wanted} \cap Of(k)
Given(k) == attached \cap Of(k)

(* Notes *)
search_notes == Call("search_notes", "called") /\ Show({x \in Of("note") : Listed(x)})
view_note ==
    \/ Call("view_note", "called") /\ Look("row", Asked("note"))
    \/ Call("view_note", "row") /\ Show({x \in held : CanRead(x)})
\* _has_write_access_to_note passes the owner and the writers; stop_item_tasks awaits before the text is written.
replace_note_content ==
    \/ Call("replace_note_content", "called") /\ Look("row", Asked("note"))
    \/ Call("replace_note_content", "row") /\ Look("checked", {x \in held : CanWrite(x)})
    \/ Call("replace_note_content", "checked") /\ Change(held \cap there)

(* Chats and memories: every query names the user. *)
search_chats == Call("search_chats", "called") /\ Show({x \in Of("chat") : Owns(x)})
view_chat == Call("view_chat", "called") /\ Show({x \in Asked("chat") : Owns(x)})
OwnMemories(t) == Call(t, "called") /\ Show({x \in Of("memory") : Owns(x)})
OwnMemory(t) == Call(t, "called") /\ Change({x \in Asked("memory") : Owns(x)})
list_memory_paths == OwnMemories("list_memory_paths")
read_memory_path == OwnMemories("read_memory_path")
search_memories == OwnMemories("search_memories")
list_memories == OwnMemories("list_memories")
update_memory == OwnMemory("update_memory")
replace_memory_content == OwnMemory("replace_memory_content")
delete_memory ==
    /\ Call("delete_memory", "called") /\ done' = {x \in Asked("memory") : Owns(x)} /\ there' = there \ done'
    /\ stage' = "over" /\ UNCHANGED <<within, held, shown>>

(* Channels: those the user is in, or may read. *)
get_channels_by_user_id == {x \in Of("channel") : Listed(x)}
search_channels == Call("search_channels", "called") /\ Show(get_channels_by_user_id)
search_channel_messages ==
    \/ Call("search_channel_messages", "called")
       /\ Look("channels", {x \in get_channels_by_user_id : wanted \in {None, x}})
    \/ Call("search_channel_messages", "channels") /\ Show(UNION {Inside(x) : x \in held})
Viewed(t, shows(_)) ==
    \/ Call(t, "called") /\ Look("row", {p \in Asked("post") : Around(p) # {}})
    \/ Call(t, "row") /\ Show({p \in held : \E x \in get_channels_by_user_id : shows(x) /\ <<p, x>> \in lay})
view_channel_message == Viewed("view_channel_message", LAMBDA x : TRUE)
view_channel_thread == Viewed("view_channel_thread", LAMBDA x : x \in there)

(* Knowledge.  With a model that has knowledge of its own the tools see only *)
(* that: its bases when the user may read them, its files in any case.       *)
get_accessible_kb_ids ==
    IF attached # {} THEN {x \in Given("base") : CanRead(x) /\ wanted \in {None, x}}
    ELSE IF wanted \in Of("base") THEN {x \in {wanted} : CanRead(x)}
    ELSE {x \in Of("base") : Listed(x)}
Shelved == UNION {Inside(x) : x \in held \cap there}
Attachments == Given("file")

list_knowledge_bases == Call("list_knowledge_bases", "called") /\ Show({x \in Of("base") : Listed(x)})
\* The descriptions nearest to the query first; each page of them is then looked up with the same filter.
query_knowledge_bases ==
    \/ Call("query_knowledge_bases", "called") /\ Look("ids", {x \in Of("base") : Listed(x)})
    \/ Call("query_knowledge_bases", "ids") /\ Show(held \cap there)
search_knowledge_files ==
    \/ Call("search_knowledge_files", "called") /\ Look("bases", get_accessible_kb_ids \cup Attachments)
    \/ Call("search_knowledge_files", "bases")
       /\ Show(Shelved \cup (IF wanted = None THEN held \cap Attachments ELSE {}))
\* A file the model names is checked like view_file's.
\* Besides a base: a channel, a shared chat or a model that the user reaches (mayRead).
has_access_to_file(x, bases) == Owns(x) \/ me \in mayRead[x] \/ \E b \in bases : Listed(b)
has_read_access_to_file(x, bases) == Owns(x) \/ IsAdmin \/ x \in attached \/ has_access_to_file(x, bases)
grep_knowledge_files ==
    \/ Call("grep_knowledge_files", "called") /\ wanted \in Thing /\ Sort[wanted] = "file" /\ Look("row", Asked("file"))
    \/ Call("grep_knowledge_files", "row") /\ Show({x \in held : has_read_access_to_file(x, Around(x))})
    \/ Call("grep_knowledge_files", "called") /\ Look("bases", get_accessible_kb_ids \cup Attachments)
    \/ Call("grep_knowledge_files", "bases") /\ Show(Shelved \cup (held \cap Attachments))
query_knowledge_files ==
    \/ Call("query_knowledge_files", "called") /\ Look("bases", get_accessible_kb_ids \cup Attachments)
    \/ Call("query_knowledge_files", "bases") /\ Show(Shelved \cup (held \cap Attachments))
list_knowledge ==
    \/ Call("list_knowledge", "called") /\ attached # {}
       /\ Look("bases", Attachments \cup {x \in Given("base") \cup Given("note") : CanRead(x)})
    \/ Call("list_knowledge", "bases") /\ Show(held \cup Shelved)
view_file ==
    \/ Call("view_file", "called") /\ Look("row", Asked("file"))
    \/ Call("view_file", "row") /\ Look("bases", held \cup UNION {Around(x) : x \in held})
    \/ Call("view_file", "bases")
       /\ Show({x \in held : Sort[x] = "file" /\ has_read_access_to_file(x, held \ {x})})
view_knowledge_file_AnyBase ==
    \/ Call("view_knowledge_file", "called") /\ Look("row", Asked("file"))
    \/ Call("view_knowledge_file", "row") /\ Look("bases", held \cup UNION {Around(x) : x \in held})
    \/ Call("view_knowledge_file", "bases")
       /\ Show({x \in held : Sort[x] = "file" /\ (Owns(x) \/ IsAdmin \/ held # {x})})
view_knowledge_file ==
    \/ Call("view_knowledge_file", "called") /\ Look("row", Asked("file"))
    \/ Call("view_knowledge_file", "row") /\ Look("bases", held \cup UNION {Around(x) : x \in held})
    \/ Call("view_knowledge_file", "bases")
       /\ Show({x \in held : Sort[x] = "file" /\ (Owns(x) \/ IsAdmin \/ \E b \in held \ {x} : Listed(b))})
\* The files of the chat are whatever its messages name: each is checked.
get_accessible_chat_files(t) ==
    \/ Call(t, "called") /\ Look("row", {x \in Of("file") : wanted \in {None, x}})
    \/ Call(t, "row") /\ Show({x \in held : x \notin attached /\ has_read_access_to_file(x, Around(x))})
list_chat_files == get_accessible_chat_files("list_chat_files")
grep_chat_files == get_accessible_chat_files("grep_chat_files")
query_chat_files == get_accessible_chat_files("query_chat_files")

(* The commands of kb_exec list what is accessible and then open one file.   *)
resolve_file(t) ==
    \/ Call(t, "called") /\ Look("bases", get_accessible_kb_ids \cup Attachments)
    \/ Call(t, "bases") /\ Look("file", (Shelved \cup (held \cap Attachments)) \cap {wanted})
    \/ Call(t, "file") /\ Show(held \cap there)
kb_cat == resolve_file("kb_cat")
kb_head == resolve_file("kb_head")
kb_tail == resolve_file("kb_tail")
kb_sed == resolve_file("kb_sed")
kb_wc == resolve_file("kb_wc")
kb_stat == resolve_file("kb_stat")
kb_grep ==
    \/ Call("kb_grep", "called") /\ Look("bases", get_accessible_kb_ids \cup Attachments)
    \/ Call("kb_grep", "bases") /\ Look("files", Shelved \cup (held \cap Attachments))
    \/ Call("kb_grep", "files") /\ Show(held \cap there)
build_directory_tree(t) ==
    \/ Call(t, "called") /\ Look("bases", get_accessible_kb_ids)
    \/ Call(t, "bases") /\ Show(held \cup Shelved)
kb_ls == build_directory_tree("kb_ls")
kb_find == build_directory_tree("kb_find")
kb_tree == build_directory_tree("kb_tree")

view_skill ==
    \/ Call("view_skill", "called") /\ Look("row", Asked("skill"))
    \/ Call("view_skill", "row") /\ Show({x \in held : CanRead(x)})

(* Automations are their owner's alone, administrators included; the folder   *)
(* they file their chats in must be the user's own.                           *)
validate_owned_automation_folder == {x \in Of("folder") : Owns(x)}
create_automation == Call("create_automation", "called") /\ Change(validate_owned_automation_folder)
update_automation ==
    \/ Call("update_automation", "called") /\ Look("row", {x \in Asked("automation") : Owns(x)})
    \/ Call("update_automation", "row") /\ Change((held \cap there) \cup validate_owned_automation_folder)
toggle_automation ==
    \/ Call("toggle_automation", "called") /\ Look("row", {x \in Asked("automation") : Owns(x)})
    \/ Call("toggle_automation", "row") /\ Change(held \cap there)
    \/ Call("toggle_automation", "row")     \* delete_automation
       /\ there' = there \ held /\ done' = held /\ stage' = "over" /\ UNCHANGED <<within, held, shown>>
list_automations == Call("list_automations", "called") /\ Show({x \in Of("automation") : Owns(x)})

(* Calendars and their events. *)
search_calendar_events ==
    \/ Call("search_calendar_events", "called") /\ Look("calendars", {x \in Of("calendar") : Listed(x)})
    \/ Call("search_calendar_events", "calendars") /\ Show({x \in Of("event") : Owns(x)} \cup Shelved)
create_calendar_event ==
    \/ Call("create_calendar_event", "called") /\ Look("row", Asked("calendar"))
    \/ Call("create_calendar_event", "row") /\ Change({x \in held : CanWrite(x)} \cap there)
update_calendar_event ==
    \/ Call("update_calendar_event", "called") /\ Look("row", Asked("event"))
    \/ Call("update_calendar_event", "row")
       /\ Look("checked", {x \in held : Owns(x) \/ IsAdmin \/ \E c \in Around(x) : me \in mayWrite[c]})
    \/ Call("update_calendar_event", "checked") /\ Change(held \cap there)
    \/ Call("update_calendar_event", "checked")     \* delete_calendar_event
       /\ there' = there \ held /\ done' = held /\ stage' = "over" /\ within' = {p \in within : p[1] \notin held}
       /\ UNCHANGED <<held, shown>>

BtTools ==
    \/ search_notes \/ view_note \/ replace_note_content \/ search_chats \/ view_chat
    \/ list_memory_paths \/ read_memory_path \/ search_memories \/ list_memories
    \/ update_memory \/ replace_memory_content \/ delete_memory
    \/ search_channels \/ search_channel_messages \/ view_channel_message \/ view_channel_thread
    \/ list_knowledge_bases \/ query_knowledge_bases \/ search_knowledge_files \/ grep_knowledge_files
    \/ query_knowledge_files \/ list_knowledge \/ view_file \/ view_knowledge_file
    \/ list_chat_files \/ grep_chat_files \/ query_chat_files \/ kb_cat \/ kb_head \/ kb_tail \/ kb_sed
    \/ kb_wc \/ kb_stat \/ kb_grep \/ kb_ls \/ kb_find \/ kb_tree \/ view_skill
    \/ create_automation \/ update_automation \/ toggle_automation \/ list_automations
    \/ search_calendar_events \/ create_calendar_event \/ update_calendar_event

BtNext ==
    /\ \/ BtTools
       \/ \E x \in Thing : share_row(x) \/ delete_row(x)
       \/ \E x, y \in Thing : add_file_to_knowledge(x, y) \/ remove_file_from_knowledge(x, y)
    /\ lay' = lay \cup within'
    /\ since' = [r \in {"read", "write"} |-> since[r] \cup Routes'[r]]

(* The values the variables may hold. *)
BtTypeOK ==
    /\ there \subseteq Thing /\ keeper \in [Thing -> Reader]
    /\ mayRead \in [Thing -> SUBSET Reader] /\ mayWrite \in [Thing -> SUBSET Reader]
    /\ within \subseteq Thing \X Thing /\ attached \subseteq Thing
    /\ me \in Reader /\ wanted \in Thing \cup {None}
    /\ held \cup shown \cup done \subseteq Thing
    /\ since \in [{"read", "write"} -> SUBSET Thing] /\ lay \subseteq Thing \X Thing /\ btChanges \in 0 .. MaxBtChanges

(* A tool acts with the rights of the user it works for, across its awaits:   *)
(* what it shows, the user could have read during the call, directly or        *)
(* inside something he could read, or the model was given as a file (tools/    *)
(* builtin.py, knowledge_fs.py); what it changes, he could have changed.       *)
Within(x, S) == x \in S \/ \E y \in S : <<x, y>> \in lay
ToolsWithinRights ==
    /\ \A x \in shown : Within(x, since["read"]) \/ (Sort[x] = "file" /\ x \in attached)
    /\ \A x \in done : Within(x, since["write"])
=============================================================================
