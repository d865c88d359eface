-------------------------------- MODULE ChatTurn --------------------------------
(* One turn of a chat (main.py, process_chat; utils/middleware.py around the    *)
(* stream): the request is put together stage by stage, sent, and its answer is *)
(* saved, filtered and followed by background tasks.  Any stage may fail or be  *)
(* cancelled while the user edits, deletes and loses rights.  What the stages   *)
(* write into prompts, and the stream itself (StreamAssembly), are left out.    *)
EXTENDS Naturals, FiniteSets, Server

CONSTANTS
    McpServer,      \* MCP servers among the tools that were asked for
    Plans,          \* the requests: which parts they ask for
    MaxTurnFails, MaxTurnWrites   \* bounds: calls that fail, writes of others

VARIABLES
    plan,       \* the request: parts, legacy function calling, saved chat, a browser, what is answered
    at,         \* the stage the turn is at
    mayUse,     \* what the user may use now
    reached,    \* what the user could use at some moment of the turn
    given,      \* what was put into the request
    tried,      \* the MCP servers it has come to
    connected,  \* MCP clients with an open connection
    mcp_clients, recorded,  \* those the pipeline knows, those the metadata knows
    row,        \* the assistant's message in the database
    exists,     \* the chat is there
    snapshot,   \* the text messages_map held
    told,       \* what the browser was told
    failed,     \* calls of the turn that failed
    by_user     \* what was written by others meanwhile

turnVars == <<plan, at, mayUse, reached, given, tried, connected, mcp_clients, recorded, row, exists, snapshot, told, failed, by_user>>

Part == {"folder", "knowledge", "attached", "voice", "memory", "web_search", "image_generation",
         "code_interpreter", "skill", "tools", "terminal", "direct", "note"}
\* What a user needs a right for.
Guarded == {"folder", "memory", "web_search", "image_generation", "skill", "tools", "terminal", "note"}
Rights == Guarded \cup McpServer
Answers == {"json", "stream", "empty", "error", "other"}
Plan == [parts : SUBSET Part, legacy : BOOLEAN, saved : BOOLEAN, ui : BOOLEAN, answer : Answers]

ASSUME TurnAssumption ==
    /\ MaxTurnFails \in Nat /\ MaxTurnWrites \in Nat
    /\ Plans \subseteq Plan /\ McpServer \cap Part = {}

BlankRow == [here |-> FALSE, done |-> FALSE, error |-> FALSE, text |-> None, original |-> None, extras |-> {}]

TurnInit ==
    /\ plan \in Plans /\ at = "load_messages_from_db"
    /\ mayUse \in {Rights, {}} /\ reached = mayUse /\ given = {} /\ tried = {}
    /\ connected = {} /\ mcp_clients = {} /\ recorded = {}
    /\ row = [BlankRow EXCEPT !.here = plan.saved] /\ exists = plan.saved
    /\ snapshot = None /\ told = {} /\ failed = {} /\ by_user = {}

(***************************************************************************)
(* Stages.                                                                   *)
(***************************************************************************)
Aside == UNCHANGED <<plan, mayUse, reached, by_user>>
RowStays == UNCHANGED <<row, exists, snapshot>>
Clients == UNCHANGED <<tried, connected, mcp_clients, recorded>>
Tell(x) == told' = IF plan.ui THEN told \cup {x} ELSE told
\* upsert_message_to_chat_by_id_and_message_id: nothing for a chat that is gone, anew for a message.
UpsertMessage(new) == row' = IF exists THEN [new EXCEPT !.here = TRUE] ELSE row

Usable(parts) == {x \in plan.parts \cap parts : x \in Guarded => x \in mayUse}
Give(here, next, parts) ==
    /\ at = here /\ at' = next /\ given' = given \cup parts
    /\ Aside /\ RowStays /\ Clients /\ UNCHANGED <<told, failed>>

load_messages_from_db == Give("load_messages_from_db", "folder", {})
folder == Give("folder", "knowledge", Usable({"folder"}))
model_knowledge == Give("knowledge", "process_pipeline_inlet_filter", IF plan.legacy THEN Usable({"knowledge"}) ELSE {})
process_pipeline_inlet_filter == Give("process_pipeline_inlet_filter", "inlet", {})
inlet == Give("inlet", "features", {})
\* Searching and drawing before the answer is for legacy turns; a search or an image that fails is told
\* and the turn goes on.
chat_web_search_handler == IF plan.legacy THEN Usable({"web_search"}) ELSE {}
chat_image_generation_handler == IF plan.legacy THEN Usable({"image_generation"}) ELSE {}
features ==
    Give("features", "skills", Usable({"voice", "memory", "code_interpreter"}) \cup chat_web_search_handler \cup chat_image_generation_handler)
skills == Give("skills", "connect_mcp_server", Usable({"note", "skill"}))
\* One server after the other; a failure is told and the server skipped, also when it is the list of
\* its tools that fails and the connection is open.
connect_mcp_server(s, ok) ==
    /\ at = "connect_mcp_server" /\ "tools" \in plan.parts /\ s \notin tried /\ tried' = tried \cup {s}
    /\ IF s \notin mayUse
       THEN ok /\ UNCHANGED <<given, connected, mcp_clients, told, failed>>
       ELSE \/ /\ ok /\ given' = given \cup {s}
               /\ connected' = connected \cup {s} /\ mcp_clients' = mcp_clients \cup {s}
               /\ UNCHANGED <<told, failed>>
            \/ /\ ~ok /\ Cardinality(failed) < MaxTurnFails /\ failed' = failed \cup {"mcp"}
               /\ Tell("warning")
               /\ connected' \in {connected, connected \cup {s}} /\ UNCHANGED <<given, mcp_clients>>
    /\ Aside /\ RowStays /\ UNCHANGED <<at, recorded>>
get_tools ==
    /\ "tools" \in plan.parts => tried = McpServer
    /\ Give("connect_mcp_server", "terminal", Usable({"tools"}))
\* The clients are recorded after the terminal answered: 503 leaves them open.
terminal ==
    /\ at = "terminal" /\ at' = "builtin" /\ given' = given \cup Usable({"terminal", "direct"})
    /\ recorded' = mcp_clients
    /\ Aside /\ RowStays /\ UNCHANGED <<tried, connected, mcp_clients, told, failed>>
use_builtin_tools == "note" \in given \/ (plan.ui /\ ~plan.legacy)
builtin == Give("builtin", "chat_completion_tools_handler", IF use_builtin_tools THEN Usable({"knowledge", "attached"}) ELSE {})
chat_completion_tools_handler == Give("chat_completion_tools_handler", "chat_completion_files_handler", {})
chat_completion_files_handler == Give("chat_completion_files_handler", "request", Usable({"attached"}))
request_filters == Give("request", "generate_chat_completion", {})

\* The first of these raises into process_chat, the second kind is logged and the turn goes on.
Raising == {"load_messages_from_db", "folder", "process_pipeline_inlet_filter", "inlet", "features", "skills", "terminal",
            "builtin", "request", "generate_chat_completion", "save_stream"}
stage_raises ==
    /\ at \in Raising \/ (at = "connect_mcp_server" /\ "tools" \in plan.parts)
    /\ Cardinality(failed) < MaxTurnFails
    /\ at' = "except" /\ failed' = failed \cup {at}
    /\ Aside /\ RowStays /\ Clients /\ UNCHANGED <<given, told>>

(***************************************************************************)
(* The answer.                                                               *)
(***************************************************************************)
generate_chat_completion ==
    /\ at = "generate_chat_completion"
    /\ at' = CASE ~plan.ui \/ plan.answer = "other" -> "finally"
               [] plan.answer = "stream" -> "save_stream"
               [] plan.answer = "error" -> "error"
               [] plan.answer = "empty" -> "finally"
               [] OTHER -> "completion"
    /\ Aside /\ RowStays /\ Clients /\ UNCHANGED <<given, told, failed>>

Save(here, next, new) ==
    /\ at = here /\ at' = next /\ (IF plan.saved /\ new # row THEN UpsertMessage(new) ELSE row' = row)
    /\ Aside /\ Clients /\ UNCHANGED <<exists, snapshot, given, failed>>

\* non_streaming_chat_response_handler: told first, saved then; what fails ends it, without a word
\* to the browser.
response_error == Save("error", "finally", [row EXCEPT !.error = TRUE]) /\ Tell("error")
completion == Save("completion", "save", row) /\ UNCHANGED told
completion_done == Save("save", "outlet", [row EXCEPT !.done = TRUE, !.text = "answer"]) /\ Tell("done")
save_fails ==
    /\ at \in {"error", "completion", "save"} /\ Cardinality(failed) < MaxTurnFails
    /\ at' = "finally" /\ failed' = failed \cup {at} /\ (IF at = "save" THEN Tell("done") ELSE UNCHANGED told)
    /\ Aside /\ RowStays /\ Clients /\ UNCHANGED given
\* streaming_chat_response_handler: saved first, then told.
save_stream == Save("save_stream", "tell_stream", [row EXCEPT !.done = TRUE, !.text = "answer"]) /\ UNCHANGED told
tell_stream == Save("tell_stream", "outlet", row) /\ Tell("done")

\* outlet_filter_handler reads the messages, awaits the filters and writes what they changed.
outlet_reads ==
    /\ at = "outlet" /\ snapshot' = row.text
    /\ at' = IF plan.saved /\ ~(exists /\ row.here) THEN "background" ELSE "pipeline_outlet"
    /\ Aside /\ Clients /\ UNCHANGED <<row, exists, given, told, failed>>
\* Filters of a pipeline that raise are only logged, a filter function that raises ends the handler.
process_pipeline_outlet_filter == Save("pipeline_outlet", "outlet_filters", row) /\ UNCHANGED told
outlet_filter_handler(changes) ==
    Save("outlet_filters", "background", IF changes THEN [row EXCEPT !.original = snapshot, !.text = "filtered"] ELSE row) /\ Tell("outlet")
outlet_fails ==
    /\ at \in {"outlet", "outlet_filters"} /\ Cardinality(failed) < MaxTurnFails
    /\ failed' = failed \cup {at} /\ at' = "background"
    /\ Aside /\ RowStays /\ Clients /\ UNCHANGED <<given, told>>
\* Follow-ups, title and tags, each saved and told when it is made; one that is switched off, or
\* whose model or JSON fails, is left out.
Extra(here, next, what, made) ==
    /\ Save(here, next, IF made THEN [row EXCEPT !.extras = @ \cup {what}] ELSE row) /\ UNCHANGED told
    /\ made => exists
generate_follow_ups(made) == Extra("background", "title", "follow_ups", made)
generate_title(made) == Extra("title", "tags", "title", made)
generate_chat_tags(made) == Extra("tags", "finally", "tags", made)
\* A filter that raises, or a write: in a stream it reaches process_chat.
background_raises ==
    /\ at \in {"background", "title", "tags"} /\ Cardinality(failed) < MaxTurnFails
    /\ at' = (IF plan.answer = "stream" THEN "except" ELSE "finally") /\ failed' = failed \cup {at}
    /\ Aside /\ RowStays /\ Clients /\ UNCHANGED <<given, told>>

(***************************************************************************)
(* process_chat: the end of a turn.                                          *)
(***************************************************************************)
process_chat_except ==
    /\ Save("except", "finally", [row EXCEPT !.error = TRUE]) /\ Tell("error")
process_chat_except_fails ==
    /\ at = "except" /\ Cardinality(failed) < MaxTurnFails /\ failed' = failed \cup {at} /\ at' = "finally"
    /\ Aside /\ RowStays /\ Clients /\ UNCHANGED <<given, told>>
\* The task is stopped while it awaits: the stream saves what it has.
process_chat_cancelled ==
    /\ at \notin {"finally", "ended"} /\ at' = "finally" /\ Tell("cancel")
    /\ IF at = "save_stream" /\ plan.saved THEN UpsertMessage([row EXCEPT !.done = TRUE, !.text = "partial"]) ELSE row' = row
    /\ Aside /\ Clients /\ UNCHANGED <<exists, snapshot, given, failed>>
\* A cancellation during the clean-up is held back by the first client only.
process_chat_finally_First == 
    /\ at = "finally" /\ at' = "ended" /\ connected' = (IF recorded = {} THEN connected ELSE connected \ {CHOOSE s \in recorded : TRUE})
    /\ Tell("inactive") /\ Aside /\ RowStays /\ UNCHANGED <<tried, mcp_clients, recorded, given, failed>>
process_chat_finally ==
    /\ at = "finally" /\ at' = "ended" /\ connected' = connected \ recorded
    /\ Tell("inactive") /\ Aside /\ RowStays /\ UNCHANGED <<tried, mcp_clients, recorded, given, failed>>

(***************************************************************************)
(* What others do meanwhile.                                                 *)
(***************************************************************************)
Others(what) ==
    /\ at # "ended" /\ Cardinality(by_user) < MaxTurnWrites /\ by_user' = by_user \cup {what}
    /\ UNCHANGED <<plan, at, given, tried, connected, mcp_clients, recorded, snapshot, told, failed>>
user_edits == row.here /\ row' = [row EXCEPT !.text = "edited"] /\ Others("edit") /\ UNCHANGED <<exists, mayUse, reached>>
user_deletes_message == row.here /\ row' = BlankRow /\ Others("delete") /\ UNCHANGED <<exists, mayUse, reached>>
user_deletes_chat == exists /\ exists' = FALSE /\ row' = BlankRow /\ Others("drop") /\ UNCHANGED <<mayUse, reached>>
rights_change(x) ==
    /\ mayUse' = (mayUse \ {x}) \cup ({x} \ mayUse) /\ reached' = reached \cup mayUse'
    /\ Others("right") /\ UNCHANGED <<row, exists>>

TurnNext ==
    \/ load_messages_from_db \/ folder \/ model_knowledge \/ process_pipeline_inlet_filter \/ inlet \/ features \/ skills
    \/ \E s \in McpServer, ok \in BOOLEAN : connect_mcp_server(s, ok)
    \/ get_tools \/ terminal \/ builtin \/ chat_completion_tools_handler \/ chat_completion_files_handler \/ request_filters
    \/ stage_raises \/ generate_chat_completion
    \/ response_error \/ completion \/ completion_done \/ save_fails \/ save_stream \/ tell_stream
    \/ outlet_reads \/ process_pipeline_outlet_filter \/ (\E changes \in BOOLEAN : outlet_filter_handler(changes)) \/ outlet_fails
    \/ background_raises
    \/ \E made \in BOOLEAN : generate_follow_ups(made) \/ generate_title(made) \/ generate_chat_tags(made)
    \/ process_chat_except \/ process_chat_except_fails \/ process_chat_cancelled \/ process_chat_finally
    \/ user_edits \/ user_deletes_message \/ user_deletes_chat \/ (\E x \in Rights : rights_change(x))

(***************************************************************************)
(* Properties.                                                               *)
(***************************************************************************)
TurnTypeOK ==
    /\ plan \in Plan /\ mayUse \subseteq Rights /\ reached \subseteq Rights
    /\ given \subseteq Part \cup McpServer /\ tried \subseteq McpServer
    /\ connected \subseteq McpServer /\ recorded \subseteq mcp_clients /\ mcp_clients \subseteq connected \cup recorded
    /\ told \subseteq {"warning", "error", "done", "outlet", "cancel", "inactive"}

\* The request carries nothing the user could not use at some moment of the turn.
WithinRights == given \cap Rights \subseteq reached
\* However a turn ends, no connection it recorded stays open.
ConnectionsClosed == at = "ended" => connected \cap recorded = {}
\* Unless its own words failed or there was nothing to say, the browser hears how the turn ended.
EndIsTold ==
    at = "ended" /\ plan.ui /\ plan.answer \notin {"empty", "other"} /\ failed \cap {"completion", "error", "except"} = {}
        => told \cap {"done", "error", "cancel"} # {}
\* What it is told is saved: a message is never shown finished while the database keeps it open.
ToldIsSaved ==
    at = "ended" /\ exists /\ row.here /\ failed \cap {"save", "error", "except"} = {} /\ "delete" \notin by_user
        => ("done" \in told => row.done) /\ ("error" \in told => row.error)
\* A turn ends cleanly wherever it fails or is stopped.
TurnSound == WithinRights /\ ConnectionsClosed /\ EndIsTold /\ ToldIsSaved
=============================================================================
