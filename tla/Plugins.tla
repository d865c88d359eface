------------------------------- MODULE Plugins -------------------------------
(* Tools and functions: code kept in the database, executed from modules     *)
(* that each process keeps in memory beside the text they were made from.    *)
(* A save puts its module in the cache before it writes the row and leaves   *)
(* the text alone; a call compares the text with the row and executes the    *)
(* module.                                                                   *)
EXTENDS Naturals, FiniteSets, Server

CONSTANTS
    Toolkit, Function,   \* ids of toolkits and of functions
    Source,               \* texts that load
    PluginClient,
    MaxPluginCalls,     \* bound: requests
    MaxPluginFails      \* bound: writes that the database refuses

ASSUME PluginAssumption ==
    /\ Toolkit \cap Function = {} /\ MaxPluginCalls \in Nat /\ MaxPluginFails \in Nat
    /\ None \notin Source \cup {"create", "update", "sync"} /\ "broken" \notin Source

VARIABLES plug,      \* the tables
          loaded,   \* TOOLS and FUNCTIONS: the code of the module that is in memory
          contents, \* TOOL_CONTENTS and FUNCTION_CONTENTS
          caller,   \* per client: where its request is
          pluginCalls, pluginFails,
          neat,     \* no save crossed another, none was refused after its module was in the cache,
              \* no list of functions was put in place of a save that nobody had used yet
          meanwhile \* history, per call: the texts its plugin had, or was about to be given, since the call began

pluginVars == <<plug, loaded, contents, caller, pluginCalls, pluginFails, neat, meanwhile>>

Plugin == Toolkit \cup Function
PlugText == Source \cup {"broken"}
NoPlugin == [in |-> FALSE, text |-> None, active |-> FALSE, global |-> FALSE, grants |-> FALSE]
NotCalling == [at |-> "idle", op |-> None, id |-> None, text |-> None, shown |-> None]

\* A plugin is in the table; the process has not loaded it.
PluginInit ==
    \E p \in Plugin, t \in Source :
        /\ plug = [q \in Plugin |-> IF q = p THEN [NoPlugin EXCEPT !.in = TRUE, !.text = t, !.active = TRUE] ELSE NoPlugin]
        /\ loaded = [q \in Plugin |-> None] /\ contents = [q \in Plugin |-> None]
        /\ caller = [c \in PluginClient |-> NotCalling]
        /\ pluginCalls = 0 /\ pluginFails = 0 /\ neat = TRUE /\ meanwhile = [c \in PluginClient |-> {}]

-----------------------------------------------------------------------------
PlugSaving(c) == caller[c].at \in {"load", "save", "grant", "revoke", "drop", "pop"} /\ caller[c].op \in {"create", "update", "delete", "sync"}
PlugAsk(c, op, p, t, at) ==
    /\ pluginCalls < MaxPluginCalls /\ pluginCalls' = pluginCalls + 1
    /\ caller[c].at = "idle" /\ c = CHOOSE x \in PluginClient : caller[x].at = "idle"
    /\ caller' = [caller EXCEPT ![c] = [at |-> at, op |-> op, id |-> p, text |-> t, shown |-> None]]
    /\ neat' = (neat /\ (op \in {"create", "update", "delete", "sync"} =>
                           \A o \in PluginClient : ~(PlugSaving(o) /\ (caller[o].id = p \/ "sync" \in {op, caller[o].op})))
                      /\ (op = "sync" => \A q \in Function : {loaded[q], contents[q]} \in {{loaded[q]}, {loaded[q], None}}))
    /\ UNCHANGED <<plug, loaded, contents, pluginFails>>
PlugGoes(c, at) == caller' = [caller EXCEPT ![c] = IF at = "idle" THEN NotCalling ELSE [@ EXCEPT !.at = at]]
PlugSame == UNCHANGED <<pluginCalls, pluginFails>>

create_new_tools(c) == \E p \in Toolkit, t \in PlugText : ~plug[p].in /\ PlugAsk(c, "create", p, t, "load")
create_new_function(c) == \E p \in Function, t \in PlugText : ~plug[p].in /\ PlugAsk(c, "create", p, t, "load")
\* A tool has to be there; the form of a function is loaded whatever the table holds.
update_tools_by_id(c) == \E p \in Toolkit, t \in PlugText : plug[p].in /\ PlugAsk(c, "update", p, t, "load")
update_function_by_id(c) == \E p \in Function, t \in PlugText : PlugAsk(c, "update", p, t, "load")
delete_tools_by_id(c) == \E p \in Toolkit : plug[p].in /\ PlugAsk(c, "delete", p, None, "revoke")
delete_function_by_id(c) == \E p \in Function : PlugAsk(c, "delete", p, None, "drop")
\* The functions of the form replace those of the table; nothing is cached.
sync_functions(c) == \E p \in Function, t \in PlugText \cup {None} : PlugAsk(c, "sync", p, t, IF t = None THEN "save" ELSE "load")
update_tool_access_by_id(c) == \E p \in Toolkit : plug[p].in /\ PlugAsk(c, "access", p, None, "grant")
\* What is written is the opposite of what was read before the functions for events ran.
toggle_function_by_id(c) == \E p \in Function : plug[p].in /\ PlugAsk(c, "toggle", p, ~plug[p].active, "toggle")
toggle_global_by_id(c) == \E p \in Function : plug[p].in /\ PlugAsk(c, "global", p, ~plug[p].global, "toggle")
deactivate_all_functions(c) == PlugAsk(c, "off", None, FALSE, "toggle")
\* A tool that is given to a model, the page of some valves, a pipe that was listed before.
get_tools(c) == \E p \in Toolkit : plug[p].in /\ PlugAsk(c, "use", p, None, "read")
update_tools_valves_by_id(c) == \E p \in Toolkit : plug[p].in /\ PlugAsk(c, "use", p, None, "read")
update_function_valves_by_id(c) == \E p \in Function : plug[p].in /\ PlugAsk(c, "use", p, None, "read")
generate_function_chat_completion(c) == \E p \in Function : PlugAsk(c, "use", p, None, "read")
chat_action(c) == \E p \in Function : plug[p].in /\ plug[p].active /\ PlugAsk(c, "use", p, None, "read")
\* The rows of the filters and of the functions for events are read together, before the first of them is loaded.
resolve_filter_pipeline(c) == \E p \in Function : plug[p].in /\ plug[p].active /\ PlugAsk(c, "filter", p, plug[p].text, "compare")
dispatch_event_functions(c) == \E p \in Function : plug[p].in /\ plug[p].active /\ PlugAsk(c, "use", p, plug[p].text, "compare")

-----------------------------------------------------------------------------
(* load_tool_module_by_id, load_function_module_by_id: a function whose text *)
(* does not load is switched off.                                           *)
load_fails(c) ==
    /\ caller[c].at = "load" /\ caller[c].text = "broken"
    /\ PlugGoes(c, "idle")
    /\ plug' = [plug EXCEPT ![caller[c].id].active = @ /\ caller[c].id \in Toolkit]
    /\ UNCHANGED <<loaded, contents, neat>> /\ PlugSame
load_module(c) ==
    /\ caller[c].at = "load" /\ caller[c].text # "broken"
    /\ loaded' = IF caller[c].op = "sync" THEN loaded ELSE [loaded EXCEPT ![caller[c].id] = caller[c].text]
    /\ contents' = IF caller[c].op \in {"use", "filter"} THEN [contents EXCEPT ![caller[c].id] = caller[c].text] ELSE contents
    /\ caller' = [caller EXCEPT ![c].at = IF caller[c].op \in {"use", "filter"} THEN "run" ELSE "save",
                                ![c].shown = IF caller[c].op \in {"use", "filter"} THEN caller[c].text ELSE None]
    /\ UNCHANGED <<plug, neat>> /\ PlugSame

insert_new_plugin(r, p, t) == [r EXCEPT ![p] = [NoPlugin EXCEPT !.in = TRUE, !.text = t]]
update_content(r, p, t) == IF r[p].in THEN [r EXCEPT ![p].text = t] ELSE r
sync_rows(r, p, t) ==
    [q \in Plugin |-> IF q \in Toolkit THEN r[q]
                      ELSE IF q # p \/ t = None THEN NoPlugin
                      ELSE IF r[q].in THEN [r[q] EXCEPT !.text = t] ELSE [NoPlugin EXCEPT !.in = TRUE, !.text = t]]
save_row(c) ==
    /\ caller[c].at = "save"
    /\ LET p == caller[c].id  t == caller[c].text  taken == caller[c].op = "create" /\ plug[p].in IN
       /\ plug' = IF taken THEN plug
                 ELSE IF caller[c].op = "create" THEN insert_new_plugin(plug, p, t)
                 ELSE IF caller[c].op = "update" THEN update_content(plug, p, t) ELSE sync_rows(plug, p, t)
       /\ PlugGoes(c, IF p \in Toolkit /\ ~taken THEN "grant" ELSE "idle")
    /\ UNCHANGED <<loaded, contents, neat>> /\ PlugSame
\* The row is refused; what was put in the cache stays.
plug_refused(c) ==
    /\ caller[c].at \in {"save", "grant", "revoke", "drop", "toggle"} /\ pluginFails < MaxPluginFails
    /\ pluginFails' = pluginFails + 1
    /\ PlugGoes(c, "idle")
    /\ neat' = (neat /\ ~(caller[c].at = "save" /\ caller[c].op \in {"create", "update"}))
    /\ UNCHANGED <<plug, loaded, contents, pluginCalls>>
grant_tools(c) ==
    /\ caller[c].at = "grant"
    /\ plug' = [plug EXCEPT ![caller[c].id].grants = TRUE]
    /\ PlugGoes(c, "idle") /\ UNCHANGED <<loaded, contents, neat>> /\ PlugSame

revoke_tools(c) ==
    /\ caller[c].at = "revoke" /\ plug' = [plug EXCEPT ![caller[c].id].grants = FALSE]
    /\ PlugGoes(c, "drop") /\ UNCHANGED <<loaded, contents, neat>> /\ PlugSame
\* The grants are rows of their own: those that were set meanwhile stay.
delete_plugin(c) ==
    /\ caller[c].at = "drop" /\ plug' = [plug EXCEPT ![caller[c].id] = [NoPlugin EXCEPT !.grants = plug[caller[c].id].grants]]
    /\ PlugGoes(c, "pop") /\ UNCHANGED <<loaded, contents, neat>> /\ PlugSame
plug_pop(c) ==
    /\ caller[c].at = "pop" /\ loaded' = [loaded EXCEPT ![caller[c].id] = None]
    /\ PlugGoes(c, "idle") /\ UNCHANGED <<plug, contents, neat>> /\ PlugSame
write_toggle(c) ==
    /\ caller[c].at = "toggle"
    /\ plug' = [p \in Plugin |->
                 IF ~plug[p].in \/ (caller[c].op # "off" /\ p # caller[c].id) \/ p \in Toolkit THEN plug[p]
                 ELSE IF caller[c].op = "global" THEN [plug[p] EXCEPT !.global = caller[c].text]
                 ELSE [plug[p] EXCEPT !.active = caller[c].text]]
    /\ PlugGoes(c, "idle") /\ UNCHANGED <<loaded, contents, neat>> /\ PlugSame

\* get_tool_module_from_cache, get_function_module_from_cache
UpToDate_AnyText(p, t) == contents[p] # None /\ loaded[p] # None
UpToDate(p, t) == loaded[p] # None /\ contents[p] = t
plug_read(c) ==
    /\ caller[c].at = "read"
    /\ LET r == plug[caller[c].id] IN
       caller' = [caller EXCEPT ![c] = IF ~r.in THEN NotCalling ELSE [@ EXCEPT !.text = r.text, !.at = "compare"]]
    /\ UNCHANGED <<plug, loaded, contents, neat>> /\ PlugSame
module_from_cache(c) ==
    /\ caller[c].at = "compare"
    /\ LET p == caller[c].id IN
       caller' = [caller EXCEPT ![c] = IF UpToDate(p, @.text) THEN [@ EXCEPT !.at = "run", !.shown = loaded[p]]
                                       ELSE [@ EXCEPT !.at = "load"]]
    /\ UNCHANGED <<plug, loaded, contents, neat>> /\ PlugSame
\* After the inlet of a filter its stream handler takes what is in the cache.
plug_runs(c) ==
    /\ caller[c].at = "run"
    /\ \/ PlugGoes(c, "idle")
       \/ caller[c].op = "filter" /\ loaded[caller[c].id] = None /\ PlugGoes(c, "reload")
    /\ UNCHANGED <<plug, loaded, contents, neat>> /\ PlugSame
\* load_from_db=False: the text that was loaded is not kept.
module_for_stream(c) ==
    /\ caller[c].at = "reload"
    /\ LET p == caller[c].id IN
       IF ~plug[p].in THEN UNCHANGED <<plug, loaded, contents>>
       ELSE IF plug[p].text = "broken" THEN plug' = [plug EXCEPT ![p].active = FALSE] /\ UNCHANGED <<loaded, contents>>
       ELSE loaded' = [loaded EXCEPT ![p] = plug[p].text] /\ contents' = [contents EXCEPT ![p] = None] /\ UNCHANGED plug
    /\ PlugGoes(c, "idle") /\ UNCHANGED neat /\ PlugSame

\* What a call of a plugin may find: the text of its row, and those that saves are about to write.
Using(c) == caller[c].op \in {"use", "filter"} /\ caller[c].at \in {"read", "compare", "load"}
PlugPending(p) == {caller[c].text : c \in {x \in PluginClient : caller[x].id = p /\ caller[x].op \in {"create", "update"}}}
Current == [p \in Plugin |-> {plug[p].text} \cup PlugPending(p)]

PluginSteps ==
    \E c \in PluginClient :
        \/ create_new_tools(c) \/ update_tools_by_id(c) \/ delete_tools_by_id(c) \/ update_tool_access_by_id(c)
        \/ create_new_function(c) \/ update_function_by_id(c) \/ delete_function_by_id(c) \/ sync_functions(c)
        \/ toggle_function_by_id(c) \/ toggle_global_by_id(c) \/ deactivate_all_functions(c)
        \/ get_tools(c) \/ update_tools_valves_by_id(c) \/ update_function_valves_by_id(c)
        \/ generate_function_chat_completion(c) \/ chat_action(c) \/ resolve_filter_pipeline(c) \/ dispatch_event_functions(c)
        \/ load_fails(c) \/ load_module(c) \/ save_row(c) \/ plug_refused(c) \/ grant_tools(c) \/ revoke_tools(c)
        \/ delete_plugin(c) \/ plug_pop(c) \/ write_toggle(c) \/ plug_read(c) \/ module_from_cache(c) \/ plug_runs(c) \/ module_for_stream(c)

PluginNext ==
    /\ PluginSteps
    /\ meanwhile' = [c \in PluginClient |-> IF Using(c)' THEN meanwhile[c] \cup Current'[caller'[c].id] ELSE {}]

PluginSpec == PluginInit /\ [][PluginNext]_pluginVars

-----------------------------------------------------------------------------
PluginTypeOK ==
    /\ \A p \in Plugin : plug[p].text \in PlugText \cup {None} /\ loaded[p] \in Source \cup {None} /\ contents[p] \in PlugText \cup {None}
    /\ pluginCalls \in 0..MaxPluginCalls /\ pluginFails \in 0..MaxPluginFails

\* The code a call takes is a text that the table held, or a save was about to
\* write, while the call was made; and the module beside a text that matches
\* the row is made from that text once no request is on its way.
PluginStep ==
    neat =>
        /\ \A c \in PluginClient : caller[c].at # "run" /\ caller'[c].at = "run" => caller'[c].shown \in meanwhile[c]
        /\ \A p \in Plugin :
              plug[p].in /\ UpToDate(p, plug[p].text) /\ (\A c \in PluginClient : caller[c].id # p)
                  => loaded[p] = plug[p].text

\* Plugins: a call runs code the table held, or was about to be given, while it
\* was made, and a module beside a matching text was made from it.
PluginsHold == [][PluginStep /\ PluginTypeOK']_pluginVars
=============================================================================
