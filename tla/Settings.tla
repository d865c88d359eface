------------------------------ MODULE Settings ------------------------------
(* The settings of the server: the config table (models/config.py), what a   *)
(* process builds from it (the embedding and the reranking function, the     *)
(* OAuth clients of the tool servers) and how it starts (main.py lifespan).  *)
(* A handler reads the table, builds, and writes in one transaction, with an *)
(* await between each; a crash may come anywhere, also while starting.       *)
(* One process; what another one built earlier is not followed.              *)
EXTENDS Server, Naturals, Sequences, SequencesExt

CONSTANTS
    Embedder,            \* values of rag.embedding_engine
    Buildable,           \* those get_embedding_function knows
    Ranker,              \* a reranking engine with its model
    LocalRanker,         \* those with the engine ''
    NoRanker,            \* the engine '' without a model
    ToolServer,          \* MCP servers with OAuth, by id
    Callee,              \* event webhooks, by id
    DefaultCallee,       \* the one made of the legacy url
    Factory,             \* DEFAULT_CONFIG: the value of every key
    OldFile,             \* config.json of an earlier release: the values of some keys
    Admin,               \* requests of administrators
    MaxSettingsCalls, MaxLoadFails, MaxStarts

\* "plain" stands for a key one handler upserts by itself, "oauth" for an oauth.* key
\* and "old" for a key under the prefix rag.web, of which "plain" is the new name.
Keys == {"embedder", "ranker", "hybrid", "top", "servers", "callees", "legacy", "plain", "oauth", "old"}
Levels == 0..2
ServerLists == {s \in SeqOf(ToolServer, 2) : IsInjective(s)}
ValueOf(k) ==
    CASE k = "embedder" -> Embedder
      [] k = "ranker" -> Ranker
      [] k \in {"hybrid", "legacy"} -> BOOLEAN
      [] k = "servers" -> SeqOf(ToolServer, 2)
      [] k = "callees" -> SUBSET Callee
      [] OTHER -> Levels
Written(k, v) == [x \in {k} |-> v]

VARIABLES
    config,              \* the table Config: key -> value, None where there is no row
    DEFAULTS,            \* Config.DEFAULTS of the process
    legacyFile,          \* config.json is still there
    phase,               \* where lifespan is, "up" when it serves
    app,                 \* app.state: EMBEDDING_FUNCTION, RERANKING_FUNCTION, the OAuth clients
    ask,                 \* per administrator: the request and what it read
    wished,               \* history: what the last request for a key said
    crossed, imported, raised,   \* history: kinds that overlapped; keys imported; builds that failed
    served,              \* history: the server has been up
    settingsLeft         \* the bounds

settingsVars ==
    <<config, DEFAULTS, legacyFile, phase, app, ask, wished, crossed, imported, raised, served, settingsLeft>>

-----------------------------------------------------------------------------
persistent_enabled_for(k) == k # "oauth"

\* Config.get, get_many
ConfigGet(k) == IF persistent_enabled_for(k) /\ config[k] # None THEN config[k] ELSE DEFAULTS[k]

\* Config.upsert: one transaction for the keys the table is authoritative for.
Config_upsert(u) ==
    /\ config' = [k \in Keys |-> IF k \in DOMAIN u /\ persistent_enabled_for(k) THEN u[k] ELSE config[k]]
    /\ DEFAULTS' = [k \in Keys |-> IF k \in DOMAIN u /\ ~persistent_enabled_for(k) THEN u[k] ELSE DEFAULTS[k]]

Unbuilt == [embed |-> None, rank |-> None, clients |-> {}]
NoAsk == [op |-> "none", step |-> "none", arg |-> None, seen |-> None]
KindOf(op) ==
    CASE op \in {"servers", "register", "ensure"} -> "servers"
      [] op \in {"create", "update", "delete"} -> "callees"
      [] OTHER -> op

\* get_reranking_function: no function without a model.
FunctionOf(r) == IF r = NoRanker THEN None ELSE r

-----------------------------------------------------------------------------
(* The start: lifespan, step by step.  Nothing is served until it is done.   *)

\* RESET_CONFIG_ON_START: Config.clear, as the operator sets it for this start.
Boot(reset) ==
    /\ phase = "down" /\ settingsLeft.starts > 0
    /\ phase' = "file"
    /\ settingsLeft' = [settingsLeft EXCEPT !.starts = @ - 1]
    /\ DEFAULTS' = Factory
    /\ config' = IF reset THEN [k \in Keys |-> None] ELSE config
    /\ wished' = [k \in Keys |-> IF reset \/ ~persistent_enabled_for(k) THEN Factory[k] ELSE wished[k]]
    /\ UNCHANGED <<served, legacyFile, app, ask, crossed, imported, raised>>

\* import_legacy_config_json upserts the file and renames it only then: a crash
\* between the two has the next start read the file again.
import_legacy_config_json ==
    /\ phase = "file" /\ legacyFile
    /\ Config_upsert(OldFile)
    /\ wished' = [k \in Keys |-> IF ~served /\ k \in DOMAIN OldFile THEN OldFile[k] ELSE wished[k]]
    /\ phase' = "rename"
    /\ UNCHANGED <<served, legacyFile, app, ask, crossed, imported, raised, settingsLeft>>
RenameFile ==
    /\ \/ phase = "rename" /\ legacyFile' = FALSE
       \/ phase = "file" /\ ~legacyFile /\ UNCHANGED legacyFile
    /\ phase' = "prefix"
    /\ UNCHANGED <<served, config, DEFAULTS, app, ask, wished, crossed, imported, raised, settingsLeft>>

\* Config.rename_prefix('rag.web', 'web'): a row under the new name wins.
rename_prefix ==
    /\ phase = "prefix"
    /\ config' = [config EXCEPT !["plain"] = IF @ = None THEN config["old"] ELSE @, !["old"] = None]
    /\ wished' = [wished EXCEPT !["plain"] = IF config["plain"] = None /\ config["old"] # None THEN config["old"] ELSE @]
    /\ phase' = "seed"
    /\ UNCHANGED <<served, DEFAULTS, legacyFile, app, ask, crossed, imported, raised, settingsLeft>>

\* Config.seed_defaults inserts what is missing.
seed_defaults ==
    /\ phase = "seed"
    /\ config' = [k \in Keys |-> IF config[k] = None /\ k # "old" /\ persistent_enabled_for(k) THEN Factory[k] ELSE config[k]]
    /\ phase' = "runtime"
    /\ UNCHANGED <<served, DEFAULTS, legacyFile, app, ask, wished, crossed, imported, raised, settingsLeft>>

\* initialize_runtime_config: a reranker that does not load is left out; an engine
\* nobody knows ends the start.  A client whose registration cannot be read is skipped.
initialize_runtime_config(loads, readable) ==
    /\ phase = "runtime"
    /\ (loads /\ readable = ToolServer) \/ settingsLeft.fails > 0
    /\ settingsLeft' = IF loads /\ readable = ToolServer THEN settingsLeft ELSE [settingsLeft EXCEPT !.fails = @ - 1]
    /\ IF ConfigGet("embedder") \in Buildable
       THEN /\ phase' = "migrate"
            /\ app' = [embed |-> ConfigGet("embedder"),
                       rank |-> IF ConfigGet("hybrid") /\ loads THEN FunctionOf(ConfigGet("ranker")) ELSE None,
                       clients |-> ToSet(ConfigGet("servers")) \cap readable]
       ELSE phase' = "down" /\ app' = Unbuilt
    /\ raised' = IF loads THEN {} ELSE {"rag"}
    /\ UNCHANGED <<served, config, DEFAULTS, legacyFile, ask, wished, crossed, imported>>

\* migrate_legacy_webhook_config: the legacy url becomes the default webhook.
migrate_legacy_webhook_config ==
    /\ phase = "migrate"
    /\ LET makes == DefaultCallee \notin ConfigGet("callees") /\ ConfigGet("legacy") IN
       Config_upsert(IF makes THEN Written("callees", ConfigGet("callees") \cup {DefaultCallee}) ELSE <<>>)
    /\ wished' = [wished EXCEPT !["callees"] = IF wished["legacy"] THEN @ \cup {DefaultCallee} ELSE @]
    /\ phase' = "up" /\ served' = TRUE
    /\ UNCHANGED <<legacyFile, app, ask, crossed, imported, raised, settingsLeft>>

SettingsCrash ==
    /\ phase # "down"
    /\ phase' = "down" /\ app' = Unbuilt /\ ask' = [c \in Admin |-> NoAsk]
    /\ raised' = {}
    /\ UNCHANGED <<served, config, DEFAULTS, legacyFile, wished, crossed, imported, settingsLeft>>

-----------------------------------------------------------------------------
(* What the handlers share.                                                  *)

Asking(c) == ask[c].op # "none"
\* A request starts, with the values it first awaits.
Opens(c, op, arg, seen) ==
    /\ phase = "up" /\ ~Asking(c) /\ settingsLeft.calls > 0
    /\ settingsLeft' = [settingsLeft EXCEPT !.calls = @ - 1]
    /\ ask' = [ask EXCEPT ![c] = [op |-> op, step |-> "read", arg |-> arg, seen |-> seen]]
    /\ crossed' = IF \E d \in Admin \ {c} : Asking(d) /\ KindOf(ask[d].op) = KindOf(op)
                  THEN crossed \cup {KindOf(op)} ELSE crossed
    /\ UNCHANGED <<served, config, DEFAULTS, legacyFile, phase, app, wished, imported, raised>>
AtStep(c, op, step) == phase = "up" /\ ask[c].op = op /\ ask[c].step = step
Move(c, step) == ask' = [ask EXCEPT ![c].step = step]
Finish(c) == ask' = [ask EXCEPT ![c] = NoAsk]
\* The request's write, and what the administrator wished for with it.
Commit(c, u, wish) ==
    /\ Config_upsert(u)
    /\ wished' = [k \in Keys |-> IF k \in DOMAIN wish THEN wish[k] ELSE wished[k]]
    /\ UNCHANGED <<served, legacyFile, phase, crossed, imported, settingsLeft>>
TableKept == UNCHANGED <<served, config, DEFAULTS, legacyFile, phase, wished, crossed, imported>>

-----------------------------------------------------------------------------
(* Embedding and reranking: routers/retrieval.py.                            *)

ReadEmbedding(c, e) == Opens(c, "embed", e, ConfigGet("embedder"))
\* update_embedding_config after unload_embedding_model has read the table: the local
\* model goes first, and an unknown engine raises with nothing saved.
update_embedding_config(c) ==
    /\ AtStep(c, "embed", "read")
    /\ LET unloaded == IF ask[c].seen = "" THEN None ELSE app.embed IN
       IF ask[c].arg \in Buildable
       THEN app' = [app EXCEPT !.embed = ask[c].arg] /\ Move(c, "save") /\ UNCHANGED raised
       ELSE app' = [app EXCEPT !.embed = unloaded] /\ Finish(c) /\ raised' = raised \cup {"embed"}
    /\ TableKept /\ UNCHANGED settingsLeft
SaveEmbedding(c) ==
    /\ AtStep(c, "embed", "save")
    /\ LET u == Written("embedder", ask[c].arg) IN Commit(c, u, u)
    /\ Finish(c) /\ raised' = raised \ {"embed"}
    /\ UNCHANGED app

\* update_rag_config: a field the form leaves out keeps the value read.
ReadRag(c, form) ==
    Opens(c, "rag", form, [k \in {"ranker", "hybrid", "top"} |-> ConfigGet(k)])
Merged(c) == [k \in {"ranker", "hybrid", "top"} |-> IF k \in DOMAIN ask[c].arg THEN ask[c].arg[k] ELSE ask[c].seen[k]]
\* A reranker that does not load switches hybrid search off.
update_rag_config(c, loads) ==
    /\ AtStep(c, "rag", "read")
    /\ loads \/ (Merged(c).hybrid /\ settingsLeft.fails > 0)
    /\ settingsLeft' = IF loads THEN settingsLeft ELSE [settingsLeft EXCEPT !.fails = @ - 1]
    /\ LET unloaded == IF ask[c].seen.ranker \in LocalRanker THEN None ELSE app.rank IN
       app' = [app EXCEPT !.rank = IF Merged(c).hybrid /\ loads THEN FunctionOf(Merged(c).ranker) ELSE unloaded]
    /\ ask' = [ask EXCEPT ![c].step = "save",
                          ![c].arg = IF loads THEN @ ELSE Written("hybrid", FALSE) @@ @]
    /\ TableKept /\ UNCHANGED raised
\* RetrievalConfig.save: every field was assigned, so every key is written.
SaveRag(c) ==
    /\ AtStep(c, "rag", "save")
    /\ Commit(c, Merged(c), ask[c].arg)
    /\ Finish(c) /\ raised' = raised \ {"rag"}
    /\ UNCHANGED app

-----------------------------------------------------------------------------
(* Tool servers and their OAuth clients: routers/configs.py, main.py, oauth. *)

ReadServers(c, list) == Opens(c, "servers", list, ConfigGet("servers"))
\* set_tool_servers_config: out go the clients of the connections it read.
RemoveClients(c) ==
    /\ AtStep(c, "servers", "read")
    /\ app' = [app EXCEPT !.clients = @ \ ToSet(ask[c].seen)]
    /\ Move(c, "save") /\ TableKept /\ UNCHANGED <<raised, settingsLeft>>
SaveServers(c) ==
    /\ AtStep(c, "servers", "save")
    /\ LET u == Written("servers", ask[c].arg) IN Commit(c, u, u)
    /\ Move(c, "add") /\ UNCHANGED <<app, raised>>
\* Then a client for each of the new ones whose registration can be read.
set_tool_servers_config(c, readable) ==
    /\ AtStep(c, "servers", "add")
    /\ readable = ToolServer \/ settingsLeft.fails > 0
    /\ settingsLeft' = IF readable = ToolServer THEN settingsLeft ELSE [settingsLeft EXCEPT !.fails = @ - 1]
    /\ app' = [app EXCEPT !.clients = @ \cup (ToSet(ask[c].arg) \cap readable)]
    /\ Finish(c) /\ TableKept /\ UNCHANGED raised

\* ensure_client_from_config: the client of a server is made when it is first needed.
Ensure(c, s) ==
    /\ s \notin app.clients
    /\ Opens(c, "ensure", s, ConfigGet("servers"))
ensure_client_from_config(c) ==
    /\ AtStep(c, "ensure", "read")
    /\ app' = [app EXCEPT !.clients = @ \cup ({ask[c].arg} \cap ToSet(ask[c].seen))]
    /\ Finish(c) /\ TableKept /\ UNCHANGED <<raised, settingsLeft>>

\* register_client: a connection is found by its place, the server is wished to register,
\* and the place in the list as it then is takes the connection found.
Register(c, s) ==
    /\ Contains(ConfigGet("servers"), s)
    /\ Opens(c, "register", s, ConfigGet("servers"))
Reread(c) ==
    /\ AtStep(c, "register", "read")
    /\ LET place == CHOOSE i \in DOMAIN ask[c].seen : ask[c].seen[i] = ask[c].arg IN
       IF place \in DOMAIN ConfigGet("servers")
       THEN ask' = [ask EXCEPT ![c].step = "save", ![c].seen = [ConfigGet("servers") EXCEPT ![place] = ask[c].arg]]
       ELSE Finish(c)
    /\ TableKept /\ UNCHANGED <<app, raised, settingsLeft>>
register_client(c) ==
    /\ AtStep(c, "register", "save")
    /\ Commit(c, Written("servers", ask[c].seen), <<>>)
    /\ app' = [app EXCEPT !.clients = @ \cup {ask[c].arg}]
    /\ Finish(c) /\ UNCHANGED raised

-----------------------------------------------------------------------------
(* Event webhooks: events.py and main.py.                                    *)

\* A new webhook has an id of its own.
CreateCallee(c, w) ==
    /\ w \notin wished["callees"] \cup ConfigGet("callees") \cup {DefaultCallee} /\ \A d \in Admin : ask[d].arg # w
    /\ Opens(c, "create", w, ConfigGet("callees"))
\* update_event_webhook looks the webhook up; what it writes is of a second reading.
UpdateCallee(c, w) == w \in ConfigGet("callees") /\ Opens(c, "update", w, None)
update_event_webhook(c) ==
    /\ AtStep(c, "update", "read") /\ ask[c].seen = None
    /\ ask' = [ask EXCEPT ![c].seen = ConfigGet("callees")]
    /\ TableKept /\ UNCHANGED <<app, raised, settingsLeft>>
upsert_event_webhook(c) ==
    /\ ask[c].op \in {"create", "update"} /\ ask[c].seen # None /\ phase = "up"
    /\ Commit(c, Written("callees", ask[c].seen \cup {ask[c].arg}),
               IF ask[c].op = "create" THEN Written("callees", wished["callees"] \cup {ask[c].arg}) ELSE <<>>)
    /\ Finish(c) /\ UNCHANGED <<app, raised>>
DeleteCallee(c, w) == w \in ConfigGet("callees") /\ Opens(c, "delete", w, ConfigGet("callees"))
\* delete_event_webhook: with the default one goes the legacy url.
Withdrawn(w, list) == Written("callees", list \ {w}) @@ (IF w = DefaultCallee THEN Written("legacy", FALSE) ELSE <<>>)
delete_event_webhook(c) ==
    /\ AtStep(c, "delete", "read")
    /\ Commit(c, Withdrawn(ask[c].arg, ask[c].seen),
               [k \in {"callees", "legacy"} |-> IF k = "callees" THEN wished[k] \ {ask[c].arg}
                                                ELSE wished[k] /\ ask[c].arg # DefaultCallee])
    /\ Finish(c) /\ UNCHANGED <<app, raised>>

-----------------------------------------------------------------------------
\* Handlers that upsert their own keys and nothing else.
SetPlain(c, k, v) ==
    /\ phase = "up" /\ ~Asking(c) /\ settingsLeft.calls > 0
    /\ settingsLeft' = [settingsLeft EXCEPT !.calls = @ - 1]
    /\ Config_upsert(Written(k, v))
    /\ wished' = [wished EXCEPT ![k] = v]
    /\ UNCHANGED <<served, legacyFile, phase, app, ask, crossed, imported, raised>>

\* import_config upserts whatever it is given and builds nothing.
import_config(c, k, v) ==
    /\ phase = "up" /\ ~Asking(c) /\ settingsLeft.calls > 0
    /\ settingsLeft' = [settingsLeft EXCEPT !.calls = @ - 1]
    /\ Config_upsert(Written(k, v))
    /\ wished' = [wished EXCEPT ![k] = v]
    /\ crossed' = crossed \cup {KindOf(ask[d].op) : d \in {x \in Admin : Asking(x)}}
    /\ imported' = imported \cup {k}
    /\ UNCHANGED <<served, legacyFile, phase, app, ask, raised>>

-----------------------------------------------------------------------------
RagForms == {Written("ranker", r) : r \in Ranker} \cup {Written("hybrid", h) : h \in BOOLEAN} \cup {Written("top", 2)}

SettingsInit ==
    /\ config \in {[k \in Keys |-> None], [k \in Keys |-> IF k = "old" THEN 1 ELSE None]}
    /\ DEFAULTS = Factory /\ legacyFile \in BOOLEAN /\ phase = "down" /\ app = Unbuilt
    /\ ask = [c \in Admin |-> NoAsk] /\ wished = Factory
    /\ served = FALSE /\ crossed = {} /\ imported = {} /\ raised = {}
    /\ settingsLeft = [calls |-> MaxSettingsCalls, fails |-> MaxLoadFails, starts |-> MaxStarts]

SettingsNext ==
    \/ \E b \in BOOLEAN : Boot(b)
    \/ import_legacy_config_json \/ RenameFile \/ rename_prefix \/ seed_defaults
    \/ \E b \in BOOLEAN, S \in SUBSET ToolServer : initialize_runtime_config(b, S)
    \/ migrate_legacy_webhook_config \/ SettingsCrash
    \/ \E c \in Admin :
          \/ \E e \in Embedder : ReadEmbedding(c, e)
          \/ update_embedding_config(c) \/ SaveEmbedding(c)
          \/ \E f \in RagForms : ReadRag(c, f)
          \/ \E b \in BOOLEAN : update_rag_config(c, b)
          \/ SaveRag(c)
          \/ \E l \in ServerLists : ReadServers(c, l)
          \/ RemoveClients(c) \/ SaveServers(c)
          \/ \E S \in SUBSET ToolServer : set_tool_servers_config(c, S)
          \/ \E s \in ToolServer : Ensure(c, s) \/ Register(c, s)
          \/ ensure_client_from_config(c) \/ Reread(c) \/ register_client(c)
          \/ \E w \in Callee : CreateCallee(c, w) \/ UpdateCallee(c, w) \/ DeleteCallee(c, w)
          \/ update_event_webhook(c) \/ upsert_event_webhook(c) \/ delete_event_webhook(c)
          \/ \E k \in {"plain", "oauth"} : SetPlain(c, k, 2)
          \/ \E k \in {"embedder", "servers"} : \E v \in ValueOf(k) : import_config(c, k, v)

-----------------------------------------------------------------------------
SettingsTypeOK ==
    /\ \A k \in Keys : config[k] \in ValueOf(k) \cup {None} /\ DEFAULTS[k] \in ValueOf(k) /\ wished[k] \in ValueOf(k)
    /\ app.embed \in Buildable \cup {None} /\ app.rank \in Ranker \cup {None} /\ app.clients \subseteq ToolServer

Undisturbed(kind) == phase = "up" /\ kind \notin crossed /\ \A c \in Admin : Asking(c) => KindOf(ask[c].op) # kind
KindOfKey(k) ==
    CASE k = "embedder" -> "embed"
      [] k \in {"ranker", "hybrid", "top"} -> "rag"
      [] k = "legacy" -> "callees"
      [] OTHER -> k

\* A setting is what it was last wished to be, over crashes, starts and the import of an
\* old file, unless two requests for settings of its kind overlapped: in particular a
\* deleted webhook stays away and a save of other settings reverts nothing.
SettingsKept == \A k \in Keys \ {"old"} : Undisturbed(KindOfKey(k)) => ConfigGet(k) = wished[k]

\* What the process uses is what the table says.
FunctionsFollow ==
    /\ Undisturbed("embed") /\ {"embedder"} \cap imported = {} /\ "embed" \notin raised => app.embed = ConfigGet("embedder")
    /\ Undisturbed("rag") /\ ConfigGet("hybrid") =>
          app.rank = FunctionOf(ConfigGet("ranker")) \/ ("rag" \in raised /\ app.rank = None)

\* Only an import stores an engine with which the next start would fail.
StartSucceeds == "embedder" \notin imported => config["embedder"] \in Buildable \cup {None}

\* No client outlives its tool server's connection.
ClientsBelong == Undisturbed("servers") /\ "servers" \notin imported => app.clients \subseteq ToSet(ConfigGet("servers"))

SettingsSound == SettingsKept /\ FunctionsFollow /\ StartSucceeds /\ ClientsBelong
=============================================================================
