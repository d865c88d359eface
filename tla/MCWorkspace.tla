---------------------------- MODULE MCWorkspace ----------------------------
(* Small instances of what a user works with: what is looked up for a        *)
(* question, the chat's history, the turn that answers and the tools it may  *)
(* call, the shared library, channels, memories, providers and settings.     *)
(* They share no state: each behaviour exercises one and leaves the others  *)
(* at rest.                                                                  *)
EXTENDS Retrieval, ChatHistory, ChatTurn, BuiltinTools, Library, Channels, Memory, Providers, Settings, TLC

CONSTANTS n1, f1, b1, h1, ch1, po1, sk1, cal1, ev1, au1, fo1, me1

\* Retrieval: four texts, two of which say the same.
SubjectKinds == f1 :> "file" @@ b1 :> "base" @@ n1 :> "note"
Scores == "p" :> 1 @@ "q" :> 2 @@ "r" :> 3 @@ "s" :> 4
Says == "p" :> "x" @@ "q" :> "y" @@ "r" :> "x" @@ "s" :> "z"
\* ChatTurn: requests that ask for everything, for less, and answers of every kind.
Turn(p, l, s, u, a) == [parts |-> p, legacy |-> l, saved |-> s, ui |-> u, answer |-> a]
Turns ==
    {Turn(Part, TRUE, TRUE, TRUE, "json"), Turn(Part, FALSE, TRUE, TRUE, "stream"),
     Turn({"knowledge", "attached", "tools"}, FALSE, FALSE, FALSE, "other")}
    \cup {Turn({"folder", "tools", "terminal"}, FALSE, TRUE, TRUE, a) : a \in {"empty", "error"}}
\* BuiltinTools: one thing of each sort.
Sorts ==
    n1 :> "note" @@ f1 :> "file" @@ b1 :> "base" @@ h1 :> "chat" @@ ch1 :> "channel" @@ po1 :> "post" @@ sk1 :> "skill"
    @@ cal1 :> "calendar" @@ ev1 :> "event" @@ au1 :> "automation" @@ fo1 :> "folder" @@ me1 :> "memory"
\* Library: private, and readable by everyone.
Grants == {{}, {<<"*", "read">>}}
\* Memory: a path, the one above it, and none.
Paths == {<<>>, <<"x">>, <<"x", "y">>}
\* Providers: a model that two servers have, asked for with the prefix the second connection may have.
Offers == "a" :> {"m"} @@ "b" :> {"m", "n"}
AskedFor == {<<"p", "m">>}
\* Settings: what the code ships with, a legacy webhook url, and an old file that sets two keys.
Shipped ==
    [k \in Keys |->
        CASE k = "embedder" -> "" [] k = "ranker" -> "none" [] k = "hybrid" -> FALSE [] k = "legacy" -> TRUE
          [] k = "servers" -> <<>> [] k = "callees" -> {} [] OTHER -> 0]
InOldFile == "plain" :> 2 @@ "embedder" :> "openai"

VARIABLE area

vars == <<area, retrievalVars, historyVars, turnVars, btVars, libVars, channelVars, memoryVars, providerVars, settingsVars>>

\* What is at rest holds nothing.
RetrievalRests ==
    /\ may = None /\ shelf = None /\ texts = None /\ lookup = None /\ lookups = None /\ rightsChanges = None
    /\ storeErrors = None
HistoryRests ==
    /\ dialect = None /\ hist = None /\ rowsOf = None /\ page = None /\ edit = None /\ historyCalls = None
    /\ rowFails = None /\ uncrossed = None /\ gone = None /\ born = None
TurnRests ==
    /\ plan = None /\ at = None /\ mayUse = None /\ reached = None /\ given = None /\ tried = None /\ connected = None
    /\ mcp_clients = None /\ recorded = None /\ row = None /\ exists = None /\ snapshot = None /\ told = None
    /\ failed = None /\ by_user = None
BtRests ==
    /\ tool = None /\ there = None /\ keeper = None /\ mayRead = None /\ mayWrite = None /\ within = None /\ attached = None /\ me = None /\ wanted = None /\ stage = None /\ held = None
    /\ shown = None /\ done = None /\ since = None /\ lay = None /\ btChanges = None
LibRests ==
    /\ lib = None /\ desk = None /\ libCalls = None /\ libFails = None /\ libKind = None /\ apart = None
ChannelRests ==
    /\ ch = None /\ rooms = None /\ work = None /\ channelCalls = None /\ channelFails = None /\ orderly = None
    /\ hidden = None
MemoryRests ==
    /\ remembered = None /\ vectors = None /\ job = None /\ loose = None /\ shownTo = None /\ memoryCalls = None
    /\ memoryFails = None
ProviderRests ==
    /\ provider = None /\ conf = None /\ aligned = None /\ known = None /\ call = None /\ providerCalls = None
SettingsRest ==
    /\ config = None /\ DEFAULTS = None /\ legacyFile = None /\ phase = None /\ app = None /\ ask = None /\ wished = None
    /\ crossed = None /\ imported = None /\ raised = None /\ served = None /\ settingsLeft = None

Init ==
    /\ area \in {"retrieval", "history", "turn", "tools", "library", "channels", "memory", "providers", "settings"}
    /\ IF area = "retrieval" THEN RetrievalInit ELSE RetrievalRests
    /\ IF area = "history" THEN HistoryInit ELSE HistoryRests
    /\ IF area = "turn" THEN TurnInit ELSE TurnRests
    /\ IF area = "tools" THEN BtInit ELSE BtRests
    /\ IF area = "library" THEN LibInit ELSE LibRests
    /\ IF area = "channels" THEN ChannelInit ELSE ChannelRests
    /\ IF area = "memory" THEN MemoryInit ELSE MemoryRests
    /\ IF area = "providers" THEN ProviderInit ELSE ProviderRests
    /\ IF area = "settings" THEN SettingsInit ELSE SettingsRest

Next ==
    /\ UNCHANGED area
    /\ \/ area = "retrieval" /\ RetrievalNext
       \/ area # "retrieval" /\ UNCHANGED retrievalVars
    /\ \/ area = "history" /\ HistoryNext
       \/ area # "history" /\ UNCHANGED historyVars
    /\ \/ area = "turn" /\ TurnNext
       \/ area # "turn" /\ UNCHANGED turnVars
    /\ \/ area = "tools" /\ BtNext
       \/ area # "tools" /\ UNCHANGED btVars
    /\ \/ area = "library" /\ LibNext
       \/ area # "library" /\ UNCHANGED libVars
    /\ \/ area = "channels" /\ ChannelNext
       \/ area # "channels" /\ UNCHANGED channelVars
    /\ \/ area = "memory" /\ MemoryNext
       \/ area # "memory" /\ UNCHANGED memoryVars
    /\ \/ area = "providers" /\ ProviderNext
       \/ area # "providers" /\ UNCHANGED providerVars
    /\ \/ area = "settings" /\ SettingsNext
       \/ area # "settings" /\ UNCHANGED settingsVars

Spec == Init /\ [][Next]_vars

-----------------------------------------------------------------------------
(* The properties of the modules, each said of the behaviours that exercise *)
(* its own area.                                                             *)

\* retrieval/utils.py: nothing reaches a prompt that the user could not read when
\* it was checked, and merging keeps each text once, the best first.
RetrievalHolds == area = "retrieval" => RetrievalTypeOK /\ RetrievalSound

\* models/chats.py: the history of a chat stays a forest with a current message,
\* and the rows that mirror it say what it says.
HistoryHolds == area = "history" => HistoryTypeOK /\ HistorySound /\ MirrorFollows

\* merge_history under the row's lock: a message that is stored stays until it is deleted.
MessagesStay == [][area = "history" => MessagesOutlive]_historyVars

\* utils/middleware.py process_chat_payload and what follows it: whatever stage
\* fails, is refused or is cancelled, the user is told how the turn ended, what
\* was opened is closed, and what reached the model was allowed.
TurnHolds == area = "turn" => TurnTypeOK /\ TurnSound

\* tools/builtin.py: a tool shows and changes only what its user may read and write.
ToolsHold == area = "tools" => BtTypeOK /\ ToolsWithinRights

\* Prompts, models, tools, skills, notes: versions, grants and what refers to them fit together.
LibraryHolds == area = "library" => LibTypeOK /\ LibrarySound /\ BasesReadable

\* Channels: members, messages, reactions and rooms fit together at every step.
ChannelsHold == [][area = "channels" => ChannelStep]_channelVars

\* Memories: rows and the vectors a search finds say the same, and nobody else's are shown.
MemoryHolds == area = "memory" => MemoryTypeOK /\ MemorySound

\* What an administrator configures.  Providers: a request goes to a connection that
\* offers the model, with that connection's key.  Settings: they stay as they were last
\* asked for, over restarts too, and what the process built follows them.
ProvidersHold ==
    /\ area = "providers" => ProviderTypeOK /\ ConnectionsSound
    /\ area = "settings" => SettingsTypeOK /\ SettingsSound
=============================================================================
