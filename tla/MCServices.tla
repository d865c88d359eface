----------------------------- MODULE MCServices -----------------------------
(* Small instances of the services behind the chats.  They share no state:   *)
(* each behaviour exercises one of them and leaves the others as they start. *)
EXTENDS RateLimiter, ModelCache, Calendar, ToolLoop, KnowledgeBase, Accounts, SignIn,
        VectorStores, StreamAssembly, Plugins, ChatShelf, Compaction, TLC

CONSTANTS pooled1, pooled2, apart1, doc

\* VectorStores: two bases, which a multi-tenant store keeps together, and the collection of a file.
Kinds == pooled1 :> "knowledge" @@ pooled2 :> "knowledge" @@ apart1 :> "file"
Own == doc :> apart1

VARIABLE service

vars == <<service, rateVars, cacheVars, calVars, toolVars, kbVars, accountVars, signVars,
          vecVars, streamVars, pluginVars, shelfVars, cmpVars>>

\* What is not exercised and has several initial states starts in one of them, or holds nothing.
Rest(s) ==
    /\ s # "toolloop" => mode = "ask"
    /\ s # "knowledge" => bases = {}
    /\ s # "plugins" => plug[CHOOSE p \in Plugin : TRUE].text = CHOOSE t \in Source : TRUE
    /\ s # "stores" => store = CHOOSE x \in Store : TRUE
StreamRests ==
    /\ way = None /\ kind = None /\ output = None /\ fed = None /\ scanned = None /\ single = None /\ waiting = None
    /\ gathered = None /\ browser = None /\ over = None
ShelfRests == shelf = None /\ chore = None /\ shelfRequests = None /\ orderly = None /\ used = None

Init ==
    /\ service \in {"rate", "models", "calendar", "toolloop", "knowledge", "accounts", "signin",
                    "stores", "stream", "plugins", "shelf", "compaction"}
    /\ RateInit /\ CacheInit /\ CalInit /\ ToolInit /\ KbInit /\ AccountInit /\ SignInit /\ VecInit /\ PluginInit /\ CmpInit
    /\ Rest(service)
    /\ IF service = "stream" THEN StreamInit ELSE StreamRests
    /\ IF service = "shelf" THEN ShelfInit ELSE ShelfRests

Next ==
    /\ UNCHANGED service
    /\ \/ service = "rate" /\ RateNext
       \/ service # "rate" /\ UNCHANGED rateVars
    /\ \/ service = "models" /\ CacheNext
       \/ service # "models" /\ UNCHANGED cacheVars
    /\ \/ service = "calendar" /\ CalNext
       \/ service # "calendar" /\ UNCHANGED calVars
    /\ \/ service = "toolloop" /\ ToolNext
       \/ service # "toolloop" /\ UNCHANGED toolVars
    /\ \/ service = "knowledge" /\ KbNext
       \/ service # "knowledge" /\ UNCHANGED kbVars
    /\ \/ service = "accounts" /\ AccountNext
       \/ service # "accounts" /\ UNCHANGED accountVars
    /\ \/ service = "signin" /\ SignNext
       \/ service # "signin" /\ UNCHANGED signVars
    /\ \/ service = "stores" /\ VecNext
       \/ service # "stores" /\ UNCHANGED vecVars
    /\ \/ service = "stream" /\ StreamNext
       \/ service # "stream" /\ UNCHANGED streamVars
    /\ \/ service = "plugins" /\ PluginNext
       \/ service # "plugins" /\ UNCHANGED pluginVars
    /\ \/ service = "shelf" /\ ShelfNext
       \/ service # "shelf" /\ UNCHANGED shelfVars
    /\ \/ service = "compaction" /\ CmpNext
       \/ service # "compaction" /\ UNCHANGED cmpVars

Spec == Init /\ [][Next]_vars

-----------------------------------------------------------------------------
(* The properties of the modules that do not state them for any state, each *)
(* said of the behaviours that exercise its own service.                     *)

\* utils/rate_limit.py: in any window no more attempts pass than the limit, none
\* is refused without cause, and no counter stays in Redis.
RateHolds == service = "rate" => RateTypeOK /\ LimitKept

\* Knowledge bases: what a search finds is the present text of the files that are linked.
KnowledgeHolds == service = "knowledge" => KbTypeOK /\ LinkedIsSearchable /\ NothingElseSearchable

\* Streaming: the blocks found do not depend on how the text is cut, and the
\* browser can put every item together.
StreamHolds == service = "stream" => StreamTypeOK /\ ChunkingIrrelevant /\ NothingLost

\* Shares, tags and folders of chats: once the requests are done their tables refer to each other.
ShelfHolds == service = "shelf" => ShelfTypeOK /\ ShelfSound

\* Compaction: a turn's context stands for every message of its branch and no other.
CompactionHolds == service = "compaction" => CmpTypeOK /\ ContextKept
=============================================================================
