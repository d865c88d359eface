----------------------------- MODULE ModelCache -----------------------------
(* The list of models every request is resolved against: utils/models.py    *)
(* get_all_models, the base models cached in Redis and in each process, and *)
(* app.state.MODELS, a RedisDict (socket/utils.py) that several processes   *)
(* rewrite, with its content signature.  RedisDict blocks its process, but  *)
(* other processes run between any two of its calls.                        *)
EXTENDS Naturals, FiniteSets, Server

CONSTANTS
    Base,       \* ids of models the providers may offer
    Preset,     \* ids of models defined on top of them
    MaxChanges, \* bound: provider and model changes
    MaxListings,\* bound: calls of get_all_models
    MaxRaised   \* bound: raising calls of RedisDict.set

ASSUME ModelCacheAssumption ==
    /\ Base \cap Preset = {} /\ None \notin [Base \cup Preset -> {"plain", "custom", "absent"}]
    /\ MaxChanges \in Nat /\ MaxListings \in Nat /\ MaxRaised \in Nat

VARIABLES
    provider,   \* what the providers offer now
    custom,     \* the model table: id -> "none", "active" or "inactive"
    redisBase,  \* BASE_MODELS_CACHE_KEY, or None
    localBase,  \* app.state.BASE_MODELS of each process
    hash,       \* the models hash: id -> "plain", "custom" or "absent"
    signature,  \* its content signature, or None
    detached,   \* processes whose app.state.MODELS is a dict of their own
    call,       \* get_all_models in progress in each process
    changes, calls, raisedM,
    overlap,    \* history: two processes rewrote the dictionary at a time
    sure   \* history: the base models were dropped under a fetch

cacheVars == <<provider, custom, redisBase, localBase, hash, signature, detached, call,
               changes, calls, raisedM, overlap, sure>>
boundVars == <<changes, calls, raisedM>>
inVars == <<provider, custom>>
baseVars == <<redisBase, localBase>>
dictVars == <<hash, signature>>
noteVars == <<overlap, sure>>

Model == Base \cup Preset
Mapping == [Model -> {"plain", "custom", "absent"}]
Empty == [m \in Model |-> "absent"]
Keys(f) == {m \in Model : f[m] # "absent"}
NoCall == [step |-> "none", base |-> {}, map |-> Empty, old |-> {}]
Writers == {p \in Process : call[p].step \in {"compare", "keys", "hset", "hdel", "sign", "unsign"}}

(* get_all_models: overrides rename a base model or hide it, presets are    *)
(* added under ids of their own.                                            *)
Assembled(base, table) ==
    [m \in Model |->
        IF m \in Base
        THEN IF m \notin base \/ table[m] = "inactive" THEN "absent"
             ELSE IF table[m] = "active" THEN "custom" ELSE "plain"
        ELSE IF table[m] = "active" THEN "custom" ELSE "absent"]

CacheInit ==
    /\ provider = Base
    /\ custom = [m \in Model |-> "none"]
    /\ redisBase = None /\ localBase = [p \in Process |-> {}]
    /\ hash = Empty /\ signature = None /\ detached = {}
    /\ call = [p \in Process |-> NoCall]
    /\ changes = 0 /\ calls = 0 /\ raisedM = 0
    /\ overlap = FALSE /\ sure = {}

Goto(p, step) == call' = [call EXCEPT ![p].step = step]
End(p) == call' = [call EXCEPT ![p] = NoCall]

(* The providers' offer changes, or an administrator edits the model table. *)
Change ==
    /\ changes < MaxChanges /\ changes' = changes + 1
    /\ \/ provider' \in SUBSET Base /\ provider' # provider /\ UNCHANGED custom
       \/ \E m \in Model, v \in {"active", "inactive"} :
             custom' = [custom EXCEPT ![m] = v] /\ UNCHANGED provider
    /\ sure' = {}
    /\ UNCHANGED <<redisBase, localBase, dictVars, detached, call, calls, raisedM,
                   overlap>>

(* A refresh forgets the base models before anything is fetched. *)
Refresh(p) ==
    /\ call[p].step = "none" /\ calls < MaxListings /\ calls' = calls + 1
    /\ redisBase' = None /\ localBase' = [localBase EXCEPT ![p] = {}]
    /\ sure' = sure \cup {p}
    /\ Goto(p, "fetch")
    /\ UNCHANGED <<provider, custom, dictVars, detached, changes, raisedM, overlap>>

(* Without one, the base models of Redis are used if it has any. *)
UseCached(p) ==
    /\ call[p].step = "none" /\ calls < MaxListings /\ calls' = calls + 1
    /\ IF redisBase \in {None, {}}
       THEN Goto(p, "fetch") /\ UNCHANGED localBase
       ELSE /\ localBase' = [localBase EXCEPT ![p] = redisBase]
            /\ call' = [call EXCEPT ![p].step = "build", ![p].base = redisBase]
    /\ sure' = sure \ {p}
    /\ UNCHANGED <<provider, custom, redisBase, dictVars, detached, changes, raisedM,
                   overlap>>

(* get_all_base_models: an empty answer leaves the previous base models. *)
get_all_base_models(p) ==
    /\ call[p].step = "fetch"
    /\ IF provider # {}
       THEN /\ localBase' = [localBase EXCEPT ![p] = provider]
            /\ call' = [call EXCEPT ![p].step = "store", ![p].base = provider]
       ELSE /\ call' = [call EXCEPT ![p].step = "build", ![p].base = localBase[p]]
            /\ UNCHANGED localBase
    /\ UNCHANGED <<provider, custom, redisBase, dictVars, detached, boundVars, noteVars>>

StoreBase(p) ==
    /\ call[p].step = "store"
    /\ redisBase' = call[p].base
    /\ Goto(p, "build")
    /\ UNCHANGED <<provider, custom, localBase, dictVars, detached, boundVars, noteVars>>

(* The list is put together from the base models and the model table; with  *)
(* no base model the call returns without touching MODELS.                  *)
Build(p) ==
    LET map == Assembled(call[p].base, custom) IN
    /\ call[p].step = "build"
    /\ IF call[p].base = {} \/ p \in detached
       THEN End(p) /\ UNCHANGED <<hash, signature, overlap>>
       ELSE IF Keys(map) = {}
       THEN /\ hash' = Empty /\ UNCHANGED signature
            /\ overlap' = (overlap \/ Writers # {})
            /\ Goto(p, "unsign")
       ELSE /\ call' = [call EXCEPT ![p].step = "compare", ![p].map = map]
            /\ overlap' = (overlap \/ Writers # {})
            /\ UNCHANGED <<hash, signature>>
    /\ UNCHANGED <<inVars, baseVars, detached, boundVars, sure>>

(* RedisDict.set: nothing to do if the signature is that of the mapping. *)
Compare(p) ==
    /\ call[p].step = "compare"
    /\ IF signature = call[p].map THEN End(p) ELSE Goto(p, "keys")
    /\ UNCHANGED <<inVars, baseVars, dictVars, detached, boundVars, noteVars>>

HKeys(p) ==
    /\ call[p].step = "keys"
    /\ call' = [call EXCEPT ![p].step = "hset", ![p].old = Keys(hash)]
    /\ UNCHANGED <<inVars, baseVars, dictVars, detached, boundVars, noteVars>>

(* The hash is emptied before the new content is written. *)
HSet_DeleteFirst(p) ==
    /\ call[p].step = "hset"
    /\ IF Keys(hash) # {} THEN hash' = Empty /\ UNCHANGED call
       ELSE /\ hash' = [m \in Model |-> IF call[p].map[m] # "absent" THEN call[p].map[m] ELSE hash[m]]
            /\ Goto(p, "hdel")
    /\ UNCHANGED <<inVars, baseVars, signature, detached, boundVars, noteVars>>

HSet(p) ==
    /\ call[p].step = "hset"
    /\ hash' = [m \in Model |-> IF call[p].map[m] # "absent" THEN call[p].map[m] ELSE hash[m]]
    /\ Goto(p, "hdel")
    /\ UNCHANGED <<inVars, baseVars, signature, detached, boundVars, noteVars>>

(* The keys that were there and are not in the new mapping go. *)
HDel(p) ==
    /\ call[p].step = "hdel"
    /\ hash' = [m \in Model |-> IF m \in call[p].old \ Keys(call[p].map) THEN "absent" ELSE hash[m]]
    /\ Goto(p, "sign")
    /\ UNCHANGED <<inVars, baseVars, signature, detached, boundVars, noteVars>>

(* set(mapping) *)
Sign(p) ==
    /\ call[p].step = "sign"
    /\ signature' = call[p].map
    /\ End(p)
    /\ UNCHANGED <<inVars, baseVars, hash, detached, boundVars, noteVars>>

(* A call of set raises: the process keeps a dictionary of its own from now *)
(* on, and what set had written stays.                                      *)
SetRaises(p) ==
    /\ p \in Writers /\ call[p].step # "unsign" /\ raisedM < MaxRaised /\ raisedM' = raisedM + 1
    /\ detached' = detached \cup {p}
    /\ End(p)
    /\ UNCHANGED <<inVars, baseVars, hash, signature, changes, calls, noteVars>>

(* clear(): the hash is gone, its signature goes next. *)
Unsign(p) ==
    /\ call[p].step = "unsign"
    /\ signature' = None
    /\ End(p)
    /\ UNCHANGED <<inVars, baseVars, hash, detached, boundVars, noteVars>>

(* An administrator changes the connections of a provider (update_config of *)
(* the OpenAI and Ollama routers): the caches are dropped, MODELS cleared.  *)
clear_openai_model_cache(p) ==
    /\ call[p].step = "none" /\ changes < MaxChanges /\ changes' = changes + 1
    /\ provider' \in SUBSET Base
    /\ redisBase' = None /\ localBase' = [localBase EXCEPT ![p] = {}]
    /\ IF p \in detached THEN UNCHANGED <<hash, call, overlap>>
       ELSE hash' = Empty /\ Goto(p, "unsign") /\ overlap' = (overlap \/ Writers # {})
    /\ sure' = {}
    /\ UNCHANGED <<custom, signature, detached, calls, raisedM>>

CacheNext ==
    \/ Change
    \/ \E p \in Process :
          \/ Refresh(p) \/ UseCached(p) \/ get_all_base_models(p) \/ StoreBase(p) \/ Build(p)
          \/ Compare(p) \/ HKeys(p) \/ HSet(p) \/ HDel(p) \/ Sign(p) \/ Unsign(p) \/ SetRaises(p)
          \/ clear_openai_model_cache(p)

CacheSpec == CacheInit /\ [][CacheNext]_cacheVars

-----------------------------------------------------------------------------
CallStep == {"none", "fetch", "store", "build", "compare", "keys", "hset", "hdel", "sign", "unsign"}

CacheTypeOK ==
    /\ provider \subseteq Base /\ custom \in [Model -> {"none", "active", "inactive"}]
    /\ redisBase \in (SUBSET Base) \cup {None} /\ localBase \in [Process -> SUBSET Base]
    /\ hash \in Mapping /\ signature \in Mapping \cup {None} /\ detached \subseteq Process
    /\ call \in [Process -> [step : CallStep, base : SUBSET Base, map : Mapping, old : SUBSET Model]]
    /\ changes \in 0..MaxChanges /\ calls \in 0..MaxListings /\ raisedM \in 0..MaxRaised
    /\ overlap \in BOOLEAN /\ sure \subseteq Process

(* A signature that lets set return early tells the truth: the hash holds   *)
(* that very mapping, unless two processes rewrote it at a time, or a call  *)
(* raised between the first write and the signature.                        *)
SignatureHonest ==
    overlap \/ raisedM > 0 \/ Writers # {} \/ signature = None \/ hash = signature

(* "We never DELETE the whole hash": a process that rewrites the models     *)
(* never leaves a moment in which they are all gone, unless another process *)
(* rewrites them at the same time.  (Said of a step.)                       *)
NeverEmptied ==
    Keys(hash) # {} /\ Keys(hash') = {} =>
        overlap' \/ \E p \in Process : call[p].step # "unsign" /\ call'[p].step = "unsign"

(* A refresh takes effect: when it ends, the models are those of the        *)
(* providers and the model table, if neither changed in the meantime, no    *)
(* other process rewrote them at the same time and no call raised.          *)
RefreshTakesEffect ==
    \A p \in sure \ detached :
        call[p].step # "none" /\ call'[p].step = "none" /\ call[p].base # {} =>
            overlap' \/ raisedM' > 0 \/ hash' = Assembled(provider, custom)

(* utils/models.py over RedisDict: the dictionary of models is never emptied *)
(* by a rewrite, a refresh takes effect, and a signature says what is stored. *)
ModelsHold == [][NeverEmptied /\ RefreshTakesEffect /\ SignatureHonest' /\ CacheTypeOK']_cacheVars
=============================================================================
