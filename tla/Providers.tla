----------------------------- MODULE Providers -----------------------------
(* The connections to the OpenAI-compatible and the Ollama servers.  An      *)
(* administrator replaces the whole list of connections at once; a request   *)
(* finds its connection by its position in that list, in reads of their own: *)
(* first the models its process remembers, then the connection, then - on    *)
(* the Ollama side - what goes with it.                                      *)
EXTENDS Naturals, Sequences, FiniteSets, SequencesExt, Server

CONSTANTS
    Url, Bare,          \* servers, and the model names they know
    Offer,              \* [Url -> SUBSET Bare]
    AskedIds,                \* ids models are asked for by: a prefix and a name
    Speaker,            \* the server asked for speech
    Worker,             \* processes: each remembers models of its own
    ProviderClient,     \* requests in progress that list models or replace connections,
    Asker,              \* and those that do anything else
    MaxProviderCalls    \* bound: requests made

ASSUME ProviderAssumption ==
    Offer \in [Url -> SUBSET Bare] /\ AskedIds \subseteq {"", "p"} \X Bare /\ Asker \subseteq ProviderClient /\ Speaker \in Url /\ MaxProviderCalls \in Nat

VARIABLES provider,     \* the side looked at: they share nothing
          conf,         \* its settings in the database
          aligned,      \* no listing that an update crossed has rewritten the keys
          known,        \* per process: the models remembered
          call,         \* per client: the request in progress
          providerCalls

providerVars == <<provider, conf, aligned, known, call, providerCalls>>

Provider == {"openai", "ollama"}
PrefixIds == {"", "p"}
\* A key is named for its server.
NoModels == [id \in AskedIds |-> <<>>]
Forgotten == [models |-> NoModels, listed |-> FALSE, stale |-> FALSE]
NoForm == [on |-> FALSE, urls |-> <<>>, keys |-> <<>>, prefix |-> <<"", "">>]
\* What an administrator may send: each server once, keys that may be missing at the end.
Form(us, few, p) == [on |-> TRUE, urls |-> us, keys |-> IF few THEN Front(us) ELSE us, prefix |-> <<"", p>>]
Forms == {NoForm} \cup {Form(<<u>>, FALSE, "") : u \in Url}
                  \cup {Form(us, few, p) : us \in {s \in [1..2 -> Url] : s[1] # s[2]}, few \in BOOLEAN, p \in PrefixIds}
Idle == [prog |-> <<>>, at |-> None, id |-> None, idx |-> 0, url |-> None, key |-> None,
         prefix |-> "", seen |-> NoForm, first |-> 0, found |-> FALSE, crossed |-> FALSE, whole |-> TRUE]

\* Positions at which a server that answered offers the model.
merge_models(s, up) ==
    [id \in AskedIds |-> SetToSortSeq({i \in DOMAIN s.urls : i \in up /\ s.prefix[i] = id[1] /\ id[2] \in Offer[s.urls[i]]}, <)]

\* seed_defaults: addresses from the environment, keys that may be missing.
ProviderInit ==
    /\ provider \in Provider
    /\ \E few \in BOOLEAN, p \in PrefixIds : conf = Form(SetToSeq(Url), few, p)
    /\ aligned = TRUE
    /\ \E listed \in BOOLEAN :
           /\ listed => Len(conf.keys) = 2
           /\ known = [w \in Worker |-> [Forgotten EXCEPT !.listed = listed, !.models = IF listed THEN merge_models(conf, {1, 2}) ELSE @]]
    /\ call = [c \in ProviderClient |-> Idle]
    /\ providerCalls = 0

-----------------------------------------------------------------------------
(* Requests: a program of reads, requests to servers and writes.            *)
Running(c) == call[c].prog # <<>>
\* A process that has saved new connections has yet to forget the old models.
Updating == \E c \in ProviderClient : call[c].prog = <<"replaced">>
Request(c, k, prog, id, idx, form) ==
    /\ provider = k
    /\ ~Running(c) /\ providerCalls < MaxProviderCalls /\ providerCalls' = providerCalls + 1
    /\ \E w \in Worker :
           call' = [call EXCEPT ![c] = [Idle EXCEPT !.prog = prog, !.at = w, !.id = id, !.idx = idx, !.seen = form, !.crossed = Updating]]
    /\ UNCHANGED <<provider, conf, aligned, known>>
Ask(c, k, prog) == Request(c, k, prog, None, 0, NoForm)
ByModel(c, k, prog) == \E id \in AskedIds : Request(c, k, prog, id, 0, NoForm)
ByIndex(c, k, prog) == \E i \in 1..2 : Request(c, k, prog, None, i, NoForm)
\* The node named in the request, or one the list of models gives.
Node(c, before, find, after) ==
    \E id \in AskedIds, i \in 0..2 :
        Request(c, "ollama", before \o (IF i = 0 THEN find ELSE <<"allowed">>) \o after, id, i, NoForm)

\* routers/openai.py and routers/pipelines.py
openai_chat(c) == ByModel(c, "openai", <<"on", "models", "the position", "connection", "send">>)
get_anthropic_request_target(c) == ByModel(c, "openai", <<"may", "models", "the position", "connection", "send">>)
\* A model that nobody lists goes to the first connection.
openai_responses(c) == ByModel(c, "openai", <<"may", "models", "a position", "connection", "send">>)
openai_embeddings(c) == ByModel(c, "openai", <<"models", "a position", "connection", "send as named">>)
proxy(c) == ByModel(c, "openai", <<"models", "a position", "connection", "send as named">>)
speech(c) == Ask(c, "openai", <<"speaker", "connection", "send">>)
openai_list(c) == Ask(c, "openai", <<"on", "list">>)
openai_get_models(c) == ByIndex(c, "openai", <<"on", "connection", "send">>)
\* The prefix is of one read of the connection, the server of the next.
manage_model(c) == ByIndex(c, "openai", <<"on", "connection", "on", "connection", "send", "forget">>)
get_pipelines_list(c) == Ask(c, "openai", <<"read", "pad", "ask">>)
pipelines_connection == <<"address", "belongings", "send">>
change_pipelines(c) == ByIndex(c, "openai", pipelines_connection)
get_pipelines(c) == ByIndex(c, "openai", pipelines_connection)
get_pipeline_valves(c) == ByIndex(c, "openai", pipelines_connection)
update_pipeline_valves(c) == ByIndex(c, "openai", pipelines_connection)
\* routers/ollama.py
get_ollama_url == <<"models anew", "a node">>
ollama_chat(c) == Node(c, <<"on">>, get_ollama_url, <<"address", "belongings", "send">>)
\* These two do not ask whether the provider is on.
generate_openai_completion(c) == Node(c, <<"may">>, get_ollama_url, <<"address", "belongings", "send">>)
generate_openai_chat_completion(c) == generate_openai_completion(c)
generate_openai_embeddings(c) == Node(c, <<"on">>, get_ollama_url, <<"address", "belongings", "belongings", "send">>)
generate_anthropic_messages(c) == ollama_chat(c)
generate_responses(c) == ollama_chat(c)
ollama_embed(c) == Node(c, <<"on">>, <<"models", "a node">>, <<"connection", "send">>)
generate_completion(c) == Node(c, <<"on">>, <<"list", "a node">>, <<"connection", "send">>)
show_model_info(c) == ByModel(c, "ollama", <<"on", "list", "a node", "address", "belongings", "send as named">>)
\* Push, copy and delete take the first node that has the model.
change_model(c) ==
    \E id \in AskedIds, i \in 0..2 :
        Request(c, "ollama", <<"on">> \o (IF i = 0 THEN <<"list", "first node">> ELSE <<>>) \o <<"address", "belongings", "send as named">>, IF i = 0 THEN id ELSE None, i, NoForm)
new_model(c) == ByIndex(c, "ollama", <<"on", "address", "belongings", "send">>)
unload_model(c) == ByModel(c, "ollama", <<"list", "every node">>)
ollama_list(c) == Ask(c, "ollama", <<"on", "list">>)
get_ollama_tags(c) == ByIndex(c, "ollama", <<"on", "address", "belongings", "send">>)
get_ollama_loaded_models(c) == Ask(c, "ollama", <<"on", "read", "belongings of", "ask">>)
get_ollama_versions(c) == ByIndex(c, "ollama", <<"on", "address", "send">>)
get_openai_models(c) == ByIndex(c, "ollama", <<"address", "send">>)
\* Files go to the first node or a named one, without a key.
download_model(c) == ByIndex(c, "ollama", <<"address", "send">>)
upload_model(c) == ByIndex(c, "ollama", <<"address", "send">>)

update_config(c) == \E f \in Forms : Request(c, provider, <<"save", "replaced">>, None, 0, f)

-----------------------------------------------------------------------------
(* The steps.                                                               *)
At(c, step) == Running(c) /\ Head(call[c].prog) = step
Known(c) == known[call[c].at]
To(c, r) == call' = [call EXCEPT ![c] = IF Len(r.prog) = 1 THEN Idle ELSE [r EXCEPT !.prog = Tail(@)]]
Refused(c) == call' = [call EXCEPT ![c] = Idle]
Alone == UNCHANGED <<provider, conf, aligned, known, providerCalls>>

enabled(c) == At(c, "on") /\ conf.on /\ To(c, call[c]) /\ Alone
\* Switched off, or (check_model_access) not the user's to use.
refused(c) == (At(c, "on") \/ At(c, "may")) /\ Refused(c) /\ Alone
may_use_model(c) == At(c, "may") /\ To(c, call[c]) /\ Alone
Listing == IF provider = "openai" THEN <<"count", "read", "pad", "ask", "keep">>
           ELSE <<"count", "read", "belongings of", "ask", "keep">>
\* Only a model that is not remembered makes a process list them again.
recall(c) ==
    /\ Alone
    /\ \E step \in {"models", "models anew"} :
         /\ At(c, step)
         /\ IF Known(c).models[call[c].id] # <<>> THEN To(c, call[c])
            ELSE call' = [call EXCEPT ![c].prog = (IF step = "models" THEN <<"list">> ELSE Listing) \o Tail(@)]
Positions(c) == Known(c).models[call[c].id]
\* The position of the model, as its process remembers it now.
look_up(c) ==
    /\ \E step \in {"the position", "a position", "first node", "a node"} :
         /\ At(c, step)
         /\ IF Positions(c) = <<>> THEN (IF step = "a position" THEN To(c, [call[c] EXCEPT !.idx = 1]) ELSE Refused(c))
            ELSE \E i \in IF step = "a node" THEN 1..Len(Positions(c)) ELSE {1} :
                     To(c, [call[c] EXCEPT !.idx = Positions(c)[i], !.found = TRUE, !.crossed = @ \/ Known(c).stale])
    /\ Alone
validate_ollama_backend_idx(c) ==
    /\ At(c, "allowed") /\ Alone
    /\ \/ To(c, [call[c] EXCEPT !.id = None])    \* an administrator
       \/ IF Positions(c) = <<>> /\ ~Known(c).listed THEN call' = [call EXCEPT ![c].prog = <<"list">> \o @]
          ELSE IF call[c].idx \in Range(Positions(c)) THEN To(c, [call[c] EXCEPT !.found = TRUE, !.crossed = @ \/ Known(c).stale])
          ELSE Refused(c)
speaker_position(c) ==
    /\ At(c, "speaker") /\ Alone
    /\ \/ Refused(c)      \* the file of an earlier answer is there
       \/ IF Speaker \in Range(conf.urls) THEN To(c, [call[c] EXCEPT !.idx = CHOOSE i \in DOMAIN conf.urls : conf.urls[i] = Speaker])
          ELSE Refused(c)

Key(s, i) == IF i <= Len(s.keys) THEN s.keys[i] ELSE None
\* One read: server, key and prefix belong together.  An index that is gone raises.
get_connection(c) ==
    /\ At(c, "connection") /\ Alone
    /\ IF \/ call[c].idx \notin DOMAIN conf.urls
          \/ provider = "openai" /\ call[c].idx \notin DOMAIN conf.keys THEN Refused(c)
       ELSE To(c, [call[c] EXCEPT !.url = conf.urls[call[c].idx], !.key = Key(conf, call[c].idx),
                                  !.prefix = conf.prefix[call[c].idx], !.whole = aligned])
\* Two reads.
read_address(c) ==
    /\ At(c, "address") /\ Alone
    /\ IF call[c].idx \notin DOMAIN conf.urls THEN Refused(c)
       ELSE To(c, [call[c] EXCEPT !.url = conf.urls[call[c].idx], !.whole = FALSE])
read_belongings(c) ==
    /\ At(c, "belongings") /\ Alone
    /\ IF provider = "openai" /\ call[c].idx \notin DOMAIN conf.keys THEN Refused(c)
       ELSE To(c, [call[c] EXCEPT !.key = Key(conf, call[c].idx), !.prefix = conf.prefix[call[c].idx],
                                  !.whole = aligned /\ ~call[c].crossed])

\* Sending: a prefix is taken off the name, except where the name goes as it came.
Sending(c) == At(c, "send") \/ At(c, "send as named")
strip_provider_model_prefix(id, p) == IF p # "" /\ id[1] = p THEN <<"", id[2]>> ELSE id
send(c) ==
    /\ Sending(c) /\ Alone
    /\ To(c, [call[c] EXCEPT !.url = None, !.key = None, !.whole = TRUE])
each_node(c) ==
    /\ At(c, "every node") /\ Alone
    /\ IF Positions(c) = <<>> THEN Refused(c)
       ELSE call' = [call EXCEPT ![c] = [@ EXCEPT !.idx = Positions(c)[1], !.found = TRUE, !.crossed = @ \/ Known(c).stale,
                                            !.prog = <<"address", "belongings", "send">> \o
                                                     (IF Len(Positions(c)) > 1 THEN <<"next node", "address", "belongings", "send">> ELSE <<>>)]]
next_node(c) == At(c, "next node") /\ Alone /\ To(c, [call[c] EXCEPT !.idx = 3 - @])

\* get_all_models.  A list young enough is used as it is.
get_all_models(c) ==
    /\ At(c, "list") /\ Alone
    /\ \/ Known(c).listed /\ To(c, call[c])
       \/ call' = [call EXCEPT ![c].prog = Listing \o Tail(@)]
\* A provider that is switched off has no models.
count_connections(c) ==
    /\ At(c, "count") /\ Alone
    /\ IF conf.on THEN To(c, [call[c] EXCEPT !.first = Len(conf.urls), !.crossed = Updating])
       ELSE call' = [call EXCEPT ![c].prog = SubSeq(@, 5, Len(@)), ![c].crossed = Updating]
read_connections(c) ==
    /\ At(c, "read") /\ Alone
    /\ To(c, [call[c] EXCEPT !.seen = IF conf.on THEN conf ELSE NoForm, !.whole = aligned])
read_belongings_of(c) ==
    /\ At(c, "belongings of") /\ Alone
    /\ To(c, [call[c] EXCEPT !.seen.keys = IF call[c].seen.on THEN conf.keys ELSE <<>>, !.seen.prefix = conf.prefix, !.whole = ~call[c].crossed])
\* The keys written are those read before: an update made meanwhile loses its own.
normalize_openai_api_keys(c) ==
    /\ At(c, "pad") /\ UNCHANGED <<provider, known, providerCalls>>
    /\ LET s == call[c].seen IN
       IF Len(s.keys) = Len(s.urls) THEN UNCHANGED <<conf, aligned>> /\ To(c, call[c])
       ELSE LET padded == [i \in DOMAIN s.urls |-> Key(s, i)] IN
            /\ conf' = [conf EXCEPT !.keys = padded]
            /\ aligned' = (aligned /\ ~call[c].crossed)
            /\ To(c, [call[c] EXCEPT !.seen.keys = padded])
\* Every connection is asked, with its key; any of them may fail.
ask_connections(c) == At(c, "ask") /\ Alone /\ To(c, call[c])
keep_models(c) ==
    /\ At(c, "keep") /\ UNCHANGED <<provider, conf, aligned, providerCalls>>
    /\ \E up \in SUBSET DOMAIN call[c].seen.urls :
         IF provider = "openai" /\ \E i \in up : i > call[c].first THEN Refused(c) /\ UNCHANGED known
         ELSE /\ known' = [known EXCEPT ![call[c].at] =
                              [models |-> merge_models(call[c].seen, up), listed |-> TRUE, stale |-> call[c].crossed]]
              /\ To(c, [call[c] EXCEPT !.seen = NoForm, !.first = 0, !.whole = TRUE])

\* The update of the connections: one commit, then the process forgets its models.
save_config(c) ==
    /\ At(c, "save") /\ UNCHANGED <<provider, providerCalls>>
    /\ LET f == call[c].seen IN
       conf' = [f EXCEPT !.keys = [i \in DOMAIN f.urls |-> Key(f, i)]]
    /\ aligned' = TRUE
    /\ known' = [w \in Worker |-> IF w = call[c].at THEN known[w] ELSE [known[w] EXCEPT !.stale = TRUE]]
    /\ call' = [o \in ProviderClient |->
                   IF o = c THEN [call[c] EXCEPT !.prog = Tail(@), !.seen = NoForm]
                   ELSE IF Running(o) THEN [call[o] EXCEPT !.crossed = TRUE] ELSE call[o]]
clear_model_cache_Keep(c) ==
    /\ (At(c, "forget") \/ At(c, "replaced")) /\ UNCHANGED <<provider, conf, aligned, providerCalls>>
    /\ known' = [known EXCEPT ![call[c].at].listed = FALSE]
    /\ To(c, call[c])
clear_model_cache(c) ==
    /\ (At(c, "forget") \/ At(c, "replaced")) /\ UNCHANGED <<provider, conf, aligned, providerCalls>>
    /\ known' = [known EXCEPT ![call[c].at] = Forgotten]
    /\ To(c, call[c])

ProviderNext ==
    \/ \E c \in Asker :
         \/ openai_chat(c) \/ get_anthropic_request_target(c) \/ openai_responses(c) \/ openai_embeddings(c) \/ proxy(c) \/ speech(c)
         \/ openai_get_models(c) \/ manage_model(c) \/ get_pipelines_list(c) \/ change_pipelines(c) \/ get_pipelines(c)
         \/ get_pipeline_valves(c) \/ update_pipeline_valves(c)
         \/ ollama_chat(c) \/ generate_openai_completion(c) \/ generate_openai_chat_completion(c) \/ generate_openai_embeddings(c)
         \/ generate_anthropic_messages(c) \/ generate_responses(c) \/ ollama_embed(c) \/ generate_completion(c) \/ show_model_info(c) \/ change_model(c)
         \/ new_model(c) \/ unload_model(c) \/ get_ollama_tags(c) \/ get_ollama_loaded_models(c) \/ get_ollama_versions(c)
         \/ get_openai_models(c) \/ download_model(c) \/ upload_model(c)
    \/ \E c \in ProviderClient :
         \/ update_config(c) \/ openai_list(c) \/ ollama_list(c)
         \/ enabled(c) \/ refused(c) \/ may_use_model(c) \/ recall(c) \/ look_up(c) \/ validate_ollama_backend_idx(c)
         \/ speaker_position(c) \/ get_connection(c) \/ read_address(c) \/ read_belongings(c) \/ send(c) \/ each_node(c) \/ next_node(c)
         \/ get_all_models(c) \/ count_connections(c) \/ read_connections(c) \/ read_belongings_of(c) \/ normalize_openai_api_keys(c)
         \/ ask_connections(c) \/ keep_models(c) \/ save_config(c) \/ clear_model_cache(c)

ProviderSpec == ProviderInit /\ [][ProviderNext]_providerVars

-----------------------------------------------------------------------------
ProviderTypeOK ==
    /\ aligned \in BOOLEAN /\ providerCalls \in 0..MaxProviderCalls
    /\ Range(conf.urls) \subseteq Url /\ Range(conf.keys) \subseteq Url \cup {None}
    /\ \A c \in ProviderClient : call[c].idx \in 0..2 /\ call[c].at \in Worker \cup {None}

\* The key a server is sent is its own, or none: always where server and key
\* come of one read, and elsewhere when the connections were not replaced
\* meanwhile.
KeyGoesHome ==
    \A c \in ProviderClient :
        /\ Sending(c) /\ call[c].whole => call[c].key \in {call[c].url, None}
        /\ At(c, "ask") /\ call[c].whole =>
              \A i \in DOMAIN call[c].seen.urls : Key(call[c].seen, i) \in {call[c].seen.urls[i], None}
\* A listed model is asked of a server that offers it, by the name the server
\* knows, unless the connections were replaced between a listing and the request.
ModelFound ==
    \A c \in ProviderClient : Sending(c) /\ call[c].found /\ call[c].id # None /\ ~call[c].crossed =>
        /\ call[c].id[2] \in Offer[call[c].url]
        /\ At(c, "send") => strip_provider_model_prefix(call[c].id, call[c].prefix) = <<"", call[c].id[2]>>
\* Positions in a list that changes lead to the right server with its own key.
ConnectionsSound == KeyGoesHome /\ ModelFound
=============================================================================
