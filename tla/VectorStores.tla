---------------------------- MODULE VectorStores ----------------------------
(* The adapters of retrieval/vector/dbs behind the one interface of         *)
(* retrieval/vector/main.py.  AsyncVectorDBClient runs every call in a      *)
(* thread, so calls overlap: an adapter that looks whether a collection     *)
(* exists acts on the answer later, and some calls are several.             *)
(*                                                                          *)
(* Some stores keep all chunks in one table, index or shared collection     *)
(* with the name of the collection as a field, others have a collection, an *)
(* index or a key prefix for each.  Vectors and ranking are left out: a     *)
(* search is the chunks it may rank.                                        *)
EXTENDS Naturals, FiniteSets, Server

CONSTANTS
    Collection,     \* names of collections
    KindOf,         \* per collection: the shared one a multi-tenant store maps it to
    OwnColl,        \* per file: its collection file-{id}
    ChunkId,        \* ids of chunks
    VClient,        \* callers, each in a thread
    Store,          \* adapters
    MaxVectorCalls, \* bound: calls
    MaxVectorRaises \* bound: calls the database refuses, or that a crash cuts short

DocOf == DOMAIN OwnColl
Adapters == {"pgvector", "pgcrypto", "opengauss", "mariadb", "oracle", "pinecone", "elasticsearch", "chroma", "qdrant",
             "qdrant_multitenancy", "milvus", "milvus_multitenancy", "opensearch", "s3vector", "valkey", "weaviate"}
ASSUME VectorAssumption ==
    /\ MaxVectorCalls \in Nat /\ MaxVectorRaises \in Nat /\ Store \subseteq Adapters
    /\ \A f \in DocOf : OwnColl[f] \in Collection
    /\ DOMAIN KindOf = Collection /\ None \notin DocOf \cup Collection /\ IsFiniteSet(ChunkId)

VARIABLES store, chunks, made, vcall, unsure, vcalls, vraises

vecVars == <<store, chunks, made, vcall, unsure, vcalls, vraises>>

Shared == {"qdrant_multitenancy", "milvus_multitenancy"}
Separate == {"chroma", "qdrant", "milvus", "opensearch", "s3vector", "valkey", "weaviate"}
\* The physical collection or index of a name; the tables have none to create.
Physical(c) == IF store \in Shared THEN KindOf[c] ELSE IF store \in Separate THEN c ELSE "index"
Creates == Shared \cup Separate \cup {"elasticsearch"}
ListsAll == Creates \ {"chroma"}
Unasked == [op |-> "none", step |-> "none", coll |-> None, ids |-> {}, file |-> None, new |-> {},
            missing |-> FALSE, left |-> {}]

VecInit ==
    /\ store \in Store /\ chunks = {} /\ made = {}
    /\ vcall = [r \in VClient |-> Unasked]
    /\ unsure = {} /\ vcalls = 0 /\ vraises = 0

InColl(q) == {x \in chunks : x.coll = q.coll}
WithIds(q) == {x \in InColl(q) : x.id \in q.ids}
OfFile(q) == {x \in InColl(q) : q.file # None => x.file = q.file}
-----------------------------------------------------------------------------
(* What a write leaves in the store.                                        *)
Clash(new) == \E x \in chunks, n \in new : x.id = n.id
\* INSERT: a duplicate key rolls the transaction back.
Strict(new) == IF Clash(new) THEN chunks ELSE chunks \cup new
\* INSERT IGNORE: a key that is there keeps its row.
Ignoring(new) == chunks \cup {n \in new : \A x \in chunks : x.id # n.id}
\* The key is the id alone: another collection's row moves.
Replacing(new) == {x \in chunks : \A n \in new : n.id # x.id} \cup new
\* The key is the id within its collection.
ReplacingIn(new) == {x \in chunks : \A n \in new : n.id # x.id \/ n.coll # x.coll} \cup new
AddingIn(new) == chunks \cup {n \in new : \A x \in chunks : n.id # x.id \/ n.coll # x.coll}

pgvector_insert(new) == IF store = "pgcrypto" THEN Ignoring(new) ELSE Strict(new)
pgvector_upsert(new) == Replacing(new)
opengauss_insert(new) == Strict(new)
opengauss_upsert(new) == Replacing(new)
mariadb_insert(new) == Ignoring(new)
mariadb_upsert(new) == Replacing(new)
oracle_insert(new) == Strict(new)
oracle_upsert(new) == Replacing(new)
pinecone_insert(new) == Replacing(new)
pinecone_upsert(new) == Replacing(new)
elasticsearch_insert(new) == Replacing(new)
elasticsearch_upsert(new) == Replacing(new)
chroma_insert(new) == AddingIn(new)
chroma_upsert(new) == ReplacingIn(new)
qdrant_insert(new) == ReplacingIn(new)
qdrant_upsert(new) == ReplacingIn(new)
qdrant_multitenancy_upsert(new) ==
    {x \in chunks : \A n \in new : n.id # x.id \/ KindOf[n.coll] # KindOf[x.coll]} \cup new
milvus_insert(new) == chunks \cup new
milvus_upsert(new) == ReplacingIn(new)
\* upsert is client.insert: an earlier chunk with the id stays next to the new one.
milvus_multitenancy_upsert(new) == chunks \cup new
opensearch_insert(new) == ReplacingIn(new)
opensearch_upsert(new) == ReplacingIn(new)
s3vector_insert(new) == ReplacingIn(new)
s3vector_upsert(new) == ReplacingIn(new)
valkey_insert(new) == ReplacingIn(new)
weaviate_insert(new) == ReplacingIn(new)
weaviate_upsert(new) == ReplacingIn(new)

Inserted(new) ==
    CASE store \in {"pgvector", "pgcrypto"} -> pgvector_insert(new)
      [] store = "opengauss" -> opengauss_insert(new)   [] store = "mariadb" -> mariadb_insert(new)
      [] store = "oracle" -> oracle_insert(new)         [] store = "pinecone" -> pinecone_insert(new)
      [] store = "elasticsearch" -> elasticsearch_insert(new)
      [] store = "chroma" -> chroma_insert(new)         [] store = "qdrant" -> qdrant_insert(new)
      [] store = "qdrant_multitenancy" -> qdrant_multitenancy_upsert(new)
      [] store = "milvus" -> milvus_insert(new)
      [] store = "milvus_multitenancy" -> milvus_multitenancy_upsert(new)
      [] store = "opensearch" -> opensearch_insert(new) [] store = "s3vector" -> s3vector_insert(new)
      [] store = "valkey" -> valkey_insert(new)         [] store = "weaviate" -> weaviate_insert(new)
Upserted(new) ==
    CASE store \in {"pgvector", "pgcrypto"} -> pgvector_upsert(new)
      [] store = "opengauss" -> opengauss_upsert(new)   [] store = "mariadb" -> mariadb_upsert(new)
      [] store = "oracle" -> oracle_upsert(new)         [] store = "pinecone" -> pinecone_upsert(new)
      [] store = "elasticsearch" -> elasticsearch_upsert(new)
      [] store = "chroma" -> chroma_upsert(new)         [] store = "qdrant" -> qdrant_upsert(new)
      [] store = "qdrant_multitenancy" -> qdrant_multitenancy_upsert(new)
      [] store = "milvus" -> milvus_upsert(new)
      [] store = "milvus_multitenancy" -> milvus_multitenancy_upsert(new)
      [] store = "opensearch" -> opensearch_upsert(new) [] store = "s3vector" -> s3vector_upsert(new)
      [] store = "valkey" -> valkey_insert(new)         [] store = "weaviate" -> weaviate_upsert(new)
-----------------------------------------------------------------------------
(* What a deletion takes: a WHERE with every condition that is given, or    *)
(* the ids, else the filter, else nothing.                                  *)
Narrowed(q) == {x \in OfFile(q) : q.ids # {} => x.id \in q.ids}
OneOf(q) == IF q.ids # {} THEN WithIds(q) ELSE IF q.file # None THEN OfFile(q) ELSE {}
IdsFirst(q) == IF q.ids # {} THEN WithIds(q) ELSE OfFile(q)

pgvector_delete(q) == Narrowed(q)
opengauss_delete(q) == Narrowed(q)
mariadb_delete(q) == Narrowed(q)
oracle_delete(q) == Narrowed(q)
\* The ids are of the whole index, whatever the collection.
pinecone_delete(q) == IF q.ids # {} THEN {x \in chunks : x.id \in q.ids} ELSE OneOf(q)
elasticsearch_delete(q) == IdsFirst(q)
chroma_delete(q) == OneOf(q)
qdrant_delete(q) == IdsFirst(q)
\* The ids and the filter are of the shared collection.
qdrant_multitenancy_delete_AnyTenant(q) ==
    {x \in chunks : KindOf[x.coll] = KindOf[q.coll] /\
        IF q.ids # {} THEN x.id \in q.ids ELSE q.file # None => x.file = q.file}
qdrant_multitenancy_delete(q) == IdsFirst(q)
milvus_delete(q) == OneOf(q)
milvus_multitenancy_delete(q) == Narrowed(q)
opensearch_delete(q) == OneOf(q)
s3vector_delete(q) == OneOf(q)
valkey_delete(q) == OneOf(q)
weaviate_delete(q) == OneOf(q)

VecDeleted(q) ==
    CASE store \in {"pgvector", "pgcrypto"} -> pgvector_delete(q)
      [] store = "opengauss" -> opengauss_delete(q)     [] store = "mariadb" -> mariadb_delete(q)
      [] store = "oracle" -> oracle_delete(q)           [] store = "pinecone" -> pinecone_delete(q)
      [] store = "elasticsearch" -> elasticsearch_delete(q)
      [] store = "chroma" -> chroma_delete(q)           [] store = "qdrant" -> qdrant_delete(q)
      [] store = "qdrant_multitenancy" -> qdrant_multitenancy_delete(q)
      [] store = "milvus" -> milvus_delete(q)
      [] store = "milvus_multitenancy" -> milvus_multitenancy_delete(q)
      [] store = "opensearch" -> opensearch_delete(q)   [] store = "s3vector" -> s3vector_delete(q)
      [] store = "valkey" -> valkey_delete(q)           [] store = "weaviate" -> weaviate_delete(q)
-----------------------------------------------------------------------------
(* reset: what one step drops, out of the physical collections it listed.   *)
Everything == {Collection}
OneByOne(q) == {{c \in Collection : Physical(c) = p} : p \in q.left}

pgvector_reset(q) == Everything
opengauss_reset(q) == Everything
mariadb_reset(q) == Everything
oracle_reset(q) == Everything
pinecone_reset(q) == Everything
elasticsearch_reset(q) == OneByOne(q)
chroma_reset(q) == Everything
qdrant_reset(q) == OneByOne(q)
qdrant_multitenancy_reset(q) == OneByOne(q)
milvus_reset(q) == OneByOne(q)
milvus_multitenancy_reset(q) == OneByOne(q)
opensearch_reset(q) == OneByOne(q)
s3vector_reset(q) == OneByOne(q)
valkey_reset(q) == OneByOne(q)
weaviate_reset(q) == OneByOne(q)

VecDropped(q) ==
    CASE store \in {"pgvector", "pgcrypto"} -> pgvector_reset(q)
      [] store = "opengauss" -> opengauss_reset(q)      [] store = "mariadb" -> mariadb_reset(q)
      [] store = "oracle" -> oracle_reset(q)            [] store = "pinecone" -> pinecone_reset(q)
      [] store = "elasticsearch" -> elasticsearch_reset(q)
      [] store = "chroma" -> chroma_reset(q)            [] store = "qdrant" -> qdrant_reset(q)
      [] store = "qdrant_multitenancy" -> qdrant_multitenancy_reset(q)
      [] store = "milvus" -> milvus_reset(q)
      [] store = "milvus_multitenancy" -> milvus_multitenancy_reset(q)
      [] store = "opensearch" -> opensearch_reset(q)    [] store = "s3vector" -> s3vector_reset(q)
      [] store = "valkey" -> valkey_reset(q)            [] store = "weaviate" -> weaviate_reset(q)
-----------------------------------------------------------------------------
(* query and search: the chunks that may be returned, before any limit.     *)
Indexed(q) == {x \in OfFile(q) : q.coll \in made}

pgvector_query(q) == OfFile(q)
pgvector_search(q) == OfFile(q)
opengauss_query(q) == OfFile(q)
opengauss_search(q) == OfFile(q)
mariadb_query(q) == OfFile(q)
mariadb_search(q) == OfFile(q)
oracle_query(q) == OfFile(q)
oracle_search(q) == OfFile(q)
pinecone_query(q) == OfFile(q)
pinecone_search(q) == OfFile(q)
\* The term is file_id where the chunk has metadata.file_id.
elasticsearch_query(q) == IF q.file = None THEN InColl(q) ELSE {}
elasticsearch_search(q) == OfFile(q)
chroma_query(q) == Indexed(q)
chroma_search(q) == Indexed(q)
qdrant_query(q) == Indexed(q)
qdrant_search(q) == Indexed(q)
qdrant_multitenancy_query(q) == OfFile(q)
qdrant_multitenancy_search(q) == OfFile(q)
milvus_query(q) == Indexed(q)
milvus_search(q) == Indexed(q)
milvus_multitenancy_query(q) == OfFile(q)
milvus_multitenancy_search(q) == OfFile(q)
opensearch_query(q) == Indexed(q)
opensearch_search(q) == Indexed(q)
s3vector_query(q) == Indexed(q)
s3vector_search(q) == Indexed(q)
valkey_query(q) == Indexed(q)
valkey_search(q) == Indexed(q)
weaviate_query(q) == Indexed(q)
weaviate_search(q) == Indexed(q)

Queried(q) ==
    CASE store \in {"pgvector", "pgcrypto"} -> pgvector_query(q)
      [] store = "opengauss" -> opengauss_query(q)      [] store = "mariadb" -> mariadb_query(q)
      [] store = "oracle" -> oracle_query(q)            [] store = "pinecone" -> pinecone_query(q)
      [] store = "elasticsearch" -> elasticsearch_query(q)
      [] store = "chroma" -> chroma_query(q)            [] store = "qdrant" -> qdrant_query(q)
      [] store = "qdrant_multitenancy" -> qdrant_multitenancy_query(q)
      [] store = "milvus" -> milvus_query(q)
      [] store = "milvus_multitenancy" -> milvus_multitenancy_query(q)
      [] store = "opensearch" -> opensearch_query(q)    [] store = "s3vector" -> s3vector_query(q)
      [] store = "valkey" -> valkey_query(q)            [] store = "weaviate" -> weaviate_query(q)
Searched(q) ==
    CASE store \in {"pgvector", "pgcrypto"} -> pgvector_search(q)
      [] store = "opengauss" -> opengauss_search(q)     [] store = "mariadb" -> mariadb_search(q)
      [] store = "oracle" -> oracle_search(q)           [] store = "pinecone" -> pinecone_search(q)
      [] store = "elasticsearch" -> elasticsearch_search(q)
      [] store = "chroma" -> chroma_search(q)           [] store = "qdrant" -> qdrant_search(q)
      [] store = "qdrant_multitenancy" -> qdrant_multitenancy_search(q)
      [] store = "milvus" -> milvus_search(q)
      [] store = "milvus_multitenancy" -> milvus_multitenancy_search(q)
      [] store = "opensearch" -> opensearch_search(q)   [] store = "s3vector" -> s3vector_search(q)
      [] store = "valkey" -> valkey_search(q)           [] store = "weaviate" -> weaviate_search(q)
-----------------------------------------------------------------------------
(* Calls                                                                    *)

\* Valkey keeps the keys of a collection apart from its index: a write next to
\* a call that drops the collection can leave keys for a later index to find.
VecDropping(q) == q.op \in {"delete_collection", "reset"}
Exposed(r, q) ==
    LET others == {vcall[s] : s \in VClient \ {r}}
        drops == {o \in others : VecDropping(o)}
        writes == {o \in others : o.op \in {"insert", "upsert"}} IN
    IF store # "valkey" THEN {}
    ELSE IF q.op \in {"insert", "upsert"} THEN {q.coll : o \in {o \in drops : o.op = "reset" \/ o.coll = q.coll}}
    ELSE IF VecDropping(q) THEN {o.coll : o \in {o \in writes : q.op = "reset" \/ o.coll = q.coll}}
    ELSE {}

\* has_collection, where the adapter asks before it writes.
has_collection(c) == IF store \in Creates THEN Physical(c) \in made ELSE \E x \in chunks : x.coll = c

VecFree(r) == vcalls < MaxVectorCalls /\ vcall[r] = Unasked /\ r = CHOOSE s \in VClient : vcall[s] = Unasked
VecAsks(r, op, c, ids, f, new) ==
    LET q == [op |-> op, step |-> "act", coll |-> c, ids |-> ids, file |-> f, new |-> new,
              missing |-> c # None /\ ~has_collection(c),
              left |-> IF op # "reset" THEN {} ELSE IF store \in ListsAll THEN made ELSE {"all"}] IN
    /\ vcalls' = vcalls + 1
    /\ vcall' = [vcall EXCEPT ![r] = q]
    /\ unsure' = unsure \cup Exposed(r, q)
    /\ UNCHANGED <<store, chunks, made, vraises>>

\* uuid4 gives no id twice: one that is stored or that a call names is not fresh.
FreshIds ==
    {i \in ChunkId : /\ \A x \in chunks : x.id # i
                     /\ \A r \in VClient : i \notin vcall[r].ids /\ \A n \in vcall[r].new : n.id # i}
ItemsOf(c, ids, f, text) == {[coll |-> c, id |-> i, file |-> f, text |-> text] : i \in ids}

\* save_docs_to_vector_db gives every chunk a new id ...
AsksInsert(r, c, f, n) ==
    /\ Cardinality(FreshIds) >= n
    /\ VecAsks(r, "insert", c, {}, None,
            ItemsOf(c, CHOOSE s \in SUBSET FreshIds : Cardinality(s) = n, f, "old"))
\* ... a memory and the card of a knowledge base keep theirs.
AsksUpsert(r, c) ==
    \E i \in ChunkId :
        /\ \/ \E x \in chunks : x.coll = c /\ x.file = None /\ x.id = i
           \/ i \in FreshIds /\ i = CHOOSE j \in FreshIds : TRUE
        /\ VecAsks(r, "upsert", c, {}, None, ItemsOf(c, {i}, None, "new"))
AsksDelete(r, c) ==
    \/ \E x \in {x \in chunks : x.coll = c} : VecAsks(r, "delete", c, {x.id}, None, {})
    \/ \E f \in DocOf : VecAsks(r, "delete", c, {}, f, {})
    \/ \E f \in DocOf : c = OwnColl[f] /\ VecAsks(r, "delete", c, {}, None, {})

VecDone(r) == vcall' = [vcall EXCEPT ![r] = Unasked]
VecActs(r, ops) == vcall[r].op \in ops /\ vcall[r].step = "act"

\* The collection was there when the call looked and is gone, or the reverse.
Beaten(q) ==
    \/ ~q.missing /\ Physical(q.coll) \notin made
       /\ store \in {"qdrant", "qdrant_multitenancy", "milvus", "milvus_multitenancy", "s3vector"}
    \/ q.missing /\ Physical(q.coll) \in made /\ store \in Creates \ {"chroma", "s3vector", "valkey"}

Creating(q) ==
    IF store \notin Creates \/ (store = "valkey" /\ ~q.missing) THEN made ELSE made \cup {Physical(q.coll)}

VecPut(r) ==
    LET q == vcall[r] IN
    /\ VecActs(r, {"insert", "upsert"}) /\ ~Beaten(q)
    /\ chunks' = IF q.op = "insert" THEN Inserted(q.new) ELSE Upserted(q.new)
    /\ made' = Creating(q)
    /\ unsure' = IF store = "milvus_multitenancy" /\ Clash(q.new) THEN unsure \cup {q.coll} ELSE unsure
    /\ VecDone(r) /\ UNCHANGED <<store, vcalls, vraises>>

\* The call raises; a store without transactions may have taken a part.
VecRaises(r) ==
    LET q == vcall[r]
        batches == store \notin {"pgvector", "pgcrypto", "opengauss", "mariadb", "oracle"} IN
    /\ q # Unasked
    /\ IF q.op \in {"insert", "upsert"} /\ Beaten(q) THEN UNCHANGED vraises
       ELSE vraises < MaxVectorRaises /\ vraises' = vraises + 1
    /\ IF q.op = "insert" /\ ~Beaten(q)
       THEN /\ \E part \in SUBSET q.new :
                  /\ part # {} => batches /\ part # q.new
                  /\ chunks' = Inserted(part)
            /\ made' = Creating(q)
       ELSE UNCHANGED <<chunks, made>>
    /\ unsure' = unsure \cup (IF store # "valkey" THEN {} ELSE IF q.op = "reset" THEN q.ids
                               ELSE IF q.step = "keys" THEN {q.coll} ELSE {})
    /\ VecDone(r) /\ UNCHANGED <<store, vcalls>>

Owning(q) == store = "s3vector" /\ q.file # None /\ q.coll \notin {OwnColl[f] : f \in DocOf}
\* S3: the chunks of a file leave a knowledge base with the file's own collection.
VecDropOwn(r) ==
    LET q == vcall[r] IN
    /\ VecActs(r, {"delete"}) /\ Owning(q)
    /\ chunks' = {x \in chunks : x.coll # OwnColl[q.file]} /\ made' = made \ {OwnColl[q.file]}
    /\ vcall' = [vcall EXCEPT ![r].step = "rest"]
    /\ UNCHANGED <<store, unsure, vcalls, vraises>>

VecDelete(r) ==
    LET q == vcall[r] IN
    /\ q.op = "delete" /\ (q.step = "act" => ~Owning(q))
    /\ chunks' = chunks \ VecDeleted(q)
    /\ VecDone(r) /\ UNCHANGED <<store, made, unsure, vcalls, vraises>>

\* Rows, or the collection, index or tenant; Valkey's index goes before its keys.
VecDeleteCollection(r) ==
    LET q == vcall[r] IN
    /\ VecActs(r, {"delete_collection"})
    /\ chunks' = IF store = "valkey" THEN chunks ELSE chunks \ InColl(q)
    /\ made' = IF store \in Separate THEN made \ {q.coll} ELSE made
    /\ IF store = "valkey" THEN vcall' = [vcall EXCEPT ![r].step = "keys"] ELSE VecDone(r)
    /\ UNCHANGED <<store, unsure, vcalls, vraises>>

VecDeleteKeys(r) ==
    LET q == vcall[r] IN
    /\ q.step = "keys"
    /\ chunks' = {x \in chunks : IF q.op = "reset" THEN x.coll \notin q.ids ELSE x.coll # q.coll}
    /\ VecDone(r) /\ UNCHANGED <<store, made, unsure, vcalls, vraises>>

VecReset(r) ==
    LET q == vcall[r] IN
    /\ VecActs(r, {"reset"}) /\ vcall[r].left # {}
    /\ \E cs \in VecDropped(q) :
          /\ chunks' = IF store = "valkey" THEN chunks ELSE {x \in chunks : x.coll \notin cs}
          /\ made' = made \ {Physical(c) : c \in cs}
          /\ vcall' = [vcall EXCEPT ![r].left = @ \ ({"all"} \cup {Physical(c) : c \in cs}), ![r].ids = @ \cup cs]
    /\ UNCHANGED <<store, unsure, vcalls, vraises>>

VecResetEnds(r) ==
    /\ VecActs(r, {"reset"}) /\ vcall[r].left = {}
    /\ IF store = "valkey" THEN vcall' = [vcall EXCEPT ![r].step = "keys"] ELSE VecDone(r)
    /\ UNCHANGED <<store, chunks, made, unsure, vcalls, vraises>>

VecNext ==
    \E r \in VClient :
       \/ /\ VecFree(r)
          /\ \/ \E c \in Collection :
                   \/ \E f \in DocOf \cup {None}, n \in 1..2 : AsksInsert(r, c, f, n)
                   \/ AsksUpsert(r, c) \/ AsksDelete(r, c) \/ VecAsks(r, "delete_collection", c, {}, None, {})
             \/ VecAsks(r, "reset", None, {}, None, {})
       \/ VecPut(r) \/ VecRaises(r) \/ VecDropOwn(r) \/ VecDelete(r) \/ VecDeleteCollection(r)
       \/ VecDeleteKeys(r) \/ VecReset(r) \/ VecResetEnds(r)

VecSpec == VecInit /\ [][VecNext]_vecVars
-----------------------------------------------------------------------------
VecTypeOK ==
    /\ store \in Store /\ made \subseteq Collection \cup {"index"} \cup {KindOf[c] : c \in Collection}
    /\ \A x \in chunks : x.coll \in Collection /\ x.id \in ChunkId /\ x.file \in DocOf \cup {None}
    /\ unsure \subseteq Collection /\ vcalls \in 0..MaxVectorCalls /\ vraises \in 0..MaxVectorRaises

(* The abstract store is what callers can read: what a search of each       *)
(* collection returns, filed under the name that was asked for.  How far a  *)
(* call has got is not shown.                                               *)
Asking(c, f) == [coll |-> c, file |-> f]
Filed(c, xs) == {[x EXCEPT !.coll = c] : x \in xs}
VecStored == UNION {Filed(c, Searched(Asking(c, None))) : c \in Collection}
VecAnswer == [f \in DocOf |-> UNION {Filed(c, Queried(Asking(c, f)) \cup Searched(Asking(c, f))) : c \in Collection}]
Shown(q) ==
    IF q = Unasked THEN Unasked
    ELSE [q EXCEPT !.step = "act", !.left = {}, !.missing = FALSE, !.ids = IF q.op = "reset" THEN {} ELSE @]
VecAsked == [r \in VClient |-> Shown(vcall[r])]

Contract == INSTANCE VectorContract WITH
    DocFile <- DocOf, NoCall <- Unasked, FileColl <- OwnColl,
    stored <- VecStored, answer <- VecAnswer, asked <- VecAsked, doubt <- unsure

(* Every adapter implements the interface of retrieval/vector/main.py:      *)
(* whatever calls overlap, raise or are cut short, a call changes its own   *)
(* collection only, as its arguments say, and reads no other.  (In the      *)
(* initial states nothing is stored or asked.)                              *)
ContractStep == UNCHANGED vecVars \/ [Contract!Next]_(Contract!contractVars)
ContractKept == [][ContractStep]_vecVars
=============================================================================
