------------------------------- MODULE Memory -------------------------------
(* What the assistant remembers about a user: rows in the database, a vector *)
(* of each in the user's collection, written after the commit; and what a    *)
(* chat is told of them.  A review of a finished turn changes memories in    *)
(* the background, from what it read before a model answered.                *)
EXTENDS Naturals, Sequences, FiniteSets, SequencesExt, Server

CONSTANTS
    MemoryId,
    MemoryPath,         \* paths: sequences of parts, <<>> for none
    MemoryClient,       \* requests and reviews in progress
    MaxMemoryCalls, MaxMemoryFails   \* bounds: requests; calls of the store or the embedder that raise

ASSUME MemoryAssumption ==
    /\ <<>> \in MemoryPath /\ \A p \in MemoryPath : p \in Seq(Range(p))
    /\ MaxMemoryCalls \in Nat /\ MaxMemoryFails \in Nat

VARIABLES remembered,   \* the rows
          vectors,      \* the collection: the text embedded for an id
          job,          \* per client: steps left, rows read, the ids it has written
          loose,        \* ids whose vector a crossing or a failure may have left behind
          shownTo,      \* what the last chat was told
          memoryCalls, memoryFails

memoryVars == <<remembered, vectors, job, loose, shownTo, memoryCalls, memoryFails>>

NoMemory == [in |-> FALSE, text |-> None, type |-> None, path |-> <<>>]
NoVector == [in |-> FALSE, text |-> None, path |-> <<>>]
Kept(rows) == {e \in MemoryId : rows[e].in}
memory_vector_text(r) == [in |-> TRUE, text |-> r.text, path |-> r.path]
NoJob == [prog |-> <<>>, seen |-> {}, rows |-> [e \in MemoryId |-> NoMemory], wrote |-> {}, clean |-> TRUE]
Row(t, y, p) == [in |-> TRUE, text |-> t, type |-> y, path |-> p]
Texts == {"a", "b"}
Types == {"user", "context"}

MemoryInit ==
    \E first \in {NoMemory} \cup {Row("a", y, p) : y \in Types, p \in MemoryPath} :
        /\ remembered = [e \in MemoryId |-> IF e = CHOOSE x \in MemoryId : TRUE THEN first ELSE NoMemory]
        /\ vectors = [e \in MemoryId |-> IF remembered[e].in THEN memory_vector_text(remembered[e]) ELSE NoVector]
        /\ job = [c \in MemoryClient |-> NoJob]
        /\ loose = {} /\ shownTo = {} /\ memoryCalls = 0 /\ memoryFails = 0

-----------------------------------------------------------------------------
(* Paths.                                                                   *)
Above(p, q) == IsStrictPrefix(p, q)
InCommon(p, q) == Cardinality(Range(p) \cap Range(q))
\* How near a memory's path is to the one looked up; None: not related.
path_rank(p, q) ==
    IF p = <<>> \/ q = <<>> THEN None
    ELSE IF p = q THEN <<0, 0>>
    ELSE IF Above(q, p) THEN <<1, Len(p) - Len(q)>>
    ELSE IF Above(p, q) THEN <<2, Len(q) - Len(p)>>
    ELSE IF Len(p) > 1 /\ Len(q) > 1 /\ Front(p) = Front(q) THEN <<3, 0>>
    ELSE IF InCommon(p, q) > 0 THEN <<4, 9 - InCommon(p, q)>> ELSE None
\* Rows whose path is related to the one looked up.
search_memory_rows(rows, q, type) ==
    {e \in Kept(rows) : rows[e].type = type /\ path_rank(rows[e].path, q) # None}
Parents(rows, q) == {p \in {rows[e].path : e \in Kept(rows)} : p # <<>> /\ Above(p, q)}
\* The children of a path: the next part of every path below it, a row's or not.
list_memory_path_groups(rows, p) ==
    {SubSeq(rows[e].path, 1, Len(p) + 1) : e \in {x \in Kept(rows) : Above(p, rows[x].path)}}
read_memory_path_rows(rows, q) ==
    {e \in Kept(rows) : rows[e].path = q \/ rows[e].path \in Parents(rows, q) \/ (rows[e].path # <<>> /\ Above(q, rows[e].path))}

-----------------------------------------------------------------------------
(* Steps.                                                                   *)
Busy(c) == job[c].prog # <<>>
Step(name, arg) == [do |-> name, arg |-> arg]
Embed == Step("embed", {})
Upsert(ids) == Step("upsert", ids)
Erase(ids) == Step("erase", ids)
reindex_memory_vectors_for_user == <<Step("drop", {}), Step("read", {}), Embed, Step("fill", {})>>
Now(c, name) == Busy(c) /\ Head(job[c].prog).do = name
Arg(c) == Head(job[c].prog).arg
Rest(c) == Tail(job[c].prog)
\* The client has written (or is about to rebuild) these: whoever has them too may end up behind.
Writes(c, ids, prog, rows) ==
    LET met == {o \in MemoryClient \ {c} : Busy(o) /\ job[o].wrote \cap ids # {}} IN
    /\ job' = [o \in MemoryClient |->
                  IF o = c THEN IF prog = <<>> THEN NoJob ELSE [job[c] EXCEPT !.prog = prog, !.rows = rows, !.wrote = @ \cup ids, !.clean = @ /\ met = {}]
                  ELSE IF o \in met THEN [job[o] EXCEPT !.clean = FALSE] ELSE job[o]]
    /\ loose' = loose \cup UNION {job[o].wrote \cap ids : o \in met}
Begin(c) ==
    /\ ~Busy(c) /\ c = CHOOSE x \in MemoryClient : ~Busy(x)
    /\ memoryCalls < MaxMemoryCalls /\ memoryCalls' = memoryCalls + 1
Steady == UNCHANGED <<vectors, shownTo, memoryFails>>

add_memory(c) ==
    /\ Begin(c) /\ Steady
    /\ \E t \in Texts, y \in Types, p \in MemoryPath : \E e \in {x \in MemoryId : ~remembered[x].in /\ ~vectors[x].in} :
         /\ \A o \in MemoryClient : e \notin job[o].wrote
         /\ remembered' = [remembered EXCEPT ![e] = Row(t, y, p)]
         /\ Writes(c, {e}, <<Embed, Upsert({e})>>, remembered')
\* A new vector only when what is embedded has changed.
update_memory_by_id_ContentOnly(c) ==
    /\ Begin(c) /\ Steady
    /\ \E e \in Kept(remembered), t \in Texts, y \in Types, p \in MemoryPath :
         /\ remembered' = [remembered EXCEPT ![e] = Row(t, y, p)]
         /\ IF t = remembered[e].text THEN Writes(c, {e}, <<>>, job[c].rows)
            ELSE Writes(c, {e}, <<Embed, Upsert({e})>>, remembered')
update_memory_by_id(c) ==
    /\ Begin(c) /\ Steady
    /\ \E e \in Kept(remembered), t \in Texts, y \in Types, p \in MemoryPath :
         /\ remembered' = [remembered EXCEPT ![e] = Row(t, y, p)]
         /\ IF t = remembered[e].text /\ p = remembered[e].path THEN Writes(c, {e}, <<>>, job[c].rows)
            ELSE Writes(c, {e}, <<Embed, Upsert({e})>>, remembered')
delete_memory_by_id(c) ==
    /\ Begin(c) /\ Steady
    /\ \E e \in Kept(remembered) :
         /\ remembered' = [remembered EXCEPT ![e] = NoMemory]
         /\ Writes(c, {e}, <<Erase({e})>>, job[c].rows)
delete_memory_by_user_id(c) ==
    /\ Begin(c) /\ Steady
    /\ remembered' = [e \in MemoryId |-> NoMemory]
    /\ Writes(c, MemoryId, <<Step("drop", {})>>, job[c].rows)
reset_memory_from_vector_db(c) ==
    /\ Begin(c) /\ Steady /\ UNCHANGED remembered
    /\ Writes(c, MemoryId, reindex_memory_vectors_for_user, job[c].rows)
\* The rows of everybody are read first, then each collection is rebuilt.
reindex_memories_from_vector_db(c) ==
    /\ Begin(c) /\ Steady /\ UNCHANGED remembered
    /\ Writes(c, MemoryId, <<Step("drop", {}), Embed, Step("fill", {})>>, remembered)

\* A batch: one commit, or none when an id is not there.
Operations == {[do |-> "add", text |-> t, type |-> "context", path |-> <<>>] : t \in Texts}
    \cup {[do |-> "replace", id |-> e, text |-> t, path |-> p] : e \in MemoryId, t \in Texts, p \in MemoryPath}
    \cup {[do |-> "move", id |-> e, path |-> p] : e \in MemoryId, p \in MemoryPath}
    \cup {[do |-> "remove", id |-> e] : e \in MemoryId}
Duplicate(rows, op) == \E e \in Kept(rows) : rows[e].text = op.text /\ rows[e].type = op.type /\ rows[e].path = op.path
Applied(rows, op, new) ==
    CASE op.do = "add" -> IF Duplicate(rows, op) THEN rows ELSE [rows EXCEPT ![new] = Row(op.text, op.type, op.path)]
      [] op.do = "replace" -> [rows EXCEPT ![op.id].text = op.text, ![op.id].path = op.path]
      [] op.do = "move" -> [rows EXCEPT ![op.id].path = op.path]
      [] op.do = "remove" -> [rows EXCEPT ![op.id] = NoMemory]
apply_memory_operations(c, ops, rest) ==
    LET free == {x \in MemoryId : ~remembered[x].in /\ ~vectors[x].in /\ \A o \in MemoryClient : x \notin job[o].wrote}
        named == {ops[i].id : i \in {j \in DOMAIN ops : ops[j].do # "add"}}
        new == CHOOSE x \in free : TRUE
        one == Applied(remembered, ops[1], new)
        all == IF Len(ops) = 1 THEN one ELSE Applied(one, ops[2], new)
        gone == Kept(remembered) \ Kept(all)
        \* Items to upsert: one per result, so an id may come twice.
        changed == {e \in Kept(all) : all[e] # remembered[e] \/ e \in named} IN
    /\ Cardinality({i \in DOMAIN ops : ops[i].do = "add"}) <= (IF free = {} THEN 0 ELSE 1)
    /\ IF ~(named \subseteq Kept(remembered)) \/ (Len(ops) = 2 /\ ops[1].do = "remove" /\ ops[2].do # "add" /\ ops[2].id = ops[1].id)
       THEN job' = [job EXCEPT ![c] = NoJob] /\ UNCHANGED <<remembered, loose>>
       ELSE /\ remembered' = all
            /\ Writes(c, changed \cup gone,
                      (IF changed = {} THEN <<>> ELSE <<Embed, Upsert(changed)>>) \o (IF gone = {} THEN <<>> ELSE <<Erase(gone)>>) \o rest, all)
Batches == {<<o>> : o \in Operations} \cup {<<o, [do |-> "remove", id |-> e]>> : o \in Operations, e \in MemoryId}
update_memories(c) == Begin(c) /\ Steady /\ \E ops \in Batches : apply_memory_operations(c, ops, <<>>)

\* The review reads, asks a model, and has its answer carried out.
review_memory(c) ==
    /\ Begin(c) /\ Steady /\ UNCHANGED <<remembered, loose>>
    /\ job' = [job EXCEPT ![c] = [NoJob EXCEPT !.prog = <<Step("review", {})>>, !.seen = Kept(remembered)]]
generate_memory_operations(c) ==
    /\ Now(c, "review") /\ Steady /\ UNCHANGED memoryCalls
    /\ \/ \E ops \in {b \in Batches : \A i \in DOMAIN b : b[i].do = "add" \/ b[i].id \in job[c].seen} : apply_memory_operations(c, ops, <<>>)
       \/ job' = [job EXCEPT ![c] = NoJob] /\ UNCHANGED <<remembered, loose>>

-----------------------------------------------------------------------------
(* The store.                                                               *)
Ended(c) == [job EXCEPT ![c] = IF Rest(c) = <<>> THEN NoJob ELSE [@ EXCEPT !.prog = Rest(c)]]
embed(c) == Now(c, "embed") /\ job' = Ended(c) /\ UNCHANGED <<remembered, vectors, loose, shownTo, memoryCalls, memoryFails>>
Stored(c, ids) == [e \in MemoryId |-> IF e \in ids THEN memory_vector_text(job[c].rows[e]) ELSE vectors[e]]
upsert(c) ==
    /\ Now(c, "upsert") /\ vectors' = Stored(c, Arg(c)) /\ job' = Ended(c)
    /\ UNCHANGED <<remembered, loose, shownTo, memoryCalls, memoryFails>>
\* Vectors of another length than the collection's: it is built anew.
upsert_memory_vectors_or_reindex(c) ==
    /\ Now(c, "upsert") /\ memoryFails < MaxMemoryFails /\ memoryFails' = memoryFails + 1
    /\ Writes(c, MemoryId, reindex_memory_vectors_for_user \o Rest(c), job[c].rows)
    /\ UNCHANGED <<remembered, vectors, shownTo, memoryCalls>>
erase(c) ==
    /\ Now(c, "erase") /\ vectors' = [e \in MemoryId |-> IF e \in Arg(c) THEN NoVector ELSE vectors[e]] /\ job' = Ended(c)
    /\ UNCHANGED <<remembered, loose, shownTo, memoryCalls, memoryFails>>
drop_collection(c) ==
    /\ Now(c, "drop") /\ vectors' = [e \in MemoryId |-> NoVector] /\ job' = Ended(c)
    /\ UNCHANGED <<remembered, loose, shownTo, memoryCalls, memoryFails>>
read_rows(c) ==
    /\ Now(c, "read") /\ job' = [job EXCEPT ![c].rows = remembered, ![c].prog = Rest(c)]
    /\ UNCHANGED <<remembered, vectors, loose, shownTo, memoryCalls, memoryFails>>
\* A collection built with nobody in between agrees with the rows again.
fill_collection(c) ==
    /\ Now(c, "fill") /\ vectors' = Stored(c, Kept(job[c].rows))
    /\ job' = Ended(c) /\ loose' = IF job[c].clean THEN {} ELSE loose
    /\ UNCHANGED <<remembered, shownTo, memoryCalls, memoryFails>>
\* A failure to drop a collection is passed over, any other ends the request.
fail(c) ==
    /\ Busy(c) /\ Head(job[c].prog).do \in {"embed", "upsert", "erase", "drop", "fill"}
    /\ memoryFails < MaxMemoryFails /\ memoryFails' = memoryFails + 1
    /\ loose' = loose \cup job[c].wrote
    /\ job' = IF Now(c, "drop") THEN [Ended(c) EXCEPT ![c].clean = (Rest(c) = <<>>)] ELSE [job EXCEPT ![c] = NoJob]
    /\ UNCHANGED <<remembered, vectors, shownTo, memoryCalls>>

-----------------------------------------------------------------------------
(* What a chat is told: every memory about the user, those near a path it   *)
(* mentions, and what the search finds, none of them twice.                 *)
query_memory == {S \in SUBSET {e \in MemoryId : vectors[e].in} : Kept(remembered) # {} \/ S = {}}
add_memory_context(c) ==
    /\ Begin(c) /\ UNCHANGED <<remembered, vectors, loose, memoryFails>>
    /\ job' = [job EXCEPT ![c] = [NoJob EXCEPT !.prog = <<Step("search", {})>>, !.rows = remembered]]
    /\ shownTo' = {}
search(c) ==
    /\ Now(c, "search") /\ UNCHANGED <<remembered, vectors, loose, memoryCalls, memoryFails>>
    /\ job' = Ended(c)
    /\ \E hits \in query_memory, q \in MemoryPath :
         LET rows == job[c].rows
             user == {e \in Kept(rows) : rows[e].type = "user"}
             near == search_memory_rows(rows, q, "context") \ user IN
         shownTo' = {<<e, rows[e].text, rows[e].path>> : e \in user \cup near}
                    \cup {<<e, vectors[e].text, vectors[e].path>> : e \in hits \ (user \cup near)}

MemoryNext == \E c \in MemoryClient :
    \/ add_memory(c) \/ update_memory_by_id(c) \/ delete_memory_by_id(c) \/ delete_memory_by_user_id(c)
    \/ reset_memory_from_vector_db(c) \/ reindex_memories_from_vector_db(c) \/ update_memories(c) \/ review_memory(c)
    \/ generate_memory_operations(c) \/ embed(c) \/ upsert(c) \/ upsert_memory_vectors_or_reindex(c) \/ erase(c)
    \/ drop_collection(c) \/ read_rows(c) \/ fill_collection(c) \/ fail(c) \/ add_memory_context(c) \/ search(c)

MemorySpec == MemoryInit /\ [][MemoryNext]_memoryVars

-----------------------------------------------------------------------------
MemoryTypeOK ==
    /\ loose \subseteq MemoryId /\ memoryCalls \in 0..MaxMemoryCalls /\ memoryFails \in 0..MaxMemoryFails
    /\ \A e \in MemoryId : remembered[e].path \in MemoryPath /\ vectors[e].path \in MemoryPath

\* The collection has exactly the memories there are, as they are now, but for
\* those being written and those a crossing or a failure has left behind - until
\* the next undisturbed rebuild.
VectorsFollow ==
    \A e \in MemoryId \ loose : (\A c \in MemoryClient : e \notin job[c].wrote) =>
        vectors[e] = IF remembered[e].in THEN memory_vector_text(remembered[e]) ELSE NoVector
\* No memory is told twice.
ToldOnce == \A a, b \in shownTo : a[1] = b[1] => a = b
\* A child path that the list names can be read, and shows the path it is under.
PathsLead ==
    \A e \in Kept(remembered) : remembered[e].path # <<>> =>
        \A p \in list_memory_path_groups(remembered, remembered[e].path) :
            /\ e \in read_memory_path_rows(remembered, p)
            /\ \E x \in read_memory_path_rows(remembered, p) : x # e
            /\ path_rank(remembered[e].path, p)[1] = 2
MemorySound == VectorsFollow /\ ToldOnce /\ PathsLead
=============================================================================
