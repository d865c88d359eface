--------------------------- MODULE KnowledgeBase ---------------------------
(***************************************************************************)
(* Files, knowledge bases and the vector store: three stores that no       *)
(* transaction spans.  A file has a row, a blob in storage and a           *)
(* collection file-{id} of chunks; a knowledge base has a row, links to    *)
(* files, a collection of chunks and a card in "knowledge-bases".          *)
(*                                                                         *)
(* A handler is a program: the sequence of its writes, each one a step     *)
(* that the requests of others interleave with.  A call to the vector      *)
(* store may raise: a step marked "try" is then passed over, after any     *)
(* other the handler goes on behind the next "catch", or ends.  Callers    *)
(* own what they touch or are administrators (Workspace has the rest).     *)
(***************************************************************************)
EXTENDS Naturals, Sequences, SequencesExt, Server

CONSTANTS File, KB, Requester, Text,
          ForeignKeys,     \* the database enforces ON DELETE (not SQLite)
          MaxRequests,     \* bound: requests and calls that raise
          MaxRaises        \* bound: calls to the vector store that raise

ASSUME KnowledgeAssumption == ForeignKeys \in BOOLEAN

VARIABLES row,     \* per file: its row
          blob,    \* files in storage
          bases,   \* knowledge bases with a row
          link,    \* knowledge_file rows
          vec,     \* per collection: its chunks
          cards,   \* entries of the "knowledge-bases" collection
          req,     \* per requester: the rest of its program and what it holds
          asked, raises,
          clean    \* so far: requests that overlap touch different files, no call raised,
                   \* no two files have one text

kbVars == <<row, blob, bases, link, vec, cards, req, asked, raises, clean>>

NoRow == [in |-> FALSE, status |-> "none", text |-> None, hash |-> None]
Quiet == [prog |-> <<>>, scope |-> {}, docs |-> None, text |-> None, restore |-> FALSE, old |-> {}, hash |-> [f \in File |-> None]]
Linked(f) == {k \in bases : <<k, f>> \in link}
FilesOf(k) == {f \in File : row[f].in /\ <<k, f>> \in link}
Visible == {l \in link : l[1] \in bases /\ row[l[2]].in}

Step(do, k, f) == [do |-> do, kb |-> k, file |-> f, text |-> None, try |-> FALSE]
Try(do, k, f) == [Step(do, k, f) EXCEPT !.try = TRUE]
Catch == Step("catch", None, None)
Each(Set, P(_)) == FlattenSeq([i \in 1..Len(SetToSeq(Set)) |-> P(SetToSeq(Set)[i])])

KbInit ==
    /\ row = [f \in File |-> NoRow] /\ blob = {} /\ link = {}
    /\ bases \in SUBSET KB /\ cards = bases
    /\ vec = [x \in KB \cup File |-> {}]
    /\ req = [c \in Requester |-> Quiet]
    /\ asked = 0 /\ raises = 0 /\ clean = TRUE

-----------------------------------------------------------------------------
(* Programs                                                                 *)

\* process_file, in its three forms: the text of the blob, a text that is given,
\* and the chunks of the file (or its stored text) into a knowledge base.
ProcessBlob(f) == <<Step("extract", None, f), Step("put", None, f), Step("save_own", None, f), Step("mark", None, f)>>
ProcessText(f, t) == <<Try("drop_own", None, f), [Step("set_text", None, f) EXCEPT !.text = t],
                       Step("put", None, f), Step("save_own", None, f), Step("mark", None, f)>>
ProcessInto(k, f) == <<Step("load", k, f), Step("put", k, f), Step("save", k, f), Step("mark", k, f)>>
\* Knowledges.remove_file_from_knowledge_by_id and the two deletes of chunks.
Detach(k, f) == <<Step("unlink", k, f), Try("del_by_file", k, f), Try("del_by_hash", k, f)>>
\* delete_file_resource
DeleteResource(f) == <<Try("drop_own", None, f), Step("del_row", None, f), Try("del_blob", None, f)>>

upload_file(f, k) ==
    <<Step("insert", None, f)>> \o ProcessBlob(f)
    \o (IF k = None THEN <<>> ELSE ProcessInto(k, f) \o <<Step("link", k, f)>>)
update_file_data_content_by_id(f, t) ==
    ProcessText(f, t) \o <<Catch>>
    \o Each(Linked(f), LAMBDA k : <<Step("old", k, f)>> \o ProcessInto(k, f) \o <<Step("del_old", k, f), Catch>>)
\* The deletion names no chunk: what it takes depends on the vector store.
delete_file_by_id(f) ==
    Each(Linked(f), LAMBDA k : Detach(k, f))
    \o <<Step("del_row", None, f), Step("del_blob", None, f), Step("del_own", None, f)>>
delete_all_files == <<Step("del_rows", None, None), Step("reset", None, None)>>
add_file_to_knowledge_by_id(k, f) == ProcessInto(k, f) \o <<Step("link", k, f)>>
update_file_from_knowledge_by_id(k, f) == <<Step("del_by_file", k, f)>> \o ProcessInto(k, f)
remove_file_from_knowledge_by_id(k, f, delete) ==
    Detach(k, f) \o (IF delete THEN DeleteResource(f) ELSE <<>>)
sync_knowledge_cleanup(k, f) == Detach(k, f) \o <<Step("resource_if_unlinked", k, f)>>
add_files_to_knowledge_batch(k, f) ==
    <<[Step("set_text", None, f) EXCEPT !.text = row[f].text], Step("save_batch", k, f), Step("mark_batch", k, f), Step("link", k, f)>>
create_new_knowledge(k) == <<Step("insert_base", k, None), Try("card", k, None)>>
delete_knowledge_by_id_KeepCard(k) == <<Try("drop_base", k, None), Step("del_base", k, None)>>
delete_knowledge_by_id(k) == <<Try("drop_base", k, None), Try("uncard", k, None), Step("del_base", k, None)>>
reset_knowledge_by_id(k, retain) ==
    <<Try("drop_base", k, None)>>
    \o (IF retain THEN <<>> ELSE Each(FilesOf(k), DeleteResource)) \o <<Step("unlink_all", k, None)>>
reindex_knowledge_files ==
    Each(bases, LAMBDA k : <<Step("drop_base", k, None)>>
        \o Each(FilesOf(k), LAMBDA f : <<Step("drop_own", None, f)>> \o ProcessInto(k, f) \o <<Catch>>) \o <<Catch>>)
reindex_metadata == <<Try("drop_cards", None, None)>> \o Each(bases, LAMBDA k : <<Try("card", k, None)>>)
reset_vector_db == <<Step("reset", None, None), Step("del_bases", None, None)>>

-----------------------------------------------------------------------------
(* A request: its checks, then its program.                                 *)
KbFree(c) ==
    /\ asked + raises < MaxRequests
    /\ req[c].prog = <<>> /\ c = CHOOSE x \in Requester : req[x].prog = <<>>   \* slots are alike
Begin(c, scope, prog) ==
    /\ KbFree(c) /\ asked' = asked + 1
    /\ req' = [req EXCEPT ![c] = [Quiet EXCEPT !.prog = prog, !.scope = scope, !.hash = [f \in File |-> row[f].hash]]]
    /\ clean' = (clean /\ \A d \in Requester : req[d].prog = <<>> \/ req[d].scope \cap scope = {})
    /\ UNCHANGED <<row, blob, bases, link, vec, cards, raises>>

\* A new row has an id that nothing refers to yet.
FreshFile(f) == ~row[f].in /\ f \notin blob /\ vec[f] = {} /\ \A k \in KB : <<k, f>> \notin link /\ \A e \in vec[k] : e.file # f
FreshBase(k) == k \notin bases \cup cards /\ vec[k] = {} /\ \A f \in File : <<k, f>> \notin link

FileRequest(c, f) ==
    \/ /\ FreshFile(f) /\ f = CHOOSE x \in File : FreshFile(x)   \* ids are alike
       /\ \E k \in bases \cup {None} : Begin(c, {f}, upload_file(f, k))
    \/ row[f].in /\ \E t \in Text : Begin(c, {f}, update_file_data_content_by_id(f, t))
    \/ row[f].in /\ Begin(c, {f}, delete_file_by_id(f))
KnowledgeRequest(c, k) ==
    \/ FreshBase(k) /\ Begin(c, File, create_new_knowledge(k))
    \/ k \in bases /\ Begin(c, File, delete_knowledge_by_id(k))
    \/ k \in bases /\ \E retain \in BOOLEAN : Begin(c, File, reset_knowledge_by_id(k, retain))
    \/ k \in bases /\ \E f \in File : row[f].in /\
          \/ Begin(c, {f}, add_file_to_knowledge_by_id(k, f))
          \/ <<k, f>> \notin link /\ row[f].text # None /\ Begin(c, {f}, add_files_to_knowledge_batch(k, f))
          \/ /\ <<k, f>> \in link
             /\ \/ Begin(c, {f}, update_file_from_knowledge_by_id(k, f))
                \/ \E delete \in BOOLEAN : Begin(c, {f}, remove_file_from_knowledge_by_id(k, f, delete))
                \/ Begin(c, {f}, sync_knowledge_cleanup(k, f))
AdminRequest(c) ==
    \/ Begin(c, File, delete_all_files) \/ Begin(c, File, reset_vector_db)
    \/ bases # {} /\ Begin(c, File, reindex_knowledge_files)
    \/ Begin(c, File, reindex_metadata)

-----------------------------------------------------------------------------
(* Steps                                                                    *)
At(c, do) == req[c].prog # <<>> /\ Head(req[c].prog).do = do
Now(c) == Head(req[c].prog)
Next1(c) == req' = [req EXCEPT ![c].prog = Tail(@)]
Others == UNCHANGED <<asked, raises, clean>>
RowsOnly == UNCHANGED <<blob, bases, link, vec, cards>>
VecOnly == UNCHANGED <<row, blob, bases, link, cards>>

\* A call raises: "failed" is noted on the file that is processed.
AfterRaise(prog) ==
    LET ends == {i \in 1..Len(prog) : prog[i].do = "catch"} IN
    IF Head(prog).try THEN Tail(prog)
    ELSE IF ends = {} THEN <<>> ELSE SubSeq(prog, (CHOOSE i \in ends : \A j \in ends : i <= j) + 1, Len(prog))
Raised(c) ==
    /\ req' = [req EXCEPT ![c].prog = AfterRaise(@)]
    /\ row' = IF Now(c).do \in {"extract", "put", "save_own", "load", "save", "mark"} /\ row[Now(c).file].in
              THEN [row EXCEPT ![Now(c).file].status = "failed", ![Now(c).file].hash = None] ELSE row
Raise(c) ==
    /\ raises < MaxRaises /\ asked + raises < MaxRequests /\ raises' = raises + 1 /\ clean' = FALSE
    /\ req[c].prog # <<>>
    /\ Now(c).do \in {"save_own", "save", "save_batch", "drop_own", "del_own", "del_by_file", "del_by_hash", "del_old",
                      "drop_base", "card", "uncard", "del_blob", "extract", "drop_cards"}
    /\ Raised(c)
    /\ UNCHANGED <<blob, bases, link, vec, cards, asked>>

catch(c) == At(c, "catch") /\ Next1(c) /\ UNCHANGED row /\ RowsOnly /\ Others

insert_new_file(c) ==
    /\ At(c, "insert")
    /\ row' = [row EXCEPT ![Now(c).file] = [NoRow EXCEPT !.in = TRUE, !.status = "pending"]]
    /\ blob' = blob \cup {Now(c).file}
    /\ Next1(c) /\ UNCHANGED <<bases, link, vec, cards>> /\ Others

\* The text of the blob, or the one that is given; then it goes into the row.
extract(c, t) ==
    /\ At(c, "extract") /\ Now(c).file \in blob
    /\ req' = [req EXCEPT ![c].prog = Tail(@), ![c].docs = t, ![c].text = t]
    /\ UNCHANGED row /\ RowsOnly /\ Others
set_text(c) ==
    /\ At(c, "set_text")
    /\ req' = [req EXCEPT ![c].prog = Tail(@), ![c].docs = Now(c).text, ![c].text = Now(c).text]
    /\ UNCHANGED row /\ RowsOnly /\ Others
put(c) ==
    /\ At(c, "put")
    /\ row' = IF row[Now(c).file].in THEN [row EXCEPT ![Now(c).file].text = req[c].text] ELSE row
    /\ clean' = (clean /\ \A f \in File \ {Now(c).file} : row[f].in => row[f].text # req[c].text)
    /\ Next1(c) /\ RowsOnly /\ UNCHANGED <<asked, raises>>

\* save_docs_to_vector_db: a text that another file has in the collection is
\* refused; an existing collection is left as it is unless chunks are added.
Chunk(f, t, h) == [file |-> f, text |-> t, hash |-> h]
Duplicate(x, f, h) == \E e \in vec[x] : e.hash = h /\ e.file # f
save_own(c) ==
    LET f == Now(c).file IN
    /\ At(c, "save_own")
    /\ vec' = IF vec[f] # {} THEN vec ELSE [vec EXCEPT ![f] = {Chunk(f, req[c].docs, req[c].text)}]
    /\ Next1(c) /\ VecOnly /\ Others
load(c) ==
    LET f == Now(c).file
        texts == {e.text : e \in vec[f]} IN
    /\ At(c, "load")
    /\ \/ /\ row[f].in /\ (texts # {} \/ row[f].text # None)
          /\ req' = [req EXCEPT ![c].prog = Tail(@), ![c].restore = (texts = {}), ![c].text = row[f].text,
                                ![c].docs = IF texts = {} THEN row[f].text ELSE CHOOSE t \in texts : TRUE]
          /\ UNCHANGED row
       \/ ~(row[f].in /\ (texts # {} \/ row[f].text # None)) /\ Raised(c)
    /\ RowsOnly /\ Others
save(c) ==
    LET f == Now(c).file  k == Now(c).kb IN
    /\ At(c, "save")
    /\ IF Duplicate(k, f, req[c].text)
       THEN Raised(c) /\ UNCHANGED vec
       ELSE /\ vec' = [vec EXCEPT ![k] = @ \cup {Chunk(f, req[c].docs, req[c].text)},
                                  ![f] = IF req[c].restore THEN @ \cup {Chunk(f, req[c].docs, req[c].text)} ELSE @]
            /\ Next1(c) /\ UNCHANGED row
    /\ UNCHANGED <<blob, bases, link, cards>> /\ Others
\* process_files_batch: the chunks carry no hash, nothing is compared.
save_batch(c) ==
    LET f == Now(c).file IN
    /\ At(c, "save_batch")
    /\ vec' = [vec EXCEPT ![Now(c).kb] = @ \cup {Chunk(f, req[c].text, None)}]
    /\ Next1(c) /\ VecOnly /\ Others
mark(c) ==
    LET f == Now(c).file IN
    /\ At(c, "mark") \/ At(c, "mark_batch")
    /\ row' = IF ~row[f].in THEN row
              ELSE [row EXCEPT ![f].hash = req[c].text,
                               ![f].text = IF Now(c).do = "mark" THEN @ ELSE req[c].text,
                               ![f].status = IF Now(c).do = "mark" THEN "completed" ELSE @]
    /\ Next1(c) /\ RowsOnly /\ Others

\* Chunks go.  The hash is the one the request read when it began.
del_by_file(c) ==
    /\ At(c, "del_by_file")
    /\ vec' = [vec EXCEPT ![Now(c).kb] = {e \in @ : e.file # Now(c).file}]
    /\ Next1(c) /\ VecOnly /\ Others
del_by_hash(c) ==
    /\ At(c, "del_by_hash")
    /\ vec' = [vec EXCEPT ![Now(c).kb] = {e \in @ : e.hash = None \/ e.hash # req[c].hash[Now(c).file]}]
    /\ Next1(c) /\ VecOnly /\ Others
old(c) ==
    /\ At(c, "old")
    /\ req' = [req EXCEPT ![c].prog = Tail(@), ![c].old = {e \in vec[Now(c).kb] : e.file = Now(c).file}]
    /\ UNCHANGED row /\ RowsOnly /\ Others
\* The ids that were there before: a chunk with the same text got a new id.
del_old(c) ==
    LET stale == IF \E e \in req[c].old : e.text = row[Now(c).file].text
                 THEN {e \in req[c].old : e.text # row[Now(c).file].text} ELSE req[c].old IN
    /\ At(c, "del_old")
    /\ vec' = [vec EXCEPT ![Now(c).kb] = @ \ stale]
    /\ Next1(c) /\ VecOnly /\ Others
drop_collection(c) ==
    /\ At(c, "drop_own") \/ At(c, "drop_base")
    /\ vec' = [vec EXCEPT ![IF Now(c).do = "drop_own" THEN Now(c).file ELSE Now(c).kb] = {}]
    /\ Next1(c) /\ VecOnly /\ Others
del_own(c) ==
    /\ At(c, "del_own")
    /\ \E left \in {{}, vec[Now(c).file]} : vec' = [vec EXCEPT ![Now(c).file] = left]
    /\ Next1(c) /\ VecOnly /\ Others
reset(c) ==
    /\ At(c, "reset")
    /\ vec' = [x \in KB \cup File |-> {}] /\ cards' = {}
    /\ blob' = IF Tail(req[c].prog) = <<>> THEN {} ELSE blob
    /\ Next1(c) /\ UNCHANGED <<row, bases, link>> /\ Others
card(c) ==
    /\ At(c, "card") \/ At(c, "uncard") \/ At(c, "drop_cards")
    /\ cards' = CASE Now(c).do = "card" -> cards \cup {Now(c).kb}
                  [] Now(c).do = "uncard" -> cards \ {Now(c).kb}
                  [] OTHER -> {}
    /\ Next1(c) /\ UNCHANGED <<row, blob, bases, link, vec>> /\ Others

\* Rows go, with the links below them where the database enforces its keys.
Cascade(l) == IF ForeignKeys THEN {x \in link : x[1] \in bases' /\ row'[x[2]].in} ELSE l
del_row(c) ==
    /\ At(c, "del_row") \/ At(c, "del_rows")
    /\ row' = [f \in File |-> IF Now(c).do = "del_rows" \/ f = Now(c).file THEN NoRow ELSE row[f]]
    /\ UNCHANGED bases /\ link' = Cascade(link)
    /\ Next1(c) /\ UNCHANGED <<blob, vec, cards>> /\ Others
del_blob(c) ==
    /\ At(c, "del_blob") /\ blob' = blob \ {Now(c).file}
    /\ Next1(c) /\ UNCHANGED <<row, bases, link, vec, cards>> /\ Others
insert_new_knowledge(c) ==
    /\ At(c, "insert_base") /\ bases' = bases \cup {Now(c).kb}
    /\ Next1(c) /\ UNCHANGED <<row, blob, link, vec, cards>> /\ Others
del_base(c) ==
    /\ At(c, "del_base") \/ At(c, "del_bases")
    /\ bases' = IF Now(c).do = "del_base" THEN bases \ {Now(c).kb} ELSE {}
    /\ UNCHANGED row /\ link' = Cascade(link)
    /\ Next1(c) /\ UNCHANGED <<blob, vec, cards>> /\ Others
\* add_file_to_knowledge_by_id: an insert the database refuses is not noticed.
link_file(c) ==
    LET l == <<Now(c).kb, Now(c).file>> IN
    /\ At(c, "link")
    /\ link' = IF ForeignKeys /\ ~(l[1] \in bases /\ row[l[2]].in) THEN link ELSE link \cup {l}
    /\ Next1(c) /\ UNCHANGED <<row, blob, bases, vec, cards>> /\ Others
unlink(c) ==
    /\ At(c, "unlink") \/ At(c, "unlink_all")
    /\ link' = {l \in link : l[1] # Now(c).kb \/ (Now(c).do = "unlink" /\ l[2] # Now(c).file)}
    /\ Next1(c) /\ UNCHANGED <<row, blob, bases, vec, cards>> /\ Others
resource_if_unlinked(c) ==
    LET f == Now(c).file IN
    /\ At(c, "resource_if_unlinked")
    /\ \E retain \in BOOLEAN :
          req' = [req EXCEPT ![c].prog = IF Linked(f) = {} /\ ~retain THEN DeleteResource(f) ELSE <<>>]
    /\ UNCHANGED row /\ RowsOnly /\ Others

\* delete_knowledge_directory with move_files=false: the links of the files in
\* the directory go, their chunks stay.
delete_directory_files(k, f) ==
    /\ asked + raises < MaxRequests /\ asked' = asked + 1
    /\ <<k, f>> \in Visible
    /\ link' = link \ {<<k, f>>} /\ clean' = FALSE
    /\ UNCHANGED <<row, blob, bases, vec, cards, req, raises>>

KbNext ==
    \/ \E c \in Requester :
          \/ KbFree(c) /\ ((\E f \in File : FileRequest(c, f)) \/ (\E k \in KB : KnowledgeRequest(c, k)) \/ AdminRequest(c))
          \/ Raise(c) \/ catch(c) \/ insert_new_file(c) \/ set_text(c) \/ put(c) \/ save_own(c) \/ load(c) \/ save(c)
          \/ save_batch(c) \/ mark(c) \/ del_by_file(c) \/ del_by_hash(c) \/ old(c) \/ del_old(c)
          \/ drop_collection(c) \/ del_own(c) \/ reset(c) \/ card(c) \/ del_row(c) \/ del_blob(c) \/ insert_new_knowledge(c)
          \/ del_base(c) \/ link_file(c) \/ unlink(c) \/ resource_if_unlinked(c)
          \/ \E t \in Text : extract(c, t)
    \/ \E k \in KB, f \in File : delete_directory_files(k, f)

-----------------------------------------------------------------------------
KbTypeOK ==
    /\ blob \subseteq File /\ bases \subseteq KB /\ cards \subseteq KB /\ link \subseteq KB \X File
    /\ \A x \in KB \cup File : \A e \in vec[x] : e.file \in File /\ e.text \in Text
    /\ \A f \in File : row[f].status \in {"none", "pending", "completed", "failed"}

AllQuiet == \A c \in Requester : req[c].prog = <<>>

\* After any sequence of requests that did not overlap, a file that is in a
\* knowledge base can be found there, by its present text and no other.
LinkedIsSearchable ==
    AllQuiet /\ clean => \A l \in Visible :
        {e.text : e \in {x \in vec[l[1]] : x.file = l[2]}} = {row[l[2]].text}

\* And what can be found in a knowledge base belongs to a file that is in it;
\* a knowledge base that is gone is found no more.
NothingElseSearchable ==
    AllQuiet /\ clean =>
        /\ \A k \in KB : \A e \in vec[k] : <<k, e.file>> \in Visible
        /\ cards \subseteq bases
=============================================================================
