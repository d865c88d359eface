----------------------------- MODULE Retrieval -----------------------------
(* What is looked up for a question.  A request names items - notes, chats,  *)
(* files, bases, folders, collections by name - and gets the text of those   *)
(* it may read, item by item, each check an await before the reading; the    *)
(* results of several collections are merged.  The process_* handlers write  *)
(* collections under the same names.                                         *)
EXTENDS Naturals, Sequences, FiniteSets, SequencesExt, FiniteSetsExt, Server

CONSTANTS
    Subject,            \* notes, chats, files and bases
    KindOfSubject,      \* [Subject -> {"note", "chat", "file", "base"}]
    Seeker, Chiefs,     \* users; administrators
    Querist,            \* the users who send requests
    Unscoped,           \* names of collections that belong to nobody
    Chunk, ScoreOf, TextOf,    \* texts in collections: how near to the question, and what they say
    FileText, OtherText,       \* what the collections of files, and the others, hold at first
    TopK,               \* how many are wanted
    RetrievalClient, MaxLookups, MaxRightsChanges, MaxStoreErrors   \* bounds

ASSUME RetrievalAssumption ==
    /\ Chiefs \subseteq Seeker /\ Querist \subseteq Seeker /\ TopK \in Nat /\ MaxLookups \in Nat /\ MaxRightsChanges \in Nat /\ MaxStoreErrors \in Nat
    /\ KindOfSubject \in [Subject -> {"note", "chat", "file", "base"}]
    /\ FileText \cup OtherText \subseteq Chunk /\ IsFiniteSet(Subject) /\ IsFiniteSet(Chunk)
    /\ ScoreOf \in [Chunk -> Nat] /\ \A a, b \in Chunk : ScoreOf[a] = ScoreOf[b] => a = b

VARIABLES may,          \* <<user, subject, "read" or "write">>
          shelf,        \* a folder: who may read it, what its owner filed there and may read
          texts,        \* the collections: per name the chunks in it
          lookup,       \* per client: the request in progress
          lookups, rightsChanges, storeErrors

retrievalVars == <<may, shelf, texts, lookup, lookups, rightsChanges, storeErrors>>

Named(k, x) == [kind |-> k, x |-> x]
Subjects == {Named(KindOfSubject[s], s) : s \in Subject}
\* file-<id>, the id of a base, user-memory-<user>, web-search-<user>, the list of bases, and others.
Collections == {n \in Subjects : n.kind \in {"file", "base"}} \cup {Named(k, u) : k \in {"memory", "web"}, u \in Seeker}
               \cup {Named("bases", None)} \cup {Named("other", x) : x \in Unscoped}
Folder == [type |-> "folder", of |-> Named("folder", None), full |-> FALSE]
Item(n, full) == [type |-> n.kind, of |-> n, full |-> full]
ByName(n) == [type |-> "name", of |-> n, full |-> FALSE]
Items == {Folder} \cup {Item(n, f) : n \in Subjects, f \in BOOLEAN} \cup {ByName(n) : n \in Collections}
NoLookup == [user |-> None, access |-> "read", items |-> <<>>, filed |-> {}, names |-> {}, extracted |-> {}, got |-> {}, fetched |-> {}, licence |-> {}]

RetrievalInit ==
    /\ \E A \in {{}, {"read", "write"}} : may = Seeker \X Subjects \X A
    /\ shelf \in {[open |-> {}, files |-> {}], [open |-> Seeker, files |-> {n \in Subjects : n.kind \in {"file", "base"}}]}
    /\ texts = [n \in Collections |-> IF n.kind = "bases" THEN {} ELSE IF n.kind = "file" THEN FileText ELSE OtherText]
    /\ lookup = [c \in RetrievalClient |-> NoLookup]
    /\ lookups = 0 /\ rightsChanges = 0 /\ storeErrors = 0

-----------------------------------------------------------------------------
(* Who may read, or write, what.                                            *)
Readable(u, n) == u \in Chiefs \/ <<u, n, "read">> \in may
\* What lies in a folder the user may read comes with it.
InFolder(c, n) == n \in lookup[c].filed
\* Collections are recognised by their names.
filter_accessible_collections_Prefix(u, S, access) ==
    {n \in S : u \in Chiefs \/ n.kind \in {"memory", "web", "other"} \/ (n \in Subjects /\ <<u, n, access>> \in may)}
filter_accessible_collections(u, S, access) ==
    {n \in S : \/ u \in Chiefs
               \/ n.kind \in {"memory", "web"} /\ n.x = u
               \/ n.kind = "other"
               \/ n \in Subjects /\ <<u, n, access>> \in may}
\* What the user may have, by the rights as they are.
Licence(rights, filed, u, access) ==
    {n \in Subjects \cup Collections :
        \/ u \in Chiefs \/ n.kind = "other" \/ (n.kind \in {"memory", "web"} /\ n.x = u) \/ <<u, n, access>> \in rights
        \/ access = "read" /\ u \in filed.open /\ n \in filed.files}

-----------------------------------------------------------------------------
(* Merging.                                                                 *)
BestOf(S, k) == {x \in S : Cardinality({y \in S : ScoreOf[y] > ScoreOf[x]}) < k}
\* Of chunks that say the same, the nearest.
Nearest(S) == {x \in S : \A y \in S : TextOf[y] = TextOf[x] => ScoreOf[y] <= ScoreOf[x]}
query_doc(n) == BestOf(texts[n], TopK)
merge_and_sort_query_results(R) == BestOf(Nearest(UNION R), TopK)
query_collection(S) == merge_and_sort_query_results({query_doc(n) : n \in S})

-----------------------------------------------------------------------------
(* Requests.                                                                *)
Looking(c) == lookup[c].items # <<>> \/ lookup[c].names # {}
MayAsk(c) == ~Looking(c) /\ lookups < MaxLookups
Lookup(c, u, access, items, names) ==
    /\ lookups' = lookups + 1
    /\ lookup' = [lookup EXCEPT ![c] = [NoLookup EXCEPT !.user = u, !.access = access, !.items = items, !.names = names,
                                                        !.licence = Licence(may, shelf, u, access)]]
    /\ UNCHANGED <<may, shelf, texts, rightsChanges, storeErrors>>
get_sources_from_items(c) ==
    \E u \in Querist, a \in Items, b \in Items : Lookup(c, u, "read", IF a = b THEN <<a>> ELSE <<a, b>>, {})
\* These refuse the whole request when one name is not allowed.
Validated(c, access, S) ==
    \E u \in Querist : S = filter_accessible_collections(u, S, access) /\ Lookup(c, u, access, <<[Folder EXCEPT !.type = "checked"]>>, S)
query_doc_handler(c) == \E n \in Collections : Validated(c, "read", {n})
query_collection_handler(c) == \E n, o \in Collections : Validated(c, "read", {n, o})
process_text(c) == \E n \in Collections : Validated(c, "write", {n})
\* A page is kept under a name made of its address; a search of the web under
\* one made of the user and the questions.
process_web(c) == \E u \in Querist, x \in Unscoped : Lookup(c, u, "write", <<[Folder EXCEPT !.type = "checked"]>>, {Named("other", x)})
process_web_search(c) == \E u \in Querist : Lookup(c, u, "write", <<[Folder EXCEPT !.type = "checked"]>>, {Named("web", u)})

Current(c) == Head(lookup[c].items)
Takes(c, type) == lookup[c].items # <<>> /\ lookup[c].names = {} /\ Current(c).type = type
Passed(r) == [r EXCEPT !.items = Tail(@)]
Moves(c, r) == lookup' = [lookup EXCEPT ![c] = r] /\ UNCHANGED <<may, shelf, texts, lookups, rightsChanges, storeErrors>>
Gives(c, n) == [Passed(lookup[c]) EXCEPT !.got = @ \cup {n}]

expand_folder(c) ==
    /\ Takes(c, "folder")
    /\ LET u == lookup[c].user
           more == IF u \in Chiefs \/ u \in shelf.open THEN shelf.files ELSE {} IN
       Moves(c, [Passed(lookup[c]) EXCEPT !.filed = more, !.licence = @ \cup more,
                                         !.items = @ \o SetToSeq({Item(n, FALSE) : n \in more} \ Range(@))])
from_note_or_chat(c) ==
    \E t \in {"note", "chat"} :
        /\ Takes(c, t)
        /\ Moves(c, IF Readable(lookup[c].user, Current(c).of) THEN Gives(c, Current(c).of) ELSE Passed(lookup[c]))
\* A file or a base: its text as it is, or what the search finds in its collection.
from_file_or_base(c) ==
    \E t \in {"file", "base"} :
        /\ Takes(c, t)
        /\ LET n == Current(c).of IN
           Moves(c, IF ~(Readable(lookup[c].user, n) \/ InFolder(c, n)) THEN Passed(lookup[c])
                   ELSE IF Current(c).full THEN Gives(c, n)
                   ELSE [lookup[c] EXCEPT !.names = {n} \ lookup[c].extracted, !.items = IF n \in lookup[c].extracted THEN Tail(@) ELSE @])
from_collection(c) ==
    /\ Takes(c, "name")
    /\ LET n == Current(c).of IN
       Moves(c, IF n \in lookup[c].extracted THEN Passed(lookup[c]) ELSE [lookup[c] EXCEPT !.names = {n}])
\* The names again, unless the item came out of a folder.
check_names(c) ==
    /\ lookup[c].names # {} /\ Current(c).type \notin {"checked", "fetched", "plain"}
    /\ LET S == IF InFolder(c, Current(c).of) THEN lookup[c].names
                ELSE filter_accessible_collections(lookup[c].user, lookup[c].names, "read") IN
       Moves(c, IF S = {} THEN [Passed(lookup[c]) EXCEPT !.names = {}]
               ELSE [lookup[c] EXCEPT !.names = S, !.items = <<[Current(c) EXCEPT !.type = "checked"]>> \o Tail(@)])
Fails(asked, up) ==
    /\ storeErrors' = storeErrors + (IF up = asked THEN 0 ELSE 1)
    /\ storeErrors' <= MaxStoreErrors
\* A store that fails gives nothing; what was asked counts as done.
Found(c, S) ==
    /\ lookup' = [lookup EXCEPT ![c] = [Passed(lookup[c]) EXCEPT !.names = {}, !.fetched = {}, !.extracted = @ \cup lookup[c].names,
                                                         !.got = @ \cup S]]
    /\ UNCHANGED <<may, shelf, texts, lookups, rightsChanges>>
Awaits(c, type) == lookup[c].names # {} /\ Current(c).type = type /\ lookup[c].access = "read"
query(c) == \E type \in {"checked", "plain"}, up \in SUBSET lookup[c].names : 
    Awaits(c, type) /\ Fails(lookup[c].names, up) /\ Found(c, {n \in up : texts[n] # {}})
\* With hybrid search the collections are fetched first, each on its own; the
\* words are looked up in what was fetched, the vectors in the store; when
\* every one that was fetched fails, the plain search is asked.
query_collection_with_hybrid_search(c) ==
    /\ Awaits(c, "checked")
    /\ \E up \in SUBSET lookup[c].names :
         /\ Fails(lookup[c].names, up)
         /\ lookup' = [lookup EXCEPT ![c].fetched = {n \in up : texts[n] # {}}, ![c].items[1].type = "fetched"]
    /\ UNCHANGED <<may, shelf, texts, lookups, rightsChanges>>
query_doc_with_hybrid_search(c) ==
    /\ Awaits(c, "fetched")
    /\ \E up \in SUBSET lookup[c].fetched :
         /\ Fails(lookup[c].fetched, up)
         /\ IF up = {} /\ lookup[c].fetched # {}
            THEN lookup' = [lookup EXCEPT ![c].items[1].type = "plain"] /\ UNCHANGED <<may, shelf, texts, lookups, rightsChanges>>
            ELSE Found(c, up)
save_docs_to_vector_db(c) ==
    /\ lookup[c].names # {} /\ lookup[c].access = "write"
    /\ \E S \in {FileText, OtherText} : texts' = [n \in Collections |-> IF n \in lookup[c].names THEN S ELSE texts[n]]
    /\ lookup' = [lookup EXCEPT ![c] = [Passed(@) EXCEPT !.names = {}, !.got = lookup[c].names]]
    /\ UNCHANGED <<may, shelf, lookups, rightsChanges, storeErrors>>

\* Administrators take entries out, or everything.
delete_entries_from_collection ==
    \E n \in Collections : /\ texts[n] # {} /\ rightsChanges < MaxRightsChanges /\ rightsChanges' = rightsChanges + 1
                           /\ texts' = [texts EXCEPT ![n] = @ \ {CHOOSE x \in @ : TRUE}]
                           /\ UNCHANGED <<may, shelf, lookup, lookups, storeErrors>>
reset_vector_db ==
    /\ rightsChanges < MaxRightsChanges /\ rightsChanges' = rightsChanges + 1
    /\ texts' = [n \in Collections |-> {}]
    /\ may' = {m \in may : m[2].kind # "base"} /\ shelf' = [shelf EXCEPT !.files = {n \in @ : n.kind # "base"}]
    /\ UNCHANGED <<lookup, lookups, storeErrors>>
\* Elsewhere rights are given and taken, and things are filed.
change_rights ==
    /\ rightsChanges < MaxRightsChanges /\ rightsChanges' = rightsChanges + 1
    /\ \/ \E u \in Seeker, n \in Subjects, a \in {"read", "write"} :
             may' = (IF <<u, n, a>> \in may THEN may \ {<<u, n, a>>} ELSE may \cup {<<u, n, a>>}) /\ UNCHANGED shelf
       \/ \E o \in {{}, Seeker}, F \in SUBSET {n \in Subjects : n.kind = "file"} : shelf' = [open |-> o, files |-> F] /\ UNCHANGED may
    /\ lookup' = [c \in RetrievalClient |->
                     IF Looking(c) THEN [lookup[c] EXCEPT !.licence = @ \cup Licence(may', shelf', lookup[c].user, lookup[c].access)] ELSE lookup[c]]
    /\ UNCHANGED <<texts, lookups, storeErrors>>

RetrievalNext ==
    \/ \E c \in RetrievalClient :
         \/ /\ MayAsk(c)
            /\ \/ get_sources_from_items(c) \/ query_doc_handler(c) \/ query_collection_handler(c)
               \/ process_text(c) \/ process_web(c) \/ process_web_search(c)
         \/ expand_folder(c) \/ from_note_or_chat(c) \/ from_file_or_base(c) \/ from_collection(c)
         \/ check_names(c) \/ query(c) \/ query_collection_with_hybrid_search(c) \/ query_doc_with_hybrid_search(c)
         \/ save_docs_to_vector_db(c)
    \/ delete_entries_from_collection \/ reset_vector_db \/ change_rights

RetrievalSpec == RetrievalInit /\ [][RetrievalNext]_retrievalVars

-----------------------------------------------------------------------------
RetrievalTypeOK ==
    /\ may \subseteq Seeker \X Subjects \X {"read", "write"}
    /\ \A n \in Collections : texts[n] \subseteq Chunk
    /\ \A c \in RetrievalClient : lookup[c].got \subseteq Subjects \cup Collections

\* A request gets, and writes, only what its user was allowed at some moment
\* since it began, whatever items or names it gives and in whatever order.
WithinLicence == \A c \in RetrievalClient : lookup[c].got \subseteq lookup[c].licence
\* What a request finds in several collections is the best of them all, each
\* text once, provided that no collection holds a text twice.
BestKept ==
    \A c \in RetrievalClient :
        LET S == lookup[c].names IN
        (\A n \in S : \A x, y \in texts[n] : TextOf[x] = TextOf[y] => x = y)
            => query_collection(S) = BestOf(Nearest(UNION {texts[n] : n \in S}), TopK)
RetrievalSound == WithinLicence /\ BestKept
=============================================================================
