--------------------------- MODULE VectorContract ---------------------------
(* What retrieval/vector/main.py promises its callers of any vector store:  *)
(* collections of chunks, and calls that take effect between their start    *)
(* and their end or, when they raise, not at all; an insertion that raises  *)
(* may have stored a part.  Nothing is promised about a collection in doubt.*)
CONSTANTS DocFile,      \* files, one value of a filter
          NoCall,
          FileColl      \* per file: the collection that holds the chunks of it alone

VARIABLES stored,   \* what a search of each collection can return
          asked,    \* per caller: its call in progress
          doubt,    \* collections in doubt
          answer    \* per file: what a query or search with this filter can return

In(c) == {x \in stored : x.coll = c}
Matches(q) == {x \in In(q.coll) : q.file \in DocFile => x.file = q.file}
Writes == {"insert", "upsert"}

\* Doubt arises only while a collection is dropped or an id upserted that is there.
Dropping(q) == q # NoCall /\ q.op \in {"delete_collection", "reset"}
Repeating(q) == q # NoCall /\ q.op = "upsert" /\ \E x \in In(q.coll), n \in q.new : x.id = n.id
Doubts ==
    /\ doubt \subseteq doubt'
    /\ doubt' # doubt => \E r \in DOMAIN asked : Dropping(asked[r]) \/ Dropping(asked'[r]) \/ Repeating(asked[r])

\* A filter returns nothing else than a search without it, and only matches.
Filters == \A f \in DocFile : answer[f] \subseteq {x \in stored : x.file = f}

Init == stored = {} /\ (\A r \in DOMAIN asked : asked[r] = NoCall) /\ doubt = {} /\ Filters

Call(r) ==
    /\ asked[r] = NoCall /\ asked'[r] # NoCall
    /\ asked' = [asked EXCEPT ![r] = asked'[r]]
    /\ UNCHANGED stored /\ Doubts

Returns(r) == asked[r] # NoCall /\ asked' = [asked EXCEPT ![r] = NoCall]
GoesOn(r) == Returns(r) \/ (asked[r] # NoCall /\ UNCHANGED asked)

Raises(r) == Returns(r) /\ UNCHANGED stored /\ Doubts

\* insert and upsert: an id names one chunk of its collection.
Put(r) ==
    LET q == asked[r] IN
    /\ Returns(r) /\ q.op \in Writes
    /\ \E part \in SUBSET q.new :
          stored' = {x \in stored : x.coll = q.coll => \A n \in part : n.id # x.id} \cup part
    /\ UNCHANGED doubt

\* delete: what the ids or the filter name; with neither, all or nothing.
Delete(r) ==
    LET q == asked[r] IN
    /\ Returns(r) /\ q.op = "delete"
    /\ stored' = stored \ {x \in Matches(q) : q.ids = {} \/ x.id \in q.ids}
    /\ UNCHANGED doubt

\* A store may drop a file's own collection with its chunks elsewhere.
DropOwn(r) ==
    LET q == asked[r] IN
    /\ GoesOn(r) /\ q.op = "delete" /\ q.file \in DocFile
    /\ stored' = stored \ In(FileColl[q.file])
    /\ UNCHANGED doubt

DeleteCollection(r) ==
    /\ GoesOn(r) /\ asked[r].op = "delete_collection"
    /\ stored' = stored \ In(asked[r].coll)
    /\ UNCHANGED doubt

\* reset drops one collection after the other.
Reset(r) ==
    /\ GoesOn(r) /\ asked[r].op = "reset"
    /\ stored' = {x \in stored : \E y \in stored' : y.coll = x.coll}
    /\ UNCHANGED doubt

\* A collection in doubt changes and answers in any way; the others do not.
Wavers ==
    /\ \A x \in (stored \ stored') \cup (stored' \ stored) : x.coll \in doubt'
    /\ \A r \in DOMAIN asked : asked'[r] \in {asked[r], NoCall}
    /\ Doubts

Next ==
    /\ Filters'
    /\ \/ \E r \in DOMAIN asked :
             \/ Call(r) \/ Raises(r) \/ Put(r) \/ Delete(r) \/ DropOwn(r)
             \/ DeleteCollection(r) \/ Reset(r)
       \/ Wavers

contractVars == <<stored, asked, doubt, answer>>

Spec == Init /\ [][Next]_contractVars
=============================================================================
