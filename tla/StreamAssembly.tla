---------------------------- MODULE StreamAssembly ----------------------------
(* How a streamed answer becomes the items of a message (utils/middleware.py).*)
(* Deltas arrive in pieces of any size; reasoning blocks and code are found   *)
(* by their tags, looking only at what was not scanned before; reasoning,     *)
(* text and calls of a chat completion become items in the order they come;   *)
(* the events of the Responses API are applied by their indices.  Deltas are  *)
(* gathered before they are sent to the browser.  White space, usage,         *)
(* annotations and images, which are passed on as they come, are left out.    *)
EXTENDS Naturals, FiniteSets, SequencesExt, Server

CONSTANTS
    MaxText,        \* bound: characters of a text with tags
    MaxPiece,       \* bound: characters of one delta
    MaxDeltas,      \* bound: deltas without tags, events of a provider
    ChunkSize       \* stream_delta_chunk_size

ASSUME StreamAssumption == MaxText \in Nat /\ MaxPiece \in Nat \ {0} /\ MaxDeltas \in Nat /\ ChunkSize \in Nat \ {0}

VARIABLES
    way,        \* "tags": text with tags; "deltas": a chat completion without; "responses": the Responses API
    kind,       \* what the tags enclose
    output,     \* the items
    fed,        \* what the provider has sent: characters, or its own items
    scanned,    \* tag_scan_positions and tag_boundary_positions of the last item
    single,     \* no delta completed two tags
    waiting, gathered, \* the delta that is gathered, and of how many
    browser,    \* what the browser has put together, by item
    over        \* the stream has ended

streamVars == <<way, kind, output, fed, scanned, single, waiting, gathered, browser, over>>

(***************************************************************************)
(* Tags: "<" stands for "<think", a tag may carry attributes (" " and what   *)
(* follows) up to its ">"; "/>" stands for the closing tag.                  *)
(***************************************************************************)
Char == {"<", " ", ">", "/", "x"}
EndTag == <<"/", ">">>
NotScanned == [upTo |-> 0, known |-> 0, open |-> 0, edge |-> 0]

From(t, i) == SubSeq(t, i, Len(t))
Upto(t, i) == SubSeq(t, 1, i)
Least(S) == CHOOSE i \in S : \A j \in S : i <= j
Last0(S) == IF S = {} THEN 0 ELSE CHOOSE i \in S : \A j \in S : j <= i

\* Where a start tag beginning at i ends, or 0: the regular expression takes the first ">".
start_tag_pattern(t, i) ==
    LET ends == {j \in i + 1 .. Len(t) : t[j] = ">" /\ (j = i + 1 \/ t[i + 1] = " ")}
    IN IF t[i] = "<" /\ ends # {} THEN Least(ends) ELSE 0
\* The first start tag at or after i: where it begins and ends.
Search(t, i) ==
    LET hits == {j \in i .. Len(t) : start_tag_pattern(t, j) # 0}
    IN IF hits = {} THEN <<0, 0>> ELSE <<Least(hits), start_tag_pattern(t, Least(hits))>>
WithoutStarts(t) ==
    LET without[i \in 1 .. Len(t) + 1] ==
            LET m == Search(t, i)
            IN IF m[1] = 0 THEN From(t, i) ELSE SubSeq(t, i, m[1] - 1) \o without[m[2] + 1]
    IN without[1]
EndAt(t, i) ==
    LET ends == {j \in i .. Len(t) - 1 : SubSeq(t, j, j + 1) = EndTag} IN IF ends = {} THEN 0 ELSE Least(ends)

Piece(type, text, tag) == [type |-> type, text |-> text, tag |-> tag, open |-> TRUE, id |-> 0]
BlockType == IF kind = "solution" THEN "message" ELSE kind
Message(text) == Piece("message", text, None)
Block(text) == Piece(BlockType, text, kind)

\* The position from which a message is searched: the cached one, less what a tag may have begun
\* before it; if its last "<" is not yet followed by ">", from there.
get_tag_boundaries(t, s) ==
    IF s.known >= s.upTo THEN s
    ELSE [s EXCEPT !.known = s.upTo,
              !.open = IF Last0({i \in s.known + 1 .. s.upTo : t[i] = "<"}) # 0
                       THEN Last0({i \in s.known + 1 .. s.upTo : t[i] = "<"}) ELSE @,
              !.edge = IF Last0({i \in s.known + 1 .. s.upTo : t[i] = ">"}) # 0
                       THEN Last0({i \in s.known + 1 .. s.upTo : t[i] = ">"}) ELSE @]
search_start_Scanned(s) == s.upTo + 1
search_start(s) ==
    LET near == IF s.upTo = 0 THEN 1 ELSE s.upTo
    IN IF s.upTo # 0 /\ s.open > s.edge /\ s.open < near THEN s.open ELSE near

Handled(out, s, end) == [out |-> out, scan |-> s, end |-> end, again |-> FALSE]
\* The end of a block: nested start tags are dropped, an empty block disappears.
close_block(out, s) ==
    LET block == Last(out).text
        e == EndAt(block, IF s.upTo = 0 THEN 1 ELSE s.upTo)
        body == WithoutStarts(block)
        cut == EndAt(body, 1)
        inner == Upto(body, cut - 1)
    IN IF e = 0 THEN Handled(out, [s EXCEPT !.upTo = Len(block)], FALSE)
       ELSE Handled((IF inner = <<>> THEN Front(out)
                     ELSE Append(Front(out), [Last(out) EXCEPT !.text = inner, !.open = (kind = "code_interpreter")]))
                     \o <<Message(From(body, cut + 2))>>, NotScanned, TRUE)
\* A start tag that is found opens a block, which is searched in its turn.
handle_tag(out, s) ==
    LET t == Last(out).text
        b == IF s.upTo = 0 THEN s ELSE get_tag_boundaries(t, s)
        m == Search(t, search_start(b))
        before == IF m[1] = 1 THEN Front(out) ELSE Append(Front(out), [Last(out) EXCEPT !.text = Upto(t, m[1] - 1)])
    IN IF out = <<>> THEN Handled(out, s, FALSE)
       ELSE IF Last(out).type # "message"
       THEN IF Last(out).tag = kind /\ Last(out).type = kind THEN close_block(out, s) ELSE Handled(out, s, FALSE)
       ELSE IF m[1] = 0 THEN Handled(out, [b EXCEPT !.upTo = Len(t)], FALSE)
       ELSE [Handled(Append(before, Block(From(t, m[2] + 1))), NotScanned, FALSE) EXCEPT !.again = (m[2] # Len(t))]
tag_output_handler(out, s) ==
    LET depth == IF out = <<>> THEN 0 ELSE Len(Last(out).text)
        handled[n \in 0 .. depth] ==
            IF n = 0 THEN handle_tag(out, s)
            ELSE LET before == handled[n - 1] IN IF before.again THEN handle_tag(before.out, before.scan) ELSE before
    IN handled[depth]

\* Where the text of a delta goes: into the open block, the open message, or a new message.
InsideBlock(out) == out # <<>> /\ Last(out).open /\ Last(out).tag \notin {None, "thinking"}
Placed(out, d) ==
    LET closed == IF out # <<>> /\ Last(out).tag = "thinking"
                  THEN Append(Front(out), [Last(out) EXCEPT !.open = FALSE]) \o <<Message(<<>>)>> ELSE out
        target == IF InsideBlock(closed) \/ (closed # <<>> /\ Last(closed).type = "message") THEN closed
                  ELSE Append(closed, Message(<<>>))
    IN Append(Front(target), [Last(target) EXCEPT !.text = @ \o d])

\* The same text, a character at a time and searched from the start.
Reference(text) ==
    LET found[i \in 0 .. Len(text)] ==
            IF i = 0 THEN <<>> ELSE tag_output_handler(Placed(found[i - 1], <<text[i]>>), NotScanned).out
    IN found[Len(text)]

Tags(d) == Cardinality({i \in 1 .. Len(d) : d[i] = ">"})
DeltaText(d) ==
    /\ way = "tags" /\ ~over /\ Len(fed) + Len(d) <= MaxText
    /\ LET placed == Placed(output, d)
           handled == tag_output_handler(placed, scanned)
       IN /\ output' = handled.out /\ scanned' = handled.scan
          /\ over' = (kind = "code_interpreter" /\ handled.end)     \* the loop breaks: the code is run
    /\ fed' = fed \o d
    /\ single' = (single /\ Tags(d) <= 1)
    /\ UNCHANGED <<way, kind, waiting, gathered, browser>>

(***************************************************************************)
(* A chat completion without tags: text, reasoning and calls.                *)
(***************************************************************************)
Numbered(out, item) == [item EXCEPT !.id = 1 + Cardinality({out[i].id : i \in DOMAIN out})]
ItemPositions(out, type) == {i \in DOMAIN out : out[i].type = type}
Extend(out, i, x) == [out EXCEPT ![i].text = Append(@, x)]

\* What waits is sent when a delta of another item comes and when enough has been gathered.
NoDelta == [id |-> 0, text |-> <<>>]
Sent(w, b) == IF w.id = 0 THEN b ELSE [b EXCEPT ![w.id] = @ \o w.text]
queue_pending_delta_data(w, n, b, id, x) ==
    IF w.id = id THEN [w |-> [w EXCEPT !.text = Append(@, x)], n |-> n + 1, b |-> b]
    ELSE [w |-> [id |-> id, text |-> <<x>>], n |-> IF w.id = 0 THEN n + 1 ELSE 1, b |-> Sent(w, b)]
Queue(id, x, w, n, b) ==
    LET q == queue_pending_delta_data(w, n, b, id, x)
    IN IF q.n >= ChunkSize THEN waiting' = NoDelta /\ gathered' = 0 /\ browser' = Sent(q.w, q.b)
       ELSE waiting' = q.w /\ gathered' = q.n /\ browser' = q.b

Delta(what) ==
    /\ way = "deltas" /\ ~over /\ Len(fed) < MaxDeltas /\ fed' = Append(fed, <<what, Len(fed)>>)
    /\ UNCHANGED <<way, kind, scanned, single, over>>
value ==
    LET out == IF output # <<>> /\ Last(output).type = "reasoning"
               THEN Append(Front(output), [Last(output) EXCEPT !.open = FALSE]) ELSE output
        target == IF out # <<>> /\ Last(out).type = "message" THEN out
                  ELSE Append(out, Numbered(out, Message(<<>>)))
    IN /\ Delta("message") /\ output' = Extend(target, Len(target), Len(fed))
       /\ Queue(Last(target).id, Len(fed), waiting, gathered, browser)
\* Reasoning that comes after the text belongs before it.
reasoning_content ==
    LET texts == ItemPositions(output, "message")
        known == ItemPositions(output, "reasoning")
        fresh == Numbered(output, Piece("reasoning", <<>>, "thinking"))
        target == IF (texts # {} /\ known # {}) \/ (output # <<>> /\ Last(output).type = "reasoning") THEN output
                  ELSE IF texts # {} THEN InsertAt(output, Least(texts), [fresh EXCEPT !.open = FALSE])
                  ELSE Append(output, fresh)
        i == Last0(ItemPositions(target, "reasoning"))
    IN /\ Delta("reasoning") /\ output' = Extend(target, i, Len(fed))
       /\ Queue(target[i].id, Len(fed), waiting, gathered, browser)
\* The first piece of a call announces the item: what waits is sent before.
tool_calls(c) ==
    LET at == {i \in ItemPositions(output, "function_call") : output[i].tag = c}
        target == IF at # {} THEN output ELSE Append(output, Numbered(output, Piece("function_call", <<>>, c)))
        i == IF at # {} THEN Least(at) ELSE Len(target)
    IN /\ Delta(c) /\ output' = Extend(target, i, Len(fed))
       /\ IF at # {} THEN Queue(target[i].id, Len(fed), waiting, gathered, browser)
          ELSE Queue(target[i].id, Len(fed), NoDelta, 0, Sent(waiting, browser))
\* At the end what waits is sent, an open thought is closed, the calls are sent whole.
stream_ends ==
    /\ way = "deltas" /\ ~over /\ over' = TRUE /\ waiting' = NoDelta /\ gathered' = 0
    /\ output' = [i \in DOMAIN output |->
                      IF output[i].type = "function_call" \/ (i = Len(output) /\ output[i].type = "reasoning")
                      THEN [output[i] EXCEPT !.open = FALSE] ELSE output[i]]
    /\ browser' = LET b == Sent(waiting, browser)
                  IN [id \in DOMAIN b |-> IF \E i \in ItemPositions(output, "function_call") : output[i].id = id
                                         THEN (CHOOSE o \in {output[i] : i \in DOMAIN output} : o.id = id).text ELSE b[id]]
    /\ UNCHANGED <<way, kind, fed, scanned, single>>

(***************************************************************************)
(* The events of the Responses API, by output index and content index.       *)
(***************************************************************************)
ProviderItem(t, id) == [id |-> id, type |-> t, content |-> <<>>, summary |-> <<>>, args |-> <<>>, status |-> "in_progress"]
Padded(parts, j) == parts \o [i \in 1 .. (IF j > Len(parts) THEN j - Len(parts) ELSE 0) |-> <<>>]
AddTo(parts, j, x) == [Padded(parts, j) EXCEPT ![j] = Append(@, x)]

output_item_added(out, item, k) ==
    LET same == {i \in DOMAIN out : out[i].id = item.id}
    IN IF same # {} THEN [out EXCEPT ![Least(same)] = item]
       ELSE IF k <= Len(out) THEN InsertAt(out, k, item) ELSE Append(out, item)
content_part_added(out, k) ==
    IF k \notin DOMAIN out \/ out[k].type = "reasoning" THEN out ELSE [out EXCEPT ![k].content = Append(@, <<>>)]
reasoning_summary_part_added(out, k) == IF k \in DOMAIN out THEN [out EXCEPT ![k].summary = Append(@, <<>>)] ELSE out
response_delta(out, k, f, j, x) ==
    IF k \notin DOMAIN out THEN out
    ELSE IF f = "args" THEN IF out[k].type = "function_call" THEN [out EXCEPT ![k].args = Append(@, x)] ELSE out
    ELSE [out EXCEPT ![k][f] = AddTo(@, j, x)]
\* A finished text replaces what was gathered, except in a thought, which is only marked.
part_done(out, k, f, j, t) ==
    IF k \notin DOMAIN out THEN out
    ELSE IF f = "args" THEN [out EXCEPT ![k].args = t]
    ELSE IF j \in DOMAIN out[k][f] THEN [out EXCEPT ![k][f][j] = t] ELSE out
output_item_done(out, k, item) == IF k \in DOMAIN out THEN [out EXCEPT ![k] = item] ELSE Append(out, item)
response_completed(items, out) == IF items # <<>> THEN [i \in DOMAIN items |-> [items[i] EXCEPT !.status = "completed"]] ELSE out

\* The provider: its items, each open until it is done, and the events it sends of them.
Field(t) == CASE t = "message" -> {"content"} [] t = "reasoning" -> {"content", "summary"} [] t = "function_call" -> {"args"}
StreamEvent == way = "responses" /\ ~over /\ UNCHANGED <<way, kind, scanned, single, browser, waiting>>
Spent == gathered < MaxDeltas /\ gathered' = gathered + 1
item_starts(t) ==
    /\ StreamEvent /\ Spent /\ Len(fed) < 2
    /\ LET item == ProviderItem(t, Len(fed) + 1)
       IN fed' = Append(fed, item) /\ output' = output_item_added(output, item, Len(fed) + 1)
    /\ UNCHANGED over
part_starts(k) ==
    /\ StreamEvent /\ Spent /\ k \in DOMAIN fed /\ fed[k].status = "in_progress" /\ UNCHANGED over
    /\ \/ fed[k].type = "message" /\ Len(fed[k].content) < 2
          /\ fed' = [fed EXCEPT ![k].content = Append(@, <<>>)] /\ output' = content_part_added(output, k)
       \/ fed[k].type = "reasoning" /\ Len(fed[k].summary) < 2
          /\ fed' = [fed EXCEPT ![k].summary = Append(@, <<>>)] /\ output' = reasoning_summary_part_added(output, k)
text_comes(k, f) ==
    /\ StreamEvent /\ Spent /\ k \in DOMAIN fed /\ fed[k].status = "in_progress" /\ f \in Field(fed[k].type) /\ UNCHANGED over
    /\ IF f = "args" THEN fed' = [fed EXCEPT ![k].args = Append(@, gathered)] /\ output' = response_delta(output, k, f, 0, gathered)
       ELSE \E j \in 1 .. (IF Len(fed[k][f]) = 0 THEN 1 ELSE Len(fed[k][f])) :
            /\ fed' = [fed EXCEPT ![k][f] = AddTo(@, j, gathered)] /\ output' = response_delta(output, k, f, j, gathered)
part_ends(k, f) ==
    /\ StreamEvent /\ k \in DOMAIN fed /\ f \in Field(fed[k].type) /\ fed[k].status = "in_progress" /\ UNCHANGED <<fed, gathered, over>>
    /\ IF f = "args" THEN output' = part_done(output, k, f, 0, fed[k].args)
       ELSE \E j \in DOMAIN fed[k][f] : output' = part_done(output, k, f, j, fed[k][f][j])
item_ends(k) ==
    /\ StreamEvent /\ k \in DOMAIN fed /\ fed[k].status = "in_progress" /\ UNCHANGED <<gathered, over>>
    /\ fed' = [fed EXCEPT ![k].status = "completed"] /\ output' = output_item_done(output, k, fed'[k])
response_ends ==
    /\ StreamEvent /\ over' = TRUE /\ UNCHANGED <<fed, gathered>> /\ output' = response_completed(fed, output)

StreamInit ==
    /\ way \in {"tags", "deltas", "responses"}
    /\ kind \in {"reasoning", "solution", "code_interpreter"} /\ (way # "tags" => kind = "reasoning")
    /\ output = <<>> /\ fed = <<>> /\ scanned = NotScanned /\ single = TRUE
    /\ waiting = NoDelta /\ gathered = 0 /\ browser = [i \in 1 .. MaxDeltas |-> <<>>] /\ over = FALSE

StreamNext ==
    \/ \E n \in 1 .. MaxPiece : \E d \in [1 .. n -> Char] : DeltaText(d)
    \/ value \/ reasoning_content \/ \E c \in {"call1", "call2"} : tool_calls(c)
    \/ stream_ends \/ response_ends
    \/ \E t \in {"message", "reasoning", "function_call"} : item_starts(t)
    \/ \E k \in 1 .. 2 : part_starts(k) \/ item_ends(k) \/ \E f \in {"content", "summary", "args"} : text_comes(k, f) \/ part_ends(k, f)

(* The values the variables may hold. *)
StreamTypeOK ==
    /\ way \in {"tags", "deltas", "responses"} /\ kind \in {"reasoning", "solution", "code_interpreter"}
    /\ single \in BOOLEAN /\ over \in BOOLEAN /\ gathered \in 0 .. MaxDeltas /\ waiting.id \in 0 .. MaxDeltas
    /\ \A k \in {"upTo", "known", "open", "edge"} : scanned[k] \in 0 .. MaxText
    /\ \A i \in DOMAIN output : output[i].type \in {"message", "reasoning", "code_interpreter", "function_call"}

(* However the provider cuts its text into deltas, the blocks that are found   *)
(* are those a search of the whole text would find (tag_output_handler with    *)
(* its cached positions), as long as no delta completes two tags and no tag is *)
(* opened inside another.                                                      *)
Shape(out) == [i \in DOMAIN out |-> <<out[i].type, out[i].text>>]
NoneInside(t) == \A i, j \in DOMAIN t : i < j /\ t[i] = "<" /\ t[j] = "<" => \E h \in i .. j : t[h] = ">"
ChunkingIrrelevant == way = "tags" /\ kind # "solution" /\ single /\ NoneInside(fed) => Shape(output) = Shape(Reference(fed))

(* Nothing of a streamed answer is lost, doubled or misplaced: the texts,      *)
(* thoughts and arguments are those that came, in their order; what the        *)
(* browser was sent and what waits for it make up every item; and the events   *)
(* of the Responses API rebuild the items of the provider at any moment        *)
(* (stream_body_handler, queue_pending_delta_data,                             *)
(* handle_responses_streaming_event).                                          *)
Came(what) == LET of == SelectSeq(fed, LAMBDA d : d[1] = what) IN [i \in DOMAIN of |-> of[i][2]]
Gathered(type, tag) ==
    FlattenSeq([i \in DOMAIN output |-> IF output[i].type = type /\ (tag = None \/ output[i].tag = tag) THEN output[i].text ELSE <<>>])
AllOrdered ==
    /\ Gathered("message", None) = Came("message") /\ Gathered("reasoning", None) = Came("reasoning")
    /\ \A c \in {"call1", "call2"} : Gathered("function_call", c) = Came(c)
BrowserFollows ==
    \A i \in DOMAIN output : output[i].text = browser[output[i].id] \o (IF waiting.id = output[i].id THEN waiting.text ELSE <<>>)
Rebuilt ==
    /\ Len(output) = Len(fed)
    /\ \A k \in DOMAIN fed : \A f \in {"id", "type", "content", "summary", "args"} : output[k][f] = fed[k][f]
NothingLost ==
    /\ way = "deltas" => AllOrdered /\ BrowserFollows
    /\ way = "responses" => Rebuilt
=============================================================================
