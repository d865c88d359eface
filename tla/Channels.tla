------------------------------ MODULE Channels ------------------------------
(* Channels: their members, messages, reactions and webhooks, and the rooms  *)
(* of the sockets that follow them.  A handler reads, then writes in commits *)
(* of their own, then emits to the room; an answer of a model is posted      *)
(* first and filled in afterwards.                                           *)
EXTENDS Naturals, Sequences, FiniteSets, SequencesExt, Server

CONSTANTS
    Channel, Post, Hook,     \* ids of channels, messages and webhooks
    Guest, ChannelAdmins,    \* users, each with one socket
    ChannelClient,           \* requests, and what goes on after their response
    MaxChannelCalls, MaxChannelFails   \* bounds: requests, commits that raise

ASSUME ChannelAssumption ==
    ChannelAdmins \subseteq Guest /\ MaxChannelCalls \in Nat /\ MaxChannelFails \in Nat

VARIABLES ch,        \* the tables
          rooms,     \* per user: the channels whose room the socket is in
          work,      \* per client: the commits to make, what they are about
          channelCalls, channelFails,
          orderly,   \* no two requests about one thing crossed
          hidden     \* <<channel, user>>: put away since the last message

channelVars == <<ch, rooms, work, channelCalls, channelFails, orderly, hidden>>

NoChannel == [in |-> FALSE, type |-> None, owner |-> None, grants |-> {}]
NoPost == [in |-> FALSE, chan |-> None, by |-> None, parent |-> None, text |-> None, done |-> TRUE, pinned |-> FALSE]
NoWork == [prog |-> <<>>, about |-> {}]
\* Membership rows have an id of their own: one user may have two.
Rows(d, c) == {s \in d.seats : s.chan = c}
Users(d, c) == {s.user : s \in Rows(d, c)}
Seated(d, c, u) == \E s \in Rows(d, c) : s.user = u
Seat(d, c, u) == [chan |-> c, user |-> u, active |-> TRUE,
                  copy |-> Cardinality({s \in Rows(d, c) : s.user = u})]
Unused(d) == {m \in Post : ~d.post[m].in /\ \A k \in ChannelClient : m \notin work[k].about}

ChannelInit ==
    \E c \in {CHOOSE x \in Channel : TRUE}, t \in {"group", "dm", "standard"}, o \in Guest, g \in {{}, {"read"}, {"read", "write"}}, by \in Guest \cup {None} :
        /\ t = "standard" => o \in ChannelAdmins
        /\ t # "standard" => g = {}
        /\ ch = [chan |-> [x \in Channel |-> IF x = c THEN [in |-> TRUE, type |-> t, owner |-> o, grants |-> Guest \X g] ELSE NoChannel],
                 seats |-> IF t = "standard" THEN {}
                           ELSE {[chan |-> c, user |-> u, active |-> TRUE, copy |-> 0] : u \in IF t = "dm" THEN Guest ELSE {o}},
                 post |-> [m \in Post |-> IF by # None /\ m = CHOOSE x \in Post : TRUE
                                           THEN [NoPost EXCEPT !.in = TRUE, !.chan = c, !.by = by, !.text = "said"] ELSE NoPost],
                 reaction |-> [m \in Post |-> [u \in Guest |-> 0]],
                 hook |-> [h \in Hook |-> None]]
        /\ rooms = [u \in Guest |-> {}]
        /\ work = [k \in ChannelClient |-> NoWork]
        /\ channelCalls = 0 /\ channelFails = 0 /\ orderly = TRUE /\ hidden = {}

-----------------------------------------------------------------------------
(* Who may do what.                                                         *)
Closed(d, c) == d.chan[c].type \in {"group", "dm"}
is_user_channel_member(d, c, u) == \E s \in Rows(d, c) : s.user = u /\ s.active
channel_has_access(d, c, u, perm) == <<u, perm>> \in d.chan[c].grants
MaySee(d, c, u, perm) ==
    /\ d.chan[c].in
    /\ IF Closed(d, c) THEN is_user_channel_member(d, c, u) ELSE u \in ChannelAdmins \/ channel_has_access(d, c, u, perm)
Manages(d, c, u) == d.chan[c].in /\ (d.chan[c].owner = u \/ u \in ChannelAdmins)
\* get_channels_by_user_id: what a socket follows.
Follows(d, u) ==
    {c \in Channel : /\ d.chan[c].in
                     /\ IF Closed(d, c) THEN is_user_channel_member(d, c, u)
                        ELSE d.chan[c].owner = u \/ channel_has_access(d, c, u, "read")}
\* get_dm_channel_by_user_ids counts rows, not users.
get_dm_channel_by_user_ids(d, S) ==
    {c \in Channel : /\ d.chan[c].in /\ d.chan[c].type = "dm" /\ Cardinality(Rows(d, c)) = Cardinality(S)
                     /\ Users(d, c) = S}

-----------------------------------------------------------------------------
(* Commits: s.x is the channel or message, s.u the user.                    *)
ChanOp(name, x, u, v) == [do |-> name, x |-> x, u |-> u, v |-> v]
insert_new_channel(d, c, r, S) ==
    [d EXCEPT !.chan[c] = r, !.seats = @ \cup {Seat(d, c, u) : u \in S}]
join_channel(d, c, u) == [d EXCEPT !.seats = @ \cup {Seat(d, c, u)}]
add_members_to_channel(d, c, S) == [d EXCEPT !.seats = @ \cup {Seat(d, c, u) : u \in S}]
remove_members_from_channel(d, c, S) == [d EXCEPT !.seats = {s \in @ : ~(s.chan = c /\ s.user \in S)}]
\* The first row of the user.
update_member_active_status(d, c, u, on) ==
    LET mine == {s \in Rows(d, c) : s.user = u} IN
    IF mine = {} THEN d
    ELSE LET s == CHOOSE x \in mine : \A y \in mine : x.copy <= y.copy IN
         [d EXCEPT !.seats = (@ \ {s}) \cup {[s EXCEPT !.active = on]}]
insert_new_message(d, m, c, u, v) ==
    [d EXCEPT !.post[m] = [in |-> TRUE, chan |-> c, by |-> u, parent |-> v.parent, text |-> v.text, done |-> v.done, pinned |-> FALSE]]
\* A message that is gone has no content to set: the handler raises.
update_message_by_id(d, m, v) ==
    IF ~d.post[m].in THEN d ELSE [d EXCEPT !.post[m].text = v.text, !.post[m].done = @ \/ v.done]
update_is_pinned_by_id(d, m, on) == IF ~d.post[m].in THEN d ELSE [d EXCEPT !.post[m].pinned = on]
delete_message_by_id(d, m) == [d EXCEPT !.post[m] = NoPost, !.reaction[m] = [u \in Guest |-> 0]]
\* Members, messages and webhooks of the channel stay behind.
delete_channel_by_id(d, c) == [d EXCEPT !.chan[c] = NoChannel]

ChanCommit(d, s) ==
    CASE s.do = "insert" -> insert_new_channel(d, s.x, s.v.row, s.v.users)
      [] s.do = "join" -> join_channel(d, s.x, s.u)
      [] s.do = "add" -> add_members_to_channel(d, s.x, s.v)
      [] s.do = "remove" -> remove_members_from_channel(d, s.x, s.v)
      [] s.do = "active" -> update_member_active_status(d, s.x, s.u, s.v)
      [] s.do = "grants" -> [d EXCEPT !.chan[s.x].grants = IF d.chan[s.x].in THEN s.v ELSE {}]
      [] s.do = "delete" -> delete_channel_by_id(d, s.x)
      [] s.do = "post" -> insert_new_message(d, s.v.id, s.x, s.u, s.v)
      [] s.do = "edit" -> update_message_by_id(d, s.x, s.v)
      [] s.do = "pin" -> update_is_pinned_by_id(d, s.x, s.v)
      [] s.do = "unpost" -> delete_message_by_id(d, s.x)
      [] s.do = "react" -> [d EXCEPT !.reaction[s.x][s.u] = @ + 1]
      [] s.do = "unreact" -> [d EXCEPT !.reaction[s.x][s.u] = 0]
      [] s.do = "hook" -> [d EXCEPT !.hook[s.v] = s.x]
      [] OTHER -> d

Reads_AuthorOnly(d, s, rest) ==
    IF s.do = "asleep?" THEN <<ChanOp("active", s.x, s.u, TRUE)>> \o rest
    ELSE IF s.do = "seat?" /\ ~Seated(d, s.x, s.u) THEN <<ChanOp("join", s.x, s.u, None)>> \o rest ELSE rest
\* What a step that reads decides the rest of the request to be.
Reads(d, s, rest) ==
    CASE s.do = "seat?" -> IF Seated(d, s.x, s.u) THEN rest ELSE <<ChanOp("join", s.x, s.u, None)>> \o rest
      [] s.do = "reacted?" -> IF d.reaction[s.x][s.u] > 0 THEN <<>> ELSE rest
      [] s.do = "new?" -> LET more == s.v \ Users(d, s.x) IN
                          IF more = {} THEN <<>> ELSE <<ChanOp("add", s.x, s.u, more)>>
      \* Everybody who had put the conversation away gets it back.
      [] s.do = "asleep?" ->
            LET away == SetToSeq({r.user : r \in {x \in Rows(d, s.x) : ~x.active}}) IN
            [i \in 1..Len(away) |-> ChanOp("active", s.x, away[i], TRUE)] \o rest
      \* The emitter of an answer stops at nothing but a message that is gone.
      [] s.do = "there?" -> IF d.post[s.x].in THEN rest ELSE IF Len(rest) > 1 THEN Tail(rest) ELSE <<>>
      \* The participants, whose sockets then enter the room.
      [] s.do = "room" -> rest
      [] OTHER -> rest
-----------------------------------------------------------------------------
(* Requests.                                                                *)
ChanFree(k) == channelCalls < MaxChannelCalls /\ work[k].prog = <<>> /\ k = CHOOSE x \in ChannelClient : work[x].prog = <<>>
ChanAsk(k, about, prog) ==
    /\ channelCalls' = channelCalls + 1
    /\ work' = [work EXCEPT ![k] = [prog |-> prog, about |-> about]]
    /\ orderly' = (orderly /\ \A o \in ChannelClient : work[o].about \cap about = {})
    /\ UNCHANGED <<ch, rooms, channelFails, hidden>>

\* A conversation of two is made once; it is shown again to whoever asks for it.
Opened(k, c, u, S) ==
    LET old == get_dm_channel_by_user_ids(ch, S) IN
    IF old # {} THEN LET e == CHOOSE x \in old : TRUE IN
         ChanAsk(k, {e, S}, <<ChanOp("room", e, u, None), ChanOp("active", e, u, TRUE)>>)
    ELSE /\ ~ch.chan[c].in /\ Rows(ch, c) = {}
         /\ ChanAsk(k, {c, S}, <<ChanOp("insert", c, u, [row |-> [in |-> TRUE, type |-> "dm", owner |-> u, grants |-> {}], users |-> S]),
                                 ChanOp("grants", c, u, {}), ChanOp("room", c, u, None)>>)
get_dm_channel_by_user_id(k, u) == \E c \in Channel, w \in Guest : Opened(k, c, u, {u, w})
create_new_channel(k, u) ==
    \E c \in Channel, t \in {"group", "standard"}, g \in {{}, {"read", "write"}} :
        /\ ~ch.chan[c].in /\ Rows(ch, c) = {} /\ (t = "standard" => u \in ChannelAdmins)
        /\ ChanAsk(k, {c}, <<ChanOp("insert", c, u, [row |-> [in |-> TRUE, type |-> t, owner |-> u, grants |-> {}],
                                                     users |-> IF t = "group" THEN {u} ELSE {}]),
                             ChanOp("grants", c, u, Guest \X g), ChanOp("room", c, u, None)>>)
update_channel_by_id(k, u) ==
    \E c \in Channel, g \in {{}, {"read", "write"}} : Manages(ch, c, u) /\ ChanAsk(k, {c}, <<ChanOp("grants", c, u, Guest \X g)>>)
delete_channel(k, u) ==
    \E c \in Channel : Manages(ch, c, u) /\ ChanAsk(k, {c}, <<ChanOp("grants", c, u, {}), ChanOp("delete", c, u, None)>>)
add_members_by_id(k, u) ==
    \E c \in Channel, w \in Guest : Manages(ch, c, u) /\ ChanAsk(k, {c, Users(ch, c) \cup {u, w}}, <<ChanOp("new?", c, u, {u, w})>>)
remove_members_by_id(k, u) ==
    \E c \in Channel, w \in Guest : Manages(ch, c, u) /\ ChanAsk(k, {c, Users(ch, c) \ {w}}, <<ChanOp("remove", c, u, {w})>>)
update_is_active_member(k, u) ==
    \E c \in Channel, on \in BOOLEAN :
        ch.chan[c].in /\ is_user_channel_member(ch, c, u) /\ ChanAsk(k, {c}, <<ChanOp("active", c, u, on)>>)
\* Reading the page of an open channel makes a member of the reader.
get_channel_messages(k, u) ==
    \E c \in Channel : MaySee(ch, c, u, "read") /\ ~Closed(ch, c) /\ ChanAsk(k, {c}, <<ChanOp("seat?", c, u, None)>>)

\* new_message_handler: membership, message, conversations that come back, event.
new_message_handler(c, u, m, parent, text, done) ==
    <<ChanOp("seat?", c, u, None), ChanOp("post", c, u, [id |-> m, parent |-> parent, text |-> text, done |-> done])>>
    \o (IF Closed(ch, c) THEN <<ChanOp("asleep?", c, u, None)>> ELSE <<>>)
\* What the completion emits goes into the message, each time it is still there.
channel_emitter(u, r) ==
    <<ChanOp("there?", r, u, None), ChanOp("edit", r, u, [text |-> "part", done |-> FALSE]),
      ChanOp("there?", r, u, None), ChanOp("edit", r, u, [text |-> "whole", done |-> TRUE])>>
\* An answer: posted empty, then what the completion emits, one after the other.
model_response_handler(c, u, m, r) ==
    new_message_handler(c, u, r, m, None, FALSE)
    \o channel_emitter(u, r)
post_new_message(k, u) ==
    \E c \in Channel, m \in Unused(ch), parent \in {None} \cup {p \in Post : ch.post[p].in} :
        /\ MaySee(ch, c, u, "write") /\ m = CHOOSE x \in Unused(ch) : TRUE
        /\ parent # None => ch.post[parent].chan = c
        /\ \/ ChanAsk(k, {c, m}, new_message_handler(c, u, m, parent, "said", TRUE))
           \/ \E r \in Unused(ch) \ {m} :
                 /\ parent = None /\ r = CHOOSE x \in Unused(ch) \ {m} : TRUE
                 /\ ChanAsk(k, {c, m, r}, new_message_handler(c, u, m, parent, "said", TRUE) \o model_response_handler(c, u, m, r))
OnPost(u, m) == ch.post[m].in /\ MaySee(ch, ch.post[m].chan, u, "write")
MyPost(u, m) == OnPost(u, m) /\ (u \in ChannelAdmins \/ ch.post[m].by = u)
update_message(k, u) ==
    \E m \in Post : MyPost(u, m) /\ ChanAsk(k, {m}, <<ChanOp("edit", m, u, [text |-> "edited", done |-> FALSE])>>)
delete_message(k, u) == \E m \in Post : MyPost(u, m) /\ ChanAsk(k, {m}, <<ChanOp("unpost", m, u, None)>>)
pin_channel_message(k, u) == \E m \in Post : OnPost(u, m) /\ ChanAsk(k, {m}, <<ChanOp("pin", m, u, ~ch.post[m].pinned)>>)
add_reaction_to_message(k, u) == \E m \in Post : OnPost(u, m) /\ ChanAsk(k, {m}, <<ChanOp("reacted?", m, u, None), ChanOp("react", m, u, None)>>)
remove_reaction(k, u) == \E m \in Post : OnPost(u, m) /\ ChanAsk(k, {m}, <<ChanOp("unreact", m, u, None)>>)
create_channel_webhook(k, u) ==
    \E c \in Channel, h \in Hook : Manages(ch, c, u) /\ ch.hook[h] = None /\ ChanAsk(k, {c, h}, <<ChanOp("hook", c, u, h)>>)
delete_channel_webhook(k, u) ==
    \E h \in Hook : ch.hook[h] # None /\ Manages(ch, ch.hook[h], u) /\ ChanAsk(k, {ch.hook[h], h}, <<ChanOp("hook", None, u, h)>>)
\* A webhook posts for the owner of the channel who made it; nobody is shown a conversation again.
post_webhook_message(k) ==
    \E h \in Hook, m \in Unused(ch) :
        LET c == ch.hook[h] IN
        /\ c # None /\ ch.chan[c].in /\ m = CHOOSE x \in Unused(ch) : TRUE
        /\ LET u == ch.chan[c].owner IN
           ChanAsk(k, {c, m}, <<ChanOp("seat?", c, u, None), ChanOp("post", c, u, [id |-> m, parent |-> None, text |-> "hook", done |-> TRUE])>>)
\* A socket joins, again or for the first time: the channels are read, then entered.
user_join(k, u) ==
    LET all == SetToSeq(Follows(ch, u)) IN
    all # <<>> /\ ChanAsk(k, Follows(ch, u), [i \in 1..Len(all) |-> ChanOp("enter", all[i], u, None)])

ChanRequest(k, u) ==
    \/ get_dm_channel_by_user_id(k, u) \/ create_new_channel(k, u) \/ update_channel_by_id(k, u) \/ delete_channel(k, u)
    \/ add_members_by_id(k, u) \/ remove_members_by_id(k, u) \/ update_is_active_member(k, u) \/ get_channel_messages(k, u)
    \/ post_new_message(k, u) \/ update_message(k, u) \/ delete_message(k, u) \/ pin_channel_message(k, u)
    \/ add_reaction_to_message(k, u) \/ remove_reaction(k, u) \/ user_join(k, u)
    \/ create_channel_webhook(k, u) \/ delete_channel_webhook(k, u)

ChanStep(k) ==
    LET s == Head(work[k].prog)
        rest == Reads(ch, s, Tail(work[k].prog)) IN
    /\ work[k].prog # <<>>
    /\ ch' = ChanCommit(ch, s)
    /\ work' = [work EXCEPT ![k] = IF rest = <<>> \/ (s.do = "edit" /\ ~ch.post[s.x].in) THEN NoWork ELSE [@ EXCEPT !.prog = rest]]
    /\ rooms' = [u \in Guest |-> rooms[u] \cup IF \/ s.do = "enter" /\ u = s.u
                                                  \/ s.do = "room" /\ Seated(ch, s.x, u) THEN {s.x} ELSE {}]
    /\ hidden' = CASE s.do = "active" /\ ~s.v -> hidden \cup {<<s.x, s.u>>}
                   [] s.do = "post" /\ s.v.text # "hook" -> {p \in hidden : p[1] # s.x}
                   [] OTHER -> hidden
    /\ UNCHANGED <<channelCalls, channelFails, orderly>>
ChanFails(k) ==
    /\ work[k].prog # <<>> /\ channelFails < MaxChannelFails
    /\ channelFails' = channelFails + 1
    /\ work' = [work EXCEPT ![k] = NoWork]
    /\ UNCHANGED <<ch, rooms, channelCalls, orderly, hidden>>
disconnect(u) == rooms[u] # {} /\ rooms' = [rooms EXCEPT ![u] = {}] /\ UNCHANGED <<ch, work, channelCalls, channelFails, orderly, hidden>>

ChannelNext ==
    \/ \E k \in ChannelClient :
         \/ ChanStep(k) \/ ChanFails(k)
         \/ ChanFree(k) /\ (post_webhook_message(k) \/ \E u \in Guest : ChanRequest(k, u))
    \/ \E u \in Guest : disconnect(u)

-----------------------------------------------------------------------------
ChannelTypeOK ==
    /\ \A s \in ch.seats : s.chan \in Channel /\ s.user \in Guest /\ s.active \in BOOLEAN
    /\ \A u \in Guest : rooms[u] \subseteq Channel
    /\ channelCalls \in 0..MaxChannelCalls /\ channelFails \in 0..MaxChannelFails

\* As long as no two requests about one thing cross: a user has one membership
\* of a channel and one reaction of a kind to a message that is there; two
\* users are never given a second conversation; a socket enters a room only
\* for a channel its user is shown; a conversation that somebody put away is
\* back with the next message, whoever wrote it; and an answer that is marked
\* as done is whole.
ChannelStep ==
    orderly' =>
        /\ \A s, t \in ch'.seats : s.chan = t.chan /\ s.user = t.user => s = t
        /\ \A m \in Post, u \in Guest : ch'.reaction[m][u] \in 0..(IF ch'.post[m].in THEN 1 ELSE 0)
        /\ \A c \in Channel : ch'.chan[c].in /\ ~ch.chan[c].in /\ ch'.chan[c].type = "dm" =>
              get_dm_channel_by_user_ids(ch', Users(ch', c)) = {c}
        /\ \A u \in Guest : \A c \in rooms'[u] \ rooms[u] : c \in Follows(ch, u) \/ Seated(ch, c, u)
        /\ \A s \in ch'.seats : s.active \/ <<s.chan, s.user>> \in hidden' \/ channelFails' > 0
              \/ \E k \in ChannelClient : s.chan \in work'[k].about
        /\ \A m \in Post : ch'.post[m].done => ch'.post[m].text # "part"
=============================================================================
