------------------------------- MODULE Compaction -------------------------------
(* Summaries in place of old messages (utils/context_compaction.py).  Messages  *)
(* of a chat form a tree; a turn reads one branch, and when it is too long what *)
(* is old is summarised and the summary is kept at the first message that       *)
(* stays.  How long a branch is in tokens is left to chance.                    *)
EXTENDS Naturals, FiniteSets, Sequences, Server

CONSTANTS
    MaxMessages,    \* bound: messages of the chat
    Retention,      \* chat.context_compaction.retention_percentage, within 10 and 50
    Compactor,      \* turns and requests for compaction
    MaxCompactions, MaxDeletions  \* bounds: of these, messages that are deleted

ASSUME CompactionAssumption == MaxMessages \in Nat /\ Retention \in 10 .. 50 /\ MaxCompactions \in Nat /\ MaxDeletions \in Nat

VARIABLES
    tree,       \* the messages: parent, and what their summary covers
    branch,     \* per turn: the messages it has read, oldest first
    stands,     \* per turn: where it is
    keeps,      \* per turn: the messages that go on to the model, and what the summary covers
    compactions

cmpVars == <<tree, branch, stands, keeps, compactions>>

Number == 1 .. MaxMessages
Gone == [parent |-> 0, role |-> None, covers |-> None]
There == {i \in Number : tree[i].role \notin {None, "deleted"}}
get_message_list(last) ==
    LET list[i \in 0 .. MaxMessages] == IF i \notin There THEN <<>> ELSE Append(list[tree[i].parent], i) IN list[last]
Within(s) == {s[i] : i \in DOMAIN s}
MaxIn(S) == CHOOSE x \in S : \A y \in S : y <= x

\* From the last message with a summary on, and that summary.
Checkpoints(s) == {i \in DOMAIN s : tree[s[i]].covers # None}
apply_latest_summary_checkpoint(s) ==
    IF Checkpoints(s) = {} THEN [kept |-> s, covers |-> {}]
    ELSE LET i == MaxIn(Checkpoints(s)) IN [kept |-> SubSeq(s, i, Len(s)), covers |-> tree[s[i]].covers]

\* How many of the oldest go: up to the last question, not the first, that leaves at least two
\* messages and the share to retain.
find_compaction_boundary(s) ==
    LET share == (Len(s) * Retention) \div 100
        keep == IF share < 2 THEN 2 ELSE share
        target == IF Len(s) <= keep THEN 1 ELSE Len(s) - keep
        users == {i \in 1 .. Len(s) : tree[s[i]].role = "user"}
        later == {i - 1 : i \in {j \in users : \E k \in users : k < j}}
        fit == {i \in later : i <= target}
    IN IF fit = {} THEN 0 ELSE MaxIn(fit)

(***************************************************************************)
(* The user's messages and the answers.                                      *)
(***************************************************************************)
Chatting == UNCHANGED <<branch, stands, keeps, compactions>>
post(i, parent) ==
    /\ tree[i].role = None /\ (\A j \in Number : tree[j].role = None => j >= i)
    /\ parent \in There \cup {0}
    /\ LET role == IF parent # 0 /\ tree[parent].role = "user" THEN "assistant" ELSE "user"
       IN tree' = [tree EXCEPT ![i] = [parent |-> parent, role |-> role, covers |-> None]]
    /\ Chatting
\* Its children take the place of a message that is deleted.
delete_message(i) ==
    /\ i \in There /\ Cardinality({j \in Number : tree[j].role = "deleted"}) < MaxDeletions
    /\ tree' = [j \in Number |-> IF j = i THEN [Gone EXCEPT !.role = "deleted"]
                                ELSE IF tree[j].parent = i THEN [tree[j] EXCEPT !.parent = tree[i].parent] ELSE tree[j]]
    /\ Chatting

(***************************************************************************)
(* A turn.                                                                   *)
(***************************************************************************)
Move(c, to) == stands' = [stands EXCEPT ![c] = to]
Send(c, kept, covers) == keeps' = [keeps EXCEPT ![c] = [kept |-> kept, covers |-> covers]]

\* The branch is read once, its summaries with it; what follows is decided on what was read.
load_messages_from_db(c, i) ==
    /\ stands[c] \in {"idle", "sent"} /\ (stands[c] = "idle" => c = CHOOSE x \in Compactor : stands[x] = "idle")   \* turns are alike
    /\ i \in There /\ compactions < MaxCompactions /\ compactions' = compactions + 1
    /\ branch' = [branch EXCEPT ![c] = get_message_list(i)]
    /\ UNCHANGED tree

\* compact_messages_for_request: where a summary exists it is used; is the rest too long, the oldest go.
compact_messages_for_request(c, i, exceeds) ==
    LET latest == apply_latest_summary_checkpoint(get_message_list(i))
        boundary == find_compaction_boundary(latest.kept)
    IN /\ load_messages_from_db(c, i)
       /\ IF exceeds /\ Len(latest.kept) > 3 /\ boundary # 0
          THEN /\ Send(c, SubSeq(latest.kept, boundary + 1, Len(latest.kept)),
                          latest.covers \cup Within(SubSeq(latest.kept, 1, boundary)))
               /\ Move(c, "summary")
          ELSE Send(c, latest.kept, latest.covers) /\ Move(c, "sent")
\* compact_chat_branch: all but the last message.
compact_chat_branch(c, i) ==
    LET latest == apply_latest_summary_checkpoint(get_message_list(i))
        n == Len(latest.kept)
    IN /\ n >= 2 /\ load_messages_from_db(c, i)
       /\ Send(c, SubSeq(latest.kept, n, n), latest.covers \cup Within(SubSeq(latest.kept, 1, n - 1)))
       /\ Move(c, "summary")
\* The model has written the summary: it is kept with the first message that stays.  One that was
\* deleted meanwhile comes back, without a parent.
checkpoint_message_id_Last(c) == keeps[c].kept[Len(keeps[c].kept)]
checkpoint_message_id(c) == keeps[c].kept[1]
save_summary(c) ==
    LET i == checkpoint_message_id(c)
    IN /\ stands[c] = "summary" /\ Move(c, "sent")
       /\ tree' = [tree EXCEPT ![i] = [@ EXCEPT !.covers = keeps[c].covers, !.role = IF @ = "deleted" THEN "assistant" ELSE @]]
       /\ UNCHANGED <<branch, keeps, compactions>>
\* Without a summary the turn goes on with every message.
summary_fails(c) ==
    /\ stands[c] = "summary" /\ Move(c, "sent") /\ Send(c, branch[c], {})
    /\ UNCHANGED <<tree, branch, compactions>>

CmpInit ==
    /\ tree = [i \in Number |-> Gone]
    /\ branch = [c \in Compactor |-> <<>>] /\ stands = [c \in Compactor |-> "idle"]
    /\ keeps = [c \in Compactor |-> [kept |-> <<>>, covers |-> {}]]
    /\ compactions = 0

CmpNext ==
    \/ \E i \in Number, parent \in Number \cup {0} : post(i, parent)
    \/ \E i \in Number : delete_message(i)
    \/ \E c \in Compactor :
          \/ \E i \in Number, exceeds \in BOOLEAN : compact_messages_for_request(c, i, exceeds)
          \/ \E i \in Number : compact_chat_branch(c, i)
          \/ save_summary(c) \/ summary_fails(c)

(***************************************************************************)
(* Properties.                                                               *)
(***************************************************************************)
CmpTypeOK ==
    /\ tree \in [Number -> [parent : Number \cup {0}, role : {None, "deleted", "user", "assistant"}, covers : {None} \cup SUBSET Number]]
    /\ \A c \in Compactor : stands[c] \in {"idle", "summary", "sent"}

\* What a message's summary stands for is at least all that comes before it, so a branch may start
\* there (apply_latest_summary_checkpoint drops the rest).
SummaryCovers ==
    \A i \in There : tree[i].covers # None => Within(get_message_list(i)) \ {i} \subseteq tree[i].covers
\* Whatever was summarised, failed or deleted meanwhile, the model is told of every message of the
\* branch once: in its own words or in the summary, and of no other branch's.
NothingForgotten ==
    \A c \in Compactor : stands[c] = "sent" =>
        /\ Within(branch[c]) \subseteq Within(keeps[c].kept) \cup keeps[c].covers
        /\ Within(keeps[c].kept) \subseteq Within(branch[c])
ContextKept == SummaryCovers /\ NothingForgotten
=============================================================================
