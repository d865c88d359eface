------------------------------ MODULE ToolLoop ------------------------------
(***************************************************************************)
(* The tool calls of one assistant message: the loop of a response over    *)
(* the calls the model makes, the pause for the user's decision ("ask"     *)
(* mode and ask_user), the request that stores a decision and resumes the  *)
(* response, and the drain that runs what was approved.                    *)
(*                                                                         *)
(* The output of the message is stored whole.  Every actor reads it, works *)
(* on its copy and writes the copy back, without a lock across the two.    *)
(*                                                                         *)
(* An item of the output is a call the model made; calls are numbered in   *)
(* the order they were made.  "res" stands for its function_call_output.   *)
(***************************************************************************)
EXTENDS Naturals, FiniteSets, FiniteSetsExt

CONSTANTS Worker,        \* requests and response tasks that may overlap
          MaxCalls,      \* calls the model makes, over all its answers
          MaxIterations, \* CHAT_RESPONSE_MAX_TOOL_CALL_ITERATIONS
          MaxResolves,   \* decisions the user sends
          MaxStops       \* times a response is stopped or the provider fails

ASSUME ToolLoopAssumption ==
    /\ MaxCalls \in Nat /\ MaxIterations \in Nat
    /\ MaxResolves \in Nat /\ MaxStops \in Nat

VARIABLES mode,     \* params.tool_approval_mode
          stored,   \* the message: its output, whether it is done, its error
          work,     \* per worker: where it is and the output it holds
          ran,      \* per call: how often the tool was run
          decided,  \* per call: the decisions of the user that were accepted
          alone,    \* no two workers were ever at work at the same time
          stops,
          resolves

toolVars == <<mode, stored, work, ran, decided, alone, stops, resolves>>

Calls == 1..MaxCalls
Waiting == {"pending", "queued"}
Uncalled == [st |-> "none", ask |-> FALSE, approved |-> FALSE, res |-> FALSE]
Item == [st : {"none", "in_progress", "completed", "failed", "rejected"} \cup Waiting,
         ask : BOOLEAN, approved : BOOLEAN, res : BOOLEAN]
Idle == [step |-> "idle", out |-> [i \in Calls |-> Uncalled], todo |-> {}, rounds |-> 0]
Busy(w) == work[w].step # "idle"

CallsMade(out) == {i \in Calls : out[i].st # "none"}
\* Calls that pause_for_tool_approval and the drain still count as open.
Open(out) == {i \in CallsMade(out) : ~out[i].res /\ out[i].st # "rejected"}
Unapproved(out) == {i \in CallsMade(out) : /\ ~out[i].ask /\ out[i].st = "queued"
                                      /\ ~out[i].approved /\ ~out[i].res}
Paused(out) == \E i \in CallsMade(out) : out[i].st \in Waiting /\ ~out[i].res

\* pause_for_tool_approval: the first open call is offered to the user, those
\* behind it that are still in progress wait in the queue.
Pause(out) ==
    [i \in Calls |->
        IF i \in Open(out)
        THEN [out[i] EXCEPT !.st = IF i = Min(Open(out)) THEN "pending"
                                   ELSE IF @ = "in_progress" THEN "queued" ELSE @]
        ELSE out[i]]

SaveOutput(out, done) == stored' = [stored EXCEPT !.out = out, !.done = done]
MoveTo(w, step) == work' = [work EXCEPT ![w].step = step]
Leave(w) == work' = [work EXCEPT ![w] = Idle]
\* A worker that starts while another is at work: the ghost "alone" ends.
Enter(w, rec) ==
    /\ ~Busy(w) /\ w = CHOOSE v \in Worker : ~Busy(v)   \* slots are alike
    /\ work' = [work EXCEPT ![w] = rec]
    /\ alone' = (alone /\ \A v \in Worker : ~Busy(v))

ToolInit ==
    /\ mode \in {"ask", "full"}
    /\ stored = [out |-> [i \in Calls |-> Uncalled], done |-> FALSE, error |-> FALSE, asked |-> FALSE]
    /\ work = [w \in Worker |-> Idle]
    /\ ran = [i \in Calls |-> 0]
    /\ decided = [i \in Calls |-> {}]
    /\ alone = TRUE
    /\ stops = 0 /\ resolves = 0

-----------------------------------------------------------------------------
(* The request of a new turn: process_chat goes to the model at once, its   *)
(* message is fresh and has nothing to drain.                               *)
chat_completion(w) ==
    /\ ~stored.asked
    /\ Enter(w, [Idle EXCEPT !.step = "call"])
    /\ stored' = [stored EXCEPT !.asked = TRUE]
    /\ UNCHANGED <<mode, ran, decided, stops, resolves>>

\* resolve_tool_call_output up to its write: the decision is checked against
\* the output that was read, and made in the copy.
Decide(i, action, out) ==
    CASE action = "approve" -> [out EXCEPT ![i].st = "queued", ![i].approved = TRUE]
      [] action = "reject"  -> [out EXCEPT ![i].st = "rejected", ![i].res = TRUE]
      [] action = "answer"  -> [out EXCEPT ![i].st = "completed", ![i].res = TRUE]

resolve_tool_call_output(w, i, action) ==
    LET item == stored.out[i] IN
    /\ resolves < MaxResolves
    /\ item.st \in Waiting /\ ~item.res
    /\ action = "approve" => ~item.ask
    /\ action = "answer" => item.ask
    /\ Enter(w, [Idle EXCEPT !.step = "resolve", !.out = Decide(i, action, stored.out)])
    /\ decided' = [decided EXCEPT ![i] = @ \cup {action}]
    /\ resolves' = resolves + 1
    /\ UNCHANGED <<mode, stored, ran, stops>>

\* Its write; resolve_chat_message_tool_call then resumes the response whatever
\* was decided.
resolve_write(w) ==
    /\ work[w].step = "resolve"
    /\ SaveOutput(work[w].out, FALSE)
    /\ work' = [work EXCEPT ![w] = [Idle EXCEPT !.step = "drain"]]
    /\ UNCHANGED <<mode, ran, decided, alone, stops, resolves>>

-----------------------------------------------------------------------------
(* drain_approved_tool_calls                                                *)
ApprovedCalls(out) == {i \in CallsMade(out) : out[i].st = "queued" /\ out[i].approved /\ ~out[i].res}

\* It reads the output once.  With nothing approved it pauses for the next
\* queued call, or goes on to the model.
drain_approved_tool_calls(w) ==
    LET out == stored.out
        waits == mode = "ask" /\ Unapproved(out) # {} IN
    /\ work[w].step = "drain"
    /\ IF ApprovedCalls(out) # {}
       THEN /\ work' = [work EXCEPT ![w] = [Idle EXCEPT !.step = "execute", !.out = out,
                                                        !.todo = ApprovedCalls(out)]]
            /\ UNCHANGED stored
       ELSE IF waits
       THEN SaveOutput(Pause(out), FALSE) /\ Leave(w)
       ELSE MoveTo(w, "call") /\ UNCHANGED stored
    /\ UNCHANGED <<mode, ran, decided, alone, stops, resolves>>

\* execute_tool_call_for_output, for the calls in turn: the tool runs and its
\* result, or the error it raised, goes into the copy.
execute_tool_call_for_output(w, status) ==
    LET i == Min(work[w].todo) IN
    /\ work[w].step = "execute" /\ work[w].todo # {}
    /\ ran' = [ran EXCEPT ![i] = @ + 1]
    /\ work' = [work EXCEPT ![w].out[i].st = status, ![w].out[i].res = TRUE,
                            ![w].todo = @ \ {i}]
    /\ UNCHANGED <<mode, stored, decided, alone, stops, resolves>>
drain_write_Dropped(w) ==
    /\ work[w].step = "execute" /\ work[w].todo = {}
    /\ Leave(w)
    /\ UNCHANGED <<mode, stored, ran, decided, alone, stops, resolves>>
\* The copy goes back, paused again when calls are left, else on to the model.
drain_write(w) ==
    LET held == work[w].out
        out == IF mode = "ask" /\ Unapproved(held) # {} THEN Pause(held) ELSE held IN
    /\ work[w].step = "execute" /\ work[w].todo = {}
    /\ SaveOutput(out, FALSE)
    /\ IF Paused(out) THEN Leave(w) ELSE work' = [work EXCEPT ![w] = [Idle EXCEPT !.step = "call"]]
    /\ UNCHANGED <<mode, ran, decided, alone, stops, resolves>>

-----------------------------------------------------------------------------
(* streaming_chat_response_handler                                          *)

\* The provider answers: the handler reads the stored output it continues.
response_handler(w) ==
    /\ work[w].step = "call"
    /\ work' = [work EXCEPT ![w].step = "stream", ![w].out = stored.out]
    /\ UNCHANGED <<mode, stored, ran, decided, alone, stops, resolves>>

\* stream_body_handler: the answer ends with new calls or none.  Calls that
\* were streamed are "completed" by now; calls that _split_tool_calls cut out
\* of one with several argument objects are appended "in_progress".
stream_body_handler(w, n, split, ask) ==
    LET first == Cardinality(CallsMade(work[w].out)) + 1
        fresh == first..(first + n - 1)
        alike == [i \in Calls |->
                    IF i \notin fresh THEN work[w].out[i]
                    ELSE [Uncalled EXCEPT !.st = IF split /\ i # first THEN "in_progress" ELSE "completed",
                                        !.ask = ask /\ i = first]] IN
    /\ work[w].step = "stream"
    /\ fresh \subseteq Calls
    /\ ask => n > 0
    /\ work' = [work EXCEPT ![w].out = alike, ![w].todo = fresh,
                            ![w].step = IF n = 0 THEN "finish" ELSE "tools"]
    /\ UNCHANGED <<mode, stored, ran, decided, alone, stops, resolves>>

\* The iteration limit: the calls of the last answer are left as they are.
tool_call_limit(w) ==
    /\ work[w].step = "tools" /\ work[w].rounds = MaxIterations
    /\ stored' = [stored EXCEPT !.error = TRUE]
    /\ work' = [work EXCEPT ![w].step = "finish", ![w].todo = {}]
    /\ UNCHANGED <<mode, ran, decided, alone, stops, resolves>>

\* stage_ask_user_tool_calls: an ask_user beside other calls, or with bad
\* arguments, is answered with an error; alone it pauses for the user.
stage_ask_user_tool_calls(w, bad) ==
    LET asks == {i \in work[w].todo : work[w].out[i].ask}
        error == bad \/ work[w].todo # asks
        staged == [i \in Calls |->
                     IF i \notin asks THEN work[w].out[i]
                     ELSE [work[w].out[i] EXCEPT !.st = IF error THEN "completed" ELSE "pending",
                                                 !.res = error]] IN
    /\ work[w].step = "tools" /\ work[w].rounds < MaxIterations
    /\ IF asks # {} /\ ~error
       THEN SaveOutput(Pause(staged), FALSE) /\ Leave(w)
       ELSE /\ bad => asks # {}
            /\ work' = [work EXCEPT ![w].out = staged, ![w].todo = @ \ asks, ![w].step = "begin",
                                    ![w].rounds = @ + 1]
            /\ UNCHANGED stored
    /\ UNCHANGED <<mode, ran, decided, alone, stops, resolves>>
\* In "ask" mode the response ends here, with its first open call offered.
pause_for_tool_approval(w) ==
    /\ work[w].step = "begin" /\ work[w].todo # {} /\ mode = "ask"
    /\ SaveOutput(Pause(work[w].out), FALSE)
    /\ Leave(w)
    /\ UNCHANGED <<mode, ran, decided, alone, stops, resolves>>

\* Otherwise the calls run in turn and the model is asked again.
execute_tool_call(w, status) ==
    LET i == Min(work[w].todo) IN
    /\ work[w].step = "begin" /\ work[w].todo # {} /\ mode = "full"
    /\ ran' = [ran EXCEPT ![i] = @ + 1]
    /\ work' = [work EXCEPT ![w].out[i].st = status, ![w].out[i].res = TRUE, ![w].todo = @ \ {i}]
    /\ UNCHANGED <<mode, stored, decided, alone, stops, resolves>>

generate_chat_completion(w) ==
    /\ work[w].step = "begin" /\ work[w].todo = {}
    /\ MoveTo(w, "stream")
    /\ UNCHANGED <<mode, stored, ran, decided, alone, stops, resolves>>

\* The provider refuses the continuation: the error is stored and the loop
\* ends as if the model had finished.
emit_message_error(w) ==
    /\ stops < MaxStops /\ stops' = stops + 1
    /\ work[w].step = "begin" /\ work[w].todo = {}
    /\ stored' = [stored EXCEPT !.error = TRUE]
    /\ MoveTo(w, "finish")
    /\ UNCHANGED <<mode, ran, decided, alone, resolves>>

\* The end of the response: what is in progress counts as completed.
finish(w) ==
    /\ work[w].step = "finish"
    /\ SaveOutput([i \in Calls |-> [work[w].out[i] EXCEPT !.st = IF @ = "in_progress" THEN "completed" ELSE @]], TRUE)
    /\ Leave(w)
    /\ UNCHANGED <<mode, ran, decided, alone, stops, resolves>>

\* The task is cancelled.  Inside the handler the output so far is saved and
\* the message is done; before that (drain, first call) nothing is saved.
save_cancelled_state(w) ==
    /\ stops < MaxStops /\ stops' = stops + 1
    /\ work[w].step \in {"stream", "tools", "begin", "finish"}
    /\ SaveOutput(work[w].out, TRUE)
    /\ Leave(w)
    /\ UNCHANGED <<mode, ran, decided, alone, resolves>>

\* process_chat fails or is cancelled before the handler: an error is stored,
\* a cancellation only announced.
process_chat_ends(w, error) ==
    /\ stops < MaxStops /\ stops' = stops + 1
    /\ work[w].step \in {"drain", "execute", "call"}
    /\ stored' = [stored EXCEPT !.error = @ \/ error]
    /\ Leave(w)
    /\ UNCHANGED <<mode, ran, decided, alone, resolves>>

Respond(w) ==
    \/ resolve_write(w) \/ drain_approved_tool_calls(w) \/ drain_write(w)
    \/ response_handler(w) \/ tool_call_limit(w) \/ pause_for_tool_approval(w)
    \/ generate_chat_completion(w) \/ finish(w)
    \/ \E s \in {"completed", "failed"} : execute_tool_call_for_output(w, s) \/ execute_tool_call(w, s)
    \/ \E n \in 0..2, split, ask \in BOOLEAN : stream_body_handler(w, n, split, ask)
    \/ \E bad \in BOOLEAN : stage_ask_user_tool_calls(w, bad)

ToolNext ==
    \E w \in Worker :
        \/ chat_completion(w)
        \/ \E i \in Calls, a \in {"approve", "reject", "answer"} : resolve_tool_call_output(w, i, a)
        \/ Respond(w)
        \/ emit_message_error(w)
        \/ save_cancelled_state(w)
        \/ \E e \in BOOLEAN : process_chat_ends(w, e)

ToolSpec == ToolInit /\ [][ToolNext]_toolVars

-----------------------------------------------------------------------------
ToolTypeOK ==
    /\ mode \in {"ask", "full"}
    /\ stored.out \in [Calls -> Item]
    /\ \A w \in Worker : work[w].out \in [Calls -> Item] /\ work[w].todo \subseteq Calls

\* In "ask" mode no tool runs that the user has not approved, whichever
\* requests, resumptions and responses overlap.
RunsOnlyApproved == mode = "ask" => \A i \in Calls : ran[i] > 0 => "approve" \in decided[i]

\* As long as the requests on a message come one after another and none is
\* stopped, a call runs at most once and a call that was denied never runs.
\* (A resumption stopped between the tool and its write runs the tool again.)
DecisionStands ==
    alone /\ stops = 0 => \A i \in Calls : ran[i] <= 1 /\ ("reject" \in decided[i] => ran[i] = 0)

\* A message nobody works on any more is done, shows an error or offers the
\* user a call to decide on: it is never left waiting for nothing.  (A task that
\* is cancelled before the handler leaves it so: counted in "stops".)
NeverStuck ==
    (stored.asked /\ stops = 0 /\ \A w \in Worker : ~Busy(w))
    => \/ stored.done \/ stored.error
       \/ \E i \in Calls : stored.out[i].st = "pending" /\ ~stored.out[i].res

\* The tool-call loop: what was not approved does not run, a decision is applied
\* once, and no message waits for a decision nobody can take.
ToolLoopHolds == ToolTypeOK /\ RunsOnlyApproved /\ DecisionStands /\ NeverStuck
=============================================================================
